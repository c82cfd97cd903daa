--------------------------- MODULE AutoTransaction ---------------------------
(***************************************************************************)
(* AutoTransaction and CSqliteOperator of SqliteOperator.cpp, used as they *)
(* are meant to be: a thread opens a scope with an AutoTransaction in it,  *)
(* reads a row, changes two rows, commits and leaves the scope; a failed   *)
(* statement or an exception leaves it without commit.  The second change  *)
(* may be made by a function with an AutoTransaction of its own.           *)
(***************************************************************************)
EXTENDS SqliteEngine

CONSTANT MaxScopes   \* bound on the scopes opened

ASSUME AutoTransactionAssumption == MaxScopes \in Nat

VARIABLES pc,         \* pc[c]: where the thread of connection c is
          committed,  \* committed[c]: m_commited of the outer AutoTransaction
          nested,     \* nested[c]: m_commited of the inner one, or "none"
          exclusive,  \* the connections whose scope is exclusive
          seen,       \* seen[c]: the value the SELECT has given
          stmt,       \* stmt[c]: the code sqlite3_finalize would return for the
                      \* statement of the scope's CSqliteOperator
          scopes,     \* scopes opened so far
          done,       \* history: transactions that END has committed
          bare,       \* history: the connections whose BEGIN has failed
          stuck       \* history: the connections whose END has failed

codeVars == <<pc, committed, nested, exclusive, seen, stmt, scopes, done, bare, stuck>>
vars == <<engineVars, codeVars>>

PCs == {"out", "begin", "select", "updateA", "retryA", "nestBegin", "updateB", "retryB",
        "nestEnd", "commit", "finalize", "destroy"}

TypeOK == /\ EngineTypeOK
          /\ pc \in [Conns -> PCs]
          /\ committed \in [Conns -> {"true", "false"}]
          /\ nested \in [Conns -> {"none", "true", "false"}]
          /\ exclusive \subseteq Conns
          /\ seen \in [Conns -> Nat]
          /\ stmt \in [Conns -> {"none", "OK", "BUSY"}]
          /\ scopes \in 0 .. MaxScopes
          /\ done \in Nat
          /\ bare \subseteq Conns /\ stuck \subseteq Conns

Init == /\ EngineInit
        /\ pc = [c \in Conns |-> "out"]
        /\ committed = [c \in Conns |-> "true"]
        /\ nested = [c \in Conns |-> "none"]
        /\ exclusive = {}
        /\ seen = [c \in Conns |-> 0]
        /\ stmt = [c \in Conns |-> "none"]
        /\ scopes = 0 /\ done = 0
        /\ bare = {} /\ stuck = {}

Goto(c, from, to) == pc[c] = from /\ pc' = [pc EXCEPT ![c] = to]

-----------------------------------------------------------------------------
(* AutoTransaction. *)

Enter(c) == /\ scopes < MaxScopes /\ scopes' = scopes + 1
            /\ Goto(c, "out", "begin")
            /\ exclusive' \in {exclusive \cup {c}, exclusive \ {c}}
            /\ committed' = [committed EXCEPT ![c] = "false"]
            /\ UNCHANGED <<engineVars, nested, seen, stmt, done, bare, stuck>>

Exec(c, result) == IF c \in exclusive THEN BeginExclusive(c, result) ELSE Begin(c, result)

\* The constructor: BEGIN is repeated while it is busy; if it fails, m_commited
\* is set, so that this object does nothing more.
Construct(c) ==
    /\ \/ /\ Exec(c, "BUSY") /\ UNCHANGED <<pc, committed, bare>>
       \/ /\ Exec(c, "OK") /\ Goto(c, "begin", "select")
          /\ UNCHANGED <<committed, bare>>
       \/ /\ Exec(c, "ERROR") /\ Goto(c, "begin", "select")
          /\ committed' = [committed EXCEPT ![c] = "true"]
          /\ bare' = bare \cup {c}
    /\ pc[c] = "begin"
    /\ UNCHANGED <<nested, exclusive, seen, stmt, scopes, done, stuck>>

NestOwns(c) ==   \* a slip: a failed BEGIN is not remembered
    /\ Goto(c, "nestBegin", "updateB")
    /\ Begin(c, "ERROR")
    /\ nested' = [nested EXCEPT ![c] = "false"]
    /\ UNCHANGED <<committed, exclusive, seen, stmt, scopes, done, bare, stuck>>

\* The constructor of an AutoTransaction inside the scope.
Nest(c) == /\ Goto(c, "nestBegin", "updateB")
           /\ \/ Begin(c, "ERROR") /\ nested' = [nested EXCEPT ![c] = "true"]
              \/ Begin(c, "OK") /\ nested' = [nested EXCEPT ![c] = "false"]
           /\ UNCHANGED <<committed, exclusive, seen, stmt, scopes, done, bare, stuck>>

\* Its Commit() and its destructor.
Unnest(c) == /\ pc[c] = "nestEnd"
             /\ \/ /\ nested[c] = "true"
                   /\ Goto(c, "nestEnd", "commit")
                   /\ UNCHANGED <<engineVars, stuck>>
                \/ nested[c] = "false" /\ End(c, "BUSY") /\ UNCHANGED <<pc, stuck>>
                \/ /\ nested[c] = "false"
                   /\ Goto(c, "nestEnd", "commit")
                   /\ \/ End(c, "OK") /\ UNCHANGED stuck
                      \/ End(c, "ERROR") /\ stuck' = stuck \cup {c}
             /\ nested' = [nested EXCEPT ![c] = IF pc'[c] = "commit" THEN "none" ELSE @]
             /\ UNCHANGED <<committed, exclusive, seen, stmt, scopes, done, bare>>

CommitOnce(c) ==   \* a slip: SQLITE_BUSY is taken for the end of the transaction
    /\ Goto(c, "commit", "finalize")
    /\ committed' = [committed EXCEPT ![c] = "true"]
    /\ \/ committed[c] = "true" /\ UNCHANGED <<engineVars, done, stuck>>
       \/ committed[c] = "false" /\ End(c, "OK") /\ done' = done + 1 /\ UNCHANGED stuck
       \/ committed[c] = "false" /\ End(c, "BUSY") /\ UNCHANGED <<done, stuck>>
       \/ committed[c] = "false" /\ End(c, "ERROR") /\ stuck' = stuck \cup {c} /\ UNCHANGED done
    /\ UNCHANGED <<nested, exclusive, seen, stmt, scopes, bare>>

\* Commit(): END is repeated while it is busy; any other result ends the matter.
Commit(c) ==
    /\ pc[c] = "commit"
    /\ \/ /\ committed[c] = "true"
          /\ Goto(c, "commit", "finalize")
          /\ UNCHANGED <<engineVars, committed, done, stuck>>
       \/ /\ committed[c] = "false" /\ End(c, "BUSY")
          /\ UNCHANGED <<pc, committed, done, stuck>>
       \/ /\ committed[c] = "false"
          /\ Goto(c, "commit", "finalize")
          /\ committed' = [committed EXCEPT ![c] = "true"]
          /\ \/ End(c, "OK") /\ done' = done + 1 /\ UNCHANGED stuck
             \/ End(c, "ERROR") /\ stuck' = stuck \cup {c} /\ UNCHANGED done
    /\ UNCHANGED <<nested, exclusive, seen, stmt, scopes, bare>>

DestroyQuietly(c) ==   \* a slip: the destructor does not roll back
    /\ Goto(c, "destroy", "out")
    /\ nested' = [nested EXCEPT ![c] = "none"]
    /\ UNCHANGED <<engineVars, committed, exclusive, seen, stmt, scopes, done, bare, stuck>>

\* ~AutoTransaction of the inner object, if it is still there, and of the outer.
Destroy(c) == /\ Goto(c, "destroy", "out")
              /\ IF "false" \in {committed[c], nested[c]} THEN Rollback(c)
                 ELSE UNCHANGED engineVars
              /\ nested' = [nested EXCEPT ![c] = "none"]
              /\ UNCHANGED <<committed, exclusive, seen, stmt, scopes, done, bare, stuck>>

-----------------------------------------------------------------------------
(* CSqliteOperator: PrepareSQL, Next and Execute. *)

\* The thread gives up: its CSqliteOperator and its AutoTransaction are destroyed.
GiveUp(c) == pc' = [pc EXCEPT ![c] = "finalize"]

\* PrepareSQL, Next: a failed step leaves its code with the statement.
Query(c) == /\ pc[c] = "select"
            /\ \/ /\ Select(c, "ROW")
                  /\ seen' = [seen EXCEPT ![c] = View(c)["a"]]
                  /\ stmt' = [stmt EXCEPT ![c] = "OK"]
                  /\ pc' = [pc EXCEPT ![c] = "updateA"]
               \/ /\ Select(c, "BUSY")
                  /\ stmt' = [stmt EXCEPT ![c] = "BUSY"]
                  /\ GiveUp(c) /\ UNCHANGED seen
            /\ UNCHANGED <<committed, nested, exclusive, scopes, done, bare, stuck>>

ExecutePersists(c, r, from, retry, to) ==   \* a slip: the statement is retried until it succeeds
    /\ pc[c] \in {from, retry}
    /\ stmt' = [stmt EXCEPT ![c] = "OK"]
    /\ \/ Update(c, r, seen[c] + 1, "DONE") /\ pc' = [pc EXCEPT ![c] = to]
       \/ Update(c, r, seen[c] + 1, "BUSY") /\ pc' = [pc EXCEPT ![c] = retry]
    /\ UNCHANGED <<committed, nested, exclusive, seen, scopes, done, bare, stuck>>

\* Execute: a second step if the first is busy, then Reset.
Execute(c, r, from, retry, to) ==
    /\ pc[c] \in {from, retry}
    /\ stmt' = [stmt EXCEPT ![c] = "OK"]
    /\ \/ Update(c, r, seen[c] + 1, "DONE") /\ pc' = [pc EXCEPT ![c] = to]
       \/ /\ Update(c, r, seen[c] + 1, "BUSY")
          /\ IF pc[c] = from THEN pc' = [pc EXCEPT ![c] = retry] ELSE GiveUp(c)
    /\ UNCHANGED <<committed, nested, exclusive, seen, scopes, done, bare, stuck>>

UpdateA(c) == \E to \in {"nestBegin", "updateB"} : Execute(c, "a", "updateA", "retryA", to)

UpdateB(c) == Execute(c, "b", "updateB", "retryB",
                      IF nested[c] = "none" THEN "commit" ELSE "nestEnd")

\* The program throws between two statements.
Throw(c) == /\ pc[c] \in {"select", "updateA", "nestBegin", "updateB", "commit"}
            /\ GiveUp(c)
            /\ UNCHANGED <<engineVars, committed, nested, exclusive, seen, stmt, scopes, done,
                           bare, stuck>>

\* ~CSqliteOperator: _Finalize.
Finalize(c) == /\ Goto(c, "finalize", "destroy")
               /\ stmt' = [stmt EXCEPT ![c] = "none"]
               /\ UNCHANGED <<engineVars, committed, nested, exclusive, seen, scopes, done, bare,
                              stuck>>

Step(c) == Construct(c) \/ Query(c) \/ UpdateA(c) \/ Nest(c) \/ UpdateB(c) \/ Unnest(c)
           \/ Commit(c) \/ Finalize(c) \/ Destroy(c)

Next == \E c \in Conns : Enter(c) \/ Step(c) \/ Throw(c)

Spec == Init /\ [][Next]_vars

\* Every thread goes on with its scope; a thread that repeats a busy BEGIN or END
\* is not kept from it when it could succeed.
FairSpec == Spec /\ \A c \in Conns : WF_vars(Step(c))

-----------------------------------------------------------------------------
(* Correctness. *)

\* The two rows are changed together and no change is lost: the file holds the
\* number of committed transactions in both, whatever threads interleave, give up
\* or throw, unless a BEGIN or an END has failed for another reason than BUSY.
AllOrNothing == bare = {} /\ stuck = {} => \A r \in Rows : db[r] = done

\* A transaction is open exactly from the constructor's BEGIN to Commit() or to
\* the destructor: an inner AutoTransaction neither ends the outer one's
\* transaction nor leaves one of its own.
ScopeIsTransaction == \A c \in Conns \ (bare \cup stuck) :
    c \notin autocommit <=> pc[c] \notin {"out", "begin"} /\ committed[c] = "false"

\* A thread outside every scope holds no lock, unless an END has failed.
NoLockLeft == \A c \in Conns \ stuck : pc[c] = "out" => lock[c] = "NONE"

\* Busy connections do not wait for each other for ever: of two transactions that
\* read and then write, one gives up after the second try and lets the other end.
\* A failed END excuses it: nothing rolls back then, the lock may stay, and the
\* others repeat their BEGIN EXCLUSIVE or END for as long as it does.
ScopesEnd == \A c \in Conns : pc[c] # "out" ~> pc[c] = "out" \/ stuck # {}

=============================================================================
