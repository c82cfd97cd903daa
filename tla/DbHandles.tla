------------------------------ MODULE DbHandles ------------------------------
(***************************************************************************)
(* CSqliteDb and the SqliteDbImpl behind it (src/SqliteOperator.h and      *)
(* .cpp): handles that share an open connection by a count.  The handle    *)
(* that is destroyed or reopened counts down and deletes the object, whose *)
(* destructor counts down once more.                                       *)
(*                                                                         *)
(* sqlite3_close refuses a connection that still has statements; its       *)
(* pointer is set to NULL all the same.  Following a null pointer or one   *)
(* to a deleted object is undefined: nothing is said of what comes then.   *)
(***************************************************************************)
EXTENDS Integers, FiniteSets

CONSTANTS
    Handles,    \* CSqliteDb objects
    Impls,      \* SqliteDbImpl objects
    Null,       \* a null pointer
    Dead,       \* what a handle holds before and after its life
    MaxStmts    \* bound: statements prepared on a connection at a time

ASSUME DbAssumption ==
    /\ IsFiniteSet(Handles) /\ MaxStmts \in Nat
    /\ Null \notin Impls /\ Dead \notin Impls /\ Null # Dead

VARIABLES
    handle,     \* an Impl, Null or Dead
    impl,       \* the Impls; sharers is history: who held it when deleted
    undefined   \* history: the Impl a dangling pointer led to, or Null; Dead before

dbVars == <<handle, impl, undefined>>

NewImpl == [state |-> "live", count |-> 1, db |-> "open", stmts |-> 0, sharers |-> 0]
Holders(i) == {h \in Handles : handle[h] = i}

DbInit ==
    /\ handle = [h \in Handles |-> Dead]
    /\ impl = [i \in Impls |-> [NewImpl EXCEPT !.state = "none", !.count = 0, !.db = "none"]]
    /\ undefined = Dead

add_ref(i) == [i EXCEPT !.count = @ + 1]
sub_ref(i) ==
    [i EXCEPT !.count = @ - 1,
              !.db = IF i.count # 1 THEN @ ELSE IF i.stmts = 0 THEN "closed" ELSE "lost"]
DeleteImpl(i, sharers) == [sub_ref(i) EXCEPT !.state = "freed", !.sharers = sharers]

IsLive(h) == handle[h] \in Impls /\ impl[handle[h]].state = "live"
Follows(h) == undefined' = handle[h] /\ UNCHANGED <<handle, impl>>

(* CSqliteDb() and CSqliteDb(path).                                        *)
Default(h) ==
    /\ handle[h] = Dead
    /\ handle' = [handle EXCEPT ![h] = Null]
    /\ UNCHANGED <<impl, undefined>>
Connect(h, i) ==
    /\ handle[h] = Dead /\ impl[i].state = "none"
    /\ handle' = [handle EXCEPT ![h] = i]
    /\ impl' = [impl EXCEPT ![i] = NewImpl]
    /\ UNCHANGED undefined

(* The object a handle gives up: counted down, deleted, counted down again. *)
Dropped(h) ==
    IF handle[h] = Null THEN impl
    ELSE [impl EXCEPT ![handle[h]] = DeleteImpl(sub_ref(@), Cardinality(Holders(handle[h])))]
Open(h, i) ==
    /\ handle[h] # Dead /\ impl[i].state = "none"
    /\ \/ /\ handle[h] = Null \/ IsLive(h)
          /\ handle' = [handle EXCEPT ![h] = i]
          /\ impl' = [Dropped(h) EXCEPT ![i] = NewImpl]
          /\ UNCHANGED undefined
       \/ handle[h] # Null /\ ~IsLive(h) /\ Follows(h)
Close(h) ==
    /\ handle[h] # Dead
    /\ \/ /\ handle[h] = Null \/ IsLive(h)
          /\ handle' = [handle EXCEPT ![h] = Null]
          /\ impl' = IF IsLive(h) THEN [impl EXCEPT ![handle[h]] = sub_ref(@)] ELSE impl
          /\ UNCHANGED undefined
       \/ handle[h] # Null /\ ~IsLive(h) /\ Follows(h)
Destruct(h) ==
    /\ handle[h] # Dead
    /\ \/ /\ handle[h] = Null \/ IsLive(h)
          /\ handle' = [handle EXCEPT ![h] = Dead]
          /\ impl' = Dropped(h)
          /\ UNCHANGED undefined
       \/ handle[h] # Null /\ ~IsLive(h) /\ Follows(h)

CopyHandleBare(h, from) ==
    /\ handle[h] = Dead /\ handle[from] # Dead
    /\ \/ /\ IsLive(from)
          /\ handle' = [handle EXCEPT ![h] = handle[from]]
          /\ UNCHANGED <<impl, undefined>>
       \/ ~IsLive(from) /\ Follows(from)
CopyHandle(h, from) ==
    /\ handle[h] = Dead /\ handle[from] # Dead
    /\ \/ /\ IsLive(from)
          /\ handle' = [handle EXCEPT ![h] = handle[from]]
          /\ impl' = [impl EXCEPT ![handle[from]] = add_ref(@)]
          /\ UNCHANGED undefined
       \/ ~IsLive(from) /\ Follows(from)
Assign(h, from) ==
    /\ h # from /\ handle[h] # Dead /\ handle[from] # Dead
    /\ \/ /\ IsLive(from) /\ IsLive(h)
          /\ handle' = [handle EXCEPT ![h] = handle[from]]
          /\ impl' = [[impl EXCEPT ![handle[from]] = add_ref(@)] EXCEPT ![handle[h]] = sub_ref(@)]
          /\ UNCHANGED undefined
       \/ ~IsLive(from) /\ Follows(from)
       \/ IsLive(from) /\ ~IsLive(h) /\ Follows(h)

(* A statement is prepared on the connection of a handle, and finalized.   *)
Prepare(h) ==
    /\ handle[h] # Dead
    /\ \/ /\ IsLive(h) /\ impl[handle[h]].stmts < MaxStmts
          /\ impl' = [impl EXCEPT ![handle[h]].stmts = @ + 1]
          /\ UNCHANGED <<handle, undefined>>
       \/ ~IsLive(h) /\ Follows(h)
FinalizeStmt(i) ==
    /\ impl[i].stmts > 0
    /\ impl' = [impl EXCEPT ![i].stmts = @ - 1]
    /\ UNCHANGED <<handle, undefined>>

DbNext ==
    /\ undefined = Dead
    /\ \/ \E h \in Handles : Default(h) \/ Close(h) \/ Destruct(h) \/ Prepare(h)
       \/ \E h \in Handles, i \in Impls : Connect(h, i) \/ Open(h, i)
       \/ \E h, from \in Handles : CopyHandle(h, from) \/ Assign(h, from)
       \/ \E i \in Impls : FinalizeStmt(i)

DbSpec == DbInit /\ [][DbNext]_dbVars

-----------------------------------------------------------------------------
(* An object that was not deleted counts the handles that hold it, and its *)
(* connection is open exactly as long as there is one.  The first of its   *)
(* handles that is destroyed or reopened deletes it: that is right only if *)
(* it was the last.  Of two, the other keeps a deleted object with a       *)
(* closed connection; of three or more, the connection is never closed.    *)
(* Only such a handle, or a null one, is ever followed into nothing.       *)
ConnectionsShared ==
    /\ \A i \in Impls :
         LET o == impl[i]  n == Cardinality(Holders(i))
         IN  /\ o.state = "live" => o.count = n /\ (o.db = "open" <=> n > 0)
             /\ o.state = "freed" =>
                  /\ o.db = "open" <=> o.sharers > 2
                  /\ n < o.sharers
    /\ undefined \in Impls => impl[undefined].state = "freed" /\ impl[undefined].sharers > 1

=============================================================================
