----------------------------- MODULE SqliteEngine -----------------------------
(***************************************************************************)
(* SQLite as SqliteOperator.cpp sees it: connections to one database file, *)
(* its file locks (rollback journal), and the results of the statements.   *)
(* Not code of this repository: the library behind sqlite/sqlite3.h.       *)
(*                                                                         *)
(* The database is reduced to the versions of two rows, which are all that *)
(* is needed to see a transaction torn or lost.                            *)
(***************************************************************************)
EXTENDS Naturals

CONSTANTS Conns,      \* the connections, each used by one thread
          MaxErrors   \* bound on the statements that fail with an I/O error

ASSUME SqliteAssumption == MaxErrors \in Nat

VARIABLES lock,         \* lock[c]: the file lock of connection c
          autocommit,   \* the connections without an open transaction
          cache,        \* cache[c]: the rows as c sees them in its transaction
          db,           \* the rows in the file
          errors        \* I/O errors so far

engineVars == <<lock, autocommit, cache, db, errors>>

Rows == {"a", "b"}
Locks == {"NONE", "SHARED", "RESERVED", "PENDING", "EXCLUSIVE"}
Writing == {"RESERVED", "PENDING", "EXCLUSIVE"}

EngineTypeOK == /\ lock \in [Conns -> Locks]
                /\ autocommit \subseteq Conns
                /\ cache \in [Conns -> [Rows -> Nat]]
                /\ db \in [Rows -> Nat]
                /\ errors \in 0 .. MaxErrors

EngineInit == /\ lock = [c \in Conns |-> "NONE"]
              /\ autocommit = Conns
              /\ db = [r \in Rows |-> 0]
              /\ cache = [c \in Conns |-> db]
              /\ errors = 0

Others(c) == Conns \ {c}

\* What c may lock, given the locks of the others.
MayRead(c) == \A d \in Others(c) : lock[d] \notin {"PENDING", "EXCLUSIVE"}
MayReserve(c) == \A d \in Others(c) : lock[d] \notin Writing
MayOwn(c) == \A d \in Others(c) : lock[d] = "NONE"

IoError == errors < MaxErrors /\ errors' = errors + 1

\* A connection that takes its first lock sees the file as it is.
View(c) == IF lock[c] = "NONE" THEN db ELSE cache[c]

\* BEGIN TRANSACTION locks nothing; it is an error within a transaction.
Begin(c, result) ==
    \/ /\ result = "OK" /\ c \in autocommit
       /\ autocommit' = autocommit \ {c}
       /\ UNCHANGED <<lock, cache, db, errors>>
    \/ /\ result = "ERROR" /\ c \notin autocommit
       /\ UNCHANGED engineVars
    \/ /\ result = "ERROR" /\ IoError
       /\ UNCHANGED <<lock, autocommit, cache, db>>

BeginExclusive(c, result) ==
    \/ /\ result = "OK" /\ c \in autocommit /\ MayOwn(c)
       /\ autocommit' = autocommit \ {c}
       /\ lock' = [lock EXCEPT ![c] = "EXCLUSIVE"]
       /\ cache' = [cache EXCEPT ![c] = db]
       /\ UNCHANGED <<db, errors>>
    \/ /\ result = "BUSY" /\ c \in autocommit /\ ~MayOwn(c)
       /\ UNCHANGED engineVars
    \/ /\ result = "ERROR" /\ c \notin autocommit
       /\ UNCHANGED engineVars
    \/ /\ result = "ERROR" /\ IoError
       /\ UNCHANGED <<lock, autocommit, cache, db>>

\* A SELECT: the SHARED lock stays until the transaction ends; without one it is
\* given up with the statement.
Select(c, result) ==
    \/ /\ result = "ROW" /\ (lock[c] # "NONE" \/ MayRead(c))
       /\ IF c \in autocommit THEN UNCHANGED <<lock, cache>>
          ELSE /\ lock' = [lock EXCEPT ![c] = IF @ = "NONE" THEN "SHARED" ELSE @]
               /\ cache' = [cache EXCEPT ![c] = View(c)]
       /\ UNCHANGED <<autocommit, db, errors>>
    \/ /\ result = "BUSY" /\ lock[c] = "NONE" /\ ~MayRead(c)
       /\ UNCHANGED engineVars

\* An UPDATE of row r.  In a transaction it needs RESERVED; on its own it commits
\* at once and needs the file for itself.
Update(c, r, value, result) ==
    \/ /\ result = "DONE" /\ c \notin autocommit
       /\ lock[c] \in Writing \/ MayReserve(c)
       /\ lock' = [lock EXCEPT ![c] = IF @ \in Writing THEN @ ELSE "RESERVED"]
       /\ cache' = [cache EXCEPT ![c] = [View(c) EXCEPT ![r] = value]]
       /\ UNCHANGED <<autocommit, db, errors>>
    \/ /\ result = "DONE" /\ c \in autocommit /\ MayOwn(c)
       /\ db' = [db EXCEPT ![r] = value]
       /\ UNCHANGED <<lock, autocommit, cache, errors>>
    \/ /\ result = "BUSY"
       /\ IF c \in autocommit THEN ~MayOwn(c) ELSE lock[c] \notin Writing /\ ~MayReserve(c)
       /\ UNCHANGED engineVars

Ended(c) == /\ autocommit' = autocommit \cup {c}
            /\ lock' = [lock EXCEPT ![c] = "NONE"]

\* END TRANSACTION writes the changes to the file when no reader is left; until
\* then it is busy, and PENDING keeps new readers out.  After an I/O error the
\* transaction may be open still or may have been rolled back.
End(c, result) ==
    \/ /\ result = "OK" /\ c \notin autocommit
       /\ IF lock[c] \in Writing THEN MayOwn(c) /\ db' = cache[c] ELSE UNCHANGED db
       /\ Ended(c)
       /\ UNCHANGED <<cache, errors>>
    \/ /\ result = "BUSY" /\ c \notin autocommit
       /\ lock[c] \in Writing /\ ~MayOwn(c)
       /\ lock' = [lock EXCEPT ![c] = "PENDING"]
       /\ UNCHANGED <<autocommit, cache, db, errors>>
    \/ /\ result = "ERROR" /\ IoError
       /\ Ended(c) \/ UNCHANGED <<autocommit, lock>>
       /\ UNCHANGED <<cache, db>>
    \/ /\ result = "ERROR" /\ c \in autocommit
       /\ UNCHANGED engineVars

\* ROLLBACK TRANSACTION.
Rollback(c) == Ended(c) /\ UNCHANGED <<cache, db, errors>>

=============================================================================
