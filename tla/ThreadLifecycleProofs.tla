------------------------ MODULE ThreadLifecycleProofs ------------------------
(***************************************************************************)
(* Proofs about log4cplus::thread: ThreadLifecycle for any finite sets of  *)
(* clients and kernel threads and any number of starts; in the second      *)
(* part, ManualResetEvent for every set of threads and every width of the  *)
(* counter; then NDC for any threads, blocks and messages, any depth and   *)
(* any number of failed allocations.  The three share no state.            *)
(***************************************************************************)
EXTENDS ThreadLifecycle, ManualResetEvent, NDC, FiniteSetTheorems, SequenceTheorems, TLAPS

Agents == Clients \cup Workers
Refs == Cardinality(holds) + Cardinality(StartRefs) + Cardinality(WorkerRefs)

StartPC == {"setRun", "setRunStore", "addRef", "create", "undoRef", "clearRun", "clearRunStore"}
JoinPC == {"join", "setJoin", "setJoinStore"}
StorePC == {"setRunStore", "clearRunStore", "setJoinStore"}
LastPC == {"adopt", "delete"}    \* nobody else knows of the object
Lives == {"unborn", "alive", "freed"}
Words == SUBSET {"RUNNING", "JOINED"}

\* The count is the number of references, ...
CountInv == count = Refs

\* ... every call is made through a pointer of the caller, ...
CallInv == \A c \in Clients :
    /\ pc[c] \in StartPC \cup JoinPC => c \in holds
    /\ pc[c] = "join" => joining[c] \in Workers
    /\ pc[c] # "join" => joining[c] = Null

\* ... and an object without references has one agent, which adopts or deletes it.
LifeInv ==
    /\ \A a \in Agents : pc[a] \in LastPC => life = "alive" /\ count = 0
    /\ \A a, b \in Agents : pc[a] \in LastPC /\ pc[b] \in LastPC => a = b
    /\ count = 0 /\ life = "alive" => \E a \in Agents : pc[a] \in LastPC
    /\ life # "alive" => count = 0
    /\ life = "unborn" => starts = 0

\* With one call of start() there is one phase at a time: before it, the call, the
\* kernel thread, and a join.
PhaseInv ==
    /\ starts = 0 => handle = Null /\ \A c \in Clients : pc[c] \notin StartPC
    /\ \A c, d \in Clients : pc[c] \in StartPC /\ pc[d] \in StartPC => c = d
    /\ \A c \in Clients : pc[c] \in StartPC => handle = Null
    /\ \A w \in Workers : pc[w] # "none" <=> handle = w
    /\ \A c, d \in Clients : pc[c] \in JoinPC /\ pc[d] \in JoinPC => c = d

\* The kernel thread is joined once, after its end, and fJOINED tells.
JoinInv ==
    /\ \A c \in Clients :
          /\ pc[c] \in JoinPC => handle \in Workers
          /\ pc[c] = "join" => joining[c] = handle /\ reclaimed[handle] = 0
          /\ pc[c] \in {"setJoin", "setJoinStore"} =>
                reclaimed[handle] = 1 /\ "JOINED" \notin flags /\ pc[handle] = "exited"
    /\ "JOINED" \in flags =>
          /\ handle \in Workers /\ reclaimed[handle] = 1 /\ pc[handle] = "exited"
          /\ \A c \in Clients : pc[c] \notin JoinPC
    /\ life = "alive" /\ handle \in Workers /\ reclaimed[handle] = 1 =>
          "JOINED" \in flags \/ \E c \in Clients : pc[c] \in {"setJoin", "setJoinStore"}
    /\ \A w \in Workers : reclaimed[w] <= 1 /\ (pc[w] = "none" => reclaimed[w] = 0)

\* No store overwrites another.
StoreInv ==
    /\ \A a \in Agents : pc[a] \in StorePC => reg[a] = flags
    /\ \A c \in Clients : pc[c] \in {"addRef", "create"} => "RUNNING" \in flags

\* What the destructor has done.
FreedInv ==
    /\ life = "freed" => \A w \in Workers : pc[w] # "none" => reclaimed[w] = 1
    /\ garbage => life = "freed" /\ \A w \in Workers : pc[w] = "none"

OneStart == PhaseInv /\ JoinInv /\ StoreInv /\ FreedInv /\ RunningFlagTruthful

IInv == TypeOK /\ CountInv /\ CallInv /\ LifeInv /\ (starts <= 1 => OneStart)
-----------------------------------------------------------------------------
USE ThreadLifecycleAssumption
    DEF ThreadLifecycleAssumption, Agents, ClientPC, WorkerPC, StartPC, JoinPC, StorePC, LastPC

StartRefPC == {"create", "undoRef", "enter", "dropStart"}
WorkerRefPC == {"dropStart", "run", "clearRun", "clearRunStore", "leave"}

\* The references are finitely many.
LEMMA Finite ==
    ASSUME TypeOK
    PROVE  /\ IsFiniteSet(holds) /\ IsFiniteSet(StartRefs) /\ IsFiniteSet(WorkerRefs)
           /\ Cardinality(holds) \in Nat /\ Cardinality(StartRefs) \in Nat
           /\ Cardinality(WorkerRefs) \in Nat /\ Refs \in Nat
  <1>1. IsFiniteSet(Agents)
    BY FS_Union
  <1>2. /\ IsFiniteSet(holds) /\ IsFiniteSet(StartRefs) /\ IsFiniteSet(WorkerRefs)
    BY <1>1, FS_Subset DEF TypeOK, StartRefs, WorkerRefs
  <1>3. /\ Cardinality(holds) \in Nat /\ Cardinality(StartRefs) \in Nat
        /\ Cardinality(WorkerRefs) \in Nat
    BY <1>2, FS_CardinalityType
  <1> QED
    BY <1>2, <1>3 DEF Refs

\* Somebody who refers to the object is among the references.
LEMMA Referrers ==
    ASSUME IInv
    PROVE  /\ \A c \in holds : count > 0
           /\ \A a \in Agents : pc[a] \in StartRefPC => count > 0
           /\ \A w \in Workers : pc[w] \in WorkerRefPC => count > 0
           /\ \A w \in Workers : pc[w] = "dropStart" => count > 1
           /\ \A c \in holds : pc[c] \in StartRefPC => count > 1
           /\ count > 0 => life = "alive"
           /\ count \in Nat
  <1> DEFINE h == Cardinality(holds)
             s == Cardinality(StartRefs)
             w == Cardinality(WorkerRefs)
  <1>1. count = h + s + w /\ h \in Nat /\ s \in Nat /\ w \in Nat /\ count \in Nat
    BY Finite DEF IInv, CountInv, Refs, TypeOK
  <1>2. /\ holds # {} => h > 0 
        /\ StartRefs # {} => s > 0
        /\ WorkerRefs # {} => w > 0
    BY <1>1, Finite, FS_EmptySet DEF IInv
  <1>3. /\ \A a \in Agents : pc[a] \in StartRefPC => a \in StartRefs
        /\ \A a \in Workers : pc[a] \in WorkerRefPC => a \in WorkerRefs
    BY DEF StartRefs, WorkerRefs, StartRefPC, WorkerRefPC
  <1>4. \A a \in Workers : pc[a] = "dropStart" => a \in StartRefs /\ a \in WorkerRefs
    BY <1>3 DEF StartRefPC, WorkerRefPC
  <1>5. count > 0 => life = "alive"
    BY <1>1 DEF IInv, LifeInv
  <1>6. holds \subseteq Clients
    BY DEF IInv, TypeOK
  <1> HIDE DEF h, s, w
  <1> QED
    BY <1>1, <1>2, <1>3, <1>4, <1>5, <1>6

\* The references an agent holds for the thread it starts, and as that thread.
Cost(a, p) == (IF p \in StartRefPC THEN 1 ELSE 0)
              + (IF a \in Workers /\ p \in WorkerRefPC THEN 1 ELSE 0)

\* A step of one agent that adjusts the count by what it does to the references.
LEMMA Moved ==
    ASSUME TypeOK, TypeOK', CountInv, NEW a \in Agents,
           \A b \in Agents : b # a => pc'[b] = pc[b],
           count' - Cardinality(holds)' - Cost(a, pc'[a])
               = count - Cardinality(holds) - Cost(a, pc[a])
    PROVE  CountInv'
  <1>1. /\ Cardinality(holds) \in Nat /\ Cardinality(StartRefs) \in Nat
        /\ Cardinality(WorkerRefs) \in Nat /\ IsFiniteSet(StartRefs) /\ IsFiniteSet(WorkerRefs)
    BY Finite
  <1>2. Cardinality(holds)' \in Nat
    <2>1. IsFiniteSet(holds')
      BY FS_Subset DEF TypeOK
    <2> QED
      BY <2>1, FS_CardinalityType
  <1>3. Cardinality(StartRefs)' = Cardinality(StartRefs) - (IF pc[a] \in StartRefPC THEN 1 ELSE 0)
                                   + (IF pc'[a] \in StartRefPC THEN 1 ELSE 0)
    <2>1. a \in StartRefs <=> pc[a] \in StartRefPC
      BY DEF StartRefs, StartRefPC
    <2>2. CASE pc'[a] \in StartRefPC
      <3>1. StartRefs' = StartRefs \cup {a}
        BY <2>2 DEF StartRefs, StartRefPC
      <3>2. Cardinality(StartRefs \cup {a}) =
            IF a \in StartRefs THEN Cardinality(StartRefs) ELSE Cardinality(StartRefs) + 1
        BY <1>1, FS_AddElement
      <3>3. Cardinality(StartRefs)' = Cardinality(StartRefs \cup {a})
        BY <3>1
      <3> QED
        BY <1>1, <2>1, <2>2, <3>2, <3>3
    <2>3. CASE pc'[a] \notin StartRefPC
      <3>1. StartRefs' = StartRefs \ {a}
        BY <2>3 DEF StartRefs, StartRefPC
      <3>2. Cardinality(StartRefs \ {a}) =
            IF a \in StartRefs THEN Cardinality(StartRefs) - 1 ELSE Cardinality(StartRefs)
        BY <1>1, FS_RemoveElement
      <3>3. Cardinality(StartRefs)' = Cardinality(StartRefs \ {a})
        BY <3>1
      <3> QED
        BY <1>1, <2>1, <2>3, <3>2, <3>3
    <2> QED
      BY <2>2, <2>3
  <1>4. Cardinality(WorkerRefs)' = Cardinality(WorkerRefs)
                       - (IF a \in Workers /\ pc[a] \in WorkerRefPC THEN 1 ELSE 0)
                       + (IF a \in Workers /\ pc'[a] \in WorkerRefPC THEN 1 ELSE 0)
    <2>1. a \in WorkerRefs <=> a \in Workers /\ pc[a] \in WorkerRefPC
      BY DEF WorkerRefs, WorkerRefPC
    <2>2. CASE a \in Workers /\ pc'[a] \in WorkerRefPC
      <3>1. WorkerRefs' = WorkerRefs \cup {a}
        BY <2>2 DEF WorkerRefs, WorkerRefPC
      <3>2. Cardinality(WorkerRefs \cup {a}) =
            IF a \in WorkerRefs THEN Cardinality(WorkerRefs) ELSE Cardinality(WorkerRefs) + 1
        BY <1>1, FS_AddElement
      <3>3. Cardinality(WorkerRefs)' = Cardinality(WorkerRefs \cup {a})
        BY <3>1
      <3> QED
        BY <1>1, <2>1, <2>2, <3>2, <3>3
    <2>3. CASE ~(a \in Workers /\ pc'[a] \in WorkerRefPC)
      <3>1. WorkerRefs' = WorkerRefs \ {a}
        BY <2>3 DEF WorkerRefs, WorkerRefPC
      <3>2. Cardinality(WorkerRefs \ {a}) =
            IF a \in WorkerRefs THEN Cardinality(WorkerRefs) - 1 ELSE Cardinality(WorkerRefs)
        BY <1>1, FS_RemoveElement
      <3>3. Cardinality(WorkerRefs)' = Cardinality(WorkerRefs \ {a})
        BY <3>1
      <3> QED
        BY <1>1, <2>1, <2>3, <3>2, <3>3
    <2> QED
      BY <2>2, <2>3
  <1>5. count \in Nat /\ count' \in Nat
    BY DEF TypeOK
  <1> QED
    BY <1>1, <1>2, <1>3, <1>4, <1>5 DEF Cost, CountInv, Refs

LEMMA InitEstablishes == Init => IInv
  <1> SUFFICES ASSUME Init PROVE IInv
    OBVIOUS
  <1>1. StartRefs = {} /\ WorkerRefs = {} /\ holds = {}
    BY DEF Init, StartRefs, WorkerRefs
  <1>2. CountInv
    BY <1>1, FS_EmptySet DEF Init, CountInv, Refs
  <1>3. TypeOK
    <2>1. /\ pc \in [Clients \cup Workers -> ClientPC \cup WorkerPC]
          /\ \A c \in Clients : pc[c] \in ClientPC
          /\ \A w \in Workers : pc[w] \in WorkerPC
      BY DEF Init
    <2>2. /\ reg \in [Clients \cup Workers -> SUBSET {"RUNNING", "JOINED"}]
          /\ joining \in [Clients -> Workers \cup {Null}]
          /\ reclaimed \in [Workers -> Nat]
      BY DEF Init
    <2>3. starts \in 0..MaxStarts
      BY DEF Init
    <2> QED
      BY <2>1, <2>2, <2>3 DEF Init, TypeOK
  <1>4. CallInv
    BY DEF Init, CallInv
  <1>5. LifeInv
    BY DEF Init, LifeInv
  <1>6. OneStart
    <2>1. PhaseInv
      BY DEF Init, PhaseInv
    <2>2. JoinInv
      BY DEF Init, JoinInv
    <2>3. StoreInv /\ FreedInv /\ RunningFlagTruthful
      BY DEF Init, StoreInv, FreedInv, RunningFlagTruthful
    <2> QED
      BY <2>1, <2>2, <2>3 DEF OneStart
  <1> QED
    BY <1>2, <1>3, <1>4, <1>5, <1>6 DEF IInv

\* One lemma per action: the types, the count, who may call, the life of the
\* object, and with one start the phases, the join, the stores and the destructor.
LEMMA NewStep == ASSUME IInv, NEW c \in Clients, New(c) PROVE IInv'
  <1> USE Referrers DEF IInv, TypeOK, New, Goto, StartRefPC, WorkerRefPC
  <1>1. TypeOK'
    OBVIOUS
  <1>2. CountInv'
    <2>1. Cardinality(holds)' = Cardinality(holds)
      OBVIOUS
    <2> QED
      BY <1>1, <2>1, Finite, Moved DEF Cost
  <1>3. CallInv'
    BY DEF CallInv
  <1>4. LifeInv'
    BY DEF CallInv, LifeInv
  <1>5. ASSUME starts' <= 1 PROVE OneStart'
    <2> USE <1>5 DEF CallInv, LifeInv, OneStart
    <2>1. PhaseInv'
      BY DEF PhaseInv
    <2>2. JoinInv'
      BY DEF PhaseInv, JoinInv
    <2>3. StoreInv'
      BY DEF PhaseInv, JoinInv, StoreInv
    <2>4. FreedInv'
      BY DEF PhaseInv, JoinInv, FreedInv
    <2>5. RunningFlagTruthful'
      BY DEF PhaseInv, JoinInv, StoreInv, RunningFlagTruthful
    <2> QED
      BY <2>1, <2>2, <2>3, <2>4, <2>5
  <1> QED
    BY <1>1, <1>2, <1>3, <1>4, <1>5

LEMMA AdoptStep == ASSUME IInv, NEW c \in Clients, Adopt(c) PROVE IInv'
  <1> USE Referrers DEF IInv, TypeOK, Adopt, Goto, AddReference, StartRefPC, WorkerRefPC
  <1>1. TypeOK'
    OBVIOUS
  <1>2. CountInv'
    <2>1. Cardinality(holds)' = Cardinality(holds) + 1
      <3>1. c \notin holds
        BY DEF LifeInv
      <3>2. Cardinality(holds \cup {c}) = Cardinality(holds) + 1
        BY <3>1, Finite, FS_AddElement
      <3> QED
        BY <3>2
    <2>2. Cost(c, pc[c]) = 0 /\ Cost(c, pc'[c]) = 0
      BY DEF Cost
    <2>3. \A b \in Agents : b # c => pc'[b] = pc[b]
      OBVIOUS
    <2>4. Cardinality(holds) \in Nat /\ TypeOK /\ CountInv /\ c \in Agents
      BY Finite
    <2>5. count' - Cardinality(holds)' - Cost(c, pc'[c])
             = count - Cardinality(holds) - Cost(c, pc[c])
      BY <2>1, <2>2, <2>4
    <2> QED
      BY <1>1, <2>3, <2>4, <2>5, Moved
  <1>3. CallInv'
    BY DEF CallInv
  <1>4. LifeInv'
    BY DEF CallInv, LifeInv
  <1>5. ASSUME starts' <= 1 PROVE OneStart'
    <2> USE <1>5 DEF CallInv, LifeInv, OneStart
    <2>1. PhaseInv'
      BY DEF PhaseInv
    <2>2. JoinInv'
      BY DEF PhaseInv, JoinInv
    <2>3. StoreInv'
      BY DEF PhaseInv, JoinInv, StoreInv
    <2>4. FreedInv'
      BY DEF PhaseInv, JoinInv, FreedInv
    <2>5. RunningFlagTruthful'
      BY DEF PhaseInv, JoinInv, StoreInv, RunningFlagTruthful
    <2> QED
      BY <2>1, <2>2, <2>3, <2>4, <2>5
  <1> QED
    BY <1>1, <1>2, <1>3, <1>4, <1>5

LEMMA DropStep == ASSUME IInv, NEW c \in Clients, Drop(c) PROVE IInv'
  <1> USE Referrers DEF IInv, TypeOK, Drop, Goto, RemoveReference, StartRefPC, WorkerRefPC
  <1>1. TypeOK'
    OBVIOUS
  <1>2. CountInv'
    <2>1. Cardinality(holds)' = Cardinality(holds) - 1
      BY Finite, FS_RemoveElement
    <2>2. Cost(c, pc[c]) = 0 /\ Cost(c, pc'[c]) = 0
      BY DEF Cost
    <2>3. \A b \in Agents : b # c => pc'[b] = pc[b]
      OBVIOUS
    <2>4. Cardinality(holds) \in Nat /\ TypeOK /\ CountInv /\ c \in Agents
      BY Finite
    <2>5. count' - Cardinality(holds)' - Cost(c, pc'[c])
             = count - Cardinality(holds) - Cost(c, pc[c])
      BY <2>1, <2>2, <2>4
    <2> QED
      BY <1>1, <2>3, <2>4, <2>5, Moved
  <1>3. CallInv'
    BY DEF CallInv
  <1>4. LifeInv'
    BY DEF CallInv, LifeInv
  <1>5. ASSUME starts' <= 1 PROVE OneStart'
    <2> USE <1>5 DEF CallInv, LifeInv, OneStart
    <2>1. PhaseInv'
      BY DEF PhaseInv
    <2>2. JoinInv'
      BY DEF PhaseInv, JoinInv
    <2>3. StoreInv'
      BY DEF PhaseInv, JoinInv, StoreInv
    <2>4. FreedInv'
      BY DEF PhaseInv, JoinInv, FreedInv
    <2>5. RunningFlagTruthful'
      BY DEF PhaseInv, JoinInv, StoreInv, RunningFlagTruthful
    <2> QED
      BY <2>1, <2>2, <2>3, <2>4, <2>5
  <1> QED
    BY <1>1, <1>2, <1>3, <1>4, <1>5

LEMMA StartStep == ASSUME IInv, NEW c \in Clients, Start(c) PROVE IInv'
  <1> USE Referrers DEF IInv, TypeOK, Start, Goto, StartRefPC, WorkerRefPC
  <1>1. TypeOK'
    OBVIOUS
  <1>2. CountInv'
    <2>1. Cardinality(holds)' = Cardinality(holds)
      OBVIOUS
    <2> QED
      BY <1>1, <2>1, Finite, Moved DEF Cost
  <1>3. CallInv'
    BY DEF CallInv
  <1>4. LifeInv'
    BY DEF CallInv, LifeInv
  <1>5. ASSUME starts' <= 1 PROVE OneStart'
    <2> USE <1>5 DEF CallInv, LifeInv, OneStart
    <2>1. PhaseInv'
      BY DEF PhaseInv
    <2>2. JoinInv'
      BY DEF PhaseInv, JoinInv
    <2>3. StoreInv'
      BY DEF PhaseInv, JoinInv, StoreInv
    <2>4. FreedInv'
      BY DEF PhaseInv, JoinInv, FreedInv
    <2>5. RunningFlagTruthful'
      BY DEF PhaseInv, JoinInv, StoreInv, RunningFlagTruthful
    <2> QED
      BY <2>1, <2>2, <2>3, <2>4, <2>5
  <1> QED
    BY <1>1, <1>2, <1>3, <1>4, <1>5

LEMMA StartRefStep == ASSUME IInv, NEW c \in Clients, StartRef(c) PROVE IInv'
  <1> USE Referrers DEF IInv, TypeOK, StartRef, Goto, AddReference, StartRefPC, WorkerRefPC
  <1>1. TypeOK'
    OBVIOUS
  <1>2. CountInv'
    <2>1. Cardinality(holds)' = Cardinality(holds)
      OBVIOUS
    <2>2. Cost(c, pc[c]) = 0 /\ Cost(c, pc'[c]) = 1
      BY DEF Cost
    <2>3. \A b \in Agents : b # c => pc'[b] = pc[b]
      OBVIOUS
    <2>4. Cardinality(holds) \in Nat /\ TypeOK /\ CountInv /\ c \in Agents
      BY Finite
    <2>5. count' - Cardinality(holds)' - Cost(c, pc'[c])
             = count - Cardinality(holds) - Cost(c, pc[c])
      BY <2>1, <2>2, <2>4
    <2> QED
      BY <1>1, <2>3, <2>4, <2>5, Moved
  <1>3. CallInv'
    BY DEF CallInv
  <1>4. LifeInv'
    BY DEF CallInv, LifeInv
  <1>5. ASSUME starts' <= 1 PROVE OneStart'
    <2> USE <1>5 DEF CallInv, LifeInv, OneStart
    <2>1. PhaseInv'
      BY DEF PhaseInv
    <2>2. JoinInv'
      BY DEF PhaseInv, JoinInv
    <2>3. StoreInv'
      BY DEF PhaseInv, JoinInv, StoreInv
    <2>4. FreedInv'
      BY DEF PhaseInv, JoinInv, FreedInv
    <2>5. RunningFlagTruthful'
      BY DEF PhaseInv, JoinInv, StoreInv, RunningFlagTruthful
    <2> QED
      BY <2>1, <2>2, <2>3, <2>4, <2>5
  <1> QED
    BY <1>1, <1>2, <1>3, <1>4, <1>5

LEMMA CreateFailStep == ASSUME IInv, NEW c \in Clients, CreateFail(c) PROVE IInv'
  <1> USE Referrers DEF IInv, TypeOK, CreateFail, Goto, StartRefPC, WorkerRefPC
  <1>1. TypeOK'
    OBVIOUS
  <1>2. CountInv'
    <2>1. Cardinality(holds)' = Cardinality(holds)
      OBVIOUS
    <2> QED
      BY <1>1, <2>1, Finite, Moved DEF Cost
  <1>3. CallInv'
    BY DEF CallInv
  <1>4. LifeInv'
    BY DEF CallInv, LifeInv
  <1>5. ASSUME starts' <= 1 PROVE OneStart'
    <2> USE <1>5 DEF CallInv, LifeInv, OneStart
    <2>1. PhaseInv'
      BY DEF PhaseInv
    <2>2. JoinInv'
      BY DEF PhaseInv, JoinInv
    <2>3. StoreInv'
      BY DEF PhaseInv, JoinInv, StoreInv
    <2>4. FreedInv'
      BY DEF PhaseInv, JoinInv, FreedInv
    <2>5. RunningFlagTruthful'
      BY DEF PhaseInv, JoinInv, StoreInv, RunningFlagTruthful
    <2> QED
      BY <2>1, <2>2, <2>3, <2>4, <2>5
  <1> QED
    BY <1>1, <1>2, <1>3, <1>4, <1>5

LEMMA UndoRefStep == ASSUME IInv, NEW c \in Clients, UndoRef(c) PROVE IInv'
  <1> USE Referrers DEF IInv, TypeOK, UndoRef, Goto, RemoveReference, StartRefPC, WorkerRefPC
  <1>1. TypeOK'
    OBVIOUS
  <1>2. CountInv'
    <2>1. Cardinality(holds)' = Cardinality(holds)
      OBVIOUS
    <2> QED
      BY <1>1, <2>1, Finite, Moved DEF Cost
  <1>3. CallInv'
    BY DEF CallInv
  <1>4. LifeInv'
    BY DEF CallInv, LifeInv
  <1>5. ASSUME starts' <= 1 PROVE OneStart'
    <2> USE <1>5 DEF CallInv, LifeInv, OneStart
    <2>1. PhaseInv'
      BY DEF PhaseInv
    <2>2. JoinInv'
      BY DEF PhaseInv, JoinInv
    <2>3. StoreInv'
      BY DEF PhaseInv, JoinInv, StoreInv
    <2>4. FreedInv'
      BY DEF PhaseInv, JoinInv, FreedInv
    <2>5. RunningFlagTruthful'
      BY DEF PhaseInv, JoinInv, StoreInv, RunningFlagTruthful
    <2> QED
      BY <2>1, <2>2, <2>3, <2>4, <2>5
  <1> QED
    BY <1>1, <1>2, <1>3, <1>4, <1>5

LEMMA JoinCallStep == ASSUME IInv, NEW c \in Clients, JoinCall(c) PROVE IInv'
  <1> USE Referrers DEF IInv, TypeOK, JoinCall, Goto, StartRefPC, WorkerRefPC
  <1>1. TypeOK'
    OBVIOUS
  <1>2. CountInv'
    <2>1. Cardinality(holds)' = Cardinality(holds)
      OBVIOUS
    <2> QED
      BY <1>1, <2>1, Finite, Moved DEF Cost
  <1>3. CallInv'
    BY DEF CallInv
  <1>4. LifeInv'
    BY DEF CallInv, LifeInv
  <1>5. ASSUME starts' <= 1 PROVE OneStart'
    <2> USE <1>5 DEF CallInv, LifeInv, OneStart
    <2>1. PhaseInv'
      BY DEF PhaseInv, JoinInv
    <2>2. JoinInv'
      BY DEF PhaseInv, JoinInv
    <2>3. StoreInv'
      BY DEF PhaseInv, JoinInv, StoreInv
    <2>4. FreedInv'
      BY DEF PhaseInv, JoinInv, FreedInv
    <2>5. RunningFlagTruthful'
      BY DEF PhaseInv, JoinInv, StoreInv, RunningFlagTruthful
    <2> QED
      BY <2>1, <2>2, <2>3, <2>4, <2>5
  <1> QED
    BY <1>1, <1>2, <1>3, <1>4, <1>5

LEMMA JoinReturnStep == ASSUME IInv, NEW c \in Clients, JoinReturn(c) PROVE IInv'
  <1> USE Referrers DEF IInv, TypeOK, JoinReturn, Goto, StartRefPC, WorkerRefPC
  <1>1. TypeOK'
    <2>1. \A w \in Workers : reclaimed[w] \in Nat /\ reclaimed[w] + 1 \in Nat
      OBVIOUS
    <2>2. reclaimed' \in [Workers -> Nat]
      BY <2>1
    <2> QED
      BY <2>2
  <1>2. CountInv'
    <2>1. Cardinality(holds)' = Cardinality(holds)
      OBVIOUS
    <2> QED
      BY <1>1, <2>1, Finite, Moved DEF Cost
  <1>3. CallInv'
    BY DEF CallInv
  <1>4. LifeInv'
    BY DEF CallInv, LifeInv
  <1>5. ASSUME starts' <= 1 PROVE OneStart'
    <2> USE <1>5 DEF CallInv, LifeInv, OneStart
    <2>1. PhaseInv'
      BY DEF PhaseInv
    <2>2. JoinInv'
      BY DEF PhaseInv, JoinInv
    <2>3. StoreInv'
      BY DEF PhaseInv, JoinInv, StoreInv
    <2>4. FreedInv'
      BY DEF PhaseInv, JoinInv, FreedInv
    <2>5. RunningFlagTruthful'
      BY DEF PhaseInv, JoinInv, StoreInv, RunningFlagTruthful
    <2> QED
      BY <2>1, <2>2, <2>3, <2>4, <2>5
  <1> QED
    BY <1>1, <1>2, <1>3, <1>4, <1>5

LEMMA ClientFlagsStep == ASSUME IInv, NEW c \in Clients, ClientFlags(c) PROVE IInv'
  <1> USE Referrers DEF IInv, TypeOK, ClientFlags, LoadFlags, StoreFlags, Goto, StartRefPC, WorkerRefPC
  <1>1. TypeOK'
    OBVIOUS
  <1>2. CountInv'
    <2>1. Cardinality(holds)' = Cardinality(holds)
      OBVIOUS
    <2> QED
      BY <1>1, <2>1, Finite, Moved DEF Cost
  <1>3. CallInv'
    BY DEF CallInv
  <1>4. LifeInv'
    BY DEF CallInv, LifeInv
  <1>5. ASSUME starts' <= 1 PROVE OneStart'
    <2> USE <1>5 DEF CallInv, LifeInv, OneStart
    <2>1. PhaseInv'
      BY DEF PhaseInv
    <2>2. JoinInv'
      BY DEF PhaseInv, JoinInv, StoreInv
    <2>3. StoreInv'
      BY DEF PhaseInv, JoinInv, StoreInv
    <2>4. FreedInv'
      BY DEF PhaseInv, JoinInv, FreedInv
    <2>5. RunningFlagTruthful'
      BY DEF PhaseInv, JoinInv, StoreInv, RunningFlagTruthful
    <2> QED
      BY <2>1, <2>2, <2>3, <2>4, <2>5
  <1> QED
    BY <1>1, <1>2, <1>3, <1>4, <1>5

LEMMA EnterStep == ASSUME IInv, NEW w \in Workers, Enter(w) PROVE IInv'
  <1> USE Referrers DEF IInv, TypeOK, Enter, Goto, AddReference, StartRefPC, WorkerRefPC
  <1>1. TypeOK'
    OBVIOUS
  <1>2. CountInv'
    <2>1. Cardinality(holds)' = Cardinality(holds)
      OBVIOUS
    <2>2. Cost(w, pc[w]) = 1 /\ Cost(w, pc'[w]) = 2
      BY DEF Cost
    <2>3. \A b \in Agents : b # w => pc'[b] = pc[b]
      OBVIOUS
    <2>4. Cardinality(holds) \in Nat /\ TypeOK /\ CountInv /\ w \in Agents
      BY Finite
    <2>5. count' - Cardinality(holds)' - Cost(w, pc'[w])
             = count - Cardinality(holds) - Cost(w, pc[w])
      BY <2>1, <2>2, <2>4
    <2> QED
      BY <1>1, <2>3, <2>4, <2>5, Moved
  <1>3. CallInv'
    BY DEF CallInv
  <1>4. LifeInv'
    BY DEF CallInv, LifeInv
  <1>5. ASSUME starts' <= 1 PROVE OneStart'
    <2> USE <1>5 DEF CallInv, LifeInv, OneStart
    <2>1. PhaseInv'
      BY DEF PhaseInv
    <2>2. JoinInv'
      BY DEF PhaseInv, JoinInv
    <2>3. StoreInv'
      BY DEF PhaseInv, JoinInv, StoreInv
    <2>4. FreedInv'
      BY DEF PhaseInv, JoinInv, FreedInv
    <2>5. RunningFlagTruthful'
      BY DEF PhaseInv, JoinInv, StoreInv, RunningFlagTruthful
    <2> QED
      BY <2>1, <2>2, <2>3, <2>4, <2>5
  <1> QED
    BY <1>1, <1>2, <1>3, <1>4, <1>5

LEMMA DropStartStep == ASSUME IInv, NEW w \in Workers, DropStart(w) PROVE IInv'
  <1> USE Referrers DEF IInv, TypeOK, DropStart, Goto, RemoveReference, StartRefPC, WorkerRefPC
  <1>1. TypeOK'
    OBVIOUS
  <1>2. CountInv'
    <2>1. Cardinality(holds)' = Cardinality(holds)
      OBVIOUS
    <2> QED
      BY <1>1, <2>1, Finite, Moved DEF Cost
  <1>3. CallInv'
    BY DEF CallInv
  <1>4. LifeInv'
    BY DEF CallInv, LifeInv
  <1>5. ASSUME starts' <= 1 PROVE OneStart'
    <2> USE <1>5 DEF CallInv, LifeInv, OneStart
    <2>1. PhaseInv'
      BY DEF PhaseInv
    <2>2. JoinInv'
      BY DEF PhaseInv, JoinInv
    <2>3. StoreInv'
      BY DEF PhaseInv, JoinInv, StoreInv
    <2>4. FreedInv'
      BY DEF PhaseInv, JoinInv, FreedInv
    <2>5. RunningFlagTruthful'
      BY DEF PhaseInv, JoinInv, StoreInv, RunningFlagTruthful
    <2> QED
      BY <2>1, <2>2, <2>3, <2>4, <2>5
  <1> QED
    BY <1>1, <1>2, <1>3, <1>4, <1>5

LEMMA RunStep == ASSUME IInv, NEW w \in Workers, Run(w) PROVE IInv'
  <1> USE Referrers DEF IInv, TypeOK, Run, Goto, StartRefPC, WorkerRefPC
  <1>1. TypeOK'
    OBVIOUS
  <1>2. CountInv'
    <2>1. Cardinality(holds)' = Cardinality(holds)
      OBVIOUS
    <2> QED
      BY <1>1, <2>1, Finite, Moved DEF Cost
  <1>3. CallInv'
    BY DEF CallInv
  <1>4. LifeInv'
    BY DEF CallInv, LifeInv
  <1>5. ASSUME starts' <= 1 PROVE OneStart'
    <2> USE <1>5 DEF CallInv, LifeInv, OneStart
    <2>1. PhaseInv'
      BY DEF PhaseInv
    <2>2. JoinInv'
      BY DEF PhaseInv, JoinInv
    <2>3. StoreInv'
      BY DEF PhaseInv, JoinInv, StoreInv
    <2>4. FreedInv'
      BY DEF PhaseInv, JoinInv, FreedInv
    <2>5. RunningFlagTruthful'
      BY DEF PhaseInv, JoinInv, StoreInv, RunningFlagTruthful
    <2> QED
      BY <2>1, <2>2, <2>3, <2>4, <2>5
  <1> QED
    BY <1>1, <1>2, <1>3, <1>4, <1>5

LEMMA WorkerFlagsStep == ASSUME IInv, NEW w \in Workers, WorkerFlags(w) PROVE IInv'
  <1> USE Referrers DEF IInv, TypeOK, WorkerFlags, LoadFlags, StoreFlags, Goto, StartRefPC, WorkerRefPC
  <1>1. TypeOK'
    OBVIOUS
  <1>2. CountInv'
    <2>1. Cardinality(holds)' = Cardinality(holds)
      OBVIOUS
    <2> QED
      BY <1>1, <2>1, Finite, Moved DEF Cost
  <1>3. CallInv'
    BY DEF CallInv
  <1>4. LifeInv'
    BY DEF CallInv, LifeInv
  <1>5. ASSUME starts' <= 1 PROVE OneStart'
    <2> USE <1>5 DEF CallInv, LifeInv, OneStart
    <2>1. PhaseInv'
      BY DEF PhaseInv
    <2>2. JoinInv'
      BY DEF PhaseInv, JoinInv, StoreInv
    <2>3. StoreInv'
      BY DEF PhaseInv, JoinInv, StoreInv
    <2>4. FreedInv'
      BY DEF PhaseInv, JoinInv, FreedInv
    <2>5. RunningFlagTruthful'
      BY DEF PhaseInv, JoinInv, StoreInv, RunningFlagTruthful
    <2> QED
      BY <2>1, <2>2, <2>3, <2>4, <2>5
  <1> QED
    BY <1>1, <1>2, <1>3, <1>4, <1>5

LEMMA LeaveStep == ASSUME IInv, NEW w \in Workers, Leave(w) PROVE IInv'
  <1> USE Referrers DEF IInv, TypeOK, Leave, Goto, RemoveReference, StartRefPC, WorkerRefPC
  <1>1. TypeOK'
    OBVIOUS
  <1>2. CountInv'
    <2>1. Cardinality(holds)' = Cardinality(holds)
      OBVIOUS
    <2> QED
      BY <1>1, <2>1, Finite, Moved DEF Cost
  <1>3. CallInv'
    BY DEF CallInv
  <1>4. LifeInv'
    BY DEF CallInv, LifeInv
  <1>5. ASSUME starts' <= 1 PROVE OneStart'
    <2> USE <1>5 DEF CallInv, LifeInv, OneStart
    <2>1. PhaseInv'
      BY DEF PhaseInv
    <2>2. JoinInv'
      BY DEF PhaseInv, JoinInv
    <2>3. StoreInv'
      BY DEF PhaseInv, JoinInv, StoreInv
    <2>4. FreedInv'
      BY DEF PhaseInv, JoinInv, FreedInv
    <2>5. RunningFlagTruthful'
      BY DEF PhaseInv, JoinInv, StoreInv, RunningFlagTruthful
    <2> QED
      BY <2>1, <2>2, <2>3, <2>4, <2>5
  <1> QED
    BY <1>1, <1>2, <1>3, <1>4, <1>5

LEMMA DeleteStep == ASSUME IInv, NEW a \in Agents, Delete(a) PROVE IInv'
  <1> USE Referrers DEF IInv, TypeOK, Delete, Goto, StartRefPC, WorkerRefPC
  <1>1. TypeOK'
    <2>1. \A w \in Workers : reclaimed[w] \in Nat /\ reclaimed[w] + 1 \in Nat
      OBVIOUS
    <2>2. reclaimed' \in [Workers -> Nat]
      BY <2>1
    <2> QED
      BY <2>2
  <1>2. CountInv'
    <2>1. Cardinality(holds)' = Cardinality(holds)
      OBVIOUS
    <2> QED
      BY <1>1, <2>1, Finite, Moved DEF Cost
  <1>3. CallInv'
    BY DEF CallInv
  <1>4. LifeInv'
    BY DEF CallInv, LifeInv
  <1>5. ASSUME starts' <= 1 PROVE OneStart'
    <2> USE <1>5 DEF CallInv, LifeInv, OneStart
    <2>1. PhaseInv'
      BY DEF PhaseInv
    <2>2. JoinInv'
      BY DEF PhaseInv, JoinInv
    <2>3. StoreInv'
      BY DEF PhaseInv, JoinInv, StoreInv
    <2>4. FreedInv'
      BY DEF PhaseInv, JoinInv, FreedInv
    <2>5. RunningFlagTruthful'
      BY DEF PhaseInv, JoinInv, StoreInv, RunningFlagTruthful
    <2> QED
      BY <2>1, <2>2, <2>3, <2>4, <2>5
  <1> QED
    BY <1>1, <1>2, <1>3, <1>4, <1>5


LEMMA CloneStep ==
    ASSUME IInv, NEW c \in Clients, NEW d \in Clients, Clone(c, d)
    PROVE  IInv'
  <1> USE Referrers DEF IInv, TypeOK, Clone, AddReference, StartRefPC, WorkerRefPC
  <1>1. TypeOK'
    OBVIOUS
  <1>2. CountInv'
    <2>1. Cardinality(holds \cup {d}) = Cardinality(holds) + 1 /\ Cardinality(holds) \in Nat
      BY Finite, FS_AddElement
    <2>2. Cardinality(holds)' = Cardinality(holds) + 1
      BY <2>1
    <2>3. Cost(d, pc'[d]) = Cost(d, pc[d]) /\ Cost(d, pc[d]) = 0
      BY DEF Cost
    <2>4. \A b \in Agents : b # d => pc'[b] = pc[b]
      OBVIOUS
    <2>5. count' - Cardinality(holds)' - Cost(d, pc'[d])
             = count - Cardinality(holds) - Cost(d, pc[d])
      BY <2>1, <2>2, <2>3
    <2>6. TypeOK /\ CountInv /\ d \in Agents
      OBVIOUS
    <2> QED
      BY <1>1, <2>4, <2>5, <2>6, Moved
  <1>3. CallInv'
    BY DEF CallInv
  <1>4. LifeInv'
    BY DEF CallInv, LifeInv
  <1>5. ASSUME starts' <= 1 PROVE OneStart'
    <2> USE <1>5 DEF CallInv, LifeInv, OneStart
    <2>1. PhaseInv'
      BY DEF PhaseInv
    <2>2. JoinInv'
      BY DEF PhaseInv, JoinInv
    <2>3. StoreInv'
      BY DEF PhaseInv, JoinInv, StoreInv
    <2>4. FreedInv'
      BY DEF PhaseInv, JoinInv, FreedInv
    <2>5. RunningFlagTruthful'
      BY DEF PhaseInv, JoinInv, StoreInv, RunningFlagTruthful
    <2> QED
      BY <2>1, <2>2, <2>3, <2>4, <2>5
  <1> QED
    BY <1>1, <1>2, <1>3, <1>4, <1>5

LEMMA CreateOkStep ==
    ASSUME IInv, NEW c \in Clients, NEW w \in Workers, CreateOk(c, w)
    PROVE  IInv'
  <1> USE Referrers DEF IInv, TypeOK, CreateOk, StartRefPC, WorkerRefPC
  <1>1. TypeOK'
    OBVIOUS
  \* The reference of start() passes from the caller to the kernel thread.
  <1>2. CountInv'
    <2>1. /\ StartRefs' = (StartRefs \ {c}) \cup {w}
          /\ c \in StartRefs /\ w \notin StartRefs \ {c}
      BY DEF StartRefs
    <2>2. WorkerRefs' = WorkerRefs
      BY DEF WorkerRefs
    <2>3. /\ Cardinality(StartRefs \ {c}) = Cardinality(StartRefs) - 1
          /\ IsFiniteSet(StartRefs \ {c})
      BY <2>1, Finite, FS_RemoveElement
    <2>4. Cardinality((StartRefs \ {c}) \cup {w}) = Cardinality(StartRefs \ {c}) + 1
      BY <2>1, <2>3, FS_AddElement
    <2>5. Cardinality(StartRefs)' = Cardinality(StartRefs)
      BY <2>1, <2>3, <2>4, Finite
    <2> QED
      BY <2>2, <2>5 DEF CountInv, Refs
  <1>3. CallInv'
    BY DEF CallInv
  <1>4. LifeInv'
    BY DEF CallInv, LifeInv
  <1>5. ASSUME starts' <= 1 PROVE OneStart'
    <2> USE <1>5 DEF CallInv, LifeInv, OneStart
    <2>1. PhaseInv'
      BY DEF PhaseInv
    <2>2. JoinInv'
      BY DEF PhaseInv, JoinInv
    <2>3. StoreInv'
      BY DEF PhaseInv, JoinInv, StoreInv
    <2>4. FreedInv'
      BY DEF PhaseInv, JoinInv, FreedInv
    <2>5. RunningFlagTruthful'
      BY DEF PhaseInv, JoinInv, StoreInv, RunningFlagTruthful
    <2> QED
      BY <2>1, <2>2, <2>3, <2>4, <2>5
  <1> QED
    BY <1>1, <1>2, <1>3, <1>4, <1>5

-----------------------------------------------------------------------------
LEMMA Inductive == IInv /\ [Next]_vars => IInv'
  <1> SUFFICES ASSUME IInv, [Next]_vars PROVE IInv'
    OBVIOUS
  <1>1. ASSUME NEW c \in Clients, Call(c) PROVE IInv'
    BY <1>1, NewStep, CloneStep, DropStep, StartStep, JoinCallStep DEF Call
  <1>2. ASSUME NEW c \in Clients, ClientStep(c) PROVE IInv'
    BY <1>2, AdoptStep, ClientFlagsStep, StartRefStep, CreateOkStep, CreateFailStep, UndoRefStep,
       JoinReturnStep, DeleteStep DEF ClientStep
  <1>3. ASSUME NEW w \in Workers, WorkerStep(w) PROVE IInv'
    BY <1>3, EnterStep, DropStartStep, RunStep, WorkerFlagsStep, LeaveStep, DeleteStep
       DEF WorkerStep
  <1>4. CASE UNCHANGED vars
    <2>1. TypeOK' /\ CallInv' /\ LifeInv'
      BY <1>4 DEF vars, IInv, TypeOK, CallInv, LifeInv
    <2>2. StartRefs' = StartRefs /\ WorkerRefs' = WorkerRefs
      BY <1>4 DEF vars, StartRefs, WorkerRefs
    <2>3. CountInv'
      BY <1>4, <2>2 DEF vars, IInv, CountInv, Refs
    <2>4. ASSUME OneStart PROVE OneStart'
      BY <1>4, <2>4 DEF vars, OneStart, PhaseInv, JoinInv, StoreInv, FreedInv, RunningFlagTruthful
    <2> QED
      BY <1>4, <2>1, <2>3, <2>4 DEF vars, IInv
  <1> QED
    BY <1>1, <1>2, <1>3, <1>4 DEF Next

LEMMA Invariance == Spec => []IInv
  <1> QED
    BY InitEstablishes, Inductive, PTL DEF Spec

\* The variables of the thread object, of its callers and of its kernel threads
\* keep their types; in particular the count of the object is never negative, and
\* every kernel thread waited for by pthread_join is one that may exist.
THEOREM TypeCorrect == Spec => []TypeOK
  <1>1. IInv => TypeOK
    BY DEF IInv
  <1> QED
    BY <1>1, Invariance, PTL

\* The count of the thread object is at all times the number of references that
\* somebody is going to release: the clients' pointers, the reference start()
\* takes for the thread until threadStartFuncWorker drops it (or start() itself,
\* when pthread_create fails), and the local pointer of threadStartFuncWorker.
THEOREM CountIsExact == Spec => []CountInv
  <1>1. IInv => CountInv
    BY DEF IInv
  <1> QED
    BY <1>1, Invariance, PTL

\* Whoever is inside a member function of the thread object, or inside
\* threadStartFuncWorker, does not use freed memory.
NoUseAfterFree ==
    /\ \A c \in Clients : pc[c] # "idle" \/ c \in holds => life = "alive"
    /\ \A w \in Workers : pc[w] \notin {"none", "exited"} => life = "alive"

\* Any number of calls of start() and join() by any number of clients may
\* overlap with any number of kernel threads: the object outlives all of them.
THEOREM ObjectOutlivesItsUsers == Spec => []NoUseAfterFree
  <1>1. ASSUME IInv PROVE NoUseAfterFree
    <2>1. ASSUME NEW c \in Clients, pc[c] # "idle" \/ c \in holds PROVE life = "alive"
      BY <1>1, <2>1, Referrers DEF IInv, TypeOK, CallInv, LifeInv, StartRefPC
    <2>2. ASSUME NEW w \in Workers, pc[w] \notin {"none", "exited"} PROVE life = "alive"
      BY <1>1, <2>2, Referrers DEF IInv, TypeOK, LifeInv, StartRefPC, WorkerRefPC
    <2> QED
      BY <2>1, <2>2 DEF NoUseAfterFree
  <1> QED
    BY <1>1, Invariance, PTL

\* With one call of start(), isRunning() tells the truth: from before the kernel
\* thread exists until run() has ended fRUNNING is set, then it is clear, and the
\* unlocked |= and &= of start(), of threadStartFuncWorker and of join() lose no
\* update of each other.
THEOREM RunningFlagIsTruthful == Spec => []RunningFlagTruthful
  <1>1. IInv => RunningFlagTruthful
    BY DEF IInv, OneStart, RunningFlagTruthful
  <1> QED
    BY <1>1, Invariance, PTL

\* With one call of start(), join() and the destructor between them give the
\* kernel thread back to the system exactly once.
THEOREM ThreadReclaimedOnce == Spec => []ReclaimedOnce
  <1>1. IInv => ReclaimedOnce
    BY DEF IInv, OneStart, JoinInv, FreedInv, ReclaimedOnce, Created
  <1> QED
    BY <1>1, Invariance, PTL

-----------------------------------------------------------------------------
(* The thread object is shared as ObjectLifetime promises. *)

Stage == IF life = "unborn" THEN "unborn" ELSE IF life = "freed" THEN "dead"
         ELSE IF \E a \in Agents : pc[a] = "delete" THEN "doomed" ELSE "born"

\* The object is doomed from the release that takes the count to 0 until its
\* destruction, and born before.
StageInv ==
    /\ life = "unborn" => Stage = "unborn"
    /\ life = "freed" => Stage = "dead"
    /\ count > 0 => Stage = "born"
    /\ \A a \in Agents : pc[a] = "adopt" => Stage = "born"
    /\ \A a \in Agents : pc[a] = "delete" => Stage = "doomed"
    /\ Refs = count /\ count \in Nat

\* What the counted references say of the stage.
LEMMA Stages == IInv => StageInv
  <1> SUFFICES ASSUME IInv PROVE StageInv
    OBVIOUS
  <1>1. /\ \A a \in Agents : pc[a] \in {"adopt", "delete"} => life = "alive" /\ count = 0
        /\ \A a, b \in Agents : pc[a] = "adopt" /\ pc[b] = "delete" => FALSE
    BY DEF IInv, LifeInv
  <1>2. count > 0 => life = "alive"
    BY Referrers
  <1>3. Refs = count /\ count \in Nat
    BY DEF IInv, CountInv, TypeOK
  <1> QED
    BY <1>1, <1>2, <1>3 DEF StageInv, Stage

\* How the stage and the references change decides which step of ObjectLifetime
\* is taken.
LEMMA Quiet == ASSUME Stage' = Stage, Refs' = Refs PROVE UNCHANGED Lifetime!vars
  <1> QED
    BY DEF Lifetime!vars, Stage, Refs

LEMMA Creates ==
    ASSUME Stage = "unborn", Stage' = "born", Refs' = Refs
    PROVE  Lifetime!Next
  <1>1. Lifetime!Create("thread")
    BY DEF Lifetime!Create, Stage, Refs
  <1> QED
    BY <1>1 DEF Lifetime!Next

LEMMA Acquires ==
    ASSUME Stage = "born", Stage' = "born", Refs' = Refs + 1
    PROVE  Lifetime!Next
  <1>1. Lifetime!Acquire("thread")
    BY DEF Lifetime!Acquire, Stage, Refs
  <1> QED
    BY <1>1 DEF Lifetime!Next

LEMMA Releases ==
    ASSUME Stage = "born", Refs > 0, Refs' = Refs - 1,
           Stage' = IF Refs = 1 THEN "doomed" ELSE "born"
    PROVE  Lifetime!Next
  <1>1. Lifetime!Release("thread")
    BY DEF Lifetime!Release, Stage, Refs
  <1> QED
    BY <1>1 DEF Lifetime!Next

LEMMA Destroys ==
    ASSUME Stage = "doomed", Stage' = "dead", Refs' = Refs
    PROVE  Lifetime!Next
  <1>1. Lifetime!Destroy("thread")
    BY DEF Lifetime!Destroy, Stage, Refs
  <1> QED
    BY <1>1 DEF Lifetime!Next

\* removeReference by somebody whose reference is counted.
LEMMA RemoveReferenceReleases ==
    ASSUME IInv, StageInv, StageInv', NEW a \in Agents, NEW from, NEW to, count > 0,
           RemoveReference(a, from, to)
    PROVE  Lifetime!Next
  <1>1. pc \in [Agents -> ClientPC \cup WorkerPC] /\ count \in Nat
    BY DEF IInv, TypeOK
  <1>2. count' = count - 1 /\ (count = 1 => pc'[a] = "delete")
    BY <1>1 DEF RemoveReference, Goto
  <1>3. Stage = "born" /\ Refs = count /\ Refs' = count'
    BY DEF StageInv
  <1>4. Stage' = IF count = 1 THEN "doomed" ELSE "born"
    BY <1>1, <1>2 DEF StageInv
  <1> QED
    BY <1>1, <1>2, <1>3, <1>4, Releases

LEMMA CallRefines ==
    ASSUME IInv, StageInv, StageInv', NEW c \in Clients, Call(c)
    PROVE  [Lifetime!Next]_Lifetime!vars
  <1>0. pc \in [Agents -> ClientPC \cup WorkerPC] /\ c \in Agents
    BY DEF IInv, TypeOK
  <1>1. CASE New(c)
    <2>1. Stage = "unborn" /\ Stage' = "born" /\ Refs' = Refs
      BY <1>0, <1>1 DEF New, Goto, StageInv
    <2> QED
      BY <2>1, Creates
  <1>2. CASE \E d \in Clients : Clone(c, d)
    <2>1. count > 0 /\ count' = count + 1 /\ count \in Nat
      BY <1>2, Referrers DEF Clone, AddReference
    <2>2. Stage = "born" /\ Stage' = "born" /\ Refs' = Refs + 1
      BY <2>1 DEF StageInv
    <2> QED
      BY <2>2, Acquires
  <1>3. CASE Drop(c)
    <2>1. count > 0 /\ RemoveReference(c, "idle", "idle")
      BY <1>3, Referrers DEF Drop
    <2> QED
      BY <1>0, <2>1, RemoveReferenceReleases
  <1>4. CASE Start(c) \/ JoinCall(c)
    <2>1. count > 0 /\ count' = count
      BY <1>4, Referrers DEF Start, JoinCall
    <2>2. Stage' = Stage /\ Refs' = Refs
      BY <2>1 DEF StageInv
    <2> QED
      BY <2>2, Quiet
  <1> QED
    BY <1>1, <1>2, <1>3, <1>4 DEF Call

LEMMA DeleteRefines ==
    ASSUME IInv, StageInv, StageInv', NEW a \in Agents, Delete(a)
    PROVE  [Lifetime!Next]_Lifetime!vars
  <1>1. Stage = "doomed" /\ Stage' = "dead" /\ Refs' = Refs
    BY DEF Delete, Goto, StageInv
  <1> QED
    BY <1>1, Destroys

LEMMA ClientStepRefines ==
    ASSUME IInv, StageInv, StageInv', NEW c \in Clients, ClientStep(c)
    PROVE  [Lifetime!Next]_Lifetime!vars
  <1>0. pc \in [Agents -> ClientPC \cup WorkerPC] /\ c \in Agents /\ CallInv
    BY DEF IInv, TypeOK
  <1>1. CASE Adopt(c)
    <2>1. pc[c] = "adopt" /\ count' = count + 1
      BY <1>1 DEF Adopt, Goto, AddReference
    <2>2. Stage = "born" /\ Stage' = "born" /\ Refs' = Refs + 1
      BY <1>0, <2>1 DEF StageInv
    <2> QED
      BY <2>2, Acquires
  <1>2. CASE StartRef(c)
    <2>1. count > 0 /\ count' = count + 1
      BY <1>0, <1>2, Referrers DEF StartRef, Goto, AddReference, CallInv
    <2>2. Stage = "born" /\ Stage' = "born" /\ Refs' = Refs + 1
      BY <2>1 DEF StageInv
    <2> QED
      BY <2>2, Acquires
  <1>3. CASE UndoRef(c)
    <2>1. count > 0 /\ RemoveReference(c, "undoRef", "clearRun")
      BY <1>0, <1>3, Referrers DEF UndoRef, RemoveReference, Goto, CallInv
    <2> QED
      BY <1>0, <2>1, RemoveReferenceReleases
  <1>4. CASE ClientFlags(c) \/ (\E w \in Workers : CreateOk(c, w)) \/ CreateFail(c) \/ JoinReturn(c)
    <2>1. pc[c] \in StartPC \cup JoinPC /\ count' = count
      BY <1>4 DEF ClientFlags, LoadFlags, StoreFlags, CreateOk, CreateFail, JoinReturn, Goto
    <2>2. count > 0
      BY <1>0, <2>1, Referrers DEF CallInv
    <2>3. Stage' = Stage /\ Refs' = Refs
      BY <2>1, <2>2 DEF StageInv
    <2> QED
      BY <2>3, Quiet
  <1>5. CASE Delete(c)
    BY <1>0, <1>5, DeleteRefines
  <1> QED
    BY <1>1, <1>2, <1>3, <1>4, <1>5 DEF ClientStep

LEMMA WorkerStepRefines ==
    ASSUME IInv, StageInv, StageInv', NEW w \in Workers, WorkerStep(w)
    PROVE  [Lifetime!Next]_Lifetime!vars
  <1>0. pc \in [Agents -> ClientPC \cup WorkerPC] /\ w \in Agents
    BY DEF IInv, TypeOK
  <1>1. pc[w] \in StartRefPC \cup WorkerRefPC => count > 0
    BY <1>0, Referrers
  <1>2. CASE Enter(w)
    <2>1. count > 0 /\ count' = count + 1
      BY <1>1, <1>2 DEF Enter, Goto, AddReference, StartRefPC
    <2>2. Stage = "born" /\ Stage' = "born" /\ Refs' = Refs + 1
      BY <2>1 DEF StageInv
    <2> QED
      BY <2>2, Acquires
  <1>3. CASE DropStart(w)
    <2>1. count > 0 /\ RemoveReference(w, "dropStart", "run")
      BY <1>1, <1>3 DEF DropStart, RemoveReference, Goto, StartRefPC
    <2> QED
      BY <1>0, <2>1, RemoveReferenceReleases
  <1>4. CASE Leave(w)
    <2>1. count > 0 /\ RemoveReference(w, "leave", "exited")
      BY <1>1, <1>4 DEF Leave, RemoveReference, Goto, WorkerRefPC
    <2> QED
      BY <1>0, <2>1, RemoveReferenceReleases
  <1>5. CASE Run(w) \/ WorkerFlags(w)
    <2>1. pc[w] \in WorkerRefPC /\ count' = count
      BY <1>5 DEF Run, WorkerFlags, LoadFlags, StoreFlags, Goto, WorkerRefPC
    <2>2. Stage' = Stage /\ Refs' = Refs
      BY <1>1, <2>1 DEF StageInv
    <2> QED
      BY <2>2, Quiet
  <1>6. CASE Delete(w)
    BY <1>0, <1>6, DeleteRefines
  <1> QED
    BY <1>2, <1>3, <1>4, <1>5, <1>6 DEF WorkerStep

\* Every step of the clients and of the kernel threads is a step of shared
\* ownership: between start() and threadStartFuncWorker the object is never
\* acquired again after its last release, and it is destroyed once, by the
\* agent that released it last.
THEOREM ThreadObjectIsShared == Spec => Lifetime!Safety
  <1>1. Init => Lifetime!Init
    <2> SUFFICES ASSUME Init PROVE Lifetime!Init
      OBVIOUS
    <2>1. IInv /\ count = 0 /\ life = "unborn"
      BY InitEstablishes DEF Init
    <2>2. Stage = "unborn" /\ Refs = 0
      BY <2>1, Stages DEF StageInv
    <2> QED
      BY <2>2 DEF Lifetime!Init, Stage, Refs
  <1>2. ASSUME IInv, StageInv, StageInv', [Next]_vars PROVE [Lifetime!Next]_Lifetime!vars
    <2>1. CASE Next
      BY <1>2, <2>1, CallRefines, ClientStepRefines, WorkerStepRefines DEF Next
    <2>2. CASE UNCHANGED vars
      <3>1. Stage' = Stage
        BY <2>2 DEF vars, Stage
      <3>2. Refs' = Refs
        BY <2>2 DEF vars, Refs, StartRefs, WorkerRefs
      <3> QED
        BY <3>1, <3>2, Quiet
    <2> QED
      BY <1>2, <2>1, <2>2
  <1> QED
    BY <1>1, <1>2, Stages, Invariance, PTL DEF Spec, Lifetime!Safety

-----------------------------------------------------------------------------
(* ManualResetEvent.  The properties follow from an invariant that says    *)
(* what a thread's locals hold before it sleeps (Fresh), and that a signal *)
(* about to be sent cannot make the counter meet a sleeper's (SignalSafe). *)

\* A method that has not come to its wait has no result and no grant yet.
Fresh == \A t \in Threads :
    at[t] \in {"lock", "body"} => result[t] = "none" /\ t \notin granted

\* The thread about to signal has seen that the counter may be increased, and
\* the mutex keeps that true until it does.
SignalSafe == \A t \in Threads : InBody(t, "signal") => CountModSuffices

\* Only timed_wait() times out.
TimeoutInv == \A t \in timedOut : call[t] = "timed_wait"

EventIInv == EventTypeOK /\ GuardsBalanced /\ Fresh /\ SignalSafe /\ CounterTellsSignals
        /\ NoUnjustifiedReturn /\ TimeoutInv

-----------------------------------------------------------------------------
USE EventAssumption

\* An increment modulo CountMod stays in range and changes the counter.
LEMMA Increment ==
    ASSUME NEW n \in 0 .. CountMod - 1
    PROVE  (n + 1) % CountMod \in 0 .. CountMod - 1 /\ (n + 1) % CountMod # n
  <1>1. CASE n + 1 < CountMod
    BY <1>1
  <1>2. CASE n + 1 = CountMod
    BY <1>2
  <1>3. QED
    BY <1>1, <1>2

LEMMA EventInitIInv == EventInit => EventIInv
  BY DEF EventInit, EventIInv, EventTypeOK, GuardsBalanced, Fresh, SignalSafe, CounterTellsSignals,
         NoUnjustifiedReturn, TimeoutInv, InBody, Inside, Holding, Methods

LEMMA CallStep ==
    ASSUME EventIInv, NEW t \in Threads, CallMethod(t)
    PROVE  EventIInv'
  <1>1. PICK m \in Methods : call' = [call EXCEPT ![t] = m]
    BY DEF CallMethod
  <1>2. EventTypeOK' /\ GuardsBalanced' /\ Fresh'
    BY <1>1 DEF EventIInv, CallMethod, EventTypeOK, GuardsBalanced, Fresh, shared, Inside, Holding, Methods
  <1>3. SignalSafe'
    BY <1>1 DEF EventIInv, CallMethod, EventTypeOK, SignalSafe, CountModSuffices, InBody, shared, Inside, Methods
  <1>4. CounterTellsSignals' /\ NoUnjustifiedReturn' /\ TimeoutInv'
    BY <1>1 DEF EventIInv, CallMethod, EventTypeOK, CounterTellsSignals, NoUnjustifiedReturn, TimeoutInv, shared, Inside
  <1>5. QED
    BY <1>2, <1>3, <1>4 DEF EventIInv

LEMMA AcquireStep ==
    ASSUME EventIInv, NEW t \in Threads, Acquire(t)
    PROVE  EventIInv'
  <1>1. EventTypeOK' /\ GuardsBalanced' /\ Fresh'
    BY DEF EventIInv, Acquire, EventTypeOK, GuardsBalanced, Fresh, Inside, Holding
  <1>2. \A u \in Threads : at'[u] \in Inside <=> at[u] \in Inside
    BY DEF EventIInv, Acquire, EventTypeOK, Inside
  <1>3. CountModSuffices' <=> CountModSuffices
    BY <1>2 DEF Acquire, CountModSuffices
  <1>4. SignalSafe'
    <2>1. \A u \in Threads : u # t => at[u] # "body"
      BY DEF EventIInv, Acquire, GuardsBalanced, Holding
    <2>2. InBody(t, "signal")' => CountModSuffices
      BY DEF EventIInv, Acquire, EventTypeOK, InBody, Methods
    <2>3. QED
      BY <1>3, <2>1, <2>2 DEF EventIInv, Acquire, EventTypeOK, SignalSafe, InBody
  <1>5. CounterTellsSignals' /\ NoUnjustifiedReturn' /\ TimeoutInv'
    BY <1>2 DEF EventIInv, Acquire, EventTypeOK, CounterTellsSignals, NoUnjustifiedReturn, TimeoutInv
  <1>6. QED
    BY <1>1, <1>4, <1>5 DEF EventIInv

LEMMA ReleaseStep ==
    ASSUME EventIInv, NEW t \in Threads, Release(t)
    PROVE  EventIInv'
  <1>1. EventTypeOK' /\ GuardsBalanced' /\ Fresh'
    BY DEF EventIInv, Release, EventTypeOK, GuardsBalanced, Fresh, Inside, Holding
  <1>2. \A u \in Threads : at'[u] \in Inside <=> at[u] \in Inside
    BY DEF EventIInv, Release, EventTypeOK, Inside
  <1>3. SignalSafe' /\ CounterTellsSignals' /\ NoUnjustifiedReturn' /\ TimeoutInv'
    BY <1>2 DEF EventIInv, Release, EventTypeOK, SignalSafe, CountModSuffices, InBody, CounterTellsSignals,
                NoUnjustifiedReturn, TimeoutInv
  <1>4. QED
    BY <1>1, <1>3 DEF EventIInv

\* The only thread in the body of a method is the owner of the mutex.
LEMMA OneInBody ==
    ASSUME EventIInv, NEW t \in Threads, at[t] \in Holding
    PROVE  \A u \in Threads : u # t => at[u] \notin Holding
  BY DEF EventIInv, GuardsBalanced

LEMMA SignalStep ==
    ASSUME EventIInv, NEW t \in Threads, Signal(t)
    PROVE  EventIInv'
  <1>1. sigcount' \in 0 .. CountMod - 1
    BY Increment DEF EventIInv, Signal, EventTypeOK
  <1>2. \A u \in Threads : u # t => at[u] \notin Holding
    BY OneInBody DEF Signal, InBody, Holding
  <1>3. EventTypeOK'
    BY <1>1 DEF EventIInv, Signal, EventTypeOK, Inside
  <1>4. GuardsBalanced' /\ Fresh' /\ NoUnjustifiedReturn' /\ TimeoutInv'
    BY <1>2 DEF EventIInv, Signal, EventTypeOK, InBody, GuardsBalanced, Fresh, NoUnjustifiedReturn, TimeoutInv,
                Inside, Holding
  <1>5. SignalSafe'
    BY <1>2 DEF EventIInv, Signal, EventTypeOK, InBody, SignalSafe, Holding
  <1>6. CounterTellsSignals'
    <2>1. \A u \in Threads : at'[u] \in Inside => at[u] \in Inside
      BY DEF Signal, InBody, EventIInv, EventTypeOK, Inside
    <2>2. \A u \in Threads : at[u] \in Inside => sigcount' # prev[u] /\ u \in granted'
      BY DEF Signal, EventIInv, SignalSafe, CountModSuffices
    <2>3. QED
      BY <2>1, <2>2 DEF Signal, CounterTellsSignals
  <1>7. QED
    BY <1>3, <1>4, <1>5, <1>6 DEF EventIInv

LEMMA ResetStep ==
    ASSUME EventIInv, NEW t \in Threads, Reset(t)
    PROVE  EventIInv'
  <1>1. EventTypeOK' /\ GuardsBalanced' /\ Fresh' /\ NoUnjustifiedReturn' /\ TimeoutInv'
    BY DEF EventIInv, Reset, Return, InBody, EventTypeOK, GuardsBalanced, Fresh, NoUnjustifiedReturn, TimeoutInv,
           Inside, Holding
  <1>2. SignalSafe' /\ CounterTellsSignals'
    BY DEF EventIInv, Reset, Return, InBody, EventTypeOK, SignalSafe, CountModSuffices,
           CounterTellsSignals, Inside
  <1>3. QED
    BY <1>1, <1>2 DEF EventIInv

LEMMA BadDeadlineStep ==
    ASSUME EventIInv, NEW t \in Threads, BadDeadline(t)
    PROVE  EventIInv'
  <1>1. EventTypeOK' /\ GuardsBalanced' /\ Fresh' /\ NoUnjustifiedReturn' /\ TimeoutInv'
    BY DEF EventIInv, BadDeadline, Return, InBody, EventTypeOK, GuardsBalanced, Fresh,
           NoUnjustifiedReturn, TimeoutInv, Inside, Holding
  <1>2. SignalSafe' /\ CounterTellsSignals'
    BY DEF EventIInv, BadDeadline, Return, InBody, EventTypeOK, SignalSafe, CountModSuffices,
           CounterTellsSignals, Inside
  <1>3. QED
    BY <1>1, <1>2 DEF EventIInv

\* A thread goes to sleep with the current counter and without a grant.
LEMMA SleepStep ==
    ASSUME EventIInv, NEW t \in Threads, at[t] \in Holding, Sleep(t),
           prev' = [prev EXCEPT ![t] = sigcount], t \notin granted
    PROVE  EventIInv'
  <1>1. \A u \in Threads : u # t => at[u] \notin Holding
    BY OneInBody
  <1>2. EventTypeOK' /\ GuardsBalanced' /\ Fresh' /\ NoUnjustifiedReturn' /\ TimeoutInv'
    BY <1>1 DEF EventIInv, Sleep, EventTypeOK, GuardsBalanced, Fresh, NoUnjustifiedReturn, TimeoutInv, Inside, Holding
  <1>3. SignalSafe' /\ CounterTellsSignals'
    BY <1>1 DEF EventIInv, Sleep, EventTypeOK, SignalSafe, InBody, CounterTellsSignals, Inside, Holding
  <1>4. QED
    BY <1>2, <1>3 DEF EventIInv

\* A return from a wait with the mutex held.
LEMMA ReturnStep ==
    ASSUME EventIInv, NEW t \in Threads, at[t] \in Holding,
           NEW v \in {"none", "true", "false", "error"}, Return(t, v),
           UNCHANGED <<signaled, sigcount>>,
           granted' = granted \/ granted' = granted \cup {t},
           v = "true" => t \in granted'
    PROVE  EventIInv'
  <1>1. EventTypeOK' /\ GuardsBalanced' /\ Fresh' /\ NoUnjustifiedReturn' /\ TimeoutInv'
    BY DEF EventIInv, Return, EventTypeOK, GuardsBalanced, Fresh, NoUnjustifiedReturn, TimeoutInv, Inside, Holding
  <1>2. SignalSafe' /\ CounterTellsSignals'
    BY DEF EventIInv, Return, InBody, EventTypeOK, SignalSafe, CountModSuffices, CounterTellsSignals, Inside
  <1>3. QED
    BY <1>1, <1>2 DEF EventIInv

LEMMA WaitBeginStep ==
    ASSUME EventIInv, NEW t \in Threads, WaitBegin(t)
    PROVE  EventIInv'
  <1>1. at[t] = "body" /\ t \notin granted /\ at[t] \in Holding
    BY DEF WaitBegin, InBody, EventIInv, Fresh, Holding
  <1>2. CASE signaled
    BY <1>1, <1>2, ReturnStep DEF WaitBegin
  <1>3. CASE ~signaled
    BY <1>1, <1>3, SleepStep DEF WaitBegin
  <1>4. QED
    BY <1>2, <1>3

LEMMA RecheckStep ==
    ASSUME EventIInv, NEW t \in Threads, Recheck(t)
    PROVE  EventIInv'
  <1>1. at[t] = "recheck" /\ at[t] \in Holding /\ at[t] \in Inside
    BY DEF Recheck, Holding, Inside
  <1>2. CASE t \in timedOut
    BY <1>1, <1>2, ReturnStep DEF Recheck
  <1>3. CASE t \notin timedOut /\ prev[t] # sigcount
    <2>1. t \in granted
      BY <1>1, <1>3 DEF EventIInv, CounterTellsSignals
    <2>2. QED
      BY <1>1, <1>3, <2>1, ReturnStep DEF Recheck
  <1>4. CASE t \notin timedOut /\ prev[t] = sigcount
    <2>1. t \notin granted
      BY <1>1, <1>4 DEF EventIInv, CounterTellsSignals
    <2>2. Sleep(t) /\ prev' = [prev EXCEPT ![t] = sigcount]
      BY <1>4 DEF Recheck, EventIInv, EventTypeOK
    <2>3. QED
      BY <1>1, <2>1, <2>2, SleepStep
  <1>5. QED
    BY <1>2, <1>3, <1>4

LEMMA WakeStep ==
    ASSUME EventIInv, NEW t \in Threads, Spurious(t) \/ Timeout(t)
    PROVE  EventIInv'
  <1>1. /\ at[t] = "asleep" /\ at' = [at EXCEPT ![t] = "relock"]
        /\ \/ timedOut' = timedOut \cup {t} /\ call[t] = "timed_wait"
           \/ timedOut' = timedOut \ {t}
        /\ UNCHANGED <<mutex, signaled, sigcount, call, prev, result, granted>>
    BY DEF Spurious, Timeout, Wake, shared
  <1>2. EventTypeOK'
    BY <1>1 DEF EventIInv, EventTypeOK, Inside
  <1>3. \A u \in Threads : at'[u] \in Inside <=> at[u] \in Inside
    BY <1>1 DEF EventIInv, EventTypeOK, Inside
  <1>4. GuardsBalanced' /\ Fresh' /\ NoUnjustifiedReturn' /\ TimeoutInv'
    BY <1>1 DEF EventIInv, EventTypeOK, GuardsBalanced, Fresh, NoUnjustifiedReturn, TimeoutInv, Holding
  <1>5. SignalSafe' /\ CounterTellsSignals'
    BY <1>1, <1>3 DEF EventIInv, EventTypeOK, SignalSafe, CountModSuffices, InBody, CounterTellsSignals
  <1>6. QED
    BY <1>2, <1>4, <1>5 DEF EventIInv

LEMMA EventStutter == EventIInv /\ UNCHANGED eventVars => EventIInv'
  BY DEF eventVars, shared, local, EventIInv, EventTypeOK, GuardsBalanced, Fresh, SignalSafe, CountModSuffices,
         InBody, CounterTellsSignals, NoUnjustifiedReturn, TimeoutInv

LEMMA EventNextIInv == EventIInv /\ [EventNext]_eventVars => EventIInv'
  <1> SUFFICES ASSUME EventIInv, [EventNext]_eventVars PROVE EventIInv'
    OBVIOUS
  <1>1. ASSUME NEW t \in Threads, Continue(t) PROVE EventIInv'
    BY <1>1, SignalStep, ResetStep, WaitBeginStep, BadDeadlineStep, RecheckStep, ReleaseStep
       DEF Continue
  <1>2. ASSUME NEW t \in Threads, CallMethod(t) \/ Acquire(t) \/ Spurious(t) \/ Timeout(t) PROVE EventIInv'
    BY <1>2, CallStep, AcquireStep, WakeStep
  <1>3. CASE UNCHANGED eventVars
    BY <1>3, EventStutter
  <1>4. QED
    BY <1>1, <1>2, <1>3 DEF EventNext

LEMMA EventInvariance == EventSpec => []EventIInv
  BY EventInitIInv, EventNextIInv, PTL DEF EventSpec

\* Type correctness; in particular the counter never leaves its width.
THEOREM EventTypeCorrect == EventSpec => []EventTypeOK
  <1>1. EventIInv => EventTypeOK
    BY DEF EventIInv
  <1>2. QED
    BY <1>1, EventInvariance, PTL

\* Mutual exclusion of the critical sections, with every exit releasing the
\* mutex: a return, a throw, a sleep.
THEOREM GuardsAreBalanced == EventSpec => []GuardsBalanced
  <1>1. EventIInv => GuardsBalanced
    BY DEF EventIInv
  <1>2. QED
    BY <1>1, EventInvariance, PTL

\* No wait ends with success unless the event was open or has been signalled.
THEOREM NoSpuriousReturn == EventSpec => []NoUnjustifiedReturn
  <1>1. EventIInv => NoUnjustifiedReturn
    BY DEF EventIInv
  <1>2. QED
    BY <1>1, EventInvariance, PTL

\* No signal is missed by a sleeping thread, for any width of the counter that
\* CountModSuffices for.
THEOREM NoLostSignal == EventSpec => []CounterTellsSignals
  <1>1. EventIInv => CounterTellsSignals
    BY DEF EventIInv
  <1>2. QED
    BY <1>1, EventInvariance, PTL

-----------------------------------------------------------------------------
(* The class implements the abstract event. *)

LEMMA InitRefines == EventInit => Event!Init
  BY DEF EventInit, Event!Init, Waiter, Inside

\* A step that leaves the flag and the threads' abstract states alone.
LEMMA EventQuiet ==
    ASSUME UNCHANGED signaled, \A u \in Threads : Waiter'[u] = Waiter[u]
    PROVE  UNCHANGED Event!vars
  BY DEF Event!vars, Waiter

\* A step that takes one thread from one abstract state to another.
LEMMA OneMoves ==
    ASSUME NEW t \in Threads, \A u \in Threads : u # t => Waiter'[u] = Waiter[u]
    PROVE  Waiter' = [Waiter EXCEPT ![t] = Waiter'[t]]
  BY DEF Waiter

LEMMA StepRefines ==
    ASSUME EventIInv, EventIInv', [EventNext]_eventVars
    PROVE  [Event!Next]_Event!vars
  <1>1. ASSUME NEW t \in Threads, CallMethod(t) \/ Acquire(t) \/ Spurious(t) \/ Timeout(t)
        PROVE  UNCHANGED Event!vars
    <2>1. CASE CallMethod(t)
      BY <2>1, EventQuiet DEF CallMethod, shared, EventIInv, EventTypeOK, Waiter, Inside
    <2>2. CASE Acquire(t)
      BY <2>2, EventQuiet DEF Acquire, EventIInv, EventTypeOK, Fresh, Waiter, Inside
    <2>3. CASE Spurious(t) \/ Timeout(t)
      BY <2>3, EventQuiet DEF Spurious, Timeout, Wake, shared, EventIInv, EventTypeOK, Waiter, Inside
    <2>4. QED
      BY <1>1, <2>1, <2>2, <2>3
  <1>2. ASSUME NEW t \in Threads, BadDeadline(t)
        PROVE  UNCHANGED Event!vars
    BY <1>2, EventQuiet DEF BadDeadline, Return, InBody, EventIInv, EventTypeOK, Waiter, Inside
  <1>3. ASSUME NEW t \in Threads, Signal(t)
        PROVE  Event!Signal
    <2>1. \A u \in Threads : Waiter'[u] = IF Waiter[u] = "out" THEN "out" ELSE "released"
      BY <1>3 DEF Signal, InBody, EventIInv, EventTypeOK, Fresh, Waiter, Inside
    <2>2. QED
      BY <1>3, <2>1 DEF Signal, Event!Signal, Waiter
  <1>4. ASSUME NEW t \in Threads, Reset(t)
        PROVE  Event!Reset
    <2>1. \A u \in Threads : Waiter'[u] = Waiter[u]
      BY <1>4 DEF Reset, Return, InBody, EventIInv, EventTypeOK, Waiter, Inside
    <2>2. QED
      BY <1>4, <2>1 DEF Reset, Event!Reset, Waiter
  <1>5. ASSUME NEW t \in Threads, WaitBegin(t)
        PROVE  Event!Enter(t)
    <2>1. Waiter' = [Waiter EXCEPT ![t] = Waiter'[t]]
      BY <1>5, OneMoves DEF WaitBegin, Sleep, Return, InBody, EventIInv, EventTypeOK, Waiter
    <2>2. Waiter[t] = "out" /\ UNCHANGED signaled
      BY <1>5 DEF WaitBegin, Sleep, Return, InBody, Waiter, Inside
    <2>3. CASE signaled
      <3>1. Waiter'[t] = "released"
        BY <1>5, <2>3 DEF WaitBegin, Return, EventIInv, EventTypeOK, Waiter
      <3>2. QED
        BY <2>1, <2>2, <2>3, <3>1 DEF Event!Enter
    <2>4. CASE ~signaled
      <3>1. Waiter'[t] \in {"waiting", "deadline"}
        BY <1>5, <2>4 DEF WaitBegin, Sleep, InBody, EventIInv, EventTypeOK, Fresh, Waiter, Inside
      <3>2. QED
        BY <2>1, <2>2, <2>4, <3>1 DEF Event!Enter
    <2>5. QED
      BY <2>3, <2>4
  <1>6. ASSUME NEW t \in Threads, Recheck(t)
        PROVE  Event!Leave(t) \/ UNCHANGED Event!vars
    <2>1. CASE t \in timedOut
      <3>1. Waiter' = [Waiter EXCEPT ![t] = Waiter'[t]]
        BY <1>6, <2>1, OneMoves DEF Recheck, Return, EventIInv, EventTypeOK, Waiter
      <3>2. Waiter[t] \in {"released", "deadline"}
        BY <1>6, <2>1 DEF Recheck, EventIInv, TimeoutInv, Waiter, Inside
      <3>3. Waiter'[t] = "out"
        BY <1>6, <2>1 DEF Recheck, Return, EventIInv, EventTypeOK, Waiter, Inside
      <3>4. QED
        BY <1>6, <2>1, <3>1, <3>2, <3>3 DEF Recheck, Event!Leave
    <2>2. CASE t \notin timedOut /\ prev[t] # sigcount
      BY <1>6, <2>2, EventQuiet DEF Recheck, Return, EventIInv, EventTypeOK, CounterTellsSignals, Waiter, Inside
    <2>3. CASE t \notin timedOut /\ prev[t] = sigcount
      BY <1>6, <2>3, EventQuiet DEF Recheck, Sleep, EventIInv, EventTypeOK, Waiter, Inside
    <2>4. QED
      BY <2>1, <2>2, <2>3
  <1>7. ASSUME NEW t \in Threads, Release(t)
        PROVE  Event!Leave(t) \/ UNCHANGED Event!vars
    <2>1. CASE result[t] = "true"
      <3>1. Waiter' = [Waiter EXCEPT ![t] = Waiter'[t]]
        BY <1>7, OneMoves DEF Release, EventIInv, EventTypeOK, Waiter
      <3>2. Waiter[t] = "released" /\ Waiter'[t] = "out"
        BY <1>7, <2>1 DEF Release, EventIInv, EventTypeOK, Waiter, Inside
      <3>3. QED
        BY <1>7, <3>1, <3>2 DEF Release, Event!Leave
    <2>2. CASE result[t] # "true"
      BY <1>7, <2>2, EventQuiet DEF Release, EventIInv, EventTypeOK, Waiter, Inside
    <2>3. QED
      BY <2>1, <2>2
  <1>8. CASE UNCHANGED eventVars
    BY <1>8, EventQuiet DEF eventVars, shared, local, Waiter
  <1>9. ASSUME NEW t \in Threads, Continue(t) PROVE [Event!Next]_Event!vars
    BY <1>9, <1>2, <1>3, <1>4, <1>5, <1>6, <1>7 DEF Continue, Event!Next
  <1>10. QED
    BY <1>1, <1>8, <1>9 DEF EventNext

\* The class is a manual-reset event, for every number of threads: whoever waits
\* when signal() is called is released and stays so, whatever reset() does, and
\* no wait ends otherwise but by its deadline.
THEOREM IsManualResetEvent == EventSpec => Event!Safety
  <1>1. EventSpec => []EventIInv /\ [][EventNext]_eventVars /\ Event!Init
    BY EventInvariance, InitRefines DEF EventSpec
  <1>2. QED
    BY <1>1, StepRefines, PTL DEF Event!Safety

-----------------------------------------------------------------------------
(* NDC. *)

\* The messages of a context, the outermost first.
MessagesOf(s) == [i \in DOMAIN s |-> s[i].message]

\* The pointers of the sound threads and the allocated blocks belong together.
PointersInv ==
    /\ \A t \in Sound : threadLocal[t] # NULL => threadLocal[t] \in allocated
    /\ \A t, u \in Sound : threadLocal[t] = threadLocal[u] /\ threadLocal[t] # NULL => t = u
    /\ \A b \in allocated : \E t \in Sound : threadLocal[t] = b

\* A stack and its copies are chained.
ChainInv == FullMessages(clone) /\ \A b \in allocated : FullMessages(stack[b])

\* How a thread has ended, or lost its NDC.
StatusSound(t) ==
    /\ t \in AbstractThreads /\ status[t] = "ended" => threadLocal[t] = NULL
    /\ status[t] = "undefined" => failed[t] # 0
StatusInv == \A t \in NDCThreads : StatusSound(t)

\* A thread of scopes has the messages of its scopes.
Nests(t) == t \in Scoped \ inherited /\ failed[t] = 0 =>
    /\ MessagesOf(Of(t)) = scopes[t]
    /\ scopes[t] = <<>> => threadLocal[t] = NULL
NestInv == \A t \in NDCThreads : Nests(t)

MemoryOK == /\ threadLocal \in [NDCThreads -> Blocks \cup {NULL}]
            /\ allocated \subseteq Blocks
            /\ stack \in [Blocks -> Stack]

NDCIInv == NDCTypeOK /\ PointersInv /\ ChainInv /\ StatusInv /\ NestInv

-----------------------------------------------------------------------------
USE NDCAssumption DEF NDCAssumption

\* Bounded sequences are sequences, of at most that length.
LEMMA Bounded ==
    ASSUME NEW S, NEW n \in Nat
    PROVE  \A s : s \in BoundedSeq(S, n) <=> s \in Seq(S) /\ Len(s) <= n
  <1>1. ASSUME NEW s, s \in BoundedSeq(S, n) PROVE s \in Seq(S) /\ Len(s) <= n
    <2>1. PICK m \in 0 .. n : s \in [1 .. m -> S]
      BY <1>1 DEF BoundedSeq, SeqOf
    <2> QED
      BY <2>1
  <1>2. ASSUME NEW s \in Seq(S), Len(s) <= n PROVE s \in BoundedSeq(S, n)
    <2>1. s \in [1 .. Len(s) -> S] /\ Len(s) \in 0 .. n
      BY <1>2, LenProperties
    <2> QED
      BY <2>1 DEF BoundedSeq, SeqOf
  <1> QED
    BY <1>1, <1>2

\* What a stack is.
LEMMA StackIs == \A s : s \in Stack <=> s \in Seq(Context) /\ Len(s) <= MaxDepth
  BY Bounded DEF Stack

LEMMA EmptyStack == <<>> \in Stack /\ FullMessages(<<>>)
  <1>1. <<>> \in Seq(Context) /\ Len(<<>>) <= MaxDepth
    BY EmptySeq
  <1>2. <<>> \in Stack
    BY <1>1, StackIs, Zenon
  <1>3. FullMessages(<<>>)
    BY DEF FullMessages
  <1> QED
    BY <1>2, <1>3

LEMMA Chain ==
    ASSUME NEW s \in Stack
    PROVE  /\ MessagesOf(s) \in Seq(Messages) /\ Len(MessagesOf(s)) = Len(s)
           /\ Len(s) \in Nat /\ DOMAIN s = 1 .. Len(s)
           /\ \A i \in 1 .. Len(s) : MessagesOf(s)[i] = s[i].message /\ s[i] \in Context
           /\ FullMessages(s) <=> \A i \in 1 .. Len(s) :
                 s[i].fullMessage = [j \in 1 .. i |-> s[j].message]
  <1>1. s \in Seq(Context) /\ Len(s) \in Nat /\ DOMAIN s = 1 .. Len(s)
    BY StackIs, LenProperties
  <1>2. \A i \in 1 .. Len(s) : s[i] \in Context
    BY <1>1, ElementOfSeq
  <1>3. \A c \in Context : c.message \in Messages
    BY DEF Context
  <1>4. MessagesOf(s) \in [1 .. Len(s) -> Messages]
    BY <1>1, <1>2, <1>3 DEF MessagesOf
  <1> QED
    BY <1>1, <1>2, <1>4 DEF MessagesOf, FullMessages

\* A push extends the chain by its message.
LEMMA PushChains ==
    ASSUME NEW s \in Stack, FullMessages(s), Len(s) < MaxDepth, NEW m \in Messages
    PROVE  LET r == Append(s, Nested(s, m)) IN
           r \in Stack /\ FullMessages(r) /\ MessagesOf(r) = Append(MessagesOf(s), m)
  <1> DEFINE n == Len(s)
             f == IF s = <<>> THEN <<m>> ELSE Append(Last(s).fullMessage, m)
             r == Append(s, Nested(s, m))
  <1>1. n \in Nat /\ s \in Seq(Context) /\ n < MaxDepth /\ MessagesOf(s) \in Seq(Messages)
        /\ Len(MessagesOf(s)) = n /\ \A i \in 1 .. n : MessagesOf(s)[i] = s[i].message
    BY Chain, StackIs
  <1>2. f = Append(MessagesOf(s), m)
    <2>1. CASE s = <<>>
      <3>1. MessagesOf(s) = <<>>
        BY <1>1, <2>1
      <3> QED
        BY <2>1, <3>1
    <2>2. CASE s # <<>>
      <3>1. n \in 1 .. n
        BY <1>1, <2>2
      <3>2. Last(s).fullMessage = [j \in 1 .. n |-> s[j].message]
        BY <3>1, Chain DEF Last
      <3>3. MessagesOf(s) = [j \in 1 .. n |-> s[j].message]
        BY Chain DEF MessagesOf
      <3> QED
        BY <2>2, <3>2, <3>3
    <2> QED
      BY <2>1, <2>2
  <1> HIDE DEF f
  <1>3. f \in Seq(Messages) /\ Len(f) = n + 1 /\ f[n + 1] = m
        /\ \A i \in 1 .. n : f[i] = s[i].message
    <2> DEFINE g == MessagesOf(s)
    <2>1. g \in Seq(Messages) /\ Len(g) = n /\ f = Append(g, m)
          /\ \A i \in 1 .. n : g[i] = s[i].message
      BY <1>1, <1>2
    <2> HIDE DEF g
    <2> QED
      BY <1>1, <2>1, AppendProperties
  <1>4. Nested(s, m) = [message |-> m, fullMessage |-> f]
    BY DEF Nested, f
  <1>5. Nested(s, m) \in Context
    BY <1>1, <1>3, <1>4, Bounded DEF Context
  <1>6. r \in Seq(Context) /\ Len(r) = n + 1 /\ r[n + 1] = Nested(s, m)
        /\ \A i \in 1 .. n : r[i] = s[i]
    BY <1>1, <1>5, AppendProperties
  <1> HIDE DEF r
  <1>7. r \in Stack
    BY <1>1, <1>6, StackIs
  <1>8. \A i \in 1 .. n + 1 : r[i].message = f[i]
    BY <1>1, <1>3, <1>4, <1>6
  <1>9. MessagesOf(r) = f
    <2>1. MessagesOf(r) \in Seq(Messages) /\ Len(MessagesOf(r)) = n + 1
          /\ \A i \in 1 .. n + 1 : MessagesOf(r)[i] = f[i]
      BY <1>6, <1>7, <1>8, Chain
    <2> QED
      BY <2>1, <1>3, SeqEqual
  <1>10. FullMessages(r)
    <2> SUFFICES ASSUME NEW i \in 1 .. n + 1
                 PROVE  r[i].fullMessage = [j \in 1 .. i |-> r[j].message]
      BY <1>6, <1>7, Chain
    <2>1. CASE i \in 1 .. n
      <3>1. s[i].fullMessage = [j \in 1 .. i |-> s[j].message]
        BY <2>1, Chain
      <3>2. \A j \in 1 .. i : r[j] = s[j]
        BY <1>1, <1>6, <2>1
      <3> QED
        BY <1>6, <2>1, <3>1, <3>2
    <2>2. CASE i = n + 1
      <3>1. f = [j \in 1 .. n + 1 |-> f[j]]
        BY <1>3
      <3>2. f = [j \in 1 .. n + 1 |-> r[j].message]
        BY <1>8, <3>1
      <3>3. r[i].fullMessage = f
        BY <1>4, <1>6, <2>2
      <3> QED
        BY <2>2, <3>2, <3>3
    <2> QED
      BY <1>1, <2>1, <2>2
  <1> QED
    BY <1>2, <1>7, <1>9, <1>10 DEF r

\* What is left of a chain behind a pop or a truncation.
LEMMA PrefixChained ==
    ASSUME NEW s \in Stack, FullMessages(s), NEW n \in 0 .. Len(s)
    PROVE  LET r == SubSeq(s, 1, n) IN
           r \in Stack /\ FullMessages(r) /\ MessagesOf(r) = SubSeq(MessagesOf(s), 1, n)
  <1> DEFINE r == SubSeq(s, 1, n)
  <1>1. s \in Seq(Context) /\ Len(s) \in Nat /\ Len(s) <= MaxDepth /\ n \in Nat /\ n <= Len(s)
        /\ \A i \in 1 .. Len(s) : s[i] \in Context
    BY Chain, StackIs
  <1>2. r \in Seq(Context) /\ Len(r) = n /\ \A i \in 1 .. n : r[i] = s[i]
    BY <1>1, SubSeqProperties
  <1> HIDE DEF r
  <1>3. r \in Stack
    BY <1>1, <1>2, StackIs
  <1>4. FullMessages(r)
    <2> SUFFICES ASSUME NEW i \in 1 .. n
                 PROVE  r[i].fullMessage = [j \in 1 .. i |-> r[j].message]
      BY <1>2, <1>3, Chain
    <2>1. s[i].fullMessage = [j \in 1 .. i |-> s[j].message]
      BY <1>1, Chain
    <2>2. \A j \in 1 .. i : r[j] = s[j]
      BY <1>1, <1>2
    <2> QED
      BY <1>2, <2>1, <2>2
  <1>5. MessagesOf(r) = SubSeq(MessagesOf(s), 1, n)
    <2>1. MessagesOf(s) \in Seq(Messages) /\ Len(MessagesOf(s)) = Len(s)
          /\ \A i \in 1 .. Len(s) : MessagesOf(s)[i] = s[i].message
      BY Chain
    <2>2. SubSeq(MessagesOf(s), 1, n) \in Seq(Messages)
          /\ Len(SubSeq(MessagesOf(s), 1, n)) = n
          /\ \A i \in 1 .. n : SubSeq(MessagesOf(s), 1, n)[i] = MessagesOf(s)[i]
      BY <1>1, <2>1, SubSeqProperties
    <2>3. MessagesOf(r) \in Seq(Messages) /\ Len(MessagesOf(r)) = n
          /\ \A i \in 1 .. n : MessagesOf(r)[i] = s[i].message
      BY <1>2, <1>3, Chain
    <2> QED
      BY <1>1, <2>1, <2>2, <2>3, SeqEqual
  <1> QED
    BY <1>3, <1>4, <1>5 DEF r

-----------------------------------------------------------------------------
(* What a running thread does to its own stack leaves the others alone.    *)

LEMMA RunningOwns ==
    ASSUME NDCIInv, NEW t \in NDCThreads, Running(t)
    PROVE  /\ t \in Sound /\ Of(t) \in Stack /\ FullMessages(Of(t))
           /\ threadLocal[t] # NULL => threadLocal[t] \in allocated /\ threadLocal[t] \in Blocks
                                       /\ Of(t) = stack[threadLocal[t]]
  <1>1. t \in Sound
    BY DEF Running, Sound
  <1>2. threadLocal[t] # NULL => threadLocal[t] \in allocated /\ threadLocal[t] \in Blocks
    BY <1>1 DEF NDCIInv, PointersInv, NDCTypeOK
  <1>3. <<>> \in Stack /\ FullMessages(<<>>)
    BY EmptyStack
  <1> QED
    BY <1>1, <1>2, <1>3 DEF Of, NDCIInv, NDCTypeOK, ChainInv

\* t has changed its pointer to p and its stack to s.
Turned(t, p, s) ==
    /\ threadLocal'[t] = p /\ Of(t)' = s
    /\ \A u \in NDCThreads \ {t} : threadLocal'[u] = threadLocal[u] /\ (u \in Sound => Of(u)' = Of(u))

LEMMA AllocateStep ==
    ASSUME NDCIInv, NEW t \in NDCThreads, Running(t), threadLocal[t] = NULL, Sound' = Sound,
           clone' = clone, NEW s \in Stack, FullMessages(s), Allocate(t, s)
    PROVE  MemoryOK' /\ PointersInv' /\ ChainInv' /\ \E b \in Blocks : Turned(t, b, s)
  <1>1. PICK b \in Blocks \ allocated :
           /\ threadLocal' = [threadLocal EXCEPT ![t] = b]
           /\ allocated' = allocated \cup {b}
           /\ stack' = [stack EXCEPT ![b] = s]
    BY DEF Allocate
  <1>2. MemoryOK'
    BY <1>1 DEF NDCIInv, NDCTypeOK, MemoryOK
  <1>3. PointersInv'
    BY <1>1, RunningOwns DEF NDCIInv, NDCTypeOK, PointersInv, Sound
  <1>4. ChainInv'
    BY <1>1 DEF NDCIInv, NDCTypeOK, ChainInv
  <1>5. Turned(t, b, s)
    BY <1>1 DEF NDCIInv, NDCTypeOK, PointersInv, Turned, Of, Sound
  <1> QED
    BY <1>2, <1>3, <1>4, <1>5

LEMMA FreeStep ==
    ASSUME NDCIInv, NEW t \in NDCThreads, Running(t), Sound' = Sound, clone' = clone, Free(t)
    PROVE  MemoryOK' /\ PointersInv' /\ ChainInv' /\ Turned(t, NULL, <<>>)
  <1>1. <<>> \in Stack
    BY EmptyStack
  <1>2. MemoryOK'
    BY <1>1 DEF NDCIInv, NDCTypeOK, MemoryOK, Free
  <1>3. PointersInv'
    BY RunningOwns DEF NDCIInv, NDCTypeOK, PointersInv, Sound, Free
  <1>4. ChainInv'
    BY DEF NDCIInv, NDCTypeOK, ChainInv, Free
  <1>5. Turned(t, NULL, <<>>)
    BY RunningOwns DEF NDCIInv, NDCTypeOK, PointersInv, Turned, Of, Sound, Free
  <1> QED
    BY <1>2, <1>3, <1>4, <1>5

LEMMA UpdateStep ==
    ASSUME NDCIInv, NEW t \in NDCThreads, Running(t), threadLocal[t] # NULL, Sound' = Sound,
           clone' = clone, NEW s \in Stack, FullMessages(s), Update(t, s)
    PROVE  MemoryOK' /\ PointersInv' /\ ChainInv' /\ Turned(t, threadLocal[t], s)
  <1>1. MemoryOK'
    BY RunningOwns DEF NDCIInv, NDCTypeOK, MemoryOK, Update
  <1>2. PointersInv'
    BY DEF NDCIInv, PointersInv, Update
  <1>3. ChainInv'
    BY RunningOwns DEF NDCIInv, NDCTypeOK, ChainInv, Update
  <1>4. Turned(t, threadLocal[t], s)
    BY RunningOwns DEF NDCIInv, NDCTypeOK, PointersInv, Turned, Of, Sound, Update
  <1> QED
    BY <1>1, <1>2, <1>3, <1>4

LEMMA UnchangedStep ==
    ASSUME NDCIInv, NEW t \in NDCThreads, Sound' = Sound, clone' = clone, Unchanged
    PROVE  MemoryOK' /\ PointersInv' /\ ChainInv' /\ Turned(t, threadLocal[t], Of(t))
  BY DEF NDCIInv, NDCTypeOK, MemoryOK, PointersInv, ChainInv, Turned, Unchanged, Of

\* What remains to be shown of a step of t.
LEMMA OwnStep ==
    ASSUME NDCIInv, NEW t \in NDCThreads, NDCTypeOK', PointersInv', ChainInv', NEW p, NEW s, Turned(t, p, s),
           \A u \in NDCThreads \ {t} : /\ status'[u] = status[u] /\ scopes'[u] = scopes[u]
                                    /\ failed'[u] = failed[u] /\ (u \in inherited' <=> u \in inherited),
           StatusSound(t)', Nests(t)'
    PROVE  NDCIInv'
  <1>1. ASSUME NEW u \in NDCThreads \ {t} PROVE StatusSound(u)' /\ Nests(u)'
    <2>1. StatusSound(u)'
      BY DEF NDCIInv, StatusInv, StatusSound, Turned
    <2>2. failed[u] = 0 => u \in Sound
      BY DEF NDCIInv, StatusInv, StatusSound, Sound
    <2>3. Nests(u)'
      BY <2>2 DEF NDCIInv, NestInv, Nests, Turned, MessagesOf
    <2> QED
      BY <2>1, <2>3
  <1> QED
    BY <1>1 DEF NDCIInv, StatusInv, NestInv

-----------------------------------------------------------------------------
(* The steps. *)

LEMMA Begun == NDCInit => NDCIInv
  <1> SUFFICES ASSUME NDCInit PROVE NDCIInv
    OBVIOUS
  <1>1. NDCTypeOK
    <2>0. <<>> \in Seq(Messages) /\ Len(<<>>) <= MaxDepth
      BY EmptySeq
    <2>1. <<>> \in BoundedSeq(Messages, MaxDepth)
      BY <2>0, Bounded, Zenon
    <2>2. scopes \in [NDCThreads -> BoundedSeq(Messages, MaxDepth)]
      BY <2>1 DEF NDCInit
    <2> QED
      BY <2>2, EmptyStack DEF NDCInit, NDCTypeOK
  <1>2. PointersInv /\ ChainInv /\ StatusInv
    BY EmptyStack DEF NDCInit, PointersInv, ChainInv, StatusInv, StatusSound, Sound
  <1>3. NestInv
    <2>1. \A t \in NDCThreads : Of(t) = <<>> /\ scopes[t] = <<>> /\ threadLocal[t] = NULL
      BY DEF NDCInit, Of
    <2>2. MessagesOf(<<>>) = <<>>
      BY DEF MessagesOf
    <2> QED
      BY <2>1, <2>2 DEF NestInv, Nests
  <1> QED
    BY <1>1, <1>2, <1>3 DEF NDCIInv

\* What a push leaves behind: its message on top, or nothing new if it failed.
LEMMA TryPushStep ==
    ASSUME NDCIInv, NEW t \in NDCThreads, Running(t), NEW m \in Messages, Len(Of(t)) < MaxDepth,
           TryPush(t, m), UNCHANGED <<clone, status>>
    PROVE  /\ MemoryOK' /\ PointersInv' /\ ChainInv'
           /\ \E p \in Blocks \cup {NULL}, s \in Stack :
                 /\ Turned(t, p, s)
                 /\ failed'[t] # 0 \/ (p # NULL /\ MessagesOf(s) = Append(MessagesOf(Of(t)), m))
           /\ failed' \in [NDCThreads -> 0 .. MaxFailures]
           /\ \A u \in NDCThreads : failed[u] # 0 => failed'[u] # 0
           /\ \A u \in NDCThreads \ {t} : failed'[u] = failed[u]
  <1> DEFINE s == Append(Of(t), Nested(Of(t), m))
  <1>0. Sound' = Sound /\ clone' = clone
    BY DEF Sound
  <1>1. s \in Stack /\ FullMessages(s) /\ MessagesOf(s) = Append(MessagesOf(Of(t)), m)
    BY RunningOwns, PushChains
  <1>2. ASSUME DoPush(t, m), UNCHANGED failed
        PROVE  /\ MemoryOK' /\ PointersInv' /\ ChainInv'
               /\ \E p \in Blocks : Turned(t, p, s)
    <2>1. CASE threadLocal[t] = NULL
      <3>1. s = <<Nested(<<>>, m)>>
        BY <2>1 DEF Of
      <3> QED
        BY <1>0, <1>1, <1>2, <2>1, <3>1, AllocateStep DEF DoPush
    <2>2. CASE threadLocal[t] # NULL
      BY <1>0, <1>1, <1>2, <2>2, RunningOwns, UpdateStep DEF DoPush
    <2> QED
      BY <2>1, <2>2
  <1>3. ASSUME DoPushFails(t)
        PROVE  /\ MemoryOK' /\ PointersInv' /\ ChainInv'
               /\ \E p \in Blocks \cup {NULL}, r \in Stack : Turned(t, p, r)
               /\ failed'[t] # 0
    <2>1. failed'[t] # 0
      BY <1>3 DEF DoPushFails, BadAlloc, NDCIInv, NDCTypeOK
    <2>2. CASE Allocate(t, <<>>) /\ threadLocal[t] = NULL
      BY <1>0, <2>1, <2>2, EmptyStack, AllocateStep
    <2>3. CASE Unchanged
      BY <1>0, <2>1, <2>3, UnchangedStep, RunningOwns DEF NDCIInv, NDCTypeOK
    <2> QED
      BY <1>3, <2>2, <2>3 DEF DoPushFails
  <1>4. /\ failed' \in [NDCThreads -> 0 .. MaxFailures]
        /\ \A u \in NDCThreads : failed[u] # 0 => failed'[u] # 0
        /\ \A u \in NDCThreads \ {t} : failed'[u] = failed[u]
    BY DEF TryPush, DoPushFails, BadAlloc, NDCIInv, NDCTypeOK
  <1> HIDE DEF s
  <1> QED
    BY <1>1, <1>2, <1>3, <1>4 DEF TryPush

\* A pop takes the innermost message, unless it fails.
LEMMA TryPopStep ==
    ASSUME NDCIInv, NEW t \in NDCThreads, Running(t), TryPop(t), UNCHANGED <<clone, status>>
    PROVE  /\ MemoryOK' /\ PointersInv' /\ ChainInv'
           /\ \E p \in Blocks \cup {NULL}, s \in Stack :
                 /\ Turned(t, p, s)
                 /\ \/ failed'[t] # 0
                    \/ Of(t) = <<>>
                    \/ /\ MessagesOf(s) = Front(MessagesOf(Of(t)))
                       /\ Len(Of(t)) = 1 => p = NULL
           /\ failed' \in [NDCThreads -> 0 .. MaxFailures]
           /\ \A u \in NDCThreads : failed[u] # 0 => failed'[u] # 0
           /\ \A u \in NDCThreads \ {t} : failed'[u] = failed[u]
  <1> DEFINE s == Front(Of(t))
  <1>0. Sound' = Sound /\ clone' = clone
    BY DEF Sound
  <1>1. ASSUME Of(t) # <<>>
        PROVE  s \in Stack /\ FullMessages(s) /\ MessagesOf(s) = Front(MessagesOf(Of(t)))
               /\ Len(Of(t)) \in Nat \ {0} /\ (Len(Of(t)) = 1 => s = <<>>)
    <2>1. Of(t) \in Stack /\ FullMessages(Of(t)) /\ Len(Of(t)) \in Nat \ {0}
          /\ Len(MessagesOf(Of(t))) = Len(Of(t))
      BY <1>1, RunningOwns, Chain, StackIs, EmptySeq
    <2>2. Len(Of(t)) - 1 \in 0 .. Len(Of(t))
      BY <2>1
    <2>3. s \in Stack /\ FullMessages(s) /\ MessagesOf(s) = Front(MessagesOf(Of(t)))
      BY <2>1, <2>2, PrefixChained DEF Front
    <2>4. ASSUME Len(Of(t)) = 1 PROVE s = <<>>
      BY <2>4, SubSeqEmpty DEF Front
    <2> QED
      BY <2>1, <2>3, <2>4
  <1>2. ASSUME DoPop(t)
        PROVE  /\ MemoryOK' /\ PointersInv' /\ ChainInv'
               /\ \E p \in Blocks \cup {NULL}, r \in Stack :
                     /\ Turned(t, p, r)
                     /\ Of(t) = <<>> \/ (r = s /\ (Len(Of(t)) = 1 => p = NULL))
    <2>1. CASE Of(t) = <<>>
      BY <1>0, <1>2, <2>1, UnchangedStep, RunningOwns DEF DoPop, NDCIInv, NDCTypeOK
    <2>2. CASE Of(t) # <<>> /\ Len(Of(t)) = 1
      BY <1>0, <1>1, <1>2, <2>2, FreeStep, EmptyStack DEF DoPop
    <2>3. CASE Of(t) # <<>> /\ Len(Of(t)) # 1
      <3>1. threadLocal[t] # NULL /\ Update(t, s)
        BY <1>2, <2>3 DEF DoPop, Of
      <3> QED
        BY <1>0, <1>1, <2>3, <3>1, UpdateStep, RunningOwns
    <2> QED
      BY <2>1, <2>2, <2>3
  <1>3. ASSUME DoPopFails(t)
        PROVE  /\ MemoryOK' /\ PointersInv' /\ ChainInv'
               /\ \E p \in Blocks \cup {NULL}, r \in Stack : Turned(t, p, r)
               /\ failed'[t] # 0
    <2>1. failed'[t] # 0
      BY <1>3 DEF DoPopFails, BadAlloc, NDCIInv, NDCTypeOK
    <2> QED
      BY <1>0, <1>3, <2>1, UnchangedStep, RunningOwns DEF DoPopFails, NDCIInv, NDCTypeOK
  <1>4. /\ failed' \in [NDCThreads -> 0 .. MaxFailures]
        /\ \A u \in NDCThreads : failed[u] # 0 => failed'[u] # 0
        /\ \A u \in NDCThreads \ {t} : failed'[u] = failed[u]
    BY DEF TryPop, DoPopFails, BadAlloc, NDCIInv, NDCTypeOK
  <1> HIDE DEF s
  <1> QED
    BY <1>1, <1>2, <1>3, <1>4 DEF TryPop

LEMMA PushStep == ASSUME NDCIInv, NEW t \in NDCThreads, Push(t) PROVE NDCIInv'
  <1>1. PICK m \in Messages : TryPush(t, m)
    BY DEF Push
  <1>2. /\ Running(t) /\ t \notin Scoped /\ Len(Of(t)) < MaxDepth
        /\ UNCHANGED <<clone, scopes, status, inherited>>
    BY DEF Push
  <1>3. NDCTypeOK'
    BY <1>1, <1>2, TryPushStep DEF NDCIInv, NDCTypeOK, MemoryOK
  <1>4. StatusSound(t)' /\ Nests(t)'
    BY <1>1, <1>2, TryPushStep DEF NDCIInv, StatusInv, StatusSound, Nests, Running
  <1> QED
    BY <1>1, <1>2, <1>3, <1>4, TryPushStep, OwnStep

LEMMA PopStep == ASSUME NDCIInv, NEW t \in NDCThreads, Pop(t) PROVE NDCIInv'
  <1>1. /\ Running(t) /\ t \notin Scoped /\ TryPop(t)
        /\ UNCHANGED <<clone, scopes, status, inherited>>
    BY DEF Pop
  <1>2. NDCTypeOK'
    BY <1>1, TryPopStep DEF NDCIInv, NDCTypeOK, MemoryOK
  <1>3. StatusSound(t)' /\ Nests(t)'
    BY <1>1, TryPopStep DEF NDCIInv, StatusInv, StatusSound, Nests, Running
  <1> QED
    BY <1>1, <1>2, <1>3, TryPopStep, OwnStep

\* The scopes of a thread are a bounded sequence of messages.
LEMMA ScopesAre ==
    ASSUME NDCIInv, NEW t \in NDCThreads
    PROVE  scopes[t] \in Seq(Messages) /\ Len(scopes[t]) \in Nat /\ Len(scopes[t]) <= MaxDepth
  <1>1. scopes[t] \in BoundedSeq(Messages, MaxDepth)
    BY DEF NDCIInv, NDCTypeOK
  <1>2. scopes[t] \in Seq(Messages) /\ Len(scopes[t]) <= MaxDepth
    BY <1>1, Bounded
  <1> QED
    BY <1>2, LenProperties

LEMMA EnterScopeStep == ASSUME NDCIInv, NEW t \in NDCThreads, EnterScope(t) PROVE NDCIInv'
  <1>1. PICK m \in Messages : TryPush(t, m) /\ scopes' = [scopes EXCEPT ![t] = Append(@, m)]
    BY DEF EnterScope
  <1>2. /\ Running(t) /\ Len(Of(t)) < MaxDepth /\ Len(scopes[t]) < MaxDepth
        /\ UNCHANGED <<clone, status, inherited>>
    BY DEF EnterScope
  <1>3. /\ Append(scopes[t], m) \in Seq(Messages) /\ Append(scopes[t], m) # <<>>
        /\ Len(Append(scopes[t], m)) = Len(scopes[t]) + 1
    BY ScopesAre, AppendProperties
  <1>4. /\ scopes'[t] = Append(scopes[t], m) /\ scopes'[t] # <<>>
        /\ \A u \in NDCThreads \ {t} : scopes'[u] = scopes[u]
    BY <1>1, <1>3 DEF NDCIInv, NDCTypeOK
  <1>5. scopes' \in [NDCThreads -> BoundedSeq(Messages, MaxDepth)]
    <2>1. Len(Append(scopes[t], m)) <= MaxDepth
      BY <1>2, <1>3, ScopesAre
    <2>2. Append(scopes[t], m) \in BoundedSeq(Messages, MaxDepth)
      BY <1>3, <2>1, Bounded
    <2> QED
      BY <1>1, <2>2 DEF NDCIInv, NDCTypeOK
  <1>6. NDCTypeOK'
    BY <1>1, <1>2, <1>5, TryPushStep DEF NDCIInv, NDCTypeOK, MemoryOK
  <1>7. PICK p \in Blocks \cup {NULL}, s \in Stack :
          /\ Turned(t, p, s)
          /\ failed'[t] # 0 \/ (p # NULL /\ MessagesOf(s) = Append(MessagesOf(Of(t)), m))
    BY <1>1, <1>2, TryPushStep
  <1>8. StatusSound(t)'
    BY <1>2 DEF StatusSound, Running
  <1>9. Nests(t)'
    <2> SUFFICES ASSUME t \in Scoped \ inherited, failed'[t] = 0
                 PROVE  MessagesOf(Of(t)') = scopes'[t] /\ scopes'[t] # <<>>
      BY <1>2 DEF Nests, MessagesOf
    <2>1. failed[t] = 0
      BY <1>1, <1>2, TryPushStep
    <2>2. MessagesOf(Of(t)) = scopes[t]
      BY <2>1 DEF NDCIInv, NestInv, Nests
    <2> QED
      BY <1>4, <1>7, <2>2 DEF Turned
  <1> QED
    BY <1>1, <1>2, <1>4, <1>6, <1>7, <1>8, <1>9, TryPushStep, OwnStep

LEMMA LeaveScopeStep == ASSUME NDCIInv, NEW t \in NDCThreads, LeaveScope(t) PROVE NDCIInv'
  <1>1. /\ Running(t) /\ scopes[t] # <<>> /\ TryPop(t)
        /\ scopes' = [scopes EXCEPT ![t] = Front(@)]
        /\ UNCHANGED <<clone, status, inherited>>
    BY DEF LeaveScope
  <1>2. Len(scopes[t]) \in Nat \ {0} /\ scopes[t] \in Seq(Messages)
        /\ Len(scopes[t]) <= MaxDepth
    BY <1>1, ScopesAre, EmptySeq
  <1>3. /\ Front(scopes[t]) \in Seq(Messages) /\ Len(Front(scopes[t])) = Len(scopes[t]) - 1
    <2>1. \A i \in 1 .. Len(scopes[t]) - 1 : scopes[t][i] \in Messages
      BY <1>2, ElementOfSeq
    <2>2. Len(scopes[t]) - 1 \in Int
      BY <1>2
    <2> QED
      BY <1>2, <2>1, <2>2, SubSeqProperties DEF Front
  <1>4. /\ scopes'[t] = Front(scopes[t])
        /\ \A u \in NDCThreads \ {t} : scopes'[u] = scopes[u]
    BY <1>1 DEF NDCIInv, NDCTypeOK
  <1>5. scopes' \in [NDCThreads -> BoundedSeq(Messages, MaxDepth)]
    <2>1. Front(scopes[t]) \in BoundedSeq(Messages, MaxDepth)
      BY <1>2, <1>3, Bounded
    <2> QED
      BY <1>1, <2>1 DEF NDCIInv, NDCTypeOK
  <1>6. NDCTypeOK'
    BY <1>1, <1>5, TryPopStep DEF NDCIInv, NDCTypeOK, MemoryOK
  <1>7. PICK p \in Blocks \cup {NULL}, s \in Stack :
          /\ Turned(t, p, s)
          /\ \/ failed'[t] # 0
             \/ Of(t) = <<>>
             \/ MessagesOf(s) = Front(MessagesOf(Of(t))) /\ (Len(Of(t)) = 1 => p = NULL)
    BY <1>1, TryPopStep
  <1>8. StatusSound(t)'
    BY <1>1 DEF StatusSound, Running
  <1>9. Nests(t)'
    <2> SUFFICES ASSUME t \in Scoped \ inherited, failed'[t] = 0
                 PROVE  MessagesOf(Of(t)') = scopes'[t] /\ (scopes'[t] = <<>> => threadLocal'[t] = NULL)
      BY <1>1 DEF Nests, MessagesOf
    <2>1. failed[t] = 0
      BY <1>1, TryPopStep
    <2>2. MessagesOf(Of(t)) = scopes[t]
      BY <2>1 DEF NDCIInv, NestInv, Nests
    <2>3. Of(t) # <<>> /\ Len(Of(t)) = Len(scopes[t])
      BY <1>1, <1>2, <2>2, RunningOwns, Chain, EmptyStack, EmptySeq
    <2>4. scopes'[t] = <<>> => Len(Of(t)) = 1
      BY <1>2, <1>3, <1>4, <2>3, EmptySeq
    <2> QED
      BY <1>4, <1>7, <2>2, <2>3, <2>4 DEF Turned
  <1> QED
    BY <1>1, <1>4, <1>6, <1>7, <1>8, <1>9, TryPopStep, OwnStep

LEMMA SetMaxDepthStep ==
    ASSUME NDCIInv, NEW t \in NDCThreads, NEW n \in 0 .. MaxDepth, SetMaxDepth(t, n)
    PROVE  NDCIInv'
  <1> DEFINE s == SubSeq(Of(t), 1, n)
  <1>1. /\ Running(t) /\ t \notin Scoped /\ threadLocal[t] # NULL /\ n < Len(Of(t))
        /\ Update(t, s) /\ UNCHANGED <<clone, scopes, status, inherited, failed>> /\ Sound' = Sound
    BY DEF SetMaxDepth, history, Sound
  <1>2. s \in Stack /\ FullMessages(s)
    <2>1. n \in 0 .. Len(Of(t))
      BY <1>1, RunningOwns, Chain
    <2> QED
      BY <1>1, <2>1, RunningOwns, PrefixChained
  <1> HIDE DEF s
  <1>3. MemoryOK' /\ PointersInv' /\ ChainInv' /\ Turned(t, threadLocal[t], s)
    BY <1>1, <1>2, UpdateStep
  <1>4. NDCTypeOK' /\ StatusSound(t)' /\ Nests(t)'
    BY <1>1, <1>3 DEF NDCIInv, NDCTypeOK, MemoryOK, StatusSound, Nests, Running
  <1> QED
    BY <1>1, <1>3, <1>4, OwnStep

LEMMA ClearStep == ASSUME NDCIInv, NEW t \in NDCThreads, Clear(t) PROVE NDCIInv'
  <1>1. /\ Running(t) /\ t \notin Scoped /\ Free(t)
        /\ UNCHANGED <<clone, scopes, status, inherited, failed>> /\ Sound' = Sound
    BY DEF Clear, history, Sound
  <1>2. MemoryOK' /\ PointersInv' /\ ChainInv' /\ Turned(t, NULL, <<>>)
    BY <1>1, FreeStep
  <1>3. NDCTypeOK' /\ StatusSound(t)' /\ Nests(t)'
    BY <1>1, <1>2 DEF NDCIInv, NDCTypeOK, MemoryOK, StatusSound, Nests, Running
  <1> QED
    BY <1>1, <1>2, <1>3, OwnStep

LEMMA CloneStackStep == ASSUME NDCIInv, NEW t \in NDCThreads, CloneStack(t) PROVE NDCIInv'
  <1>1. /\ Running(t) /\ Unchanged /\ UNCHANGED <<scopes, status, inherited>>
        /\ failed' \in [NDCThreads -> 0 .. MaxFailures]
        /\ \A u \in NDCThreads : failed[u] # 0 => failed'[u] # 0
        /\ \A u \in NDCThreads \ {t} : failed'[u] = failed[u]
    BY DEF CloneStack, BadAlloc, NDCIInv, NDCTypeOK
  <1>2. clone' \in Stack /\ FullMessages(clone')
    BY <1>1, RunningOwns, EmptyStack DEF CloneStack
  <1>3. MemoryOK' /\ PointersInv' /\ ChainInv' /\ Turned(t, threadLocal[t], Of(t))
    BY <1>1, <1>2 DEF NDCIInv, NDCTypeOK, MemoryOK, PointersInv, ChainInv, Turned, Unchanged, Of, Sound
  <1>4. NDCTypeOK'
    BY <1>1, <1>2, <1>3 DEF NDCIInv, NDCTypeOK, MemoryOK
  <1>5. StatusSound(t)' /\ Nests(t)'
    <2>1. StatusSound(t) /\ Nests(t)
      BY DEF NDCIInv, StatusInv, NestInv
    <2>2. StatusSound(t)'
      BY <1>1, <1>3, <2>1 DEF StatusSound, Running
    <2>3. Nests(t)'
      BY <1>1, <1>3, <2>1 DEF Nests, Turned, MessagesOf
    <2> QED
      BY <2>2, <2>3
  <1> QED
    BY <1>1, <1>3, <1>4, <1>5, OwnStep

\* The old stack is gone and t has a new one, or the same address again.
LEMMA InheritStep == ASSUME NDCIInv, NEW t \in NDCThreads, Inherit(t) PROVE NDCIInv'
  <1>1. PICK b \in (Blocks \ allocated) \cup {threadLocal[t]} :
          /\ b # NULL
          /\ threadLocal' = [threadLocal EXCEPT ![t] = b]
          /\ allocated' = (allocated \ {threadLocal[t]}) \cup {b}
          /\ stack' = [c \in Blocks |-> IF c = b THEN clone
                                        ELSE IF c = threadLocal[t] THEN <<>> ELSE stack[c]]
    BY DEF Inherit
  <1>2. /\ Running(t) /\ inherited' = inherited \cup {t}
        /\ UNCHANGED <<clone, scopes, status, failed>> /\ Sound' = Sound
    BY DEF Inherit, Sound
  <1>3. b \in Blocks /\ t \in Sound /\ (b \in allocated => b = threadLocal[t])
    BY <1>1, <1>2, RunningOwns
  <1>4. NDCTypeOK'
    BY <1>1, <1>2, <1>3, EmptyStack DEF NDCIInv, NDCTypeOK
  <1>5. PointersInv'
    BY <1>1, <1>2, <1>3 DEF NDCIInv, NDCTypeOK, PointersInv, Sound
  <1>6. ChainInv'
    BY <1>1, <1>2, <1>3 DEF NDCIInv, NDCTypeOK, ChainInv
  <1>7. Turned(t, b, clone)
    BY <1>1, <1>2, <1>3 DEF NDCIInv, NDCTypeOK, PointersInv, Turned, Of, Sound
  <1>8. StatusSound(t)' /\ Nests(t)'
    BY <1>2 DEF StatusSound, Nests, Running
  <1> QED
    BY <1>2, <1>4, <1>5, <1>6, <1>7, <1>8, OwnStep

\* A dangling pointer makes t unsound; nobody else had its block.
LEMMA InheritFailsStep == ASSUME NDCIInv, NEW t \in NDCThreads, InheritFails(t) PROVE NDCIInv'
  <1>1. /\ Running(t) /\ failed[t] < MaxFailures /\ failed' = [failed EXCEPT ![t] = @ + 1]
        /\ allocated' = allocated \ {threadLocal[t]}
        /\ stack' = [b \in Blocks |-> IF b = threadLocal[t] THEN <<>> ELSE stack[b]]
        /\ status' = [status EXCEPT ![t] = IF threadLocal[t] = NULL THEN @ ELSE "undefined"]
        /\ UNCHANGED <<threadLocal, clone, scopes, inherited>>
    BY DEF InheritFails, BadAlloc
  <1>2. /\ failed' \in [NDCThreads -> 0 .. MaxFailures] /\ failed'[t] # 0
        /\ \A u \in NDCThreads \ {t} : failed'[u] = failed[u] /\ status'[u] = status[u]
        /\ status'[t] = IF threadLocal[t] = NULL THEN "running" ELSE "undefined"
        /\ status' \in [NDCThreads -> {"running", "ended", "undefined"}]
    BY <1>1 DEF NDCIInv, NDCTypeOK, Running
  <1>3. t \in Sound /\ \A u \in NDCThreads : u \in Sound' <=> u \in Sound /\ (u = t => threadLocal[t] = NULL)
    BY <1>2, RunningOwns, <1>1 DEF Sound
  <1>4. NDCTypeOK'
    BY <1>1, <1>2, EmptyStack DEF NDCIInv, NDCTypeOK
  <1>5. PointersInv'
    <2>1. \A u \in Sound' : u \in Sound /\ u \in NDCThreads
      BY <1>3 DEF Sound
    <2> QED
      BY <1>1, <1>3, <2>1 DEF NDCIInv, NDCTypeOK, PointersInv, Sound
  <1>6. ChainInv'
    BY <1>1 DEF NDCIInv, NDCTypeOK, ChainInv
  <1>7. Turned(t, threadLocal[t], Of(t)')
    <2>1. \A u \in Sound : u # t /\ threadLocal[u] # NULL => threadLocal[u] # threadLocal[t]
      BY <1>3 DEF NDCIInv, PointersInv
    <2>2. \A u \in Sound \ {t} : Of(u)' = Of(u)
      BY <1>1, <2>1 DEF NDCIInv, NDCTypeOK, Of, Sound
    <2> QED
      BY <1>1, <2>2 DEF Turned
  <1>8. StatusSound(t)' /\ Nests(t)'
    BY <1>2 DEF StatusSound, Nests
  <1> QED
    BY <1>1, <1>2, <1>4, <1>5, <1>6, <1>7, <1>8, OwnStep

LEMMA EndStep == ASSUME NDCIInv, NEW t \in NDCThreads, End(t) PROVE NDCIInv'
  <1>1. /\ Running(t) /\ scopes[t] = <<>> /\ status' = [status EXCEPT ![t] = "ended"]
        /\ UNCHANGED <<clone, scopes, inherited, failed>>
        /\ IF t \in AbstractThreads THEN Free(t) ELSE Unchanged
    BY DEF End
  <1>2. /\ status' \in [NDCThreads -> {"running", "ended", "undefined"}] /\ status'[t] = "ended"
        /\ \A u \in NDCThreads \ {t} : status'[u] = status[u]
    BY <1>1 DEF NDCIInv, NDCTypeOK
  <1>3. Sound' = Sound
    BY <1>1, <1>2 DEF Sound, Running
  <1>4. Nests(t) /\ MessagesOf(<<>>) = <<>>
    BY DEF NDCIInv, NestInv, MessagesOf
  <1>5. CASE t \in AbstractThreads
    <2>1. MemoryOK' /\ PointersInv' /\ ChainInv' /\ Turned(t, NULL, <<>>)
      BY <1>1, <1>3, <1>5, FreeStep
    <2>2. NDCTypeOK' /\ StatusSound(t)'
      BY <1>1, <1>2, <2>1 DEF NDCIInv, NDCTypeOK, MemoryOK, StatusSound, Turned
    <2>3. Nests(t)'
      BY <1>1, <1>4, <2>1 DEF Nests, Turned, MessagesOf
    <2> QED
      BY <1>1, <1>2, <2>1, <2>2, <2>3, OwnStep
  <1>6. CASE t \notin AbstractThreads
    <2>1. MemoryOK' /\ PointersInv' /\ ChainInv' /\ Turned(t, threadLocal[t], Of(t))
      BY <1>1, <1>3, <1>6, UnchangedStep
    <2>2. NDCTypeOK' /\ StatusSound(t)'
      BY <1>1, <1>2, <1>6, <2>1 DEF NDCIInv, NDCTypeOK, MemoryOK, StatusSound, Turned
    <2>3. Nests(t)'
      BY <1>1, <1>4, <2>1 DEF Nests, Turned, MessagesOf
    <2> QED
      BY <1>1, <1>2, <2>1, <2>2, <2>3, OwnStep
  <1> QED
    BY <1>5, <1>6

LEMMA IInvInductive == NDCIInv /\ [NDCNext]_ndcVars => NDCIInv'
  <1> SUFFICES ASSUME NDCIInv, [NDCNext]_ndcVars PROVE NDCIInv'
    OBVIOUS
  <1>1. CASE UNCHANGED ndcVars
    BY <1>1 DEF ndcVars, NDCIInv, NDCTypeOK, PointersInv, ChainInv, StatusInv, StatusSound, NestInv, Nests,
                Of, Sound, MessagesOf, FullMessages
  <1>2. CASE NDCNext
    BY <1>2, PushStep, PopStep, EnterScopeStep, LeaveScopeStep, SetMaxDepthStep, ClearStep,
       CloneStackStep, InheritStep, InheritFailsStep, EndStep DEF NDCNext
  <1> QED
    BY <1>1, <1>2

LEMMA Invariant == NDCSpec => []NDCIInv
  BY Begun, IInvInductive, PTL DEF NDCSpec

-----------------------------------------------------------------------------
\* Every variable keeps its type: no stack and no printed context is ever longer
\* than the depth the threads push to.
THEOREM NDCTypeCorrect == NDCSpec => []NDCTypeOK
  <1>1. NDCIInv => NDCTypeOK
    BY DEF NDCIInv
  <1> QED
    BY <1>1, Invariant, PTL

\* Every DiagnosticContextStack on the heap is the one thread's whose thread-local
\* pointer names it, and no running thread's pointer dangles: push, pop, clear,
\* inherit and remove never leak a stack, free one twice or free another thread's,
\* also when an allocation inside them fails.
THEOREM StacksHaveOwners == NDCSpec => []StacksOwned
  <1>1. NDCIInv => StacksOwned
    BY DEF NDCIInv, PointersInv, StatusInv, StatusSound, StacksOwned
  <1> QED
    BY <1>1, Invariant, PTL

\* The text kept with a context is that of all the messages around it, in whatever
\* order threads push, pop, truncate, copy and inherit stacks of any depth.
THEOREM ContextsPrintTheirChain == NDCSpec => []ContextsChained
  <1>1. NDCIInv => ContextsChained
    BY DEF NDCIInv, ChainInv, ContextsChained
  <1> QED
    BY <1>1, Invariant, PTL

\* A thread that uses NDCContextCreator alone prints the messages of the scopes it
\* is in, and the destructor of its outermost one frees the stack.
THEOREM ScopesAreNested == NDCSpec => []ScopesNest
  <1>1. NDCIInv => ScopesNest
    BY DEF NDCIInv, NestInv, Nests, MessagesOf, ScopesNest
  <1> QED
    BY <1>1, Invariant, PTL

=============================================================================
