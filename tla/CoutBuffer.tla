------------------------------ MODULE CoutBuffer ------------------------------
(***************************************************************************)
(* CCoutBuffer (src/cout_buffer.h): a first-in, first-out buffer of        *)
(* characters that grows as it is written.  Numbers are stored in the byte *)
(* order of the machine, the least significant byte first, strings and     *)
(* vectors behind their length.                                            *)
(***************************************************************************)
EXTENDS Naturals, Sequences, SequencesExt, ByteStream

CONSTANTS
    Things,     \* what may be written: <<type, value>>
    Reserves,   \* sizes that may be reserved
    MaxThings,  \* bound: how many things wait in the buffer
    MaxWritten, \* bound: where _write_pos stops
    Leftover    \* what an uninitialised variable holds

ASSUME CoutAssumption ==
    MaxThings \in Nat /\ MaxWritten \in Nat /\ Reserves \subseteq Nat /\ Leftover \in Nat

VARIABLES
    cout,       \* the object: mem is _buffer up to _buffer_size
    owed,       \* history: what was written and not yet read, oldest first
    got         \* history: the last thing read and what was due, <<>> if none

coutVars == <<cout, owed, got>>

Unwritten == Leftover % Byte
Unread(c) == c.write - c.read
Space(size, mem) == mem \o [i \in 1 .. size - Len(mem) |-> Unwritten]
Contents(c) == SubSeq(c.mem, 1, c.write)

TryApplyRewinds(c, n) ==
    IF c.write + n > Len(c.mem)
    THEN [c EXCEPT !.mem = Space(2 * (c.write + n), Contents(c)), !.read = 0] ELSE c
TryApply(c, n) ==
    IF c.write + n > Len(c.mem) THEN [c EXCEPT !.mem = Space(2 * (c.write + n), Contents(c))] ELSE c
Reserved(c, size) ==
    IF Len(c.mem) < size THEN [c EXCEPT !.mem = Space(size, Contents(c))] ELSE c
Inserted(c, bytes) ==
    LET d == TryApply(c, Len(bytes))
        n == d.write + Len(bytes)
    IN  [d EXCEPT !.mem = SubSeq(@, 1, d.write) \o bytes \o SubSeq(@, n + 1, Len(@)), !.write = n]

InsertNumber(c, n) == Inserted(c, Reverse(Hton(UInt32, n)))
InsertString(c, str) ==
    LET d == InsertNumber(TryApply(c, UInt32 + Len(str)), Len(str))
        n == d.write + Len(str)
    IN  [d EXCEPT !.mem = SubSeq(@, 1, d.write) \o str \o SubSeq(@, n + 1, Len(@)), !.write = n]
InsertVector(InsertOne(_, _), c, vec) == FoldLeft(InsertOne, InsertNumber(c, Len(vec)), vec)

(* A getter that finds too little leaves the variable as it is (old), or   *)
(* throws: in a string's case behind the length it has read already.       *)
ExtractNumber(c, old) ==
    IF Unread(c) >= UInt32
    THEN [c |-> [c EXCEPT !.read = @ + UInt32],
          v |-> Ntoh(Reverse(SubSeq(c.mem, c.read + 1, c.read + UInt32)))]
    ELSE [c |-> c, v |-> old]
ExtractString(c, old) ==
    LET n == ExtractNumber(c, Leftover)
    IN  IF n.v > Unread(n.c) THEN [c |-> [n.c EXCEPT !.thrown = TRUE], v |-> <<>>]
        ELSE [c |-> [n.c EXCEPT !.read = @ + n.v],
              v |-> SubSeq(n.c.mem, n.c.read + 1, n.c.read + n.v)]
ExtractVector(ExtractOne(_, _), c, fresh, old) ==
    LET n == ExtractNumber(c, Leftover)
        NextOne(r, i) == IF r.c.thrown THEN r
                       ELSE LET e == ExtractOne(r.c, fresh)
                            IN  [c |-> e.c, v |-> IF e.c.thrown THEN r.v ELSE Append(r.v, e.v)]
    IN  FoldLeft(NextOne, [c |-> n.c, v |-> old], [i \in 1 .. n.v |-> i])

ThingTypes == {"int", "string", "ints", "strings"}
InsertType(c, type, v) ==
    CASE type = "int" -> InsertNumber(c, v)
      [] type = "string" -> InsertString(c, v)
      [] type = "ints" -> InsertVector(InsertNumber, c, v)
      [] type = "strings" -> InsertVector(InsertString, c, v)
ExtractType(c, type) ==
    CASE type = "int" -> ExtractNumber(c, Leftover)
      [] type = "string" -> ExtractString(c, <<>>)
      [] type = "ints" -> ExtractVector(ExtractNumber, c, Leftover, <<>>)
      [] type = "strings" -> ExtractVector(ExtractString, c, <<>>, <<>>)

(* A number is an unsigned, and so is a length as it is stored.            *)
CoutNumbers == 0 .. Power[UInt32] - 1
CoutStrings == {str \in Seq(Nat) : Len(str) \in CoutNumbers}
CoutVectors(S) == {vec \in Seq(S) : Len(vec) \in CoutNumbers}
ThingValues(type) ==
    CASE type = "int" -> CoutNumbers
      [] type = "string" -> CoutStrings
      [] type = "ints" -> CoutVectors(CoutNumbers)
      [] type = "strings" -> CoutVectors(CoutStrings)

ASSUME ThingsAssumption ==
    \A thing \in Things : /\ thing = <<thing[1], thing[2]>> /\ thing[1] \in ThingTypes
                          /\ thing[2] \in ThingValues(thing[1])

-----------------------------------------------------------------------------
CoutInit ==
    /\ cout = [mem |-> <<>>, read |-> 0, write |-> 0, thrown |-> FALSE]
    /\ owed = <<>>
    /\ got = <<>>

Insert(thing) ==
    /\ Len(owed) < MaxThings /\ cout.write < MaxWritten
    /\ cout' = InsertType(cout, thing[1], thing[2])
    /\ owed' = Append(owed, thing)
    /\ UNCHANGED got

(* The caller reads what was written, in that order, or reads too early:   *)
(* from an empty buffer anything may be tried.                             *)
Extract(type) ==
    LET r == ExtractType(cout, type)
        due == owed # <<>> /\ Head(owed)[1] = type
    IN  /\ cout' = [r.c EXCEPT !.thrown = FALSE]
        /\ got' = IF due THEN <<<<type, r.v>>, Head(owed), r.c.thrown>> ELSE <<>>
        /\ owed' = IF due THEN Tail(owed) ELSE <<>>
        /\ due \/ owed = <<>>

ResetPositions ==
    /\ cout' = [cout EXCEPT !.read = 0, !.write = 0]
    /\ owed' = <<>> /\ got' = <<>>

Reserve(size) ==
    /\ cout' = Reserved(cout, size)
    /\ UNCHANGED <<owed, got>>

CoutNext ==
    \/ \E thing \in Things : Insert(thing)
    \/ \E type \in ThingTypes : Extract(type)
    \/ ResetPositions
    \/ \E size \in Reserves : Reserve(size)

CoutSpec == CoutInit /\ [][CoutNext]_coutVars

-----------------------------------------------------------------------------
(* First in, first out: whatever comes out is what went in longest ago,    *)
(* however often the buffer has grown, was reserved or reset in between.   *)
(* length() never goes below 0, and a buffer from which everything was     *)
(* taken is empty.                                                         *)
FirstInFirstOut ==
    /\ got # <<>> => got[1] = got[2] /\ ~got[3]
    /\ cout.read <= cout.write /\ cout.write <= Len(cout.mem)
    /\ (owed = <<>>) <=> (cout.read = cout.write)

=============================================================================
