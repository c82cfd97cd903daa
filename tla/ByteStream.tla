----------------------------- MODULE ByteStream -----------------------------
(***************************************************************************)
(* TransByteOrderIOStream (src/TransByteOrderStream.h and .cpp): a cursor  *)
(* over memory that the caller owns.  A stream is a record with the memory *)
(* it can reach (mem), the offset of _buf_ptr in it (ptr), _buf_len,       *)
(* _buf_size and the two counters.  asserts tells that an assert(false)    *)
(* was reached: a debug build stops there, a release build goes on with    *)
(* the stream as it was.  junk is what memory that was never written holds.*)
(*                                                                         *)
(* A byte is a digit of base Byte (256 in the code; a smaller base lets    *)
(* TLC, whose integers have 32 bits, handle eight-byte numbers).           *)
(***************************************************************************)
EXTENDS Naturals, Sequences, SequencesExt

CONSTANT Byte
ASSUME ByteAssumption == Byte \in Nat \ {0, 1}

UInt8 == 1
UInt16 == 2
UInt32 == 4
UInt64 == 8

(* How many numbers w bytes hold.                                          *)
Power[w \in 0 .. UInt64] == IF w = 0 THEN 1 ELSE Byte * Power[w - 1]

(* The byte order of the network: the most significant byte first.         *)
Hton(w, n) == [i \in 1 .. w |-> (n \div Power[w - i]) % Byte]
Ntoh(bytes) == FoldLeft(LAMBDA n, b : n * Byte + b, 0, bytes)

Stream(mem, len, junk) ==
    [mem |-> mem, ptr |-> 0, len |-> len, size |-> len,
     read |-> 0, written |-> 0, asserts |-> FALSE, junk |-> junk]

(* A second stream on what a first one has left, as every class of a       *)
(* command makes one behind its base class.                                *)
Nested(s) == [s EXCEPT !.size = s.len, !.read = 0, !.written = 0]

Fits(s, n) == n <= s.len
Fail(s) == [s EXCEPT !.asserts = TRUE]
Advance(s, n) == [s EXCEPT !.ptr = @ + n, !.len = @ - n]
At(s, n) == SubSeq(s.mem, s.ptr + 1, s.ptr + n)

(* memcpy to the cursor and from it, both counted.                         *)
PutBytesUnchecked(s, bytes) ==
    LET n == Len(bytes)
    IN  [Advance(s, n) EXCEPT
           !.written = @ + n,
           !.mem = SubSeq(@, 1, s.ptr) \o bytes \o SubSeq(@, s.ptr + n + 1, Len(@))]
PutBytes(s, bytes) ==
    LET n == Len(bytes)
    IN  IF ~Fits(s, n) THEN Fail(s)
        ELSE [Advance(s, n) EXCEPT
                !.written = @ + n,
                !.mem = SubSeq(@, 1, s.ptr) \o bytes \o SubSeq(@, s.ptr + n + 1, Len(@))]
TakeBytes(s, n) ==
    IF Fits(s, n) THEN [Advance(s, n) EXCEPT !.read = @ + n] ELSE Fail(s)

PutInt(s, w, n) == PutBytes(s, Hton(w, n))

(* A getter yields the stream after it and the value; one that does not    *)
(* fit leaves the variable as it was.                                      *)
GetInt(s, w, old) ==
    [s |-> TakeBytes(s, w), v |-> IF Fits(s, w) THEN Ntoh(At(s, w)) ELSE old]

(* The length and the body of a string are checked one after the other: a  *)
(* body that does not fit leaves its length behind.                        *)
PutString(s, str) == PutBytes(PutInt(s, UInt32, Len(str)), str)
GetStringPart(s, old) ==
    LET n == GetInt(s, UInt32, 0)
        m == IF n.v < n.s.len THEN n.v ELSE n.s.len
    IN  [s |-> TakeBytes(n.s, m), v |-> At(n.s, m)]
GetString(s, old) ==
    LET n == GetInt(s, UInt32, 0)
    IN  [s |-> TakeBytes(n.s, n.v),
         v |-> IF Fits(n.s, n.v) THEN At(n.s, n.v) ELSE old]

(* Vectors: the number of elements, then the elements.  A vector that is   *)
(* read is appended to, never cleared; an element that cannot be read is   *)
(* appended as its constructor left it (fresh).                            *)
PutVector(Put(_, _), s, vec) ==
    FoldLeft(Put, PutInt(s, UInt32, Len(vec)), vec)
GetElements(Get(_, _), s, count, fresh, old) ==
    FoldLeft(LAMBDA r, i : LET e == Get(r.s, fresh)
                           IN  [s |-> e.s, v |-> Append(r.v, e.v)],
             [s |-> s, v |-> old], [i \in 1 .. count |-> i])
GetVector(Get(_, _), s, fresh, old) ==
    LET n == GetInt(s, UInt32, 0) IN GetElements(Get, n.s, n.v, fresh, old)

=============================================================================
