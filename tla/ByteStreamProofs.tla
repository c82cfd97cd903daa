--------------------------- MODULE ByteStreamProofs ---------------------------
(***************************************************************************)
(* Lemmas about ByteStream, for every base of the bytes: what the          *)
(* conversions and the operators of one stream yield.  CommandsProofs      *)
(* rests on them, and ToolboxProofs for the buffers that hold numbers.     *)
(***************************************************************************)
EXTENDS ByteStream, SequenceTheorems, TLAPS

-----------------------------------------------------------------------------
(* Numbers in bytes. *)

\* One byte more, and a word holds Byte times as many values.
LEMMA PowerSteps == Power[0] = 1 /\ \A w \in 0 .. 7 : Power[w + 1] = Byte * Power[w]
  <1> DEFINE Powers(f) == f = [w \in 0 .. UInt64 |-> IF w = 0 THEN 1 ELSE Byte * f[w - 1]]
             p == [w \in 0 .. 8 |->
                     CASE w = 0 -> 1 [] w = 1 -> Byte [] w = 2 -> Byte * Byte
                       [] w = 3 -> Byte * (Byte * Byte) [] w = 4 -> Byte * (Byte * (Byte * Byte))
                       [] w = 5 -> Byte * (Byte * (Byte * (Byte * Byte)))
                       [] w = 6 -> Byte * (Byte * (Byte * (Byte * (Byte * Byte))))
                       [] w = 7 -> Byte * (Byte * (Byte * (Byte * (Byte * (Byte * Byte)))))
                       [] w = 8 -> Byte * (Byte * (Byte * (Byte * (Byte * (Byte * (Byte * Byte))))))]
  <1>1. Powers(p)
    BY ByteAssumption DEF UInt64
  <1>2. Powers(Power)
    <2> HIDE DEF Powers
    <2>1. \E f : Powers(f)
      BY <1>1
    <2>2. Power = CHOOSE f : Powers(f)
      BY DEF Power, Powers
    <2>3. QED
      BY <2>1, <2>2
  <1>3. QED
    BY <1>2 DEF UInt64

\* A word holds a positive number of values.
LEMMA PowerPositive == \A w \in 0 .. 8 : Power[w] \in Nat \ {0}
  <1>1. \A m \in Nat \ {0} : Byte * m \in Nat \ {0}
    BY ByteAssumption
  <1>2. /\ Power[0] \in Nat \ {0}
        /\ \A w \in 0 .. 7 : Power[w] \in Nat \ {0} => Power[w + 1] \in Nat \ {0}
    BY <1>1, PowerSteps
  <1>3. /\ Power[0 + 1] \in Nat \ {0} /\ Power[1 + 1] \in Nat \ {0}
        /\ Power[2 + 1] \in Nat \ {0} /\ Power[3 + 1] \in Nat \ {0}
    BY <1>2
  <1>4. /\ Power[4 + 1] \in Nat \ {0} /\ Power[5 + 1] \in Nat \ {0}
        /\ Power[6 + 1] \in Nat \ {0} /\ Power[7 + 1] \in Nat \ {0}
    BY <1>2, <1>3
  <1>5. QED
    BY <1>2, <1>3, <1>4

\* Hton yields as many bytes as the width says.
LEMMA HtonType ==
    ASSUME NEW w \in {1, 2, 4, 8}, NEW m \in Int
    PROVE  Hton(w, m) \in Seq(Nat) /\ Len(Hton(w, m)) = w
  <1>1. \A i \in 1 .. w : Power[w - i] \in Nat \ {0}
    BY PowerPositive
  <1>2. \A i \in 1 .. w : (m \div Power[w - i]) % Byte \in Nat
    BY <1>1, ByteAssumption
  <1>3. QED
    BY <1>2 DEF Hton

\* Three sequences one behind the other.
LEMMA ThreeParts ==
    ASSUME NEW a \in Seq(Nat), NEW b \in Seq(Nat), NEW z \in Seq(Nat)
    PROVE  /\ a \o b \o z \in Seq(Nat) /\ Len(a \o b \o z) = Len(a) + Len(b) + Len(z)
           /\ \A i \in 1 .. Len(a) : (a \o b \o z)[i] = a[i]
           /\ \A i \in 1 .. Len(b) : (a \o b \o z)[Len(a) + i] = b[i]
           /\ \A i \in 1 .. Len(z) : (a \o b \o z)[Len(a) + Len(b) + i] = z[i]
  <1> DEFINE ab == a \o b
             abz == ab \o z
             p == Len(a)
             k == Len(b)
             l == Len(z)
  <1>1. /\ ab \in Seq(Nat) /\ Len(ab) = p + k
        /\ \A i \in 1 .. p + k : ab[i] = IF i <= p THEN a[i] ELSE b[i - p]
    BY ConcatProperties
  <1> HIDE DEF ab
  <1>2. ab \in Seq(Nat)
    BY <1>1
  <1>3. /\ abz \in Seq(Nat) /\ Len(abz) = Len(ab) + l
        /\ \A i \in 1 .. Len(ab) + l :
             abz[i] = IF i <= Len(ab) THEN ab[i] ELSE z[i - Len(ab)]
    BY <1>2, ConcatProperties
  <1>4. p \in Nat /\ k \in Nat /\ l \in Nat
    BY LenProperties
  <1> HIDE DEF abz, p, k, l
  <1>5. \A i \in 1 .. p + k + l : abz[i] = IF i <= p + k THEN ab[i] ELSE z[i - (p + k)]
    BY <1>1, <1>3
  <1>6. ASSUME NEW i \in 1 .. p
        PROVE  abz[i] = a[i]
    <2>1. i \in 1 .. p + k + l /\ i <= p + k /\ i <= p /\ i \in 1 .. p + k
      BY <1>4
    <2>2. QED
      BY <1>1, <1>5, <2>1
  <1>7. ASSUME NEW i \in 1 .. k
        PROVE  abz[p + i] = b[i]
    <2>1. /\ p + i \in 1 .. p + k + l /\ p + i <= p + k /\ p + i \in 1 .. p + k
          /\ ~(p + i <= p) /\ (p + i) - p = i
      BY <1>4
    <2>2. QED
      BY <1>1, <1>5, <2>1
  <1>8. ASSUME NEW i \in 1 .. l
        PROVE  abz[p + k + i] = z[i]
    <2>1. /\ p + k + i \in 1 .. p + k + l /\ ~(p + k + i <= p + k)
          /\ (p + k + i) - (p + k) = i
      BY <1>4
    <2>2. QED
      BY <1>5, <2>1
  <1>9. abz \in Seq(Nat) /\ Len(abz) = p + k + l
    BY <1>1, <1>3
  <1>10. QED
    BY <1>6, <1>7, <1>8, <1>9 DEF ab, abz, p, k, l

\* What a memory holds after some bytes were written behind its first p.
Over(mem, p, bytes) ==
    SubSeq(mem, 1, p) \o bytes \o SubSeq(mem, p + Len(bytes) + 1, Len(mem))

\* Writing over a memory keeps its length and everything outside the bytes.
LEMMA Overwritten ==
    ASSUME NEW mem \in Seq(Nat), NEW p \in Nat, NEW bytes \in Seq(Nat),
           p + Len(bytes) <= Len(mem)
    PROVE  /\ Over(mem, p, bytes) \in Seq(Nat) /\ Len(Over(mem, p, bytes)) = Len(mem)
           /\ \A i \in 1 .. Len(mem) :
                Over(mem, p, bytes)[i] = IF p < i /\ i <= p + Len(bytes) THEN bytes[i - p] ELSE mem[i]
  <1> DEFINE k == Len(bytes)
             m == Len(mem)
             a == SubSeq(mem, 1, p)
             z == SubSeq(mem, p + k + 1, m)
             l == m - (p + k)
             new == Over(mem, p, bytes)
  <1>1. k \in Nat /\ m \in Nat /\ p + k <= m /\ l \in Nat /\ p + k + l = m
    OBVIOUS
  <1>2. mem \in [1 .. m -> Nat]
    BY LenProperties
  <1>3. k = Len(bytes) /\ m = Len(mem)
    OBVIOUS
  <1>4. a \in Seq(Nat) /\ Len(a) = p /\ \A i \in 1 .. p : a[i] = mem[i]
    <2>1. \A i \in 1 .. p : mem[i] \in Nat
      BY <1>1, <1>2
    <2>2. 1 \in Int /\ p \in Int
      OBVIOUS
    <2>3. /\ a \in Seq(Nat)
          /\ Len(a) = IF 1 <= p THEN p - 1 + 1 ELSE 0
          /\ \A i \in 1 .. p - 1 + 1 : a[i] = mem[1 + i - 1]
      BY <2>1, <2>2, SubSeqProperties
    <2>4. QED
      BY <2>3
  <1> HIDE DEF k, m, l
  <1>5. z \in Seq(Nat) /\ Len(z) = l /\ \A i \in 1 .. l : z[i] = mem[p + k + i]
    <2>1. \A i \in p + k + 1 .. m : mem[i] \in Nat
      BY <1>1, <1>2
    <2>2. p + k + 1 \in Int /\ m \in Int
      BY <1>1
    <2>3. /\ z \in Seq(Nat)
          /\ Len(z) = IF p + k + 1 <= m THEN m - (p + k + 1) + 1 ELSE 0
          /\ \A i \in 1 .. m - (p + k + 1) + 1 : z[i] = mem[p + k + 1 + i - 1]
      BY <2>1, <2>2, SubSeqProperties
    <2>4. m - (p + k + 1) + 1 = l /\ (p + k + 1 <= m <=> l > 0)
      BY <1>1
    <2>5. \A i \in 1 .. l : p + k + 1 + i - 1 = p + k + i
      BY <1>1
    <2> HIDE DEF z
    <2>6. \A i \in 1 .. l : z[i] = mem[p + k + i]
      BY <2>3, <2>4, <2>5, Zenon
    <2>7. Len(z) = l
      BY <1>1, <2>3, <2>4
    <2>8. QED
      BY <2>3, <2>6, <2>7
  <1> HIDE DEF a, z, new
  <1>6. new = a \o bytes \o z
    BY DEF a, z, k, m, new, Over
  <1>7. /\ new \in Seq(Nat) /\ Len(new) = Len(a) + Len(bytes) + Len(z)
        /\ \A i \in 1 .. Len(a) : new[i] = a[i]
        /\ \A i \in 1 .. Len(bytes) : new[Len(a) + i] = bytes[i]
        /\ \A i \in 1 .. Len(z) : new[Len(a) + Len(bytes) + i] = z[i]
    <2>1. a \in Seq(Nat) /\ z \in Seq(Nat)
      BY <1>4, <1>5
    <2>2. /\ a \o bytes \o z \in Seq(Nat)
          /\ Len(a \o bytes \o z) = Len(a) + Len(bytes) + Len(z)
      BY <2>1, ThreeParts
    <2>3. \A i \in 1 .. Len(a) : (a \o bytes \o z)[i] = a[i]
      BY <2>1, ThreeParts
    <2>4. \A i \in 1 .. Len(bytes) : (a \o bytes \o z)[Len(a) + i] = bytes[i]
      BY <2>1, ThreeParts
    <2>5. \A i \in 1 .. Len(z) : (a \o bytes \o z)[Len(a) + Len(bytes) + i] = z[i]
      BY <2>1, ThreeParts
    <2>6. QED
      BY <1>6, <2>2, <2>3, <2>4, <2>5, Zenon
  <1>8. /\ Len(new) = p + k + l
        /\ \A i \in 1 .. p : new[i] = mem[i]
        /\ \A i \in 1 .. k : new[p + i] = bytes[i]
        /\ \A i \in 1 .. l : new[p + k + i] = mem[p + k + i]
    <2>1. Len(a) = p /\ Len(bytes) = k /\ Len(z) = l
      BY <1>4, <1>5, <1>3
    <2>2. (\A i \in 1 .. p : a[i] = mem[i]) /\ (\A i \in 1 .. l : z[i] = mem[p + k + i])
      BY <1>4, <1>5
    <2>3. QED
      BY <1>7, <2>1, <2>2, Zenon
  <1>9. \A i \in 1 .. m : new[i] = IF p < i /\ i <= p + k THEN bytes[i - p] ELSE mem[i]
    <2>1. ASSUME NEW i \in 1 .. m
          PROVE  \/ i \in 1 .. p
                 \/ p < i /\ i <= p + k /\ i - p \in 1 .. k /\ p + (i - p) = i
                 \/ ~(i <= p + k) /\ i - (p + k) \in 1 .. l /\ p + k + (i - (p + k)) = i
      BY <1>1
    <2>2. ASSUME NEW i \in 1 .. m
          PROVE  new[i] = IF p < i /\ i <= p + k THEN bytes[i - p] ELSE mem[i]
      <3>1. CASE i \in 1 .. p
        <4>1. new[i] = mem[i] /\ ~(p < i)
          BY <1>8, <3>1
        <4>2. QED
          BY <4>1, Zenon
      <3>2. CASE p < i /\ i <= p + k /\ i - p \in 1 .. k /\ p + (i - p) = i
        <4>1. new[p + (i - p)] = bytes[i - p]
          BY <1>8, <3>2
        <4>2. QED
          BY <3>2, <4>1, Zenon
      <3>3. CASE ~(i <= p + k) /\ i - (p + k) \in 1 .. l /\ p + k + (i - (p + k)) = i
        <4>1. new[p + k + (i - (p + k))] = mem[p + k + (i - (p + k))]
          BY <1>8, <3>3
        <4>2. QED
          BY <3>3, <4>1, Zenon
      <3>4. QED
        BY <2>1, <3>1, <3>2, <3>3
    <2>3. QED
      BY <2>2
  <1>10. QED
    BY <1>1, <1>3, <1>7, <1>8, <1>9 DEF new

-----------------------------------------------------------------------------
(* One stream. *)

\* The streams on a buffer of n bytes.
Streams(n) ==
    {s \in [mem : Seq(Nat), ptr : Nat, len : Nat, size : Nat, read : Nat, written : Nat,
            asserts : BOOLEAN, junk : Nat] : s.ptr + s.len = n /\ Len(s.mem) = n}

\* What a stream is made of.
LEMMA StreamParts ==
    ASSUME NEW n \in Nat, NEW s \in Streams(n)
    PROVE  /\ s.mem \in Seq(Nat) /\ Len(s.mem) = n
           /\ s.ptr \in Nat /\ s.len \in Nat /\ s.ptr + s.len = n /\ s.junk \in Nat
           /\ s.asserts \in BOOLEAN
  BY DEF Streams

\* A new stream is a stream on its buffer.
LEMMA StreamMade ==
    ASSUME NEW n \in Nat, NEW mem \in Seq(Nat), Len(mem) = n, NEW junk \in Nat
    PROVE  Stream(mem, n, junk) \in Streams(n)
  BY DEF Stream, Streams

\* The stream of a derived class is one on the same buffer.
LEMMA NestedStream ==
    ASSUME NEW n \in Nat, NEW s \in Streams(n)
    PROVE  Nested(s) \in Streams(n)
  BY DEF Nested, Streams

\* A failed assertion leaves the cursor where it is.
LEMMA FailStream ==
    ASSUME NEW n \in Nat, NEW s \in Streams(n)
    PROVE  Fail(s) \in Streams(n)
  BY DEF Fail, Streams

\* What a cursor movement makes of a stream.
LEMMA MovedStream ==
    ASSUME NEW n \in Nat, NEW s \in Streams(n), NEW k \in Nat, k <= s.len, NEW t,
           NEW mem \in Seq(Nat), Len(mem) = n, NEW read \in Nat, NEW written \in Nat,
           t = [s EXCEPT !.ptr = s.ptr + k, !.len = s.len - k, !.read = read,
                         !.written = written, !.mem = mem]
    PROVE  t \in Streams(n)
  <1>1. s.ptr + k \in Nat /\ s.len - k \in Nat /\ s.ptr + k + (s.len - k) = n
    BY StreamParts
  <1> DEFINE ptr == s.ptr + k
             len == s.len - k
  <1>2. t = [s EXCEPT !.ptr = ptr, !.len = len, !.read = read, !.written = written, !.mem = mem]
    OBVIOUS
  <1>3. ptr \in Nat /\ len \in Nat /\ ptr + len = n
    BY <1>1
  <1> HIDE DEF ptr, len
  <1>4. QED
    BY <1>2, <1>3 DEF Streams

\* memcpy to the cursor stays in the buffer, since it is made only if it fits.
LEMMA PutBytesStream ==
    ASSUME NEW n \in Nat, NEW s \in Streams(n), NEW bytes \in Seq(Nat)
    PROVE  PutBytes(s, bytes) \in Streams(n)
  <1> DEFINE k == Len(bytes)
             mem == Over(s.mem, s.ptr, bytes)
  <1>1. k \in Nat
    OBVIOUS
  <1>2. CASE ~Fits(s, k)
    BY <1>2, FailStream DEF PutBytes
  <1>3. CASE Fits(s, k)
    <2>1. k <= s.len /\ s.written + k \in Nat /\ s.read \in Nat
      BY <1>1, <1>3 DEF Fits, Streams
    <2>2. s.mem \in Seq(Nat) /\ s.ptr \in Nat /\ s.ptr + k <= Len(s.mem) /\ Len(s.mem) = n
      BY <1>1, <2>1, StreamParts
    <2>3. mem \in Seq(Nat) /\ Len(mem) = n
      <3>1. mem \in Seq(Nat) /\ Len(mem) = Len(s.mem)
        BY <2>2, Overwritten
      <3> HIDE DEF mem
      <3>2. QED
        BY <2>2, <3>1
    <2>4. PutBytes(s, bytes)
            = [s EXCEPT !.ptr = s.ptr + k, !.len = s.len - k, !.read = s.read,
                        !.written = s.written + k, !.mem = mem]
      BY <1>3 DEF PutBytes, Advance, Streams, Over
    <2> HIDE DEF mem, k
    <2>5. QED
      BY <1>1, <2>1, <2>3, <2>4, MovedStream
  <1>4. QED
    BY <1>2, <1>3

\* So does memcpy from the cursor.
LEMMA TakeBytesStream ==
    ASSUME NEW n \in Nat, NEW s \in Streams(n), NEW k \in Nat
    PROVE  TakeBytes(s, k) \in Streams(n)
  <1>1. CASE ~Fits(s, k)
    BY <1>1, FailStream DEF TakeBytes
  <1>2. CASE Fits(s, k)
    <2>1. TakeBytes(s, k)
            = [s EXCEPT !.ptr = s.ptr + k, !.len = s.len - k, !.read = s.read + k,
                        !.written = s.written, !.mem = s.mem]
      BY <1>2 DEF TakeBytes, Advance, Streams
    <2>2. /\ k <= s.len /\ s.written \in Nat /\ s.read + k \in Nat
          /\ s.mem \in Seq(Nat) /\ Len(s.mem) = n
      BY <1>2 DEF Fits, Streams
    <2>3. QED
      BY <2>1, <2>2, MovedStream
  <1>3. QED
    BY <1>1, <1>2

\* Some bytes out of a memory.
LEMMA Middle ==
    ASSUME NEW mem \in Seq(Nat), NEW p \in Nat, NEW k \in Nat, p + k <= Len(mem)
    PROVE  /\ SubSeq(mem, p + 1, p + k) \in Seq(Nat) /\ Len(SubSeq(mem, p + 1, p + k)) = k
           /\ \A i \in 1 .. k : SubSeq(mem, p + 1, p + k)[i] = mem[p + i]
  <1> DEFINE n == Len(mem)
             part == SubSeq(mem, p + 1, p + k)
  <1>1. n \in Nat /\ p + k <= n
    OBVIOUS
  <1>2. mem \in [1 .. n -> Nat]
    BY LenProperties
  <1>3. part = SubSeq(mem, p + 1, p + k)
    OBVIOUS
  <1> HIDE DEF n, part
  <1>4. p + 1 \in Int /\ p + k \in Int /\ \A i \in p + 1 .. p + k : mem[i] \in Nat
    BY <1>1, <1>2
  <1>5. /\ part \in Seq(Nat)
        /\ Len(part) = IF p + 1 <= p + k THEN (p + k) - (p + 1) + 1 ELSE 0
        /\ \A i \in 1 .. (p + k) - (p + 1) + 1 : part[i] = mem[p + 1 + i - 1]
    BY <1>3, <1>4, SubSeqProperties
  <1>6. /\ (p + k) - (p + 1) + 1 = k /\ (p + 1 <= p + k <=> k > 0)
        /\ \A i \in 1 .. k : p + 1 + i - 1 = p + i
    BY <1>1
  <1>7. \A i \in 1 .. k : part[i] = mem[p + i]
    BY <1>5, <1>6, Zenon
  <1>8. Len(part) = k
    BY <1>5, <1>6
  <1>9. QED
    BY <1>5, <1>7, <1>8 DEF part

\* The bytes at the cursor.
LEMMA AtBytes ==
    ASSUME NEW n \in Nat, NEW s \in Streams(n), NEW k \in Nat, Fits(s, k)
    PROVE  /\ At(s, k) \in Seq(Nat) /\ Len(At(s, k)) = k
           /\ \A i \in 1 .. k : At(s, k)[i] = s.mem[s.ptr + i]
  <1>1. s.mem \in Seq(Nat) /\ Len(s.mem) = n /\ s.ptr \in Nat /\ s.ptr + k <= Len(s.mem)
    BY StreamParts DEF Fits
  <1>2. QED
    BY <1>1, Middle DEF At

AddByte(c, d, m, b) == m * Byte + b
N == INSTANCE FoldInduction WITH Step <- AddByte

\* Any bytes are a number in the byte order of the network.
LEMMA NtohType ==
    ASSUME NEW bytes \in Seq(Nat)
    PROVE  Ntoh(bytes) \in Nat
  <1>1. \A m, b \in Nat : AddByte(0, 0, m, b) \in Nat
    BY ByteAssumption DEF AddByte
  <1>2. N!Fold(0, 0, 0, bytes) \in Nat
    BY <1>1, N!FoldType
  <1>3. QED
    BY <1>2 DEF Ntoh, AddByte, N!Fold,
                FoldLeft, MapThenFoldSet, Max

\* A quotient and a remainder are the only ones.
LEMMA DivisionUnique ==
    ASSUME NEW p \in Nat \ {0}, NEW q \in Nat, NEW r \in Nat, r < p, NEW m \in Nat, m = p * q + r
    PROVE  m \div p = q
  <1> DEFINE x == m \div p
  <1>1. x \in Nat /\ p * x <= m /\ m - p * x < p
    OBVIOUS
  <1> HIDE DEF x
  <1>2. CASE x < q
    <2>1. PICK d \in Nat : q = x + 1 + d
      <3>1. q - x - 1 \in Nat /\ q = x + 1 + (q - x - 1)
        BY <1>1, <1>2
      <3>2. QED
        BY <3>1
    <2>2. p * q = p * x + p + p * d /\ p * d \in Nat
      BY <1>1, <2>1
    <2>3. p * x \in Nat /\ p * q \in Nat
      BY <1>1
    <2>4. QED
      BY <1>1, <2>2, <2>3
  <1>3. CASE q < x
    <2>1. PICK d \in Nat : x = q + 1 + d
      <3>1. x - q - 1 \in Nat /\ x = q + 1 + (x - q - 1)
        BY <1>1, <1>3
      <3>2. QED
        BY <3>1
    <2>2. p * x = p * q + p + p * d /\ p * d \in Nat
      BY <1>1, <2>1
    <2>3. p * x \in Nat /\ p * q \in Nat
      BY <1>1
    <2>4. QED
      BY <1>1, <2>2, <2>3
  <1>4. QED
    BY <1>1, <1>2, <1>3 DEF x

\* A quotient and a remainder make the number.
LEMMA DivisionWhole ==
    ASSUME NEW p \in Nat \ {0}, NEW m \in Nat
    PROVE  m \div p \in Nat /\ m % p \in 0 .. p - 1 /\ m = p * (m \div p) + (m % p)
  <1> DEFINE x == m \div p
  <1>1. x \in Nat /\ p * x \in Nat /\ p * x <= m /\ m - p * x \in 0 .. p - 1
    OBVIOUS
  <1>2. m % p = m - p * x
    OBVIOUS
  <1> HIDE DEF x
  <1>3. m = p * x + (m - p * x)
    BY <1>1
  <1>4. QED
    BY <1>1, <1>2, <1>3 DEF x

\* To divide twice is to divide by the product.
LEMMA DivisionTwice ==
    ASSUME NEW p \in Nat \ {0}, NEW b \in Nat \ {0}, NEW m \in Nat
    PROVE  (m \div p) \div b = m \div (b * p)
  <1> DEFINE x == m \div p
             y == x \div b
             r == m % p
             t == x % b
  <1>1. x \in Nat /\ r \in 0 .. p - 1 /\ m = p * x + r
    BY DivisionWhole
  <1> HIDE DEF x, r
  <1>2. y \in Nat /\ t \in 0 .. b - 1 /\ x = b * y + t
    BY <1>1, DivisionWhole
  <1> HIDE DEF y, t
  <1>3. m = (b * p) * y + (p * t + r)
    <2>1. p * x = p * (b * y) + p * t
      BY <1>1, <1>2
    <2>2. p * (b * y) = (b * p) * y
      BY <1>2
    <2>3. p * (b * y) \in Nat /\ p * t \in Nat
      BY <1>2
    <2> DEFINE px == p * x
               pby == p * (b * y)
               pt == p * t
               bpy == (b * p) * y
    <2>4. px = pby + pt /\ pby = bpy /\ pby \in Nat /\ pt \in Nat /\ m = px + r
      BY <1>1, <2>1, <2>2, <2>3
    <2> HIDE DEF px, pby, pt, bpy
    <2>5. m = bpy + (pt + r)
      BY <1>1, <2>4
    <2>6. QED
      BY <2>5 DEF bpy, pt
  <1>4. p * t + r \in Nat /\ p * t + r < b * p
    <2>1. PICK d \in Nat : b = t + 1 + d
      <3>1. b - t - 1 \in Nat /\ b = t + 1 + (b - t - 1)
        BY <1>2
      <3>2. QED
        BY <3>1
    <2>2. b * p = p * t + p + d * p /\ d * p \in Nat /\ p * t \in Nat
      BY <1>2, <2>1
    <2>3. QED
      BY <1>1, <2>2
  <1>5. b * p \in Nat \ {0}
    OBVIOUS
  <1>6. m \div (b * p) = y
    <2> DEFINE bp == b * p
               rest == p * t + r
    <2>1. bp \in Nat \ {0} /\ rest \in Nat /\ rest < bp /\ m = bp * y + rest
      BY <1>3, <1>4, <1>5
    <2> HIDE DEF bp, rest
    <2>2. m \div bp = y
      BY <1>2, <2>1, DivisionUnique
    <2>3. QED
      BY <2>2 DEF bp
  <1>7. QED
    BY <1>6 DEF x, y

\* A number in the byte order of the network is read as the number it was, for every
\* width the streams use and every base (xl::hton and xl::ntoh).
THEOREM NtohOfHton ==
    ASSUME NEW w \in {1, 2, 4, 8}, NEW m \in 0 .. Power[w] - 1
    PROVE  Ntoh(Hton(w, m)) = m
  <1> DEFINE bytes == Hton(w, m)
  <1>1. bytes \in Seq(Nat) /\ Len(bytes) = w
    <2>1. Power[w] \in Nat
      BY PowerPositive
    <2>2. m \in Int
      BY <2>1
    <2>3. QED
      BY <2>2, HtonType
  <1>2. \A i \in 1 .. w : bytes[i] = (m \div Power[w - i]) % Byte
    BY DEF Hton
  <1> HIDE DEF bytes
  <1>3. \A i \in 0 .. w : Power[w - i] \in Nat \ {0}
    BY PowerPositive
  <1>4. \A i \in 1 .. w : Power[w - (i - 1)] = Byte * Power[w - i]
    <2>1. \A i \in 1 .. w : w - i \in 0 .. 7 /\ w - i + 1 = w - (i - 1)
      OBVIOUS
    <2>2. QED
      BY <2>1, PowerSteps
  <1>5. m \in Nat /\ m < Power[w]
    BY PowerPositive
  <1> DEFINE Inv == [i \in 0 .. w |-> {m \div Power[w - i]}]
  <1>6. 0 \in Inv[0]
    <2>1. Power[w] \in Nat \ {0} /\ w - 0 = w
      BY PowerPositive
    <2>2. Power[w] * 0 + m = m
      BY <1>5, <2>1
    <2>3. m \div Power[w] = 0
      BY <1>5, <2>1, <2>2, DivisionUnique
    <2>4. QED
      BY <2>1, <2>3
  <1>7. ASSUME NEW i \in 1 .. Len(bytes), NEW a \in Inv[i - 1]
        PROVE  AddByte(0, 0, a, bytes[i]) \in Inv[i]
    <2> DEFINE p == Power[w - i]
               x == m \div p
    <2>1. i \in 1 .. w /\ i - 1 \in 0 .. w /\ i \in 0 .. w
      BY <1>1
    <2>2. p \in Nat \ {0} /\ Power[w - (i - 1)] = Byte * p
      BY <1>3, <1>4, <2>1
    <2>3. a = m \div Power[w - (i - 1)]
      BY <2>1
    <2>4. bytes[i] = x % Byte
      BY <1>2, <2>1
    <2> HIDE DEF p
    <2>5. a = x \div Byte
      BY <1>5, <2>2, <2>3, ByteAssumption, DivisionTwice
    <2>6. x \in Nat
      BY <1>5, <2>2, DivisionWhole
    <2> HIDE DEF x
    <2>7. x = Byte * (x \div Byte) + (x % Byte) /\ x \div Byte \in Nat
      BY <2>6, ByteAssumption, DivisionWhole
    <2>8. a * Byte = Byte * a
      BY <2>5, <2>7, ByteAssumption
    <2>9. AddByte(0, 0, a, bytes[i]) = a * Byte + bytes[i]
      BY DEF AddByte
    <2>10. AddByte(0, 0, a, bytes[i]) = Byte * (x \div Byte) + (x % Byte)
      BY <2>4, <2>5, <2>8, <2>9
    <2>11. QED
      BY <2>1, <2>7, <2>10 DEF x, p
  <1>8. N!Fold(0, 0, 0, bytes) \in Inv[Len(bytes)]
    <2>1. 0 \in Inv[0]
      BY <1>6
    <2>2. \A i \in 1 .. Len(bytes) : \A a \in Inv[i - 1] : AddByte(0, 0, a, bytes[i]) \in Inv[i]
      BY <1>7
    <2> HIDE DEF Inv
    <2>3. QED
      BY <1>1, <2>1, <2>2, N!FoldInvariant
  <1>9. N!Fold(0, 0, 0, bytes) = m
    <2>1. w - w = 0 /\ w \in 0 .. w /\ Power[0] = 1 /\ m \div 1 = m
      BY <1>5, PowerSteps
    <2>2. QED
      BY <1>1, <1>8, <2>1
  <1>10. QED
    BY <1>9 DEF bytes, Ntoh, AddByte, N!Fold, FoldLeft, MapThenFoldSet, Max

\* What a getter yields: the stream behind what was read and a value.
Results(n, V) == [s : Streams(n), v : V]

\* operator<< for integers of any width.
LEMMA PutIntStream ==
    ASSUME NEW n \in Nat, NEW s \in Streams(n), NEW w \in {1, 2, 4, 8}, NEW m \in Int
    PROVE  PutInt(s, w, m) \in Streams(n)
  BY HtonType, PutBytesStream DEF PutInt

\* operator>> for integers.
LEMMA GetIntResult ==
    ASSUME NEW n \in Nat, NEW s \in Streams(n), NEW w \in Nat, NEW V, Nat \subseteq V, NEW old \in V
    PROVE  GetInt(s, w, old) \in Results(n, V)
  <1>1. TakeBytes(s, w) \in Streams(n)
    BY TakeBytesStream
  <1>2. Fits(s, w) => Ntoh(At(s, w)) \in Nat
    BY AtBytes, NtohType
  <1>3. QED
    BY <1>1, <1>2 DEF GetInt, Results

\* operator<< for strings: the length, then the body.
LEMMA PutStringStream ==
    ASSUME NEW n \in Nat, NEW s \in Streams(n), NEW str \in Seq(Nat)
    PROVE  PutString(s, str) \in Streams(n)
  <1>1. PutInt(s, UInt32, Len(str)) \in Streams(n)
    BY PutIntStream DEF UInt32
  <1>2. QED
    BY <1>1, PutBytesStream DEF PutString

\* operator>> for strings: the length that is read is checked before the body.
LEMMA GetStringResult ==
    ASSUME NEW n \in Nat, NEW s \in Streams(n), NEW old \in Seq(Nat)
    PROVE  GetString(s, old) \in Results(n, Seq(Nat))
  <1> DEFINE m == GetInt(s, UInt32, 0)
  <1>1. m \in Results(n, Nat)
    BY GetIntResult DEF UInt32
  <1>2. m.s \in Streams(n) /\ m.v \in Nat
    BY <1>1 DEF Results
  <1>3. GetString(s, old) = [s |-> TakeBytes(m.s, m.v),
                             v |-> IF Fits(m.s, m.v) THEN At(m.s, m.v) ELSE old]
    BY DEF GetString
  <1> HIDE DEF m
  <1>4. TakeBytes(m.s, m.v) \in Streams(n) /\ (Fits(m.s, m.v) => At(m.s, m.v) \in Seq(Nat))
    BY <1>2, TakeBytesStream, AtBytes
  <1>5. QED
    BY <1>3, <1>4 DEF Results

===============================================================================
