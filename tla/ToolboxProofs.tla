---------------------------- MODULE ToolboxProofs ----------------------------
(***************************************************************************)
(* Proofs about the smaller components: TimeArith, Ranges, DbHandles,      *)
(* WinThread and AutoTransaction.  They share no state; each has a section *)
(* here with its invariant, the lemmas about its operators, and its        *)
(* theorems.                                                               *)
(***************************************************************************)
EXTENDS TimeArith, Ranges, DbHandles, WinThread, AutoTransaction,
        FiniteSetTheorems, WellFoundedInduction, TLAPS

-----------------------------------------------------------------------------
(* TimeArith, for any base and any size of long.  The operators keep the   *)
(* microseconds between 0 and a whole second; that is what makes the       *)
(* comparisons, field by field, agree with the order of the instants.      *)

Second == ONE_SEC_IN_USEC
TimeRecord == [sec : Int, usec : Int]
Normal(t) == t.usec \in 0 .. Second

TimesOK == times \in [a : TimeRecord, b : TimeRecord]
TimeIInv == TimesOK /\ (~signed => Normal(times.a) /\ Normal(times.b))

-----------------------------------------------------------------------------
USE TimeAssumption

LEMMA SecondPositive == Second \in Nat /\ Second > 0
  BY DEF TimeAssumption, Second

\* Division in C, of what is not negative by what is positive.
LEMMA DivisionInC ==
    ASSUME NEW n \in Nat, NEW d \in Nat, d > 0
    PROVE  /\ CDiv(n, d) \in Nat /\ d * CDiv(n, d) <= n
           /\ CMod(n, d) \in 0 .. d - 1
  <1>1. CDiv(n, d) = n \div d
    BY DEF CDiv
  <1>2. n \div d \in Nat /\ d * (n \div d) <= n /\ n - d * (n \div d) \in 0 .. d - 1
    OBVIOUS
  <1>3. QED
    BY <1>1, <1>2 DEF CMod

\* Division of any number is a number.
LEMMA DivisionType ==
    ASSUME NEW n \in Int, NEW d \in Nat, d > 0
    PROVE  CDiv(n, d) \in Int /\ CMod(n, d) \in Int
  <1>1. n \div d \in Int /\ (-n) \div d \in Int
    OBVIOUS
  <1>2. CDiv(n, d) \in Int
    BY <1>1 DEF CDiv
  <1>3. QED
    BY <1>2 DEF CMod

\* A product with at least one is at least as large.
LEMMA AtLeastOnce ==
    ASSUME NEW d \in Int, d >= 1, NEW s \in Nat
    PROVE  d * s >= s
  OBVIOUS

\* Two quotients of parts that make at most r seconds make one second at most.
LEMMA QuotientsFit ==
    ASSUME NEW r \in Nat, r > 0, NEW s \in Nat, NEW p \in Nat, NEW q \in Nat,
           r * p <= s, NEW m \in 0 .. r - 1, r * q <= m * s
    PROVE  p + q <= s
  <1>1. m * s <= (r - 1) * s
    OBVIOUS
  <1>2. r * (p + q) <= r * s
    BY <1>1
  <1>3. QED
    BY <1>2

-----------------------------------------------------------------------------
(* What the operators make of times. *)

LEMMA PlusNormal ==
    ASSUME NEW x \in TimeRecord, NEW y \in TimeRecord
    PROVE  /\ Plus(x, y) \in TimeRecord
           /\ Normal(x) /\ Normal(y) => Normal(Plus(x, y))
  <1> DEFINE u == x.usec + y.usec
  <1>1. Second \in Nat /\ x.sec + y.sec \in Int /\ u \in Int
    BY SecondPositive DEF TimeRecord
  <1>2. Plus(x, y) = IF u > Second THEN [sec |-> x.sec + y.sec + 1, usec |-> u - Second]
                     ELSE [sec |-> x.sec + y.sec, usec |-> u]
    BY DEF Plus, Time, Second
  <1>3. Plus(x, y) \in TimeRecord
    BY <1>1, <1>2 DEF TimeRecord
  <1>4. Plus(x, y).usec = IF u > Second THEN u - Second ELSE u
    BY <1>2
  <1>5. Normal(x) /\ Normal(y) => Normal(Plus(x, y))
    BY <1>1, <1>4 DEF Normal
  <1>6. QED
    BY <1>3, <1>5

LEMMA MinusNormal ==
    ASSUME NEW x \in TimeRecord, NEW y \in TimeRecord
    PROVE  /\ Minus(x, y) \in TimeRecord
           /\ Normal(x) /\ Normal(y) => Normal(Minus(x, y))
  <1> DEFINE u == x.usec - y.usec
  <1>1. Second \in Nat /\ x.sec - y.sec \in Int /\ u \in Int
    BY SecondPositive DEF TimeRecord
  <1>2. Minus(x, y) = IF u < 0 THEN [sec |-> x.sec - y.sec - 1, usec |-> u + Second]
                      ELSE [sec |-> x.sec - y.sec, usec |-> u]
    BY DEF Minus, Time, Second
  <1>3. Minus(x, y) \in TimeRecord
    BY <1>1, <1>2 DEF TimeRecord
  <1>4. Minus(x, y).usec = IF u < 0 THEN u + Second ELSE u
    BY <1>2
  <1>5. Normal(x) /\ Normal(y) => Normal(Minus(x, y))
    BY <1>1, <1>4 DEF Normal, TimeRecord
  <1>6. QED
    BY <1>3, <1>5

LEMMA TimesNormal ==
    ASSUME NEW x \in TimeRecord, NEW r \in Nat
    PROVE  /\ Times(x, r) \in TimeRecord
           /\ Normal(x) => Normal(Times(x, r))
  <1> DEFINE u == x.usec * r
             c == CDiv(u, Second)
             m == CMod(u, Second)
             s == x.sec * r
  <1>1. u \in Int /\ s \in Int /\ Second \in Nat /\ Second > 0
    BY SecondPositive DEF TimeRecord
  <1>2. c \in Int /\ m \in Int
    <2> HIDE DEF u
    <2>1. QED
      BY <1>1, DivisionType
  <1>3. Normal(x) => m \in 0 .. Second - 1
    <2>1. Normal(x) => u \in Nat
      BY DEF Normal, TimeRecord
    <2> HIDE DEF u
    <2>2. QED
      BY <1>1, <2>1, DivisionInC
  <1>4. Times(x, r) = [sec |-> s + c, usec |-> m]
    BY DEF Times, Time, Second
  <1> HIDE DEF c, m, s
  <1>5. QED
    BY <1>1, <1>2, <1>3, <1>4 DEF TimeRecord, Normal

LEMMA DividedNormal ==
    ASSUME NEW x \in TimeRecord, NEW r \in Nat, r > 0
    PROVE  /\ Divided(x, r) \in TimeRecord
           /\ Normal(x) /\ x.sec >= 0 => Normal(Divided(x, r))
  <1> DEFINE m == CMod(x.sec, r)
             k == m * Second
             p == CDiv(x.usec, r)
             q == CDiv(k, r)
             s == CDiv(x.sec, r)
  <1>1. x.sec \in Int /\ x.usec \in Int /\ Second \in Nat /\ Second > 0
    BY SecondPositive DEF TimeRecord
  <1>2. m \in Int /\ p \in Int /\ s \in Int
    BY <1>1, DivisionType
  <1>3. x.sec >= 0 => m \in 0 .. r - 1
    BY <1>1, DivisionInC
  <1>4. x.usec >= 0 => p \in Nat /\ r * p <= x.usec
    BY <1>1, DivisionInC
  <1>5. Divided(x, r) = [sec |-> s, usec |-> p + q]
    BY DEF Divided, Time, Second
  <1> HIDE DEF m, p, s
  <1>6. k \in Int /\ (x.sec >= 0 => k \in Nat)
    BY <1>1, <1>2, <1>3
  <1>7. k = m * Second
    OBVIOUS
  <1> HIDE DEF k
  <1>8. q \in Int /\ (x.sec >= 0 => q \in Nat /\ r * q <= k)
    BY <1>6, DivisionType, DivisionInC
  <1> HIDE DEF q
  <1>9. ASSUME Normal(x), x.sec >= 0
        PROVE  p + q \in 0 .. Second
    <2>1. x.usec \in 0 .. Second
      BY <1>9 DEF Normal
    <2>2. /\ p \in Nat /\ r * p <= Second /\ q \in Nat /\ r * q <= m * Second /\ m \in 0 .. r - 1
      BY <1>1, <1>3, <1>4, <1>7, <1>8, <1>9, <2>1
    <2>3. p + q <= Second
      BY <1>1, <2>2, QuotientsFit
    <2>4. QED
      BY <1>1, <2>2, <2>3
  <1>10. QED
    BY <1>2, <1>5, <1>8, <1>9 DEF TimeRecord, Normal

-----------------------------------------------------------------------------
(* The invariant. *)

LEMMA TimeInitEstablishes == TimeInit => TimeIInv
  BY SecondPositive DEF TimeInit, TimeIInv, TimesOK, TimeRecord, Normal, Time

\* The first object gets a time, which is normal if both were, or signed is set.
LEMMA ChangedStep ==
    ASSUME TimeIInv, NEW t \in TimeRecord, Changed(t), signed => signed',
           ~signed' /\ Normal(times.a) /\ Normal(times.b) => Normal(t)
    PROVE  TimeIInv'
  <1>0. times' = [a |-> t, b |-> times.b]
    BY DEF Changed, TimeIInv, TimesOK
  <1>1. times'.a = t /\ times'.b = times.b
    BY <1>0
  <1>2. TimesOK'
    BY <1>0 DEF TimeIInv, TimesOK
  <1>3. ~signed' => Normal(times'.a) /\ Normal(times'.b)
    BY <1>1 DEF TimeIInv
  <1>4. QED
    BY <1>2, <1>3 DEF TimeIInv, Normal

LEMMA TimeIInvInductive == TimeIInv /\ [TimeNext]_timeVars => TimeIInv'
  <1> SUFFICES ASSUME TimeIInv, [TimeNext]_timeVars PROVE TimeIInv'
    OBVIOUS
  <1>1. times.a \in TimeRecord /\ times.b \in TimeRecord
    BY DEF TimeIInv, TimesOK
  <1>2. CASE UNCHANGED <<times, signed>>
    BY <1>2 DEF TimeIInv, TimesOK, Normal
  <1>3. ASSUME NEW sec \in Clock, NEW usec \in Micros, SetTime(sec, usec)
        PROVE  TimeIInv'
    <2>1. sec \in Int /\ usec \in 0 .. Second - 1
      BY DEF TimeAssumption, Second
    <2>2. Time(sec, usec) \in TimeRecord /\ Normal(Time(sec, usec))
      BY <2>1, SecondPositive DEF Time, TimeRecord, Normal
    <2>3. QED
      BY <1>3, <2>2, ChangedStep DEF SetTime
  <1>4. CASE Exchange
    BY <1>4 DEF Exchange, TimeIInv, TimesOK, Normal
  <1>5. CASE Add
    BY <1>1, <1>5, PlusNormal, ChangedStep DEF Add
  <1>6. CASE Subtract
    BY <1>1, <1>6, MinusNormal, ChangedStep DEF Subtract
  <1>7. ASSUME NEW r \in Factors, Multiply(r)
        PROVE  TimeIInv'
    <2>1. r \in Nat
      BY DEF TimeAssumption
    <2>2. Changed(Times(times.a, r)) /\ (signed => signed')
      BY <1>7 DEF Multiply
    <2>3. QED
      BY <1>1, <2>1, <2>2, TimesNormal, ChangedStep
  <1>8. ASSUME NEW r \in Factors, Divide(r)
        PROVE  TimeIInv'
    <2>1. r \in Nat /\ r > 0
      BY DEF TimeAssumption
    <2>2. /\ Changed(Divided(times.a, r)) /\ (signed => signed')
          /\ ~signed' => ~(times.a.sec < 0)
      BY <1>8 DEF Divide
    <2>3. ~signed' => times.a.sec >= 0
      BY <1>1, <2>2 DEF TimeRecord
    <2>4. QED
      BY <1>1, <2>1, <2>2, <2>3, DividedNormal, ChangedStep
  <1>9. ASSUME NEW items, NEW last, Format(items, last)
        PROVE  UNCHANGED <<times, signed>>
    BY <1>9 DEF Format
  <1>10. QED
    BY <1>2, <1>3, <1>4, <1>5, <1>6, <1>7, <1>8, <1>9 DEF TimeNext, timeVars

\* The microseconds of a time are normal, or a whole second (operator+= carries
\* with > only, timehelper.cxx:388), as long as no negative time is divided and no
\* long overflows: -= (:398-409), *= (:426-436) and /= (:413-422) do not add to it.
THEOREM MicrosecondsInRange == TimeSpec => []UsecInRange
  <1>1. TimeIInv => UsecInRange
    BY DEF TimeIInv, Normal, Second, UsecInRange
  <1>2. QED
    BY <1>1, TimeInitEstablishes, TimeIInvInductive, PTL DEF TimeSpec

\* Fields in order are instants in order.
LEMMA FieldsOrder ==
    ASSUME NEW x \in TimeRecord, NEW y \in TimeRecord, Normal(x), Normal(y)
    PROVE  /\ Less(x, y) => Instant(x) <= Instant(y)
           /\ Less(x, y) /\ ~WholeSecond(x) => Instant(x) < Instant(y)
           /\ Less(x, y) \/ Equal(x, y) \/ Less(y, x)
           /\ Greater(x, y) <=> Less(y, x)
           /\ Equal(x, y) => Instant(x) = Instant(y)
  <1>1. /\ x.sec \in Int /\ y.sec \in Int /\ Second \in Nat
        /\ x.usec \in 0 .. Second /\ y.usec \in 0 .. Second
    BY SecondPositive DEF TimeRecord, Normal
  <1>2. Instant(x) = x.sec * Second + x.usec /\ Instant(y) = y.sec * Second + y.usec
    BY DEF Instant, Second
  <1>3. ASSUME x.sec < y.sec
        PROVE  x.sec * Second + Second <= y.sec * Second
    <2>1. (y.sec - x.sec) * Second >= Second
      BY <1>1, <1>3, AtLeastOnce
    <2>2. QED
      BY <1>1, <2>1
  <1>4. ASSUME Less(x, y)
        PROVE  /\ Instant(x) <= Instant(y)
               /\ ~WholeSecond(x) => Instant(x) < Instant(y)
    <2>1. CASE x.sec < y.sec
      <3>1. x.sec * Second \in Int /\ y.sec * Second \in Int
        BY <1>1
      <3>2. ~WholeSecond(x) => x.usec # Second
        BY DEF WholeSecond, Second
      <3>3. QED
        BY <1>1, <1>2, <1>3, <2>1, <3>1, <3>2
    <2>2. CASE x.sec = y.sec /\ x.usec < y.usec
      <3>1. x.sec * Second \in Int
        BY <1>1
      <3>2. QED
        BY <1>1, <1>2, <2>2, <3>1
    <2>3. QED
      BY <1>4, <2>1, <2>2 DEF Less
  <1>5. /\ Less(x, y) \/ Equal(x, y) \/ Less(y, x)
        /\ Greater(x, y) <=> Less(y, x)
    BY <1>1 DEF Less, Equal, Greater
  <1>6. Equal(x, y) => Instant(x) = Instant(y)
    BY <1>2 DEF Equal
  <1>7. QED
    BY <1>4, <1>5, <1>6

\* The comparisons (timehelper.cxx:473-511) order times as their instants are.
THEOREM ComparisonsOrder == TimeSpec => []TimesOrdered
  <1>1. TimeIInv => TimesOrdered
    <2> SUFFICES ASSUME TimeIInv, ~signed PROVE TimesOrdered
      BY DEF TimesOrdered
    <2> DEFINE a == times.a
               b == times.b
    <2>1. a \in TimeRecord /\ b \in TimeRecord /\ Normal(a) /\ Normal(b)
      BY DEF TimeIInv, TimesOK
    <2>2. Instant(a) \in Int /\ Instant(b) \in Int
      BY <2>1, SecondPositive DEF TimeRecord, Instant, Second
    <2> HIDE DEF a, b
    <2>3. /\ Less(a, b) => Instant(a) <= Instant(b)
          /\ Less(b, a) => Instant(b) <= Instant(a)
          /\ Less(a, b) /\ ~WholeSecond(a) => Instant(a) < Instant(b)
          /\ Less(b, a) /\ ~WholeSecond(b) => Instant(b) < Instant(a)
          /\ Less(a, b) \/ Equal(a, b) \/ Less(b, a)
          /\ Greater(a, b) <=> Less(b, a)
          /\ Equal(a, b) => Instant(a) = Instant(b)
      BY <2>1, FieldsOrder
    <2>4. /\ Less(a, b) => Instant(a) <= Instant(b)
          /\ Greater(a, b) => Instant(a) >= Instant(b)
          /\ Less(a, b) \/ Equal(a, b) \/ Greater(a, b)
          /\ ~WholeSecond(a) /\ ~WholeSecond(b)
               => /\ Less(a, b) <=> Instant(a) < Instant(b)
                  /\ Equal(a, b) <=> Instant(a) = Instant(b)
      BY <2>2, <2>3
    <2>5. QED
      BY <2>4 DEF TimesOrdered, a, b
  <1>2. QED
    BY <1>1, TimeInitEstablishes, TimeIInvInductive, PTL DEF TimeSpec

HIDE TimeAssumption


-----------------------------------------------------------------------------
(* Ranges, for any width of _u32, any ranges and any length of the list.   *)
(* The comparison of two ranges is reduced to inequalities between their   *)
(* ends; of the list it is enough that it rises.                           *)

Positions == 0 .. U32 - 1
RangeRecord == [index : Positions, num : Positions]

\* The list is made of straight ranges, one wholly before the next.
ListInv ==
    /\ list \in Seq(RangeRecord)
    /\ \A i \in DOMAIN list : Straight(list[i])
    /\ \A i, j \in DOMAIN list : i < j => list[i].index + list[i].num <= list[j].index

AskedInv ==
    /\ asked \in RangeRecord
    /\ relevant = NotAsked \/ relevant = range_list_is_head_relevant(list, asked)

RangesIInv == ListInv /\ AskedInv

-----------------------------------------------------------------------------
USE RangesAssumption DEF RangesAssumption

\* The end of a straight range is not wrapped.
LEMMA StraightEnd ==
    ASSUME NEW r \in RangeRecord, Straight(r)
    PROVE  /\ r.index \in Nat /\ r.num \in Nat /\ r.num > 0
           /\ EndOf(r) = r.index + r.num
  <1>1. r.index \in Nat /\ r.num \in Nat /\ r.num > 0 /\ r.index + r.num < U32
    BY DEF Straight, RangeRecord, Positions
  <1>2. (r.index + r.num) % U32 = r.index + r.num
    <2>1. \A x \in Nat : x < U32 => x % U32 = x
      OBVIOUS
    <2>2. QED
      BY <1>1, <2>1
  <1>3. QED
    BY <1>1, <1>2 DEF EndOf

\* What the positions say of two ranges, their ends say too.
LEMMA InsideEnds ==
    ASSUME NEW l \in RangeRecord, NEW r \in RangeRecord, Straight(l), Straight(r)
    PROVE  Inside(l, r) <=> r.index <= l.index /\ l.index + l.num <= r.index + r.num
  <1>1. /\ l.index \in Nat /\ l.num \in Nat /\ l.num > 0
        /\ r.index \in Nat /\ r.num \in Nat /\ r.num > 0
    BY StraightEnd
  <1>2. ASSUME Inside(l, r)
        PROVE  r.index <= l.index /\ l.index + l.num <= r.index + r.num
    <2>1. /\ l.index \in l.index .. l.index + l.num - 1
          /\ l.index + l.num - 1 \in l.index .. l.index + l.num - 1
      BY <1>1
    <2>2. Covers(r, l.index) /\ Covers(r, l.index + l.num - 1)
      BY <1>2, <2>1 DEF Inside
    <2>3. QED
      BY <1>1, <2>2 DEF Covers
  <1>3. ASSUME r.index <= l.index, l.index + l.num <= r.index + r.num
        PROVE  Inside(l, r)
    BY <1>1, <1>3 DEF Inside, Covers
  <1>4. QED
    BY <1>2, <1>3

LEMMA CrossedEnds ==
    ASSUME NEW l \in RangeRecord, NEW r \in RangeRecord, Straight(l), Straight(r)
    PROVE  Crossed(l, r) <=> l.index < r.index + r.num /\ r.index < l.index + l.num
  <1>1. /\ l.index \in Nat /\ l.num \in Nat /\ l.num > 0
        /\ r.index \in Nat /\ r.num \in Nat /\ r.num > 0
    BY StraightEnd
  <1>2. ASSUME Crossed(l, r)
        PROVE  l.index < r.index + r.num /\ r.index < l.index + l.num
    <2>1. PICK p \in l.index .. l.index + l.num - 1 : Covers(r, p)
      BY <1>2 DEF Crossed
    <2>2. QED
      BY <1>1, <2>1 DEF Covers
  <1>3. ASSUME l.index < r.index + r.num, r.index < l.index + l.num
        PROVE  Crossed(l, r)
    <2>1. CASE l.index <= r.index
      <3>1. r.index \in l.index .. l.index + l.num - 1 /\ Covers(r, r.index)
        BY <1>1, <1>3, <2>1 DEF Covers
      <3>2. QED
        BY <3>1 DEF Crossed
    <2>2. CASE l.index > r.index
      <3>1. l.index \in l.index .. l.index + l.num - 1 /\ Covers(r, l.index)
        BY <1>1, <1>3, <2>2 DEF Covers
      <3>2. QED
        BY <3>1 DEF Crossed
    <2>3. QED
      BY <1>1, <2>1, <2>2
  <1>4. QED
    BY <1>2, <1>3

\* range_complete in terms of the ends.
LEMMA CompleteEnds ==
    ASSUME NEW l \in RangeRecord, NEW r \in RangeRecord, Straight(l), Straight(r)
    PROVE  LET le == l.index + l.num  re == r.index + r.num IN
           range_complete(l, r) =
             CASE l.index = r.index /\ le = re -> 0
               [] le <= r.index -> -3
               [] l.index >= re -> 3
               [] l.index > r.index /\ l.index < re /\ le > re -> 1
               [] l.index > r.index /\ l.index < re /\ le <= re -> 2
               [] l.index <= r.index /\ le > re -> -2
               [] OTHER -> -1
  <1>1. /\ l.index \in Nat /\ l.num \in Nat /\ l.num > 0
        /\ r.index \in Nat /\ r.num \in Nat /\ r.num > 0
        /\ EndOf(l) = l.index + l.num /\ EndOf(r) = r.index + r.num
    BY StraightEnd
  <1>2. QED
    BY <1>1 DEF range_complete

\* A record of a range is known by its fields.
LEMMA SameRange ==
    ASSUME NEW l \in RangeRecord, NEW r \in RangeRecord
    PROVE  l = r <=> l.index = r.index /\ l.num = r.num
  BY DEF RangeRecord

LEMMA ComparesAsDocumented ==
    ASSUME NEW l \in RangeRecord, NEW r \in RangeRecord, Straight(l), Straight(r)
    PROVE  AsDocumented(l, r)
  <1>1. /\ l.index \in Nat /\ l.num \in Nat /\ l.num > 0
        /\ r.index \in Nat /\ r.num \in Nat /\ r.num > 0
        /\ EndOf(l) = l.index + l.num /\ EndOf(r) = r.index + r.num
    BY StraightEnd
  <1>2. /\ Inside(l, r) <=> r.index <= l.index /\ l.index + l.num <= r.index + r.num
        /\ Inside(r, l) <=> l.index <= r.index /\ r.index + r.num <= l.index + l.num
        /\ Crossed(l, r) <=> l.index < r.index + r.num /\ r.index < l.index + l.num
    BY InsideEnds, CrossedEnds
  <1>3. l = r <=> l.index = r.index /\ l.num = r.num
    BY SameRange
  <1>4. range_complete(l, r) =
             CASE l.index = r.index /\ l.index + l.num = r.index + r.num -> 0
               [] l.index + l.num <= r.index -> -3
               [] l.index >= r.index + r.num -> 3
               [] l.index > r.index /\ l.index < r.index + r.num
                    /\ l.index + l.num > r.index + r.num -> 1
               [] l.index > r.index /\ l.index < r.index + r.num
                    /\ l.index + l.num <= r.index + r.num -> 2
               [] l.index <= r.index /\ l.index + l.num > r.index + r.num -> -2
               [] OTHER -> -1
    BY CompleteEnds
  <1>5. QED
    BY <1>1, <1>2, <1>3, <1>4 DEF AsDocumented, Documented

-----------------------------------------------------------------------------
(* Looking a range up in the list. *)

\* A set of natural numbers has a least element.
LEMMA Least ==
    ASSUME NEW T, T \subseteq Nat, T # {}
    PROVE  \E n \in T : \A m \in T : n <= m
  <1> DEFINE R == {ss \in Nat \X Nat : ss[1] < ss[2]}
  <1>1. IsWellFoundedOn(R, Nat)
    <2>1. R = OpToRel(<, Nat)
      BY Zenon DEF OpToRel
    <2>2. QED
      BY <2>1, NatLessThanWellFounded
  <1>2. ASSUME NEW a \in Nat, NEW b \in Nat, a < b
        PROVE  <<a, b>> \in R
    BY <1>2
  <1> HIDE DEF R
  <1>3. PICK n \in T : \A m \in T : <<m, n>> \notin R
    BY <1>1, WFMin
  <1>4. \A m \in T : ~(m < n)
    BY <1>2, <1>3
  <1>5. QED
    BY <1>4

\* What the deciding node says, by the ends.
LEMMA NodeDecides ==
    ASSUME NEW l \in RangeRecord, NEW r \in RangeRecord, Straight(l), Straight(r)
    PROVE  /\ range_complete(l, r) = -3 <=> l.index + l.num <= r.index
           /\ range_complete(l, r) \in {-2, -1, 0} <=> Covers(l, r.index)
           /\ range_complete(l, r) \in {1, 2}
                <=> l.index > r.index /\ l.index < r.index + r.num
  <1>1. /\ l.index \in Nat /\ l.num \in Nat /\ l.num > 0
        /\ r.index \in Nat /\ r.num \in Nat /\ r.num > 0
    BY StraightEnd
  <1>2. range_complete(l, r) =
             CASE l.index = r.index /\ l.index + l.num = r.index + r.num -> 0
               [] l.index + l.num <= r.index -> -3
               [] l.index >= r.index + r.num -> 3
               [] l.index > r.index /\ l.index < r.index + r.num
                    /\ l.index + l.num > r.index + r.num -> 1
               [] l.index > r.index /\ l.index < r.index + r.num
                    /\ l.index + l.num <= r.index + r.num -> 2
               [] l.index <= r.index /\ l.index + l.num > r.index + r.num -> -2
               [] OTHER -> -1
    BY CompleteEnds
  <1>3. QED
    BY <1>1, <1>2 DEF Covers

\* The answer of the list is that of its first node which does not lie to the left.
LEMMA HeadRelevant ==
    ASSUME ListInv, NEW r \in RangeRecord, Straight(r),
           NEW answer, answer = range_list_is_head_relevant(list, r)
    PROVE  /\ answer = 0 <=> ListCovers(r.index)
           /\ answer = 2 <=> \A i \in DOMAIN list : ~Crossed(list[i], r)
           /\ answer \in {0, 1, 2}
  <1> DEFINE deciding == {i \in DOMAIN list : range_complete(list[i], r) # -3}
             first == CHOOSE i \in deciding : \A j \in deciding : i <= j
  <1>1. r.num \in Nat /\ r.num > 0 /\ r.index \in Nat
    BY StraightEnd
  <1>2. answer = CASE r.num = 0 -> -1
                   [] r.num # 0 /\ deciding = {} -> 2
                   [] OTHER -> CASE range_complete(list[first], r) \in {-2, -1, 0} -> 0
                                 [] range_complete(list[first], r) \in {1, 2} -> 1
                                 [] OTHER -> 2
    BY Zenon DEF range_list_is_head_relevant
  <1>3. \A i \in DOMAIN list : list[i] \in RangeRecord /\ Straight(list[i])
    BY DEF ListInv
  <1>4. ASSUME NEW i \in DOMAIN list
        PROVE  /\ list[i].index \in Nat /\ list[i].num \in Nat /\ list[i].num > 0
               /\ range_complete(list[i], r) = -3 <=> list[i].index + list[i].num <= r.index
               /\ range_complete(list[i], r) \in {-2, -1, 0} <=> Covers(list[i], r.index)
               /\ range_complete(list[i], r) \in {1, 2}
                    <=> list[i].index > r.index /\ list[i].index < r.index + r.num
               /\ Crossed(list[i], r)
                    <=> list[i].index < r.index + r.num /\ r.index < list[i].index + list[i].num
    <2>1. list[i] \in RangeRecord /\ Straight(list[i])
      BY <1>3
    <2>2. QED
      BY <2>1, NodeDecides, CrossedEnds, StraightEnd
  <1>5. CASE deciding = {}
    <2>1. answer = 2
      BY <1>1, <1>2, <1>5
    <2>2. \A i \in DOMAIN list : list[i].index + list[i].num <= r.index
      BY <1>4, <1>5
    <2>3. \A i \in DOMAIN list : ~Covers(list[i], r.index) /\ ~Crossed(list[i], r)
      BY <1>1, <1>4, <2>2 DEF Covers
    <2>4. QED
      BY <2>1, <2>3 DEF ListCovers
  <1>6. CASE deciding # {}
    <2>1. first \in deciding /\ \A j \in deciding : first <= j
      <3>1. deciding \subseteq Nat
        BY DEF ListInv
      <3>2. \E i \in deciding : \A j \in deciding : i <= j
        BY <1>6, <3>1, Least
      <3>3. QED
        BY <3>2
    <2> HIDE DEF first
    <2>2. first \in DOMAIN list /\ ~(list[first].index + list[first].num <= r.index)
      BY <1>4, <2>1
    <2>3. answer = CASE range_complete(list[first], r) \in {-2, -1, 0} -> 0
                     [] range_complete(list[first], r) \in {1, 2} -> 1
                     [] OTHER -> 2
      BY <1>1, <1>2, <1>6
    <2>4. ASSUME NEW i \in DOMAIN list
          PROVE  \/ i = first
                 \/ list[i].index + list[i].num <= r.index
                 \/ list[first].index + list[first].num <= list[i].index
      <3>1. DOMAIN list \subseteq Nat
        BY DEF ListInv
      <3>2. CASE i < first
        <4>1. i \notin deciding
          BY <2>1, <2>2, <3>1, <3>2
        <4>2. QED
          BY <1>4, <4>1
      <3>3. CASE first < i
        BY <2>2, <3>3 DEF ListInv
      <3>4. QED
        BY <2>2, <3>1, <3>2, <3>3
    <2> HIDE DEF deciding
    <2>5. /\ Covers(list[first], r.index) <=> ListCovers(r.index)
          /\ Crossed(list[first], r) <=> \E i \in DOMAIN list : Crossed(list[i], r)
      <3>1. ASSUME NEW i \in DOMAIN list
            PROVE  /\ Covers(list[i], r.index) => i = first
                   /\ Crossed(list[i], r) => Crossed(list[first], r)
        BY <1>1, <1>4, <2>2, <2>4 DEF Covers
      <3>2. QED
        BY <2>2, <3>1 DEF ListCovers
    <2>6. QED
      BY <1>1, <1>4, <2>2, <2>3, <2>5 DEF Covers
  <1>7. QED
    BY <1>5, <1>6

-----------------------------------------------------------------------------
(* The invariant. *)

LEMMA RangesInitEstablishes == RangesInit => RangesIInv
  BY DEF RangesInit, RangesIInv, ListInv, AskedInv, RANGE, RangeRecord, Positions

LEMMA ExtendStep ==
    ASSUME RangesIInv, NEW r \in RangeRecord, Extend(r)
    PROVE  RangesIInv'
  <1> DEFINE n == Len(list)
  <1>1. list \in Seq(RangeRecord) /\ n \in Nat /\ list' = Append(list, r) /\ Straight(r)
    BY DEF RangesIInv, ListInv, Extend, Straight
  <1>2. /\ list' \in Seq(RangeRecord) /\ DOMAIN list' = 1 .. n + 1 /\ list'[n + 1] = r
        /\ \A i \in 1 .. n : list'[i] = list[i]
    BY <1>1
  <1>3. /\ \A i \in 1 .. n : Straight(list[i]) /\ list[i].index + list[i].num <= r.index
        /\ \A i, j \in 1 .. n : i < j => list[i].index + list[i].num <= list[j].index
    BY <1>1 DEF RangesIInv, ListInv, Extend
  <1>4. \A i \in DOMAIN list' : i \in 1 .. n \/ i = n + 1
    BY <1>1, <1>2
  <1>5. \A i \in DOMAIN list' : Straight(list'[i])
    BY <1>1, <1>2, <1>3, <1>4
  <1>6. ASSUME NEW i \in DOMAIN list', NEW j \in DOMAIN list', i < j
        PROVE  list'[i].index + list'[i].num <= list'[j].index
    <2>1. i \in 1 .. n
      BY <1>1, <1>2, <1>6
    <2>2. QED
      BY <1>2, <1>3, <1>4, <1>6, <2>1
  <1>7. AskedInv'
    BY DEF Extend, AskedInv, RANGE, RangeRecord, Positions
  <1>8. QED
    BY <1>2, <1>5, <1>6, <1>7 DEF RangesIInv, ListInv

LEMMA LookUpStep ==
    ASSUME RangesIInv, NEW r \in RangeRecord, LookUp(r)
    PROVE  RangesIInv'
  BY DEF RangesIInv, ListInv, AskedInv, LookUp

LEMMA RangesIInvInductive == RangesIInv /\ [RangesNext]_rangeVars => RangesIInv'
  <1> SUFFICES ASSUME RangesIInv, [RangesNext]_rangeVars PROVE RangesIInv'
    OBVIOUS
  <1>1. CASE UNCHANGED rangeVars
    BY <1>1 DEF rangeVars, RangesIInv, ListInv, AskedInv
  <1>2. \A index \in Indexes, num \in Nums : RANGE(index, num) \in RangeRecord
    BY DEF RANGE, RangeRecord, Positions
  <1>3. QED
    BY <1>1, <1>2, ExtendStep, LookUpStep DEF RangesNext

\* What range_complete says of two ranges (range_func_test.c:43-95) and what
\* range_list_is_head_relevant says of a list (:107-138) is so, at any width.
THEOREM ToldRight == RangesSpec => []RangesTold
  <1>1. RangesIInv => RangesTold
    <2> SUFFICES ASSUME RangesIInv PROVE RangesTold
      OBVIOUS
    <2>1. RangesCompared
      BY ComparesAsDocumented DEF RangesIInv, ListInv, AskedInv, RangesCompared
    <2>2. RelevantTold
      BY HeadRelevant DEF RangesIInv, AskedInv, RelevantTold
    <2>3. QED
      BY <2>1, <2>2 DEF RangesTold
  <1>2. QED
    BY <1>1, RangesInitEstablishes, RangesIInvInductive, PTL DEF RangesSpec

HIDE RangesAssumption DEF RangesAssumption


-----------------------------------------------------------------------------
(* DbHandles, for any objects and any finite set of handles.  What the     *)
(* property says of a deleted object is known from the moment of its       *)
(* deletion: the count was that of its handles, and only goes down.        *)

Impl == [state : {"none", "live", "freed"}, count : Int,
         db : {"none", "open", "closed", "lost"}, stmts : Nat, sharers : Nat]

DbTypeOK ==
    /\ handle \in [Handles -> Impls \cup {Null, Dead}]
    /\ impl \in [Impls -> Impl]

HolderCount(i) == Cardinality(Holders(i))

\* What is known of an object that n handles hold.
Sound(o, n) ==
    /\ o.state = "none" => n = 0
    /\ o.state = "live" => o.count = n /\ (o.db = "open" <=> n > 0)
    /\ o.state = "freed" => (o.db = "open" <=> o.sharers > 2) /\ n < o.sharers
AllSound == \A i \in Impls : Sound(impl[i], HolderCount(i))

\* Only a deleted object that others held, or a null pointer, was followed.
Astray == undefined \in Impls => impl[undefined].state = "freed" /\ impl[undefined].sharers > 1

DbIInv == DbTypeOK /\ AllSound /\ Astray

-----------------------------------------------------------------------------
USE DbAssumption

LEMMA HoldersFinite ==
    ASSUME NEW i
    PROVE  IsFiniteSet(Holders(i)) /\ HolderCount(i) \in Nat
  <1>1. IsFiniteSet(Holders(i))
    BY FS_Subset DEF Holders
  <1>2. QED
    BY <1>1, FS_CardinalityType DEF HolderCount

\* Which handles hold an object after one handle was set.
LEMMA HandleSet ==
    ASSUME DbTypeOK, NEW h \in Handles, NEW v, handle' = [handle EXCEPT ![h] = v]
    PROVE  \A i : HolderCount(i)' = CASE i = v /\ i # handle[h] -> HolderCount(i) + 1
                           [] i # v /\ i = handle[h] -> HolderCount(i) - 1
                           [] OTHER -> HolderCount(i)
  <1>0. PICK old : old = handle[h]
    OBVIOUS
  <1>1. \A i : Holders(i)' = IF i = v THEN Holders(i) \cup {h} ELSE Holders(i) \ {h}
    BY DEF DbTypeOK, Holders
  <1>2. h \in Holders(old) /\ \A i : h \in Holders(i) => i = old
    BY <1>0 DEF Holders
  <1>3. /\ \A i : i # old /\ i # v => HolderCount(i)' = HolderCount(i)
        /\ v = old => HolderCount(v)' = HolderCount(v)
    <2>1. /\ \A i : i # old /\ i # v => Holders(i)' = Holders(i)
          /\ v = old => Holders(v)' = Holders(v)
      BY <1>1, <1>2
    <2>2. QED
      BY <2>1 DEF HolderCount
  <1>4. v # old => HolderCount(v)' = HolderCount(v) + 1
    <2>1. v # old => Holders(v)' = Holders(v) \cup {h} /\ h \notin Holders(v)
      BY <1>1, <1>2
    <2>2. h \notin Holders(v) => Cardinality(Holders(v) \cup {h}) = Cardinality(Holders(v)) + 1
      BY HoldersFinite, FS_AddElement
    <2>3. QED
      BY <2>1, <2>2 DEF HolderCount
  <1>5. Cardinality(Holders(old) \ {h}) = HolderCount(old) - 1
    BY <1>2, HoldersFinite, FS_RemoveElement DEF HolderCount
  <1>6. v # old => HolderCount(old)' = HolderCount(old) - 1
    <2>1. v # old => Holders(old)' = Holders(old) \ {h}
      BY <1>1
    <2>2. QED
      BY <1>5, <2>1 DEF HolderCount
  <1>7. ASSUME NEW i
        PROVE  HolderCount(i)' = CASE i = v /\ i # old -> HolderCount(i) + 1
                         [] i # v /\ i = old -> HolderCount(i) - 1
                         [] OTHER -> HolderCount(i)
    <2>1. CASE i # old /\ i # v
      BY <2>1, <1>3
    <2>2. CASE i = v /\ v = old
      BY <2>2, <1>3
    <2>3. CASE i = v /\ v # old
      BY <2>3, <1>4
    <2>4. CASE i = old /\ v # old
      BY <2>4, <1>6
    <2>5. QED
      BY <2>1, <2>2, <2>3, <2>4
  <1>8. QED
    BY <1>0, <1>7

-----------------------------------------------------------------------------
(* What counting up, counting down and deleting do to an object.           *)

LEMMA AddRef ==
    ASSUME NEW o \in Impl, o.state = "live", NEW n \in Nat, n > 0, Sound(o, n)
    PROVE  add_ref(o) \in Impl /\ add_ref(o).state = "live" /\ Sound(add_ref(o), n + 1)
  <1>1. add_ref(o) \in Impl
    BY DEF add_ref, Impl
  <1>2. add_ref(o).state = "live" /\ add_ref(o).count = o.count + 1 /\ add_ref(o).db = o.db
    BY DEF add_ref, Impl
  <1>3. add_ref(o).count = n + 1 /\ n + 1 > 0 /\ add_ref(o).db = "open"
    BY <1>2 DEF Sound
  <1>4. QED
    BY <1>1, <1>2, <1>3 DEF Sound

LEMMA SubRef ==
    ASSUME NEW o \in Impl
    PROVE  /\ sub_ref(o) \in Impl
           /\ sub_ref(o).state = o.state /\ sub_ref(o).count = o.count - 1
           /\ o.count # 1 => sub_ref(o).db = o.db
           /\ o.count = 1 => sub_ref(o).db \in {"closed", "lost"}
  <1> DEFINE conn == IF o.count # 1 THEN o.db ELSE IF o.stmts = 0 THEN "closed" ELSE "lost"
             c == o.count - 1
  <1>1. conn \in {"none", "open", "closed", "lost"} /\ c \in Int
        /\ (o.count # 1 => conn = o.db) /\ (o.count = 1 => conn \in {"closed", "lost"})
    BY DEF Impl
  <1>2. sub_ref(o) = [o EXCEPT !.count = c, !.db = conn]
    BY DEF sub_ref
  <1> HIDE DEF conn
  <1>3. QED
    BY <1>1, <1>2 DEF Impl

LEMMA SubRefSound ==
    ASSUME NEW o \in Impl, o.state = "live", NEW n \in Nat, n > 0, Sound(o, n)
    PROVE  Sound(sub_ref(o), n - 1)
  BY SubRef DEF Sound, Impl

\* The handle that deletes is one of n; the object's own destructor counts once more.
LEMMA DeleteSound ==
    ASSUME NEW o \in Impl, o.state = "live", NEW n \in Nat, n > 0, Sound(o, n)
    PROVE  /\ DeleteImpl(sub_ref(o), n) \in Impl
           /\ DeleteImpl(sub_ref(o), n).state = "freed"
           /\ Sound(DeleteImpl(sub_ref(o), n), n - 1)
  <1> DEFINE p == sub_ref(o)
             q == sub_ref(p)
  <1>1. /\ p \in Impl /\ p.count = n - 1
        /\ n # 1 => p.db = "open"
        /\ n = 1 => p.db # "open"
    BY SubRef DEF Sound, Impl
  <1> HIDE DEF p
  <1>2. /\ q \in Impl
        /\ n # 2 => q.db = p.db
        /\ n = 2 => q.db # "open"
    BY <1>1, SubRef
  <1> HIDE DEF q
  <1> DEFINE d == [q EXCEPT !.state = "freed", !.sharers = n]
  <1>3. d \in Impl /\ d.state = "freed" /\ d.sharers = n /\ d.db = q.db
    BY <1>2 DEF Impl
  <1> HIDE DEF d
  <1>4. d.db = "open" <=> n > 2
    BY <1>1, <1>2, <1>3
  <1>5. Sound(d, n - 1)
    BY <1>3, <1>4 DEF Sound
  <1>6. DeleteImpl(sub_ref(o), n) = d
    BY DEF DeleteImpl, d, q, p
  <1>7. QED
    BY <1>3, <1>5, <1>6

LEMMA NewSound == NewImpl \in Impl /\ NewImpl.state = "live" /\ Sound(NewImpl, 1)
  BY DEF NewImpl, Impl, Sound

-----------------------------------------------------------------------------
(* Each action preserves the invariant. *)

LEMMA FollowsStep ==
    ASSUME DbIInv, NEW h \in Handles, ~IsLive(h), Follows(h)
    PROVE  DbIInv'
  <1> USE DEF DbIInv
  <1>1. DbTypeOK' /\ AllSound'
    <2>1. handle' = handle /\ impl' = impl /\ \A i : HolderCount(i)' = HolderCount(i)
      BY DEF Follows, HolderCount, Holders
    <2>2. QED
      BY <2>1 DEF DbTypeOK, AllSound
  <1>2. ASSUME handle[h] \in Impls
        PROVE  impl[handle[h]].state = "freed" /\ impl[handle[h]].sharers > 1
    <2>1. HolderCount(handle[h]) \in Nat /\ HolderCount(handle[h]) > 0
      <3>1. h \in Holders(handle[h]) /\ IsFiniteSet(Holders(handle[h]))
        BY HoldersFinite DEF Holders
      <3>2. QED
        BY <3>1, HoldersFinite, FS_EmptySet DEF HolderCount
    <2>2. impl[handle[h]] \in Impl /\ Sound(impl[handle[h]], HolderCount(handle[h]))
      BY <1>2 DEF DbTypeOK, AllSound
    <2>3. impl[handle[h]].state # "live"
      BY <1>2 DEF IsLive
    <2>4. QED
      BY <2>1, <2>2, <2>3 DEF Sound, Impl
  <1>3. Astray'
    BY <1>2 DEF Follows, Astray
  <1>4. QED
    BY <1>1, <1>3

\* A step that keeps every object sound, and the deleted ones as they are.
LEMMA SoundStep ==
    ASSUME DbIInv, UNCHANGED undefined,
           handle' \in [Handles -> Impls \cup {Null, Dead}],
           impl' \in [Impls -> Impl],
           \A i \in Impls : Sound(impl'[i], HolderCount(i)'),
           \A i \in Impls : impl[i].state = "freed" =>
               impl'[i].state = "freed" /\ impl'[i].sharers = impl[i].sharers
    PROVE  DbIInv'
  BY DEF DbIInv, DbTypeOK, AllSound, Astray

\* The same, if one object at most is changed and it was not deleted.
LEMMA OneStep ==
    ASSUME DbIInv, UNCHANGED undefined,
           handle' \in [Handles -> Impls \cup {Null, Dead}],
           NEW i \in Impls, NEW o \in Impl, impl' = [impl EXCEPT ![i] = o],
           impl[i].state # "freed", Sound(o, HolderCount(i)'),
           \A j \in Impls : j # i => HolderCount(j)' = HolderCount(j)
    PROVE  DbIInv'
  <1>1. impl' \in [Impls -> Impl]
    BY DEF DbIInv, DbTypeOK
  <1>2. \A j \in Impls : Sound(impl'[j], HolderCount(j)')
    BY DEF DbIInv, DbTypeOK, AllSound
  <1>3. \A j \in Impls : impl[j].state = "freed" =>
            impl'[j].state = "freed" /\ impl'[j].sharers = impl[j].sharers
    BY DEF DbIInv, DbTypeOK
  <1>4. QED
    BY <1>1, <1>2, <1>3, SoundStep

\* A handle that holds no object is set to hold none.
LEMMA NoObjectStep ==
    ASSUME DbIInv, UNCHANGED <<impl, undefined>>, NEW h \in Handles, handle[h] \notin Impls,
           NEW v \in {Null, Dead}, handle' = [handle EXCEPT ![h] = v]
    PROVE  DbIInv'
  <1>1. \A i \in Impls : HolderCount(i)' = HolderCount(i)
    <2>1. v \notin Impls
      OBVIOUS
    <2>2. \A i : HolderCount(i)' = CASE i = v /\ i # handle[h] -> HolderCount(i) + 1
                          [] i # v /\ i = handle[h] -> HolderCount(i) - 1
                          [] OTHER -> HolderCount(i)
      BY HandleSet DEF DbIInv
    <2>3. QED
      BY <2>1, <2>2
  <1>2. handle' \in [Handles -> Impls \cup {Null, Dead}]
    BY DEF DbIInv, DbTypeOK
  <1>3. QED
    BY <1>1, <1>2, SoundStep DEF DbIInv, DbTypeOK, AllSound

\* A handle that holds no object gets a new one.
LEMMA NewStep ==
    ASSUME DbIInv, UNCHANGED undefined, NEW h \in Handles, handle[h] \notin Impls,
           NEW i \in Impls, impl[i].state = "none",
           handle' = [handle EXCEPT ![h] = i], impl' = [impl EXCEPT ![i] = NewImpl]
    PROVE  DbIInv'
  <1>1. HolderCount(i) = 0
    BY DEF DbIInv, AllSound, Sound
  <1>2. HolderCount(i)' = 1 /\ \A j \in Impls : j # i => HolderCount(j)' = HolderCount(j)
    <2>1. \A j : HolderCount(j)' = CASE j = i /\ j # handle[h] -> HolderCount(j) + 1
                          [] j # i /\ j = handle[h] -> HolderCount(j) - 1
                          [] OTHER -> HolderCount(j)
      BY HandleSet DEF DbIInv
    <2>2. QED
      BY <1>1, <2>1
  <1>3. handle' \in [Handles -> Impls \cup {Null, Dead}]
    BY DEF DbIInv, DbTypeOK
  <1>4. QED
    BY <1>2, <1>3, NewSound, OneStep

\* The object that a handle which follows it safely holds.
LEMMA LiveObject ==
    ASSUME DbIInv, NEW h \in Handles, IsLive(h)
    PROVE  /\ handle[h] \in Impls /\ impl[handle[h]] \in Impl
           /\ impl[handle[h]].state = "live"
           /\ Sound(impl[handle[h]], HolderCount(handle[h]))
           /\ HolderCount(handle[h]) \in Nat /\ HolderCount(handle[h]) > 0
  <1>1. handle[h] \in Impls /\ impl[handle[h]].state = "live"
    BY DEF IsLive
  <1>2. h \in Holders(handle[h]) /\ IsFiniteSet(Holders(handle[h]))
    BY HoldersFinite DEF Holders
  <1>3. HolderCount(handle[h]) \in Nat /\ HolderCount(handle[h]) > 0
    BY <1>2, HoldersFinite, FS_EmptySet DEF HolderCount
  <1>4. QED
    BY <1>1, <1>3 DEF DbIInv, DbTypeOK, AllSound

\* A handle gives up its object, which is counted down or deleted.
LEMMA GiveUpStep ==
    ASSUME DbIInv, UNCHANGED undefined, NEW h \in Handles, IsLive(h),
           NEW v \in {Null, Dead}, handle' = [handle EXCEPT ![h] = v],
           NEW o \in Impl, impl' = [impl EXCEPT ![handle[h]] = o],
           Sound(o, HolderCount(handle[h]) - 1)
    PROVE  DbIInv'
  <1>1. PICK i \in Impls : i = handle[h] /\ impl[i].state = "live"
    BY LiveObject
  <1>2. HolderCount(i)' = HolderCount(i) - 1 /\ \A j \in Impls : j # i => HolderCount(j)' = HolderCount(j)
    <2>1. \A j : HolderCount(j)' = CASE j = v /\ j # handle[h] -> HolderCount(j) + 1
                          [] j # v /\ j = handle[h] -> HolderCount(j) - 1
                          [] OTHER -> HolderCount(j)
      BY HandleSet DEF DbIInv
    <2>2. v \notin Impls
      OBVIOUS
    <2>3. QED
      BY <1>1, <2>1, <2>2
  <1>3. handle' \in [Handles -> Impls \cup {Null, Dead}]
    BY DEF DbIInv, DbTypeOK
  <1>4. impl' = [impl EXCEPT ![i] = o] /\ Sound(o, HolderCount(i)') /\ impl[i].state # "freed"
    BY <1>1, <1>2
  <1>5. QED
    BY <1>2, <1>3, <1>4, OneStep

LEMMA OpenStep ==
    ASSUME DbIInv, NEW h \in Handles, NEW i \in Impls, Open(h, i)
    PROVE  DbIInv'
  <1>1. CASE handle[h] # Null /\ ~IsLive(h)
    BY <1>1, FollowsStep DEF Open
  <1>2. CASE handle[h] = Null
    BY <1>2, NewStep DEF Open, Dropped, IsLive
  <1>3. CASE IsLive(h)
    <2>1. PICK x \in Impls : x = handle[h]
      BY <1>3, LiveObject
    <2> DEFINE d == DeleteImpl(sub_ref(impl[x]), HolderCount(x))
    <2>2. /\ impl[i].state = "none" /\ UNCHANGED undefined
          /\ handle' = [handle EXCEPT ![h] = i]
          /\ impl' = [[impl EXCEPT ![x] = d] EXCEPT ![i] = NewImpl]
      BY <1>3, <2>1 DEF Open, Dropped, HolderCount, IsLive
    <2>3. /\ impl[x] \in Impl /\ impl[x].state = "live" /\ x # i
          /\ Sound(impl[x], HolderCount(x)) /\ HolderCount(x) \in Nat /\ HolderCount(x) > 0
      BY <1>3, <2>1, <2>2, LiveObject
    <2>4. d \in Impl /\ d.state = "freed" /\ Sound(d, HolderCount(x) - 1)
      BY <2>3, DeleteSound
    <2> HIDE DEF d
    <2>5. HolderCount(i) = 0
      BY <2>2 DEF DbIInv, AllSound, Sound
    <2>6. /\ HolderCount(x)' = HolderCount(x) - 1 /\ HolderCount(i)' = 1
          /\ \A j \in Impls : j # x /\ j # i => HolderCount(j)' = HolderCount(j)
      <3>1. \A j : HolderCount(j)' = CASE j = i /\ j # handle[h] -> HolderCount(j) + 1
                            [] j # i /\ j = handle[h] -> HolderCount(j) - 1
                            [] OTHER -> HolderCount(j)
        BY <2>2, HandleSet DEF DbIInv
      <3>2. QED
        BY <2>1, <2>3, <2>5, <3>1
    <2>7. /\ handle' \in [Handles -> Impls \cup {Null, Dead}]
          /\ impl' \in [Impls -> Impl]
      BY <2>2, <2>4, NewSound DEF DbIInv, DbTypeOK
    <2>8. \A j \in Impls : Sound(impl'[j], HolderCount(j)')
      <3>1. Sound(impl'[x], HolderCount(x)') /\ Sound(impl'[i], HolderCount(i)')
        BY <2>2, <2>3, <2>4, <2>6, NewSound DEF DbIInv, DbTypeOK
      <3>2. \A j \in Impls : j # x /\ j # i => Sound(impl'[j], HolderCount(j)')
        BY <2>2, <2>6 DEF DbIInv, DbTypeOK, AllSound
      <3>3. QED
        BY <3>1, <3>2
    <2>9. \A j \in Impls : impl[j].state = "freed" =>
              impl'[j].state = "freed" /\ impl'[j].sharers = impl[j].sharers
      BY <2>2, <2>3 DEF DbIInv, DbTypeOK
    <2>10. QED
      BY <2>2, <2>7, <2>8, <2>9, SoundStep
  <1>4. QED
    BY <1>1, <1>2, <1>3 DEF Open

LEMMA CloseStep ==
    ASSUME DbIInv, NEW h \in Handles, Close(h)
    PROVE  DbIInv'
  <1>1. CASE handle[h] # Null /\ ~IsLive(h)
    BY <1>1, FollowsStep DEF Close
  <1>2. CASE handle[h] = Null
    BY <1>2, NoObjectStep DEF Close, IsLive
  <1>3. CASE IsLive(h)
    <2>1. sub_ref(impl[handle[h]]) \in Impl /\ Sound(sub_ref(impl[handle[h]]), HolderCount(handle[h]) - 1)
      BY <1>3, LiveObject, SubRef, SubRefSound
    <2>2. /\ handle' = [handle EXCEPT ![h] = Null] /\ UNCHANGED undefined
          /\ impl' = [impl EXCEPT ![handle[h]] = sub_ref(impl[handle[h]])]
      BY <1>3 DEF Close
    <2>3. QED
      BY <1>3, <2>1, <2>2, GiveUpStep
  <1>4. QED
    BY <1>1, <1>2, <1>3 DEF Close

LEMMA DestructStep ==
    ASSUME DbIInv, NEW h \in Handles, Destruct(h)
    PROVE  DbIInv'
  <1>1. CASE handle[h] # Null /\ ~IsLive(h)
    BY <1>1, FollowsStep DEF Destruct
  <1>2. CASE handle[h] = Null
    BY <1>2, NoObjectStep DEF Destruct, Dropped, IsLive
  <1>3. CASE IsLive(h)
    <2> DEFINE d == DeleteImpl(sub_ref(impl[handle[h]]), HolderCount(handle[h]))
    <2>1. d \in Impl /\ Sound(d, HolderCount(handle[h]) - 1)
      BY <1>3, LiveObject, DeleteSound
    <2>2. /\ handle' = [handle EXCEPT ![h] = Dead] /\ UNCHANGED undefined
          /\ impl' = [impl EXCEPT ![handle[h]] = d]
      BY <1>3 DEF Destruct, Dropped, HolderCount, IsLive
    <2> HIDE DEF d
    <2>3. QED
      BY <1>3, <2>1, <2>2, GiveUpStep
  <1>4. QED
    BY <1>1, <1>2, <1>3 DEF Destruct

LEMMA CopyStep ==
    ASSUME DbIInv, NEW h \in Handles, NEW from \in Handles, CopyHandle(h, from)
    PROVE  DbIInv'
  <1>1. CASE ~IsLive(from)
    BY <1>1, FollowsStep DEF CopyHandle
  <1>2. CASE IsLive(from)
    <2>1. PICK i \in Impls : i = handle[from]
      BY <1>2, LiveObject
    <2> DEFINE o == add_ref(impl[i])
    <2>2. /\ handle[h] = Dead /\ handle' = [handle EXCEPT ![h] = i]
          /\ impl' = [impl EXCEPT ![i] = o] /\ UNCHANGED undefined
      BY <1>2, <2>1 DEF CopyHandle
    <2>3. o \in Impl /\ impl[i].state # "freed" /\ Sound(o, HolderCount(i) + 1)
      BY <1>2, <2>1, LiveObject, AddRef
    <2> HIDE DEF o
    <2>4. HolderCount(i)' = HolderCount(i) + 1 /\ \A j \in Impls : j # i => HolderCount(j)' = HolderCount(j)
      BY <2>2, HandleSet DEF DbIInv
    <2>5. handle' \in [Handles -> Impls \cup {Null, Dead}]
      BY <2>2 DEF DbIInv, DbTypeOK
    <2>6. QED
      BY <2>2, <2>3, <2>4, <2>5, OneStep
  <1>3. QED
    BY <1>1, <1>2

LEMMA AssignStep ==
    ASSUME DbIInv, NEW h \in Handles, NEW from \in Handles, Assign(h, from)
    PROVE  DbIInv'
  <1>1. CASE ~IsLive(from)
    BY <1>1, FollowsStep DEF Assign
  <1>2. CASE IsLive(from) /\ ~IsLive(h)
    BY <1>2, FollowsStep DEF Assign
  <1>3. CASE IsLive(from) /\ IsLive(h)
    <2>1. PICK i \in Impls : i = handle[from]
      BY <1>3, LiveObject
    <2>2. PICK x \in Impls : x = handle[h]
      BY <1>3, LiveObject
    <2>3. /\ handle' = [handle EXCEPT ![h] = i] /\ UNCHANGED undefined
          /\ impl' = [[impl EXCEPT ![i] = add_ref(@)] EXCEPT ![x] = sub_ref(@)]
      BY <1>3, <2>1, <2>2 DEF Assign
    <2>4. /\ impl[i] \in Impl /\ impl[i].state = "live"
          /\ Sound(impl[i], HolderCount(i)) /\ HolderCount(i) \in Nat /\ HolderCount(i) > 0
          /\ impl[x] \in Impl /\ impl[x].state = "live"
          /\ Sound(impl[x], HolderCount(x)) /\ HolderCount(x) \in Nat /\ HolderCount(x) > 0
      BY <1>3, <2>1, <2>2, LiveObject
    <2>5. handle' \in [Handles -> Impls \cup {Null, Dead}]
      BY <2>3 DEF DbIInv, DbTypeOK
    <2> DEFINE o == add_ref(impl[i])
    <2>6. o \in Impl /\ o.state = "live" /\ Sound(o, HolderCount(i) + 1)
      BY <2>4, AddRef
    <2> HIDE DEF o
    <2>7. CASE i = x
      <3>1. impl' = [impl EXCEPT ![i] = sub_ref(o)]
        BY <2>3, <2>7 DEF DbIInv, DbTypeOK, o
      <3>2. PICK n \in Nat : n = HolderCount(i) + 1 /\ n > 0 /\ n - 1 = HolderCount(i)
        BY <2>4
      <3>3. sub_ref(o) \in Impl /\ Sound(sub_ref(o), HolderCount(i))
        <4>1. Sound(sub_ref(o), n - 1)
          BY <2>6, <3>2, SubRefSound
        <4>2. QED
          BY <2>6, <3>2, <4>1, SubRef
      <3>4. \A j \in Impls : HolderCount(j)' = HolderCount(j)
        BY <2>2, <2>3, <2>7, HandleSet DEF DbIInv
      <3>5. Sound(sub_ref(o), HolderCount(i)')
        BY <3>3, <3>4
      <3>6. QED
        BY <2>3, <2>4, <2>5, <3>1, <3>3, <3>4, <3>5, OneStep
    <2>8. CASE i # x
      <3> DEFINE p == sub_ref(impl[x])
      <3>1. p \in Impl /\ Sound(p, HolderCount(x) - 1)
        BY <2>4, SubRef, SubRefSound
      <3>2. impl' = [[impl EXCEPT ![i] = o] EXCEPT ![x] = p]
        BY <2>3, <2>8 DEF DbIInv, DbTypeOK, o
      <3> HIDE DEF p
      <3>3. /\ HolderCount(x)' = HolderCount(x) - 1 /\ HolderCount(i)' = HolderCount(i) + 1
            /\ \A j \in Impls : j # x /\ j # i => HolderCount(j)' = HolderCount(j)
        BY <2>2, <2>3, <2>8, HandleSet DEF DbIInv
      <3>4. impl' \in [Impls -> Impl]
        BY <2>6, <3>1, <3>2 DEF DbIInv, DbTypeOK
      <3>5. \A j \in Impls : Sound(impl'[j], HolderCount(j)')
        <4>1. Sound(impl'[x], HolderCount(x)') /\ Sound(impl'[i], HolderCount(i)')
          BY <2>6, <2>8, <3>1, <3>2, <3>3 DEF DbIInv, DbTypeOK
        <4>2. \A j \in Impls : j # x /\ j # i => Sound(impl'[j], HolderCount(j)')
          BY <3>2, <3>3 DEF DbIInv, DbTypeOK, AllSound
        <4>3. QED
          BY <4>1, <4>2
      <3>6. \A j \in Impls : impl[j].state = "freed" =>
                impl'[j].state = "freed" /\ impl'[j].sharers = impl[j].sharers
        BY <2>4, <3>2 DEF DbIInv, DbTypeOK
      <3>7. QED
        BY <2>3, <2>5, <3>4, <3>5, <3>6, SoundStep
    <2>9. QED
      BY <2>7, <2>8
  <1>4. QED
    BY <1>1, <1>2, <1>3

\* Statements change nothing that is counted.
LEMMA StmtsStep ==
    ASSUME DbIInv, NEW i \in Impls, NEW n \in Nat, impl' = [impl EXCEPT ![i].stmts = n],
           UNCHANGED <<handle, undefined>>
    PROVE  DbIInv'
  <1>1. \A j : HolderCount(j)' = HolderCount(j)
    BY DEF HolderCount, Holders
  <1>2. impl' \in [Impls -> Impl]
    BY DEF DbIInv, DbTypeOK, Impl
  <1>3. \A j \in Impls : /\ impl'[j].state = impl[j].state /\ impl'[j].count = impl[j].count
                         /\ impl'[j].db = impl[j].db /\ impl'[j].sharers = impl[j].sharers
    BY DEF DbIInv, DbTypeOK, Impl
  <1>4. \A j \in Impls : Sound(impl'[j], HolderCount(j)')
    BY <1>1, <1>3 DEF DbIInv, AllSound, Sound
  <1>5. QED
    BY <1>2, <1>3, <1>4, SoundStep DEF DbIInv, DbTypeOK

LEMMA PrepareStep ==
    ASSUME DbIInv, NEW h \in Handles, Prepare(h)
    PROVE  DbIInv'
  <1>1. CASE ~IsLive(h)
    BY <1>1, FollowsStep DEF Prepare
  <1>2. CASE IsLive(h)
    <2>1. handle[h] \in Impls /\ impl[handle[h]].stmts + 1 \in Nat
      BY <1>2, LiveObject DEF Impl
    <2>2. QED
      BY <1>2, <2>1, StmtsStep DEF Prepare
  <1>3. QED
    BY <1>1, <1>2

LEMMA FinalizeStmtStep ==
    ASSUME DbIInv, NEW i \in Impls, FinalizeStmt(i)
    PROVE  DbIInv'
  <1>1. impl[i].stmts - 1 \in Nat
    BY DEF FinalizeStmt, DbIInv, DbTypeOK, Impl
  <1>2. QED
    BY <1>1, StmtsStep DEF FinalizeStmt

LEMMA DbInitEstablishes == DbInit => DbIInv
  <1> SUFFICES ASSUME DbInit PROVE DbIInv
    OBVIOUS
  <1>1. DbTypeOK
    <2>1. ASSUME NEW o \in Impl
          PROVE  [o EXCEPT !.state = "none", !.count = 0, !.db = "none"] \in Impl
      <3> DEFINE p == [o EXCEPT !.state = "none"]
                 q == [p EXCEPT !.count = 0]
      <3>1. p \in Impl
        BY DEF Impl
      <3> HIDE DEF p
      <3>2. q \in Impl
        BY <3>1 DEF Impl
      <3> HIDE DEF q
      <3>3. [q EXCEPT !.db = "none"] \in Impl
        BY <3>2 DEF Impl
      <3>4. QED
        BY <3>3 DEF p, q
    <2>2. QED
      BY <2>1, NewSound DEF DbInit, DbTypeOK
  <1>2. AllSound
    <2>1. ASSUME NEW i \in Impls PROVE HolderCount(i) = 0 /\ impl[i].state = "none"
      <3>1. Holders(i) = {}
        BY <2>1 DEF DbInit, Holders
      <3>2. QED
        BY <2>1, <3>1, FS_EmptySet DEF DbInit, NewImpl, HolderCount
    <2>2. QED
      BY <2>1 DEF AllSound, Sound
  <1>3. Astray
    BY DEF DbInit, Astray
  <1>4. QED
    BY <1>1, <1>2, <1>3 DEF DbIInv

LEMMA DbIInvInductive == DbIInv /\ [DbNext]_dbVars => DbIInv'
  <1> SUFFICES ASSUME DbIInv, [DbNext]_dbVars PROVE DbIInv'
    OBVIOUS
  <1>1. CASE UNCHANGED dbVars
    BY <1>1 DEF dbVars, DbIInv, DbTypeOK, AllSound, Astray, HolderCount, Holders
  <1>2. ASSUME NEW h \in Handles, Default(h)
        PROVE  DbIInv'
    BY <1>2, NoObjectStep DEF Default
  <1>3. ASSUME NEW h \in Handles, NEW i \in Impls, Connect(h, i)
        PROVE  DbIInv'
    BY <1>3, NewStep DEF Connect
  <1>4. QED
    BY <1>1, <1>2, <1>3, OpenStep, CloseStep, DestructStep, CopyStep, AssignStep,
       PrepareStep, FinalizeStmtStep DEF DbNext

\* The count of an object is the number of its handles until one of them deletes
\* it; which handles are left with a deleted object, and when its connection stays
\* open, is settled by how many held it (SqliteOperator.cpp:262-326).
THEOREM HandlesShareConnections == DbSpec => []ConnectionsShared
  <1>1. DbIInv => ConnectionsShared
    BY DEF DbIInv, AllSound, Sound, Astray, ConnectionsShared, HolderCount
  <1>2. QED
    BY <1>1, DbInitEstablishes, DbIInvInductive, PTL DEF DbSpec

HIDE DbAssumption


-----------------------------------------------------------------------------
(* WinThread, for any objects and handle numbers.  That a thread finds its *)
(* object whole is not inductive: it needs what is known of an object that *)
(* is still under construction, of one that was waited for, and of who may *)
(* have the number of an open handle.                                      *)

Lives == {"none", "base", "derived", "dying", "gone"}
Flags == {"0", "CREATE_SUSPENDED"}

WinThreadTypeOK ==
    /\ object \in [Objects -> [life : Lives, handle : Numbers \cup {Nobody}]]
    /\ opened \in [Numbers -> Objects \cup {Nobody}]
    /\ thread \in [Objects -> [pc : {"none", "start", "ticks", "over"}, suspends : Nat,
                               flag : Flags]]
    /\ waited \subseteq Objects /\ copies \subseteq Objects
    /\ alone \subseteq Objects /\ shared \subseteq Objects

\* Every object that is there has a number; all but the copies have started a thread.
HandlesInv == \A o \in Objects :
    /\ object[o].life \in {"none", "gone"} <=> object[o].handle = Nobody
    /\ thread[o].pc = "none" <=> object[o].life = "none" \/ o \in copies
    /\ o \in copies => object[o].life # "none"

\* The open number of a thread that never shared it is held by that thread's object
\* alone.
SoleInv == \A h \in Numbers : opened[h] \notin shared \cup {Nobody} =>
    /\ opened[h] \notin copies
    /\ \A o \in Objects : object[o].handle = h <=> o = opened[h]

\* Conversely the number of such an object is open and names its thread.
OwnInv == \A o \in Objects \ (copies \cup shared) : object[o].handle # Nobody => Named(o) = o

\* A thread created suspended stays so until its object is constructed.
BaseInv == \A t \in Objects :
    object[t].life = "base" /\ thread[t].flag = "CREATE_SUSPENDED" => thread[t].suspends > 0

\* An owner that waited has seen the end of the thread.
WaitedInv == \A o \in waited :
    /\ object[o].life \in {"derived", "dying", "gone"}
    /\ o \in copies \cup shared \/ thread[o].pc = "over"

\* A thread that could still run is left alone only as the history says.
AloneInv == \A t \in Objects \ copies :
    object[t].life \in {"dying", "gone"}
      => \/ t \in alone \cup shared
         \/ thread[t].pc = "over" \/ thread[t].suspends > 0

\* What the history says of a thread that has brought the program down.
EndedInv == ended # Running =>
    \/ ended.why = "pure call" /\ object[ended.thread].life = "base" /\ thread[ended.thread].flag = "0"
    \/ ended.thread \in alone \cup shared

WinThreadIInv == /\ WinThreadTypeOK /\ HandlesInv /\ SoleInv /\ OwnInv /\ BaseInv /\ WaitedInv
                 /\ AloneInv /\ EndedInv /\ (copies = {} => shared = {})

-----------------------------------------------------------------------------
USE WinThreadAssumption DEF WinThreadAssumption, Lives, Flags, Running, Unmade

LEMMA WinThreadInitEstablishes == WinThreadInit => WinThreadIInv
  BY DEF WinThreadInit, WinThreadIInv, WinThreadTypeOK, HandlesInv, SoleInv, OwnInv, BaseInv, WaitedInv,
         AloneInv, EndedInv

LEMMA NewThreadStep ==
    ASSUME WinThreadIInv, NEW o \in Objects, NEW h \in Numbers, NEW flag \in Flags, New(o, h, flag)
    PROVE  WinThreadIInv'
  <1> USE DEF WinThreadIInv
  <1> DEFINE n == [pc |-> "start", flag |-> flag, suspends |-> IF flag = "CREATE_SUSPENDED" THEN 1 ELSE 0]
  <1> DEFINE m == [life |-> "base", handle |-> h]
  <1>1. /\ object[o].life = "none" /\ ended = Running /\ opened[h] = Nobody
        /\ UNCHANGED <<ended, waited, copies, alone>>
        /\ object' = [object EXCEPT ![o] = m]
        /\ opened' = [opened EXCEPT ![h] = o]
        /\ thread' = [thread EXCEPT ![o] = n]
    BY DEF New, _do_constor, Owner
  <1>2. /\ n \in [pc : {"start"}, suspends : Nat, flag : Flags]
        /\ n.flag = "CREATE_SUSPENDED" => n.suspends > 0
        /\ m \in [life : {"base"}, handle : {h}]
    OBVIOUS
  <1>3. /\ shared' \in {shared, shared \cup {o}}
        /\ o \notin shared' => shared' = shared /\ \A p \in Objects : object[p].handle # h
        /\ copies = {} => shared' = {}
    <2>1. shared' = IF HoldersOf(h) = {} THEN shared ELSE shared \cup {o}
      BY DEF New
    <2>2. ASSUME copies = {} PROVE HoldersOf(h) = {}
      <3>1. \A p \in Objects : object[p].handle # Nobody => opened[object[p].handle] = p
        BY <2>2 DEF OwnInv, Named
      <3>2. QED
        BY <1>1, <3>1 DEF HoldersOf
    <2>3. QED
      BY <2>1, <2>2 DEF HoldersOf
  <1> HIDE DEF n, m
  <1>4. WinThreadTypeOK' /\ HandlesInv'
    <2>1. WinThreadTypeOK'
      BY <1>1, <1>2, <1>3 DEF WinThreadTypeOK
    <2>2. HandlesInv'
      BY <1>1, <1>2 DEF WinThreadTypeOK, HandlesInv
    <2>3. QED
      BY <2>1, <2>2
  <1>5. SoleInv'
    BY <1>1, <1>2, <1>3 DEF WinThreadTypeOK, SoleInv, HandlesInv
  <1>6. OwnInv'
    BY <1>1, <1>2, <1>3 DEF WinThreadTypeOK, OwnInv, Named
  <1>7. BaseInv' /\ WaitedInv'
    BY <1>1, <1>2, <1>3 DEF WinThreadTypeOK, BaseInv, WaitedInv
  <1>8. AloneInv' /\ EndedInv'
    BY <1>1, <1>2, <1>3 DEF WinThreadTypeOK, AloneInv, EndedInv
  <1>9. QED
    BY <1>1, <1>3, <1>4, <1>5, <1>6, <1>7, <1>8

\* The constructor of the derived class is done.
LEMMA ConstructedStep ==
    ASSUME WinThreadIInv, NEW o \in Objects, Constructed(o)
    PROVE  WinThreadIInv'
  <1> USE DEF WinThreadIInv, Constructed
  <1>1. WinThreadTypeOK' /\ HandlesInv'
    BY DEF WinThreadTypeOK, HandlesInv
  <1>2. SoleInv' /\ OwnInv'
    BY DEF WinThreadTypeOK, SoleInv, OwnInv, Named
  <1>3. BaseInv' /\ WaitedInv' /\ AloneInv' /\ EndedInv'
    BY DEF WinThreadTypeOK, BaseInv, WaitedInv, AloneInv, EndedInv
  <1>4. QED
    BY <1>1, <1>2, <1>3

LEMMA CopiedStep ==
    ASSUME WinThreadIInv, NEW o \in Objects, NEW from \in Objects, Copied(o, from)
    PROVE  WinThreadIInv'
  <1> USE DEF WinThreadIInv, Copied
  <1> DEFINE h == object[from].handle
  <1>1. /\ h \in Numbers /\ from # o /\ object[o].life = "none" /\ object[o].handle = Nobody
        /\ object[from].life = "derived" /\ thread[o].pc = "none" /\ o \notin waited
    BY DEF WinThreadTypeOK, HandlesInv, WaitedInv
  <1>2. /\ object' = [object EXCEPT ![o] = object[from]]
        /\ copies' = copies \cup {o}
        /\ shared' = shared \cup ({opened[h]} \ {Nobody})
        /\ UNCHANGED <<opened, thread, ended, waited, alone>>
        /\ ended = Running
    BY DEF Named, Owner
  <1>3. \A p \in Objects : /\ p # o => object'[p] = object[p]
                          /\ object'[o] = object[from]
    BY <1>2 DEF WinThreadTypeOK
  <1>h. object[from].handle = h
    OBVIOUS
  <1> HIDE DEF h
  <1>4. WinThreadTypeOK'
    BY <1>1, <1>2 DEF WinThreadTypeOK
  <1>5. HandlesInv'
    BY <1>1, <1>2, <1>3, <1>h DEF HandlesInv
  <1>6. SoleInv'
    BY <1>1, <1>2, <1>3, <1>h DEF WinThreadTypeOK, SoleInv
  <1>7. OwnInv'
    BY <1>1, <1>2, <1>3 DEF WinThreadTypeOK, OwnInv, Named
  <1>8. BaseInv' /\ WaitedInv'
    BY <1>1, <1>2, <1>3 DEF WinThreadTypeOK, BaseInv, WaitedInv
  <1>9. AloneInv' /\ EndedInv'
    BY <1>1, <1>2, <1>3 DEF AloneInv, EndedInv
  <1>10. QED
    BY <1>2, <1>4, <1>5, <1>6, <1>7, <1>8, <1>9

\* Suspending and resuming change the count of one thread, between constructions.
LEMMA SuspendsStep ==
    ASSUME WinThreadIInv, NEW o \in Objects, NEW n \in Nat, Owner, object[o].life = "derived",
           HandleOpen(o), Suspends(o, n)
    PROVE  WinThreadIInv'
  <1> USE DEF WinThreadIInv
  <1> DEFINE t == Named(o)
  <1>1. ended = Running /\ \A p \in Objects : object[p].life # "base"
    BY DEF Owner, Busy
  <1>2. /\ t \in Objects
        /\ t \in shared \/ t = o
    BY DEF WinThreadTypeOK, HandlesInv, SoleInv, HandleOpen, Named
  <1>3. /\ thread' = [thread EXCEPT ![t].suspends = n]
        /\ UNCHANGED <<object, opened, ended, waited, copies, alone, shared>>
    BY DEF Suspends
  <1> HIDE DEF t
  <1>4. WinThreadTypeOK'
    BY <1>2, <1>3 DEF WinThreadTypeOK
  <1>5. HandlesInv' /\ SoleInv' /\ OwnInv'
    BY <1>2, <1>3 DEF WinThreadTypeOK, HandlesInv, SoleInv, OwnInv, Named
  <1>6. BaseInv' /\ WaitedInv' /\ EndedInv'
    BY <1>1, <1>2, <1>3 DEF WinThreadTypeOK, BaseInv, WaitedInv, EndedInv
  <1>7. AloneInv'
    BY <1>2, <1>3 DEF WinThreadTypeOK, AloneInv
  <1>8. QED
    BY <1>3, <1>4, <1>5, <1>6, <1>7

LEMMA WaitStep ==
    ASSUME WinThreadIInv, NEW o \in Objects, Wait(o)
    PROVE  WinThreadIInv'
  <1> USE DEF WinThreadIInv, Wait
  <1>1. o \in copies \cup shared \/ thread[o].pc = "over"
    BY DEF WinThreadTypeOK, HandlesInv, OwnInv, HandleOpen
  <1>2. WinThreadTypeOK' /\ HandlesInv' /\ SoleInv' /\ OwnInv' /\ BaseInv'
    BY DEF WinThreadTypeOK, HandlesInv, SoleInv, OwnInv, BaseInv, Named
  <1>3. WaitedInv' /\ AloneInv' /\ EndedInv'
    BY <1>1 DEF WaitedInv, AloneInv, EndedInv
  <1>4. QED
    BY <1>2, <1>3

\* A destructor begins.
LEMMA DeleteStep ==
    ASSUME WinThreadIInv, NEW o \in Objects, Delete(o)
    PROVE  WinThreadIInv'
  <1> USE DEF WinThreadIInv, Delete
  <1>1. /\ alone' \in {alone, alone \cup {o}}
        /\ o \in waited \/ thread[o].suspends > 0 \/ o \in alone'
    OBVIOUS
  <1>2. WinThreadTypeOK' /\ HandlesInv'
    BY <1>1 DEF WinThreadTypeOK, HandlesInv
  <1>3. SoleInv' /\ OwnInv'
    BY DEF WinThreadTypeOK, SoleInv, OwnInv, Named
  <1>4. BaseInv' /\ WaitedInv' /\ EndedInv'
    BY <1>1 DEF WinThreadTypeOK, BaseInv, WaitedInv, EndedInv, Owner
  <1>5. AloneInv'
    BY <1>1 DEF WinThreadTypeOK, AloneInv, WaitedInv
  <1>6. QED
    BY <1>2, <1>3, <1>4, <1>5

\* The destructor of the base class closes a number: no other object's that is not
\* a copy and has not shared its own.
LEMMA DeletedStep ==
    ASSUME WinThreadIInv, NEW o \in Objects, Deleted(o)
    PROVE  WinThreadIInv'
  <1> USE DEF WinThreadIInv, Deleted
  <1> DEFINE h == object[o].handle
  <1> DEFINE m == [life |-> "gone", handle |-> Nobody]
  <1>1. h \in Numbers /\ object[o].life = "dying" /\ ended = Running
    BY DEF WinThreadTypeOK, HandlesInv
  <1>2. /\ object' = [object EXCEPT ![o] = m]
        /\ opened' = [opened EXCEPT ![h] = Nobody]
        /\ UNCHANGED <<thread, ended, waited, copies, alone, shared>>
    OBVIOUS
  <1>3. m \in [life : {"gone"}, handle : {Nobody}] /\ h = object[o].handle
    OBVIOUS
  <1> HIDE DEF h, m
  <1>4. WinThreadTypeOK' /\ HandlesInv'
    <2>1. WinThreadTypeOK'
      BY <1>1, <1>2, <1>3 DEF WinThreadTypeOK
    <2>2. HandlesInv'
      BY <1>1, <1>2, <1>3 DEF WinThreadTypeOK, HandlesInv
    <2>3. QED
      BY <2>1, <2>2
  <1>5. SoleInv'
    BY <1>1, <1>2, <1>3 DEF WinThreadTypeOK, SoleInv
  <1>6. OwnInv'
    BY <1>1, <1>2, <1>3 DEF WinThreadTypeOK, OwnInv, SoleInv, Named
  <1>7. BaseInv' /\ WaitedInv'
    BY <1>1, <1>2, <1>3 DEF WinThreadTypeOK, BaseInv, WaitedInv
  <1>8. AloneInv' /\ EndedInv'
    BY <1>1, <1>2, <1>3 DEF WinThreadTypeOK, AloneInv, EndedInv
  <1>9. QED
    BY <1>2, <1>4, <1>5, <1>6, <1>7, <1>8

\* A step of a thread that goes on.
LEMMA ProceedsStep ==
    ASSUME WinThreadIInv, NEW t \in Objects, NEW next \in {"ticks", "over"},
           ended = Running, thread[t].pc \in {"start", "ticks"}, Proceeds(t, next)
    PROVE  WinThreadIInv'
  <1> USE DEF WinThreadIInv, Proceeds
  <1>1. WinThreadTypeOK' /\ HandlesInv'
    BY DEF WinThreadTypeOK, HandlesInv
  <1>2. SoleInv' /\ OwnInv'
    BY DEF SoleInv, OwnInv, Named
  <1>3. BaseInv' /\ WaitedInv' /\ EndedInv'
    BY DEF WinThreadTypeOK, BaseInv, WaitedInv, EndedInv
  <1>4. AloneInv'
    BY DEF WinThreadTypeOK, AloneInv
  <1>5. QED
    BY <1>1, <1>2, <1>3, <1>4

\* Only a thread created running runs before its object is whole.
LEMMA RunsInBase ==
    ASSUME WinThreadTypeOK, BaseInv, NEW t \in Objects, thread[t].suspends = 0, object[t].life = "base"
    PROVE  thread[t].flag = "0"
  <1>1. thread[t].flag # "CREATE_SUSPENDED"
    BY DEF BaseInv
  <1>2. thread[t].flag \in Flags
    BY DEF WinThreadTypeOK
  <1>3. QED
    BY <1>1, <1>2

\* What brings the program down changes nothing but the history of it.
LEMMA EndStep ==
    ASSUME WinThreadIInv, NEW t \in Objects, NEW why, BringsDown(t, why), EndedInv'
    PROVE  WinThreadIInv'
  BY DEF BringsDown, WinThreadIInv, WinThreadTypeOK, HandlesInv, SoleInv, OwnInv, Named, BaseInv,
         WaitedInv, AloneInv

LEMMA PureCallStep ==
    ASSUME WinThreadIInv, NEW t \in Objects, thread[t].suspends = 0, object[t].life = "base",
           BringsDown(t, "pure call")
    PROVE  WinThreadIInv'
  <1>1. thread[t].flag = "0"
    BY RunsInBase DEF WinThreadIInv
  <1>2. EndedInv'
    BY <1>1 DEF BringsDown, EndedInv
  <1>3. QED
    BY <1>2, EndStep

\* A thread that runs when its object is being destroyed, or is gone.
LEMMA LateStep ==
    ASSUME WinThreadIInv, NEW t \in Objects, thread[t].suspends = 0, thread[t].pc \in {"start", "ticks"},
           object[t].life \in {"dying", "gone"}, NEW why, BringsDown(t, why)
    PROVE  WinThreadIInv'
  <1>1. t \in alone \cup shared
    BY DEF WinThreadIInv, WinThreadTypeOK, HandlesInv, AloneInv
  <1>2. EndedInv'
    BY <1>1 DEF BringsDown, EndedInv
  <1>3. QED
    BY <1>2, EndStep

LEMMA WinThreadIInvInductive == WinThreadIInv /\ [WinThreadNext]_winThreadVars => WinThreadIInv'
  <1> SUFFICES ASSUME WinThreadIInv, [WinThreadNext]_winThreadVars PROVE WinThreadIInv'
    OBVIOUS
  <1>1. CASE UNCHANGED winThreadVars
    BY <1>1 DEF winThreadVars, WinThreadIInv, WinThreadTypeOK, HandlesInv, SoleInv, OwnInv, Named,
                BaseInv, WaitedInv, AloneInv, EndedInv
  <1>2. ASSUME NEW o \in Objects, NEW h \in Numbers, NEW flag \in Flags, New(o, h, flag)
        PROVE  WinThreadIInv'
    BY <1>2, NewThreadStep
  <1>3. ASSUME NEW o \in Objects, Constructed(o) \/ Wait(o) \/ Delete(o) \/ Deleted(o)
        PROVE  WinThreadIInv'
    BY <1>3, ConstructedStep, WaitStep, DeleteStep, DeletedStep
  <1>4. ASSUME NEW o \in Objects, NEW from \in Objects, Copied(o, from)
        PROVE  WinThreadIInv'
    BY <1>4, CopiedStep
  <1>5. ASSUME NEW o \in Objects, resume(o) \/ suspend(o)
        PROVE  WinThreadIInv'
    <2>1. Owner /\ object[o].life = "derived" /\ HandleOpen(o)
      BY <1>5 DEF resume, suspend
    <2>2. Count(o) \in Nat
      BY <2>1 DEF WinThreadIInv, WinThreadTypeOK, HandlesInv, HandleOpen, Named, Count
    <2>3. \E n \in Nat : Suspends(o, n)
      BY <1>5, <2>2 DEF resume, suspend
    <2>4. QED
      BY <2>1, <2>3, SuspendsStep
  <1>6. ASSUME NEW t \in Objects, launch(t) \/ thread_proc(t)
        PROVE  WinThreadIInv'
    BY <1>6, ProceedsStep, PureCallStep, LateStep DEF launch, thread_proc, Runs
  <1>7. QED
    BY <1>1, <1>2, <1>3, <1>4, <1>5, <1>6 DEF WinThreadNext

\* A thread finds its object whole, but for the three ways the code leaves open:
\* started by the base class's constructor (win_thread_class.h:152-163), destroyed
\* without a wait (:122-129), or with a number that a second object had, which is
\* closed once for each of them, whichever thread it names by then.
THEOREM ThreadsFindTheirObject == WinThreadSpec => []ThreadsSeeTheirObject
  <1>1. WinThreadIInv => ThreadsSeeTheirObject
    BY DEF WinThreadIInv, OwnInv, EndedInv, ThreadsSeeTheirObject
  <1>2. QED
    BY <1>1, WinThreadInitEstablishes, WinThreadIInvInductive, PTL DEF WinThreadSpec

-----------------------------------------------------------------------------
(* AutoTransaction, for any number of connections, scopes and I/O errors.  *)

Outside == {"out", "begin"}
Body == PCs \ {"out", "begin", "finalize", "destroy"}

\* A connection in whose scope BEGIN has succeeded keeps m_commited clear until
\* Commit(); an inner AutoTransaction owns a transaction only if the outer does not.
FlagsInv == \A c \in Conns :
    /\ pc[c] = "begin" => committed[c] = "false"
    /\ nested[c] # "none" => pc[c] \in {"updateB", "retryB", "nestEnd", "finalize", "destroy"}
    /\ pc[c] = "nestEnd" => nested[c] # "none"
    /\ c \notin stuck /\ nested[c] = "false" => committed[c] = "true" /\ c \in bare
    /\ c \notin bare /\ pc[c] \in Body => committed[c] = "false"

\* A transaction is open while an AutoTransaction has to end it, and only then
\* the connection has a lock.
OpenInv == \A c \in Conns \ stuck :
    /\ c \notin autocommit <=> pc[c] \notin Outside /\ "false" \in {committed[c], nested[c]}
    /\ c \in autocommit => lock[c] = "NONE"

\* What c has of the file, as long as no BEGIN or END has failed.
Holds(c, a, b) == cache[c]["a"] = a /\ cache[c]["b"] = b
Saw(c) ==
    /\ pc[c] = "select" => lock[c] = "NONE" \/ Holds(c, done, done)
    /\ pc[c] \in {"updateA", "retryA"} =>
          lock[c] # "NONE" /\ seen[c] = done /\ Holds(c, done, done)
    /\ pc[c] \in {"nestBegin", "updateB", "retryB"} =>
          lock[c] \in Writing /\ seen[c] = done /\ Holds(c, done + 1, done)
    /\ pc[c] \in {"nestEnd", "commit"} => lock[c] \in Writing /\ Holds(c, done + 1, done + 1)

DataInv == bare = {} /\ stuck = {} =>
    /\ db["a"] = done /\ db["b"] = done
    /\ \A c \in Conns : Saw(c)

IInv == TypeOK /\ FlagsInv /\ OpenInv /\ DataInv
-----------------------------------------------------------------------------
USE AutoTransactionAssumption, SqliteAssumption
    DEF AutoTransactionAssumption, SqliteAssumption, PCs, Locks, Writing, Rows, Outside, Body

\* At first every connection is outside and the file holds no change.
LEMMA InitEstablishes == Init => IInv
  BY DEF Init, EngineInit, IInv, TypeOK, EngineTypeOK, FlagsInv, OpenInv, DataInv, Saw, Holds

\* What the statements do to the engine keeps its type.
LEMMA EngineSteps ==
    ASSUME EngineTypeOK, NEW c \in Conns
    PROVE  /\ \A result : Begin(c, result) => EngineTypeOK'
           /\ \A result : BeginExclusive(c, result) => EngineTypeOK'
           /\ \A result : Select(c, result) => EngineTypeOK'
           /\ \A r \in Rows, v \in Nat : \A result : Update(c, r, v, result) => EngineTypeOK'
           /\ \A result : End(c, result) => EngineTypeOK'
           /\ Rollback(c) => EngineTypeOK'
  <1> USE DEF EngineTypeOK, engineVars, IoError
  <1>1. \A result : Begin(c, result) => EngineTypeOK'
    BY DEF Begin
  <1>2. \A result : BeginExclusive(c, result) => EngineTypeOK'
    BY DEF BeginExclusive
  <1>3. \A result : Select(c, result) => EngineTypeOK'
    <2>1. View(c) \in [Rows -> Nat]
      BY DEF View
    <2>2. [lock EXCEPT ![c] = IF @ = "NONE" THEN "SHARED" ELSE @] \in [Conns -> Locks]
      OBVIOUS
    <2>3. [cache EXCEPT ![c] = View(c)] \in [Conns -> [Rows -> Nat]]
      BY <2>1
    <2> QED
      BY <2>2, <2>3 DEF Select
  <1>4. \A r \in Rows, v \in Nat : \A result : Update(c, r, v, result) => EngineTypeOK'
    <2> SUFFICES ASSUME NEW r \in Rows, NEW v \in Nat, NEW result, Update(c, r, v, result)
                 PROVE  EngineTypeOK'
      OBVIOUS
    <2>1. View(c) \in [Rows -> Nat]
      BY DEF View
    <2>2. [View(c) EXCEPT ![r] = v] \in [Rows -> Nat] /\ [db EXCEPT ![r] = v] \in [Rows -> Nat]
      BY <2>1
    <2>3. [lock EXCEPT ![c] = IF @ \in Writing THEN @ ELSE "RESERVED"] \in [Conns -> Locks]
      OBVIOUS
    <2>4. [cache EXCEPT ![c] = [View(c) EXCEPT ![r] = v]] \in [Conns -> [Rows -> Nat]]
      BY <2>2
    <2> QED
      BY <2>2, <2>3, <2>4 DEF Update
  <1>5. \A result : End(c, result) => EngineTypeOK'
    BY DEF End, Ended
  <1>6. Rollback(c) => EngineTypeOK'
    BY DEF Rollback, Ended
  <1> QED
    BY <1>1, <1>2, <1>3, <1>4, <1>5, <1>6

\* One lemma per action: what it does to the types, to the flags, to the open
\* transactions and to the data.
LEMMA EnterStep == ASSUME IInv, NEW c \in Conns, Enter(c) PROVE IInv'
  <1>1. TypeOK'
    BY DEF IInv, TypeOK, EngineTypeOK, engineVars, Enter, Goto
  <1>2. FlagsInv'
    BY DEF IInv, TypeOK, EngineTypeOK, FlagsInv, OpenInv, engineVars, Enter, Goto
  <1>3. OpenInv'
    BY DEF IInv, TypeOK, EngineTypeOK, FlagsInv, OpenInv, engineVars, Enter, Goto
  <1>4. DataInv'
    BY DEF IInv, TypeOK, EngineTypeOK, FlagsInv, OpenInv, DataInv, Saw, Holds, engineVars,
           Enter, Goto
  <1> QED
    BY <1>1, <1>2, <1>3, <1>4 DEF IInv

LEMMA ConstructStep == ASSUME IInv, NEW c \in Conns, Construct(c) PROVE IInv'
  <1>1. TypeOK'
    <2>1. EngineTypeOK'
      BY EngineSteps DEF IInv, TypeOK, Construct, Exec
    <2> QED
      BY <2>1 DEF IInv, TypeOK, Construct, Goto
  <1>2. FlagsInv'
    BY DEF IInv, TypeOK, EngineTypeOK, FlagsInv, OpenInv, engineVars, Construct, Exec, Begin,
           BeginExclusive, Goto, IoError
  <1>3. OpenInv'
    BY DEF IInv, TypeOK, EngineTypeOK, FlagsInv, OpenInv, engineVars, Construct, Exec, Begin,
           BeginExclusive, Goto, IoError
  <1>4. DataInv'
    BY DEF IInv, TypeOK, EngineTypeOK, FlagsInv, OpenInv, DataInv, Saw, Holds, engineVars,
           Construct, Exec, Begin, BeginExclusive, Goto, IoError
  <1> QED
    BY <1>1, <1>2, <1>3, <1>4 DEF IInv

LEMMA QueryStep == ASSUME IInv, NEW c \in Conns, Query(c) PROVE IInv'
  <1>1. TypeOK'
    <2>1. EngineTypeOK'
      BY EngineSteps DEF IInv, TypeOK, Query
    <2>2. View(c)["a"] \in Nat
      BY DEF IInv, TypeOK, EngineTypeOK, View
    <2> QED
      BY <2>1, <2>2 DEF IInv, TypeOK, Query, GiveUp
  <1>2. FlagsInv'
    BY DEF IInv, TypeOK, EngineTypeOK, FlagsInv, OpenInv, engineVars, Query, Select, GiveUp, View
  <1>3. OpenInv'
    BY DEF IInv, TypeOK, EngineTypeOK, FlagsInv, OpenInv, engineVars, Query, Select, GiveUp, View
  <1>4. DataInv'
    BY DEF IInv, TypeOK, EngineTypeOK, FlagsInv, OpenInv, DataInv, Saw, Holds, engineVars,
           Query, Select, GiveUp, View
  <1> QED
    BY <1>1, <1>2, <1>3, <1>4 DEF IInv

LEMMA UpdateAStep == ASSUME IInv, NEW c \in Conns, UpdateA(c) PROVE IInv'
  <1>1. TypeOK'
    <2>1. seen[c] + 1 \in Nat /\ "a" \in Rows
      BY DEF IInv, TypeOK
    <2>2. EngineTypeOK'
      BY <2>1, EngineSteps DEF IInv, TypeOK, UpdateA, Execute
    <2> QED
      BY <2>2 DEF IInv, TypeOK, UpdateA, Execute, GiveUp
  <1>2. FlagsInv'
    BY DEF IInv, TypeOK, EngineTypeOK, FlagsInv, OpenInv, engineVars, UpdateA, Execute,
           Update, GiveUp, View
  <1>3. OpenInv'
    BY DEF IInv, TypeOK, EngineTypeOK, FlagsInv, OpenInv, engineVars, UpdateA, Execute,
           Update, GiveUp, View
  <1>4. DataInv'
    BY SMTT(30) DEF IInv, TypeOK, EngineTypeOK, FlagsInv, OpenInv, DataInv, Saw, Holds, engineVars,
           UpdateA, Execute, Update, GiveUp, View
  <1> QED
    BY <1>1, <1>2, <1>3, <1>4 DEF IInv

LEMMA NestStep == ASSUME IInv, NEW c \in Conns, Nest(c) PROVE IInv'
  <1>1. TypeOK'
    BY DEF IInv, TypeOK, EngineTypeOK, engineVars, Nest, Begin, Goto, IoError
  <1>2. FlagsInv'
    BY DEF IInv, TypeOK, EngineTypeOK, FlagsInv, OpenInv, engineVars, Nest, Begin, Goto, IoError
  <1>3. OpenInv'
    BY DEF IInv, TypeOK, EngineTypeOK, FlagsInv, OpenInv, engineVars, Nest, Begin, Goto, IoError
  <1>4. DataInv'
    BY DEF IInv, TypeOK, EngineTypeOK, FlagsInv, OpenInv, DataInv, Saw, Holds, engineVars,
           Nest, Begin, Goto, IoError
  <1> QED
    BY <1>1, <1>2, <1>3, <1>4 DEF IInv

LEMMA UpdateBStep == ASSUME IInv, NEW c \in Conns, UpdateB(c) PROVE IInv'
  <1>1. TypeOK'
    <2>1. seen[c] + 1 \in Nat /\ "b" \in Rows
      BY DEF IInv, TypeOK
    <2>2. EngineTypeOK'
      BY <2>1, EngineSteps DEF IInv, TypeOK, UpdateB, Execute
    <2> QED
      BY <2>2 DEF IInv, TypeOK, UpdateB, Execute, GiveUp
  <1>2. FlagsInv'
    BY DEF IInv, TypeOK, EngineTypeOK, FlagsInv, OpenInv, engineVars, UpdateB, Execute,
           Update, GiveUp, View
  <1>3. OpenInv'
    BY DEF IInv, TypeOK, EngineTypeOK, FlagsInv, OpenInv, engineVars, UpdateB, Execute,
           Update, GiveUp, View
  <1>4. DataInv'
    BY SMTT(30) DEF IInv, TypeOK, EngineTypeOK, FlagsInv, OpenInv, DataInv, Saw, Holds, engineVars,
           UpdateB, Execute, Update, GiveUp, View
  <1> QED
    BY <1>1, <1>2, <1>3, <1>4 DEF IInv

LEMMA UnnestStep == ASSUME IInv, NEW c \in Conns, Unnest(c) PROVE IInv'
  <1>1. TypeOK'
    <2>1. EngineTypeOK'
      BY EngineSteps DEF IInv, TypeOK, Unnest, EngineTypeOK, engineVars
    <2> QED
      BY <2>1 DEF IInv, TypeOK, Unnest, Goto
  <1>2. FlagsInv'
    BY DEF IInv, TypeOK, EngineTypeOK, FlagsInv, OpenInv, engineVars, Unnest, End, Ended,
           Goto, IoError
  <1>3. OpenInv'
    BY DEF IInv, TypeOK, EngineTypeOK, FlagsInv, OpenInv, engineVars, Unnest, End, Ended,
           Goto, IoError
  <1>4. DataInv'
    BY DEF IInv, TypeOK, EngineTypeOK, FlagsInv, OpenInv, DataInv, Saw, Holds, engineVars,
           Unnest, End, Ended, Goto, IoError
  <1> QED
    BY <1>1, <1>2, <1>3, <1>4 DEF IInv

LEMMA CommitStep == ASSUME IInv, NEW c \in Conns, Commit(c) PROVE IInv'
  <1>1. TypeOK'
    <2>1. EngineTypeOK'
      BY EngineSteps DEF IInv, TypeOK, Commit, EngineTypeOK, engineVars
    <2> QED
      BY <2>1 DEF IInv, TypeOK, Commit, Goto
  <1>2. FlagsInv'
    BY DEF IInv, TypeOK, EngineTypeOK, FlagsInv, OpenInv, engineVars, Commit, End, Ended,
           Goto, IoError, MayOwn, Others
  <1>3. OpenInv'
    BY DEF IInv, TypeOK, EngineTypeOK, FlagsInv, OpenInv, engineVars, Commit, End, Ended,
           Goto, IoError, MayOwn, Others
  <1>4. DataInv'
    BY DEF IInv, TypeOK, EngineTypeOK, FlagsInv, OpenInv, DataInv, Saw, Holds, engineVars,
           Commit, End, Ended, Goto, IoError, MayOwn, Others
  <1> QED
    BY <1>1, <1>2, <1>3, <1>4 DEF IInv

LEMMA FinalizeStep == ASSUME IInv, NEW c \in Conns, Finalize(c) PROVE IInv'
  <1>1. TypeOK'
    BY DEF IInv, TypeOK, EngineTypeOK, engineVars, Finalize, Goto
  <1>2. FlagsInv'
    BY DEF IInv, TypeOK, EngineTypeOK, FlagsInv, OpenInv, engineVars, Finalize, Goto
  <1>3. OpenInv'
    BY DEF IInv, TypeOK, EngineTypeOK, FlagsInv, OpenInv, engineVars, Finalize, Goto
  <1>4. DataInv'
    BY DEF IInv, TypeOK, EngineTypeOK, FlagsInv, OpenInv, DataInv, Saw, Holds, engineVars,
           Finalize, Goto
  <1> QED
    BY <1>1, <1>2, <1>3, <1>4 DEF IInv

LEMMA DestroyStep == ASSUME IInv, NEW c \in Conns, Destroy(c) PROVE IInv'
  <1>1. TypeOK'
    BY DEF IInv, TypeOK, EngineTypeOK, engineVars, Destroy, Goto, Rollback, Ended
  <1>2. FlagsInv'
    BY DEF IInv, TypeOK, EngineTypeOK, FlagsInv, OpenInv, engineVars, Destroy, Goto, Rollback, Ended
  <1>3. OpenInv'
    BY DEF IInv, TypeOK, EngineTypeOK, FlagsInv, OpenInv, engineVars, Destroy, Goto, Rollback, Ended
  <1>4. DataInv'
    BY DEF IInv, TypeOK, EngineTypeOK, FlagsInv, OpenInv, DataInv, Saw, Holds, engineVars,
           Destroy, Goto, Rollback, Ended
  <1> QED
    BY <1>1, <1>2, <1>3, <1>4 DEF IInv

LEMMA ThrowStep == ASSUME IInv, NEW c \in Conns, Throw(c) PROVE IInv'
  <1>1. TypeOK'
    BY DEF IInv, TypeOK, EngineTypeOK, engineVars, Throw, GiveUp
  <1>2. FlagsInv'
    BY DEF IInv, TypeOK, EngineTypeOK, FlagsInv, OpenInv, engineVars, Throw, GiveUp
  <1>3. OpenInv'
    BY DEF IInv, TypeOK, EngineTypeOK, FlagsInv, OpenInv, engineVars, Throw, GiveUp
  <1>4. DataInv'
    BY DEF IInv, TypeOK, EngineTypeOK, FlagsInv, OpenInv, DataInv, Saw, Holds, engineVars,
           Throw, GiveUp
  <1> QED
    BY <1>1, <1>2, <1>3, <1>4 DEF IInv

LEMMA IInvInductive == IInv /\ [Next]_vars => IInv'
  <1> SUFFICES ASSUME IInv, [Next]_vars PROVE IInv'
    OBVIOUS
  <1>1. ASSUME NEW c \in Conns, Enter(c) \/ Step(c) \/ Throw(c)
        PROVE  IInv'
    BY <1>1, EnterStep, ConstructStep, QueryStep, UpdateAStep, NestStep, UpdateBStep, UnnestStep,
       CommitStep, FinalizeStep, DestroyStep, ThrowStep DEF Step
  <1>2. CASE UNCHANGED vars
    BY <1>2 DEF vars, codeVars, engineVars, IInv, TypeOK, EngineTypeOK, FlagsInv, OpenInv,
                DataInv, Saw, Holds
  <1> QED
    BY <1>1, <1>2 DEF Next

LEMMA Invariant == Spec => []IInv
  BY InitEstablishes, IInvInductive, PTL DEF Spec

\* The engine's locks and pages, the flags m_commited of the AutoTransactions and
\* the counters keep their types, whatever the statements return.
THEOREM TypeCorrect == Spec => []TypeOK
  <1>1. IInv => TypeOK
    BY DEF IInv
  <1> QED
    BY <1>1, Invariant, PTL

\* On a connection none of whose BEGINs and ENDs has failed, a transaction is open
\* exactly from the BEGIN of AutoTransaction's constructor to Commit() or to the
\* ROLLBACK of its destructor, for any number of connections: an AutoTransaction
\* inside another one, whose own BEGIN fails, ends nothing.
THEOREM ScopesAreTransactions == Spec => []ScopeIsTransaction
  <1>1. IInv => ScopeIsTransaction
    BY DEF IInv, TypeOK, FlagsInv, OpenInv, ScopeIsTransaction
  <1> QED
    BY <1>1, Invariant, PTL

\* A connection that has left its scope, by Commit(), by an early return or by an
\* exception, keeps no lock on the file that could make others busy for ever.
THEOREM NoLockStays == Spec => []NoLockLeft
  <1>1. IInv => NoLockLeft
    BY DEF IInv, TypeOK, OpenInv, NoLockLeft
  <1> QED
    BY <1>1, Invariant, PTL

\* The two rows that a scope changes are changed together or not at all and no
\* connection overwrites the change of another, for any number of connections that
\* read, change, give up on SQLITE_BUSY or throw in any order.
THEOREM TransactionsAreAtomic == Spec => []AllOrNothing
  <1>1. IInv => AllOrNothing
    BY DEF IInv, DataInv, AllOrNothing
  <1> QED
    BY <1>1, Invariant, PTL

=============================================================================
