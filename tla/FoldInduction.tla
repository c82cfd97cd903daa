---------------------------- MODULE FoldInduction ----------------------------
(***************************************************************************)
(* What a fold computes, for every step operator.  The parameter of a      *)
(* theorem cannot be an operator that the provers are to find, so Step is  *)
(* a constant of this module: a module that reasons about a fold of its    *)
(* own instantiates it with the step of that fold.  The first two          *)
(* arguments of Step are what stays the same from step to step.            *)
(***************************************************************************)
EXTENDS Naturals, Sequences, FiniteSetTheorems, WellFoundedInduction, TLAPS

CONSTANT Step(_, _, _, _)

Fold(c, d, base, seq) ==
    LET iter[T \in SUBSET DOMAIN seq] ==
          IF T = {} THEN base
          ELSE LET x == CHOOSE x \in T : \A y \in T : x >= y
               IN  Step(c, d, iter[T \ {x}], seq[x])
    IN  iter[DOMAIN seq]
FoldOverSet(c, d, base, S) ==
    LET iter[T \in SUBSET S] ==
          IF T = {} THEN base
          ELSE LET x == CHOOSE x \in T : TRUE IN Step(c, d, iter[T \ {x}], x)
    IN  iter[S]

-----------------------------------------------------------------------------
Max(T) == CHOOSE x \in T : \A y \in T : x >= y

\* A set of numbers has a least member.
LEMMA Least ==
    ASSUME NEW U, U \subseteq Nat, U # {}
    PROVE  \E u \in U : \A v \in U : u <= v
  <1> DEFINE R == {p \in Nat \X Nat : p[1] < p[2]}
  <1>1. IsWellFoundedOn(R, Nat)
    <2>1. R = OpToRel(<, Nat)
      BY Zenon DEF OpToRel
    <2>2. QED
      BY <2>1, NatLessThanWellFounded
  <1>2. ASSUME NEW v \in Nat, NEW u \in Nat, v < u
        PROVE  <<v, u>> \in R
    BY <1>2
  <1> HIDE DEF R
  <1>3. PICK u \in U : \A v \in U : <<v, u>> \notin R
    BY <1>1, WFMin
  <1>4. \A v \in U : ~(v < u)
    BY <1>2, <1>3
  <1>5. QED
    BY <1>4

\* A set of numbers that holds 0 and the successor of each of its members
\* holds them all.
LEMMA AllNumbers ==
    ASSUME NEW M, 0 \in M, \A m \in Nat : m \in M => m + 1 \in M
    PROVE  \A m \in Nat : m \in M
  <1> DEFINE U == Nat \ M
  <1> SUFFICES ASSUME U # {}
               PROVE  FALSE
    OBVIOUS
  <1>1. PICK u \in U : \A v \in U : u <= v
    <2> HIDE DEF U
    <2>1. U \subseteq Nat
      BY DEF U
    <2>2. QED
      BY <2>1, Least
  <1>2. u # 0 /\ u - 1 \in Nat /\ (u - 1) + 1 = u
    BY <1>1
  <1>3. QED
    BY <1>1, <1>2

\* The function that a fold over D recurs on: pick tells which member of a
\* set comes last, item what the step is given for it.
Recursion(c, d, base, D, pick, item, it) ==
    it = [T \in SUBSET D |->
            IF T = {} THEN base ELSE Step(c, d, it[T \ {pick[T]}], item[pick[T]])]

\* There is such a function, whatever the step.
LEMMA RecursionDefined ==
    ASSUME NEW c, NEW d, NEW base, NEW D, IsFiniteSet(D), NEW item,
           NEW pick, \A T \in SUBSET D : T # {} => pick[T] \in T
    PROVE  \E it : Recursion(c, d, base, D, pick, item, it)
  <1> DEFINE UpTo(m, it) ==
               it = [T \in SUBSET D |->
                       IF T = {} \/ Cardinality(T) > m THEN base
                       ELSE Step(c, d, it[T \ {pick[T]}], item[pick[T]])]
             M == {m \in Nat : \E it : UpTo(m, it)}
  <1>1. ASSUME NEW T \in SUBSET D
        PROVE  /\ Cardinality(T) \in Nat
               /\ Cardinality(T) <= Cardinality(D)
               /\ Cardinality(D) \in Nat
    BY FS_Subset, FS_CardinalityType
  <1>2. ASSUME NEW T \in SUBSET D
        PROVE  Cardinality(T) > 0 <=> T # {}
    <2>1. IsFiniteSet(T)
      BY FS_Subset
    <2>2. Cardinality(T) = 0 <=> T = {}
      BY <2>1, FS_EmptySet
    <2>3. QED
      BY <1>1, <2>2
  <1>3. ASSUME NEW T \in SUBSET D, T # {}
        PROVE  /\ T \ {pick[T]} \in SUBSET D
               /\ Cardinality(T \ {pick[T]}) = Cardinality(T) - 1
    <2>1. IsFiniteSet(T)
      BY FS_Subset
    <2>2. pick[T] \in T
      BY <1>3
    <2>3. QED
      BY <2>1, <2>2, FS_RemoveElement
  <1>4. 0 \in M
    <2> DEFINE none == [T \in SUBSET D |-> base]
    <2>1. UpTo(0, none)
      BY <1>2, Zenon
    <2>2. QED
      BY <2>1
  <1>5. ASSUME NEW m \in Nat, m \in M
        PROVE  m + 1 \in M
    <2>1. PICK it : UpTo(m, it)
      BY <1>5
    <2> DEFINE next == [T \in SUBSET D |->
                          IF T = {} \/ Cardinality(T) > m + 1 THEN base
                          ELSE Step(c, d, it[T \ {pick[T]}], item[pick[T]])]
    <2>2. ASSUME NEW T \in SUBSET D, ~(Cardinality(T) > m)
          PROVE  next[T] = it[T]
      <3>1. ~(Cardinality(T) > m + 1)
        BY <1>1, <2>2
      <3>2. QED
        BY <2>1, <2>2, <3>1, Zenon
    <2>3. ASSUME NEW T \in SUBSET D, T # {}, ~(Cardinality(T) > m + 1)
          PROVE  next[T \ {pick[T]}] = it[T \ {pick[T]}]
      <3>1. T \ {pick[T]} \in SUBSET D /\ ~(Cardinality(T \ {pick[T]}) > m)
        BY <1>1, <1>3, <2>3
      <3> HIDE DEF next
      <3>2. QED
        BY <2>2, <3>1
    <2>4. UpTo(m + 1, next)
      BY <2>3, Zenon
    <2>5. m + 1 \in Nat
      OBVIOUS
    <2> HIDE DEF next, UpTo
    <2>6. QED
      BY <2>4, <2>5
  <1>6. \A m \in Nat : m \in M
    <2> HIDE DEF M
    <2> QED
      BY <1>4, <1>5, AllNumbers
  <1>7. PICK it : UpTo(Cardinality(D), it)
    BY <1>1, <1>6
  <1>8. \A T \in SUBSET D : ~(Cardinality(T) > Cardinality(D))
    BY <1>1
  <1>9. Recursion(c, d, base, D, pick, item, it)
    BY <1>7, <1>8, Zenon DEF Recursion
  <1>10. QED
    BY <1>9

\* P is the row of values that a fold computes, one for each number of elements:
\* the base, and from then on what the step makes of the one before.
Prefixes(c, d, base, seq, P) ==
    /\ P[0] = base
    /\ \A i \in 1 .. Len(seq) : P[i] = Step(c, d, P[i - 1], seq[i])
    /\ Fold(c, d, base, seq) = P[Len(seq)]

\* There is one for every fold over a sequence.
THEOREM FoldPrefixes ==
    ASSUME NEW c, NEW d, NEW base, NEW E, NEW seq \in Seq(E)
    PROVE  \E P : Prefixes(c, d, base, seq, P)
  <1> DEFINE n == Len(seq)
             D == 1 .. n
             pick == [T \in SUBSET D |-> Max(T)]

  <1>1. n \in Nat /\ DOMAIN seq = D /\ IsFiniteSet(D)
    BY FS_Interval
  <1>2. \A i \in 0 .. n : i # 0 => /\ Max(1 .. i) = i
                                   /\ (1 .. i) \ {i} = 1 .. (i - 1)
    BY DEF Max
  <1>3. ASSUME NEW T \in SUBSET D, T # {}
        PROVE  Max(T) \in T
    <2> DEFINE U == {u \in Nat : n - u \in T}
    <2>1. U \subseteq Nat /\ U # {}
      <3>1. PICK e \in T : TRUE
        BY <1>3
      <3>2. e \in 1 .. n /\ n - e \in Nat /\ n - (n - e) = e
        BY <1>1
      <3>3. n - e \in U
        BY <3>2
      <3>4. QED
        BY <3>3
    <2>2. PICK u \in U : \A v \in U : u <= v
      <3> HIDE DEF U
      <3> QED
        BY <2>1, Least
    <2>3. \A e \in T : n - u >= e
      <3>1. ASSUME NEW e \in T
            PROVE  n - u >= e
        <4>1. e \in 1 .. n /\ n - e \in Nat /\ n - (n - e) = e
          BY <1>1
        <4>2. u <= n - e
          BY <2>2, <4>1
        <4>3. QED
          BY <1>1, <4>1, <4>2
      <3>2. QED
        BY <3>1
    <2>4. n - u \in T
      BY <2>2
    <2>5. QED
      BY <2>3, <2>4 DEF Max
  <1>4. \A T \in SUBSET D : T # {} => pick[T] \in T
    BY <1>3
  <1>5. PICK g : Recursion(c, d, base, D, pick, seq, g)
    <2> HIDE DEF D, pick
    <2> QED
      BY <1>1, <1>4, RecursionDefined
  <1> DEFINE Folds(f) ==
               f = [T \in SUBSET DOMAIN seq |->
                      IF T = {} THEN base ELSE Step(c, d, f[T \ {Max(T)}], seq[Max(T)])]
  <1>6. Folds(g)
    BY <1>1, <1>5 DEF Recursion
  <1>7. ASSUME NEW f, Folds(f)
        PROVE  \E P : /\ P[0] = base
                      /\ \A i \in 1 .. n : P[i] = Step(c, d, P[i - 1], seq[i])
                      /\ f[DOMAIN seq] = P[n]
    <2> DEFINE P == [i \in 0 .. n |-> f[1 .. i]]
    <2>1. P[0] = base
      <3>1. 1 .. 0 = {} /\ {} \in SUBSET DOMAIN seq
        OBVIOUS
      <3>2. f[{}] = base
        BY <1>7, <3>1
      <3>3. QED
        BY <1>1, <3>1, <3>2
    <2>2. ASSUME NEW i \in 1 .. n
          PROVE  P[i] = Step(c, d, P[i - 1], seq[i])
      <3>1. /\ i \in 0 .. n /\ i - 1 \in 0 .. n /\ i # 0
            /\ 1 .. i \in SUBSET DOMAIN seq /\ 1 .. i # {}
        BY <1>1
      <3>2. Max(1 .. i) = i /\ (1 .. i) \ {i} = 1 .. (i - 1)
        BY <1>2, <3>1
      <3>3. f[1 .. i] = Step(c, d, f[1 .. (i - 1)], seq[i])
        BY <1>7, <3>1, <3>2
      <3>4. QED
        BY <3>1, <3>3
    <2>3. P[n] = f[DOMAIN seq]
      BY <1>1
    <2> HIDE DEF P
    <2>4. QED
      BY <2>1, <2>2, <2>3
  <1>8. Fold(c, d, base, seq) = (CHOOSE f : Folds(f))[DOMAIN seq]
    BY DEF Fold, Max
  <1> HIDE DEF Folds
  <1>9. QED
    BY <1>6, <1>7, <1>8 DEF Prefixes

\* What a fold over a sequence computes satisfies any invariant, one set of
\* values for each number of elements, that the base and every step satisfy.
THEOREM FoldInvariant ==
    ASSUME NEW c, NEW d, NEW base, NEW E, NEW seq \in Seq(E), NEW Inv,
           base \in Inv[0],
           \A i \in 1 .. Len(seq) : \A a \in Inv[i - 1] : Step(c, d, a, seq[i]) \in Inv[i]
    PROVE  Fold(c, d, base, seq) \in Inv[Len(seq)]
  <1>1. PICK P : /\ P[0] = base
                 /\ \A i \in 1 .. Len(seq) : P[i] = Step(c, d, P[i - 1], seq[i])
                 /\ Fold(c, d, base, seq) = P[Len(seq)]
    BY FoldPrefixes DEF Prefixes
  <1> DEFINE M == {i \in Nat : i <= Len(seq) => P[i] \in Inv[i]}
  <1>2. 0 \in M
    BY <1>1
  <1>3. ASSUME NEW i \in Nat, i \in M
        PROVE  i + 1 \in M
    <2> SUFFICES ASSUME i + 1 <= Len(seq)
                 PROVE  P[i + 1] \in Inv[i + 1]
      OBVIOUS
    <2>1. i + 1 \in 1 .. Len(seq) /\ (i + 1) - 1 = i
      OBVIOUS
    <2>2. P[i] \in Inv[i]
      BY <1>3
    <2>3. P[i + 1] = Step(c, d, P[i], seq[i + 1])
      BY <1>1, <2>1
    <2>4. QED
      BY <2>1, <2>2, <2>3
  <1>4. Len(seq) \in M
    <2> HIDE DEF M
    <2> QED
      BY <1>2, <1>3, AllNumbers
  <1>5. QED
    BY <1>1, <1>4

\* The type of a fold over a sequence is that of its base, if every step keeps it.
THEOREM FoldType ==
    ASSUME NEW X, NEW E, NEW c, NEW d, NEW base \in X, NEW seq \in Seq(E),
           \A a \in X, e \in E : Step(c, d, a, e) \in X
    PROVE  Fold(c, d, base, seq) \in X
  <1> DEFINE Inv == [i \in 0 .. Len(seq) |-> X]
  <1>1. \A i \in 1 .. Len(seq) : \A a \in Inv[i - 1] : Step(c, d, a, seq[i]) \in Inv[i]
    OBVIOUS
  <1>2. base \in Inv[0]
    OBVIOUS
  <1>3. Fold(c, d, base, seq) \in Inv[Len(seq)]
    <2> HIDE DEF Inv
    <2> QED
      BY <1>1, <1>2, FoldInvariant
  <1>4. QED
    BY <1>3

\* The same for a fold over a finite set.
THEOREM FoldOverSetType ==
    ASSUME NEW X, NEW c, NEW d, NEW base \in X, NEW S, IsFiniteSet(S),
           \A a \in X, e \in S : Step(c, d, a, e) \in X
    PROVE  FoldOverSet(c, d, base, S) \in X
  <1> DEFINE pick == [T \in SUBSET S |-> CHOOSE e \in T : TRUE]
             item == [e \in S |-> e]
             Folds(f) ==
               f = [T \in SUBSET S |->
                      IF T = {} THEN base
                      ELSE Step(c, d, f[T \ {CHOOSE e \in T : TRUE}], CHOOSE e \in T : TRUE)]
  <1>1. \A T \in SUBSET S : T # {} => pick[T] \in T
    OBVIOUS
  <1>2. PICK g : Recursion(c, d, base, S, pick, item, g)
    <2> HIDE DEF pick, item
    <2> QED
      BY <1>1, RecursionDefined
  <1>3. Folds(g)
    BY <1>1, <1>2 DEF Recursion
  <1>4. ASSUME NEW f, Folds(f)
        PROVE  f[S] \in X
    <2> DEFINE M == {m \in Nat : \A T \in SUBSET S : Cardinality(T) = m => f[T] \in X}
    <2>1. 0 \in M
      <3>1. \A T \in SUBSET S : Cardinality(T) = 0 => T = {}
        BY FS_Subset, FS_EmptySet
      <3>2. f[{}] \in X
        BY <1>4
      <3>3. QED
        BY <3>1, <3>2
    <2>2. ASSUME NEW m \in Nat, m \in M
          PROVE  m + 1 \in M
      <3> SUFFICES ASSUME NEW T \in SUBSET S, Cardinality(T) = m + 1
                   PROVE  f[T] \in X
        OBVIOUS
      <3> DEFINE e == CHOOSE x \in T : TRUE
      <3>1. IsFiniteSet(T) /\ T # {}
        BY FS_Subset, FS_EmptySet
      <3>2. e \in T
        BY <3>1
      <3>3. Cardinality(T \ {e}) = m /\ T \ {e} \in SUBSET S
        <4> HIDE DEF e
        <4>1. Cardinality(T \ {e}) = Cardinality(T) - 1
          BY <3>1, <3>2, FS_RemoveElement
        <4>2. QED
          BY <4>1
      <3>4. f[T] = Step(c, d, f[T \ {e}], e)
        BY <1>4, <3>1
      <3>5. f[T \ {e}] \in X
        BY <2>2, <3>3
      <3> HIDE DEF e
      <3>6. QED
        BY <3>2, <3>4, <3>5
    <2>3. Cardinality(S) \in M
      <3> HIDE DEF M
      <3> QED
        BY <2>1, <2>2, AllNumbers, FS_CardinalityType
    <2>4. QED
      BY <2>3
  <1>5. FoldOverSet(c, d, base, S) = (CHOOSE f : Folds(f))[S]
    BY DEF FoldOverSet
  <1> HIDE DEF Folds
  <1>6. QED
    BY <1>3, <1>4, <1>5

-----------------------------------------------------------------------------
(* Folds over a set do not depend on the order, if the step does not.      *)

SetRecursion(c, d, base, S, f) ==
    f = [T \in SUBSET S |->
           IF T = {} THEN base
           ELSE Step(c, d, f[T \ {CHOOSE e \in T : TRUE}], CHOOSE e \in T : TRUE)]

\* The function under a fold over a set.
LEMMA SetRecursionChosen ==
    ASSUME NEW c, NEW d, NEW base, NEW S, IsFiniteSet(S)
    PROVE  \E f : SetRecursion(c, d, base, S, f) /\ FoldOverSet(c, d, base, S) = f[S]
  <1> DEFINE pick == [T \in SUBSET S |-> CHOOSE e \in T : TRUE]
             item == [e \in S |-> e]
             Folds(f) == SetRecursion(c, d, base, S, f)
  <1>1. \A T \in SUBSET S : T # {} => pick[T] \in T
    OBVIOUS
  <1>2. PICK g : Recursion(c, d, base, S, pick, item, g)
    <2> HIDE DEF pick, item
    <2> QED
      BY <1>1, RecursionDefined
  <1>3. Folds(g)
    BY <1>1, <1>2 DEF Recursion, SetRecursion
  <1>4. FoldOverSet(c, d, base, S) = (CHOOSE f : Folds(f))[S]
    BY DEF FoldOverSet, SetRecursion
  <1> HIDE DEF Folds
  <1>5. Folds(CHOOSE f : Folds(f))
    BY <1>3
  <1>6. QED
    BY <1>4, <1>5 DEF Folds

\* What holds of the empty set, and of a set if it holds of what is left of it
\* without any one of its members, holds of every subset of a finite set.
LEMMA SubsetInduction ==
    ASSUME NEW S, IsFiniteSet(S), NEW Good, {} \in Good,
           \A T \in SUBSET S : T # {} /\ (\A e \in T : T \ {e} \in Good) => T \in Good
    PROVE  \A T \in SUBSET S : T \in Good
  <1> DEFINE M == {m \in Nat : \A T \in SUBSET S : Cardinality(T) = m => T \in Good}
  <1>1. 0 \in M
    <2>1. \A T \in SUBSET S : Cardinality(T) = 0 => T = {}
      BY FS_Subset, FS_EmptySet
    <2>2. QED
      BY <2>1
  <1>2. ASSUME NEW m \in Nat, m \in M
        PROVE  m + 1 \in M
    <2> SUFFICES ASSUME NEW T \in SUBSET S, Cardinality(T) = m + 1
                 PROVE  T \in Good
      OBVIOUS
    <2>1. IsFiniteSet(T) /\ T # {}
      BY FS_Subset, FS_EmptySet
    <2>2. ASSUME NEW e \in T
          PROVE  T \ {e} \in Good
      <3>1. Cardinality(T \ {e}) = Cardinality(T) - 1
        BY <2>1, FS_RemoveElement
      <3>2. Cardinality(T \ {e}) = m /\ T \ {e} \in SUBSET S
        BY <3>1
      <3>3. QED
        BY <1>2, <3>2
    <2>3. QED
      BY <2>1, <2>2
  <1>3. \A m \in Nat : m \in M
    <2> HIDE DEF M
    <2> QED
      BY <1>1, <1>2, AllNumbers
  <1>4. \A T \in SUBSET S : Cardinality(T) \in Nat
    BY FS_Subset, FS_CardinalityType
  <1>5. QED
    BY <1>3, <1>4

\* It does not matter of which set it is a subset that is folded over.
LEMMA SetRecursionsAgree ==
    ASSUME NEW c, NEW d, NEW base, NEW S, IsFiniteSet(S), NEW R \in SUBSET S,
           NEW f, SetRecursion(c, d, base, S, f), NEW g, SetRecursion(c, d, base, R, g)
    PROVE  f[R] = g[R]
  <1> DEFINE Good == {T \in SUBSET R : f[T] = g[T]}
  <1>1. \A T \in SUBSET R :
          /\ f[T] = IF T = {} THEN base
                    ELSE Step(c, d, f[T \ {CHOOSE e \in T : TRUE}], CHOOSE e \in T : TRUE)
          /\ g[T] = IF T = {} THEN base
                    ELSE Step(c, d, g[T \ {CHOOSE e \in T : TRUE}], CHOOSE e \in T : TRUE)
    BY DEF SetRecursion
  <1>2. {} \in Good
    BY <1>1
  <1>3. ASSUME NEW T \in SUBSET R, T # {}, \A e \in T : T \ {e} \in Good
        PROVE  T \in Good
    <2> DEFINE x == CHOOSE e \in T : TRUE
    <2>1. x \in T
      BY <1>3
    <2>2. f[T \ {x}] = g[T \ {x}]
      <3> HIDE DEF x
      <3> QED
        BY <1>3, <2>1
    <2>3. f[T] = Step(c, d, f[T \ {x}], x) /\ g[T] = Step(c, d, g[T \ {x}], x)
      BY <1>1, <1>3
    <2> HIDE DEF x
    <2>4. QED
      BY <2>2, <2>3
  <1>4. IsFiniteSet(R)
    BY FS_Subset
  <1> HIDE DEF Good
  <1>5. \A T \in SUBSET R : T \in Good
    BY <1>2, <1>3, <1>4, SubsetInduction
  <1>6. QED
    BY <1>5 DEF Good

\* A fold over a set takes one of the members last.
LEMMA FoldOverSetChosen ==
    ASSUME NEW c, NEW d, NEW base, NEW S, IsFiniteSet(S), S # {}
    PROVE  \E x \in S :
             FoldOverSet(c, d, base, S) = Step(c, d, FoldOverSet(c, d, base, S \ {x}), x)
  <1> DEFINE x == CHOOSE e \in S : TRUE
  <1>1. PICK f : SetRecursion(c, d, base, S, f) /\ FoldOverSet(c, d, base, S) = f[S]
    BY SetRecursionChosen
  <1> DEFINE R == S \ {x}
  <1>2. IsFiniteSet(R) /\ R \in SUBSET S
    BY FS_Subset
  <1>3. f[S] = Step(c, d, f[R], x)
    BY <1>1 DEF SetRecursion
  <1> HIDE DEF R, x
  <1>4. \E g : SetRecursion(c, d, base, R, g) /\ FoldOverSet(c, d, base, R) = g[R]
    BY <1>2, SetRecursionChosen
  <1>5. PICK g : SetRecursion(c, d, base, R, g) /\ FoldOverSet(c, d, base, R) = g[R]
    BY <1>4
  <1>6. f[R] = g[R]
    BY <1>1, <1>2, <1>5, SetRecursionsAgree
  <1>7. FoldOverSet(c, d, base, S) = Step(c, d, FoldOverSet(c, d, base, R), x)
    BY <1>1, <1>3, <1>5, <1>6
  <1>8. x \in S
    BY DEF x
  <1>9. QED
    BY <1>7, <1>8 DEF R

\* A fold over no members yields the base.
THEOREM FoldOverNothing ==
    ASSUME NEW c, NEW d, NEW base
    PROVE  FoldOverSet(c, d, base, {}) = base
  <1>1. IsFiniteSet({})
    BY FS_EmptySet
  <1>2. PICK f : SetRecursion(c, d, base, {}, f) /\ FoldOverSet(c, d, base, {}) = f[{}]
    BY <1>1, SetRecursionChosen
  <1>3. f[{}] = base
    BY <1>2 DEF SetRecursion
  <1>4. QED
    BY <1>2, <1>3

\* A step that keeps X and takes the members of S in any order.
Commutes(X, c, d, S) ==
    /\ \A a \in X, e \in S : Step(c, d, a, e) \in X
    /\ \A a \in X, e1, e2 \in S :
         Step(c, d, Step(c, d, a, e1), e2) = Step(c, d, Step(c, d, a, e2), e1)

\* With such a step, one more member is one more step.
THEOREM FoldOverSetAdd ==
    ASSUME NEW X, NEW c, NEW d, NEW base \in X, NEW S, IsFiniteSet(S), Commutes(X, c, d, S),
           NEW T \in SUBSET S, NEW e \in S, e \notin T
    PROVE  FoldOverSet(c, d, base, T \cup {e}) = Step(c, d, FoldOverSet(c, d, base, T), e)
  <1> DEFINE F(U) == FoldOverSet(c, d, base, U)
             Good == {U \in SUBSET S : \A y \in S \ U : F(U \cup {y}) = Step(c, d, F(U), y)}
  <1>1. \A U \in SUBSET S : IsFiniteSet(U)
    BY FS_Subset
  <1>2. ASSUME NEW U \in SUBSET S
        PROVE  F(U) \in X
    BY <1>1, FoldOverSetType DEF Commutes
  <1>3. ASSUME NEW U \in SUBSET S, U # {}
        PROVE  \E x \in U : F(U) = Step(c, d, F(U \ {x}), x)
    BY <1>1, <1>3, FoldOverSetChosen
  <1>4. {} \in Good
    <2>1. ASSUME NEW y \in S
          PROVE  F({} \cup {y}) = Step(c, d, F({}), y)
      <3>1. {} \cup {y} = {y} /\ {y} \ {y} = {} /\ {y} # {} /\ {y} \in SUBSET S
        OBVIOUS
      <3> HIDE DEF F
      <3>2. \E x \in {y} : F({y}) = Step(c, d, F({y} \ {x}), x)
        BY <1>3, <3>1
      <3>3. QED
        BY <3>1, <3>2
    <2>2. QED
      BY <2>1
  <1>5. ASSUME NEW U \in SUBSET S, U # {}, \A x \in U : U \ {x} \in Good
        PROVE  U \in Good
    <2> SUFFICES ASSUME NEW y \in S \ U
                 PROVE  F(U \cup {y}) = Step(c, d, F(U), y)
      OBVIOUS
    <2> DEFINE W == U \cup {y}
    <2>1. W \in SUBSET S /\ W # {}
      OBVIOUS
    <2>2. \E x \in W : F(W) = Step(c, d, F(W \ {x}), x)
      <3> HIDE DEF W, F
      <3> QED
        BY <1>3, <2>1
    <2>3. PICK x \in W : F(W) = Step(c, d, F(W \ {x}), x)
      <3> HIDE DEF W, F
      <3> QED
        BY <2>2
    <2>4. CASE x = y
      <3>1. W \ {x} = U
        BY <2>4
      <3>2. QED
        BY <2>3, <2>4, <3>1
    <2>5. CASE x # y
      <3> DEFINE V == U \ {x}
      <3>1. x \in U /\ V \in Good /\ V \in SUBSET S /\ W \ {x} = V \cup {y} /\ U = V \cup {x}
        BY <1>5, <2>5
      <3>2. F(V \cup {y}) = Step(c, d, F(V), y) /\ F(V \cup {x}) = Step(c, d, F(V), x)
        <4>1. x \in S \ V /\ y \in S \ V
          BY <3>1
        <4> HIDE DEF F, V
        <4>2. QED
          BY <3>1, <4>1
      <3>3. F(V) \in X
        BY <1>2, <3>1
      <3> HIDE DEF F, V, W
      <3>4. Step(c, d, Step(c, d, F(V), y), x) = Step(c, d, Step(c, d, F(V), x), y)
        BY <3>1, <3>3 DEF Commutes
      <3>5. F(W) = Step(c, d, Step(c, d, F(V), y), x)
        BY <2>3, <3>1, <3>2
      <3>6. F(U) = Step(c, d, F(V), x)
        BY <3>1, <3>2
      <3>7. QED
        BY <3>4, <3>5, <3>6 DEF W
    <2>6. QED
      BY <2>4, <2>5
  <1> HIDE DEF Good
  <1>6. \A U \in SUBSET S : U \in Good
    BY <1>4, <1>5, SubsetInduction
  <1>7. QED
    BY <1>6 DEF Good

=============================================================================
