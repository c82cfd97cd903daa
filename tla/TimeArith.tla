------------------------------ MODULE TimeArith ------------------------------
(***************************************************************************)
(* helpers::Time (src/log4cplus/timehelper.h and .cxx): seconds and        *)
(* microseconds, their arithmetic, their comparisons and their formatting. *)
(* Two time objects, a and b, are changed by any sequence of operators.    *)
(*                                                                         *)
(* Numbers are written in base Base (10 in the code), so that ONE_SEC_IN_  *)
(* USEC is Base^6.  A format is a sequence of characters, of which only    *)
(* those the code looks at differ: "%", "q", "Q", "s"; "x" is any other    *)
(* character.  The other conversions are done by strftime: "%x" makes some *)
(* characters, "%p" none, as it does where there is no AM and PM.          *)
(***************************************************************************)
EXTENDS Integers, Sequences, SequencesExt, FiniteSetsExt, TLC

CONSTANTS
    Base,       \* the base numbers are written in
    LongMax,    \* the largest long
    Clock,      \* the seconds the clock may show
    Micros,     \* the microseconds it may show
    Factors,    \* what times are multiplied with and divided by
    MinLimit,   \* the limit of small buffers: 1024
    MaxSteps    \* bound: how many operators are applied

ONE_SEC_IN_USEC == Base^6
Milli == Base^3

ASSUME TimeAssumption ==
    /\ Base \in Nat /\ ONE_SEC_IN_USEC \in Nat \ {0}
    /\ LongMax \in Nat /\ MaxSteps \in Nat
    /\ Clock \subseteq Int
    /\ Micros \subseteq 0 .. ONE_SEC_IN_USEC - 1
    /\ Factors \subseteq Nat \ {0}

VARIABLES
    times,      \* the two objects: [a |-> Time, b |-> Time]
    signed,     \* history: a negative time was divided, or a long overflowed
    told,       \* the formatted time
    steps       \* how many operators were applied

timeVars == <<times, signed, told, steps>>

Time(sec, usec) == [sec |-> sec, usec |-> usec]

(* Division in C truncates towards zero.                                   *)
CDiv(n, d) == IF n >= 0 THEN n \div d ELSE -((-n) \div d)
CMod(n, d) == n - d * CDiv(n, d)

Plus(x, y) ==
    LET s == x.sec + y.sec  u == x.usec + y.usec
    IN  IF u > ONE_SEC_IN_USEC THEN Time(s + 1, u - ONE_SEC_IN_USEC) ELSE Time(s, u)
MinusBare(x, y) == Time(x.sec - y.sec, x.usec - y.usec)
Minus(x, y) ==
    LET s == x.sec - y.sec  u == x.usec - y.usec
    IN  IF u < 0 THEN Time(s - 1, u + ONE_SEC_IN_USEC) ELSE Time(s, u)
Times(x, r) ==
    LET u == x.usec * r
    IN  Time(x.sec * r + CDiv(u, ONE_SEC_IN_USEC), CMod(u, ONE_SEC_IN_USEC))
Divided(x, r) ==
    Time(CDiv(x.sec, r),
         CDiv(x.usec, r) + CDiv(CMod(x.sec, r) * ONE_SEC_IN_USEC, r))

(* The comparisons.                                                        *)
Less(x, y) == x.sec < y.sec \/ (x.sec = y.sec /\ x.usec < y.usec)
Greater(x, y) == x.sec > y.sec \/ (x.sec = y.sec /\ x.usec > y.usec)
Equal(x, y) == x.sec = y.sec /\ x.usec = y.usec
LessOrEqual(x, y) == Less(x, y) \/ Equal(x, y)
GreaterOrEqual(x, y) == Greater(x, y) \/ Equal(x, y)

(* convertIntegerToString, as the sequence of its characters.              *)
Width(n) == CHOOSE w \in 1 .. n + 1 : n < Base^w /\ \A v \in 1 .. w - 1 : n >= Base^v
Digits(n) == [i \in 1 .. Width(n) |-> ToString((n \div Base^(Width(n) - i)) % Base)]
Number(n) == IF n < 0 THEN <<"-">> \o Digits(-n) ELSE Digits(n)
Zeros(k) == [i \in 1 .. k |-> "0"]

build_q_value(t) ==
    LET q == Number(CDiv(t.usec, Milli))
    IN  IF Len(q) <= 2 THEN Zeros(3 - Len(q)) \o q ELSE q
build_uc_q_value(t) ==
    LET usecs == Number(CMod(t.usec, Milli))
    IN  build_q_value(t) \o <<".">>
          \o (IF Len(usecs) <= 3 THEN Zeros(3 - Len(usecs)) ELSE <<>>) \o usecs

(* The walk over the format: a state and what was made so far.             *)
StepBare(t, r, c) ==
    CASE r.state = "TEXT" /\ c = "%" -> [r EXCEPT !.state = "PERCENT_SIGN"]
      [] r.state = "TEXT" /\ c # "%" -> [r EXCEPT !.ret = Append(@, c)]
      [] OTHER -> [state |-> "TEXT",
                   ret |-> r.ret \o (CASE c = "q" -> build_q_value(t)
                                       [] c = "Q" -> build_uc_q_value(t)
                                       [] c = "s" -> Number(t.sec)
                                       [] OTHER -> <<c>>)]
FormatStep(t, r, c) ==
    CASE r.state = "TEXT" /\ c = "%" -> [r EXCEPT !.state = "PERCENT_SIGN"]
      [] r.state = "TEXT" /\ c # "%" -> [r EXCEPT !.ret = Append(@, c)]
      [] OTHER -> [state |-> "TEXT",
                   ret |-> r.ret \o (CASE c = "q" -> build_q_value(t)
                                       [] c = "Q" -> build_uc_q_value(t)
                                       [] c = "s" -> Number(t.sec)
                                       [] OTHER -> <<"%", c>>)]
Walk(t, fmt) ==
    FoldLeft(LAMBDA r, c : FormatStep(t, r, c), [state |-> "TEXT", ret |-> <<>>], fmt).ret

(* strftime: "%%" is a percent sign; a text that does not fit the buffer   *)
(* with its NUL is reported as 0 characters.                               *)
Made(c) == CASE c = "%" -> <<"%">>  [] c = "p" -> <<>>  [] OTHER -> <<"*", "*", "*", "*", "*">>
Converted(fmt) ==
    FoldLeft(LAMBDA r, c :
               IF r.percent THEN [percent |-> FALSE, ret |-> r.ret \o Made(c)]
               ELSE IF c = "%" THEN [r EXCEPT !.percent = TRUE]
               ELSE [r EXCEPT !.ret = Append(@, c)],
             [percent |-> FALSE, ret |-> <<>>], fmt).ret
strftime(fmt, size) ==
    IF Len(Converted(fmt)) < size THEN Converted(fmt) ELSE <<>>

(* The buffer is doubled until there is a text or the limit is passed.     *)
Sizes(size) == {k \in {size * 2^d : d \in 0 .. 10} : k <= Max({MinLimit, size * 16})}
Formatted(fmt) ==
    LET enough == {k \in Sizes(Len(fmt) + 1) : strftime(fmt, k) # <<>>}
    IN  IF enough = {} THEN [result |-> "throws", text |-> <<>>]
        ELSE [result |-> "text", text |-> strftime(fmt, CHOOSE k \in enough : \A j \in enough : k <= j)]
getFormattedTime(t, fmt) ==
    IF fmt = <<>> THEN [result |-> "text", text |-> <<>>] ELSE Formatted(Walk(t, fmt))

-----------------------------------------------------------------------------
Undecided == [result |-> "none", text |-> <<>>, items |-> <<>>, of |-> Time(0, 0)]

TimeInit ==
    /\ times = [a |-> Time(0, 0), b |-> Time(0, 0)]
    /\ signed = FALSE
    /\ told = Undecided
    /\ steps = 0

Changed(t) ==
    /\ told = Undecided
    /\ steps < MaxSteps /\ steps' = steps + 1
    /\ times' = [times EXCEPT !.a = t]
    /\ UNCHANGED told

(* A constructor, gettimeofday() or setTime().                             *)
SetTime(sec, usec) == Changed(Time(sec, usec)) /\ UNCHANGED signed
Exchange ==
    /\ told = Undecided
    /\ times' = [a |-> times.b, b |-> times.a]
    /\ UNCHANGED <<signed, told, steps>>
Add == Changed(Plus(times.a, times.b)) /\ UNCHANGED signed
Subtract == Changed(Minus(times.a, times.b)) /\ UNCHANGED signed

(* A long that overflows is undefined: the outcome is left to the history. *)
Multiply(r) ==
    /\ Changed(Times(times.a, r))
    /\ signed' = (signed \/ times.a.usec * r > LongMax)
Divide(r) ==
    /\ Changed(Divided(times.a, r))
    /\ signed' = (signed \/ times.a.sec < 0
                    \/ CMod(times.a.sec, r) * ONE_SEC_IN_USEC > LongMax)

(* Formatting with a format of these items; a last "%" may follow them.    *)
Items == {"x", "%q", "%Q", "%s", "%x", "%p", "%%"}
Characters(item) ==
    CASE item = "x" -> <<"x">>
      [] item = "%q" -> <<"%", "q">>
      [] item = "%Q" -> <<"%", "Q">>
      [] item = "%s" -> <<"%", "s">>
      [] item = "%x" -> <<"%", "x">>
      [] item = "%p" -> <<"%", "p">>
      [] item = "%%" -> <<"%", "%">>
Format(items, last) ==
    LET fmt == FlattenSeq([i \in DOMAIN items |-> Characters(items[i])]) \o last
        f == getFormattedTime(times.a, fmt)
    IN  /\ told = Undecided
        /\ told' = [result |-> f.result, text |-> f.text, items |-> items, of |-> times.a]
        /\ UNCHANGED <<times, signed, steps>>

TimeNext ==
    \/ \E sec \in Clock, usec \in Micros : SetTime(sec, usec)
    \/ Exchange
    \/ Add
    \/ Subtract
    \/ \E r \in Factors : Multiply(r) \/ Divide(r)
    \/ \E items \in {<<>>} \cup {<<i>> : i \in Items} \cup (Items \X {"x", "%q"}),
          last \in {<<>>, <<"%">>} : Format(items, last)

TimeSpec == TimeInit /\ [][TimeNext]_timeVars

-----------------------------------------------------------------------------
(* Microseconds stay between 0 and ONE_SEC_IN_USEC, the upper end included *)
(* (operator+= carries with > instead of >=), as long as no negative time  *)
(* is divided and no long overflows.                                       *)
UsecInRange ==
    ~signed => \A n \in {"a", "b"} : times[n].usec \in 0 .. ONE_SEC_IN_USEC

(* The comparisons order two times as their instants are ordered, unless   *)
(* one of them has a whole second of microseconds: such a time is before   *)
(* the next second and after the last microsecond, equal to neither.       *)
Instant(t) == t.sec * ONE_SEC_IN_USEC + t.usec
WholeSecond(t) == t.usec = ONE_SEC_IN_USEC
TimesOrdered ==
    LET a == times.a  b == times.b
    IN  ~signed =>
          /\ Less(a, b) => Instant(a) <= Instant(b)
          /\ Greater(a, b) => Instant(a) >= Instant(b)
          /\ Less(a, b) \/ Equal(a, b) \/ Greater(a, b)
          /\ ~WholeSecond(a) /\ ~WholeSecond(b)
               => /\ Less(a, b) <=> Instant(a) < Instant(b)
                  /\ Equal(a, b) <=> Instant(a) = Instant(b)

(* What a format makes of a time is the concatenation of what its items    *)
(* make: text as it is, %q three digits and %Q seven characters that give  *)
(* the microseconds, as timehelper.h:121-124 says, unless there is a whole *)
(* second of them.  Only a text that is empty throws.                      *)
DigitOf(c) == CHOOSE d \in 0 .. Base - 1 : ToString(d) = c
Value(digits) == FoldLeft(LAMBDA n, c : n * Base + DigitOf(c), 0, digits)
FieldOf(item, text, t) ==
    CASE item = "x" -> text = <<"x">>
      [] item = "%%" -> text = <<"%">>
      [] item = "%x" -> text = Made("x")
      [] item = "%p" -> text = <<>>
      [] item = "%s" -> text = Number(t.sec)
      [] item = "%q" -> Len(text) = 3 /\ Value(text) = t.usec \div Milli
      [] item = "%Q" -> /\ Len(text) = 7 /\ text[4] = "."
                        /\ Value(SubSeq(text, 1, 3)) * Milli + Value(SubSeq(text, 5, 7)) = t.usec
TimeTold ==
    (told.result # "none" /\ ~signed /\ ~WholeSecond(told.of))
      => LET n == Len(told.items)
             length == [item \in Items |-> CASE item \in {"x", "%%"} -> 1
                                             [] item = "%q" -> 3
                                             [] item = "%Q" -> 7
                                             [] item = "%x" -> 5
                                             [] item = "%p" -> 0
                                             [] item = "%s" -> Len(Number(told.of.sec))]
             end[i \in 0 .. n] == IF i = 0 THEN 0 ELSE end[i - 1] + length[told.items[i]]
         IN  IF told.result = "throws" THEN end[n] = 0
             ELSE /\ Len(told.text) = end[n]
                  /\ \A i \in 1 .. n :
                       FieldOf(told.items[i], SubSeq(told.text, end[i - 1] + 1, end[i]), told.of)

=============================================================================
