-------------------------------- MODULE Ranges --------------------------------
(***************************************************************************)
(* range_func_test.c: how two ranges lie to each other, and whether one    *)
(* overlaps the ranges of a list.  A range is an index and a number of     *)
(* positions, both _u32; the end is computed modulo U32 (2^32).          *)
(*                                                                         *)
(* The list is kept as its callers keep it: ranges of positions in rising  *)
(* order with nothing shared.  A list grows at its tail; a range is looked *)
(* up in it between.                                                       *)
(***************************************************************************)
EXTENDS Integers, Sequences

CONSTANTS
    U32,      \* 2^32
    Indexes,    \* indexes of the ranges
    Nums,       \* lengths of the ranges
    MaxNodes    \* bound: how long the list grows

ASSUME RangesAssumption ==
    /\ U32 \in Nat \ {0}
    /\ Indexes \subseteq 0 .. U32 - 1 /\ Nums \subseteq 0 .. U32 - 1
    /\ MaxNodes \in Nat

VARIABLES
    list,       \* the ranges from _head_node to _tail_node
    asked,      \* the range last looked up
    relevant    \* what range_list_is_head_relevant said of it

rangeVars == <<list, asked, relevant>>

RANGE(index, num) == [index |-> index, num |-> num]
EndOf(r) == (r.index + r.num) % U32

range_complete(l, r) ==
    CASE l.index = r.index /\ EndOf(l) = EndOf(r) -> 0
      [] ~(l.index = r.index /\ EndOf(l) = EndOf(r)) /\ EndOf(l) <= r.index -> -3
      [] OTHER ->
           IF EndOf(l) <= EndOf(r)
           THEN IF l.index <= r.index THEN -1 ELSE 2
           ELSE IF l.index <= r.index THEN -2
           ELSE IF l.index >= EndOf(r) THEN 3 ELSE 1

(* The first node that does not lie wholly to the left decides.            *)
FirstNodeDecides(nodes, r) ==
    CASE nodes = <<>> \/ r.num = 0 -> IF r.num = 0 THEN -1 ELSE 2
      [] OTHER -> CASE range_complete(nodes[1], r) \in {-2, -1, 0} -> 0
                    [] range_complete(nodes[1], r) \in {1, 2} -> 1
                    [] OTHER -> 2
range_list_is_head_relevant(nodes, r) ==
    LET deciding == {i \in DOMAIN nodes : range_complete(nodes[i], r) # -3}
        first == CHOOSE i \in deciding : \A j \in deciding : i <= j
    IN  CASE r.num = 0 -> -1
          [] r.num # 0 /\ deciding = {} -> 2
          [] OTHER -> CASE range_complete(nodes[first], r) \in {-2, -1, 0} -> 0
                        [] range_complete(nodes[first], r) \in {1, 2} -> 1
                        [] OTHER -> 2

-----------------------------------------------------------------------------
NotAsked == -5

RangesInit == list = <<>> /\ asked = RANGE(0, 0) /\ relevant = NotAsked

(* A node behind the last one.                                             *)
Extend(r) ==
    /\ Len(list) < MaxNodes /\ r.num > 0 /\ r.index + r.num < U32
    /\ \A i \in DOMAIN list : list[i].index + list[i].num <= r.index
    /\ list' = Append(list, r)
    /\ asked' = RANGE(0, 0) /\ relevant' = NotAsked

LookUp(r) ==
    /\ asked' = r
    /\ relevant' = range_list_is_head_relevant(list, r)
    /\ UNCHANGED list

RangesNext == \E index \in Indexes, num \in Nums :
                 Extend(RANGE(index, num)) \/ LookUp(RANGE(index, num))

RangesSpec == RangesInit /\ [][RangesNext]_rangeVars

-----------------------------------------------------------------------------
(* The positions of a range, as far as its end does not wrap.              *)
Straight(r) == r.num > 0 /\ r.index + r.num < U32
Covers(r, p) == r.index <= p /\ p < r.index + r.num

(* The comment on range_complete (range_func_test.c:30-42), position by    *)
(* position.  The code follows it but for two ranges that begin or end     *)
(* together with one inside the other: it calls both "crossed, on the      *)
(* left" (-1).                                                             *)
Inside(l, r) == \A p \in l.index .. l.index + l.num - 1 : Covers(r, p)
Crossed(l, r) == \E p \in l.index .. l.index + l.num - 1 : Covers(r, p)
Documented(l, r) ==
    CASE l = r -> 0
      [] l # r /\ Inside(l, r) -> 2
      [] l # r /\ Inside(r, l) -> -2
      [] OTHER -> CASE Crossed(l, r) /\ l.index > r.index -> 1
                    [] Crossed(l, r) /\ l.index <= r.index -> -1
                    [] ~Crossed(l, r) /\ l.index > r.index -> 3
                    [] OTHER -> -3
AsDocumented(l, r) ==
    range_complete(l, r) =
        IF \/ Inside(l, r) /\ l # r /\ l.index = r.index
           \/ Inside(r, l) /\ l # r /\ EndOf(l) = EndOf(r)
        THEN -1 ELSE Documented(l, r)
RangesCompared ==
    Straight(asked) => \A i \in DOMAIN list : AsDocumented(list[i], asked)

(* What the list says of a range: 0 exactly if the list has its first      *)
(* position, 2 exactly if it has none of its positions, 1 otherwise.       *)
ListCovers(p) == \E i \in DOMAIN list : Covers(list[i], p)
RelevantTold ==
    Straight(asked) /\ relevant # NotAsked =>
        /\ (relevant = 0) <=> ListCovers(asked.index)
        /\ (relevant = 2) <=> \A i \in DOMAIN list : ~Crossed(list[i], asked)
        /\ relevant \in {0, 1, 2}

(* What is said of two ranges, and of a range and the list, is so.         *)
RangesTold == RangesCompared /\ RelevantTold

=============================================================================
