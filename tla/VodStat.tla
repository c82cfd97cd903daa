------------------------------- MODULE VodStat -------------------------------
(***************************************************************************)
(* The statistics of a video-on-demand log (src/handle_vod_stat.cpp): the  *)
(* program proper (main, stat_all_func) is run once per hour on the lines  *)
(* of that hour and appends to a result file; stat_single_func computes    *)
(* one statistic of the same lines; three tools read what was printed.     *)
(*                                                                         *)
(* A log line is the sequence of its fields.  Every lookup in the code     *)
(* goes forward from where the last one stopped, so the order of the       *)
(* fields counts.  A flag that is not found yields npos.  Most lookups     *)
(* test for it; those of cc and of a firstbuffer line's playtype do not:   *)
(* npos + size() is a place near the front of the line, another one for    *)
(* each flag: wrapped says what stands there.  Values are strings; atoi    *)
(* reads those Number knows, the others as 0.                              *)
(***************************************************************************)
EXTENDS Integers, Sequences, SequencesExt, FiniteSetsExt, TLC

CONSTANTS
    Lines,      \* the lines a log may have: [fields |-> ..., wrapped |-> ...]
    Number,     \* what atoi and atof read: a function from strings to integers
    Machines,   \* the machines of the command line, a sequence
    Hours,      \* the times of the command line, a sequence: one per run
    LastHour,   \* the times that end in "23"
    MaxLines    \* bound: lines in all runs together

ASSUME VodStatAssumption == MaxLines \in Nat /\ Len(Machines) > 0

VARIABLES
    pc,       \* "reading", "printed", "aborted" (an assert), "undefined"
    run,      \* the run of the program under way
    left,     \* bound: how many lines may still come
    log,      \* history: the lines of this run so far
    stats,    \* stats[i][vdm]: the bundle of a machine and a download mode
    file,     \* the result file: a sequence of lines, themselves sequences of fields
    printed,  \* the distribution lines of the standard output so far
    firsts,   \* history: firstbuffer counts behind those lines
    tool      \* the result of the last tool or single function

vars == <<pc, run, left, log, stats, file, printed, firsts, tool>>

FIRSTBUFFER_DIST_COUNT == 11
SPEED_DIST_COUNT == 6
VDM_COUNT == 2
MAP_CC2COUNT_COUNT == 2
DEFAULT_PLAYTIME_DU == 10 * 60
Percent == 100   \* the grain of a printed rate

NPos == 0
Atoi(v) == IF v \in DOMAIN Number THEN Number[v] ELSE 0
Find(fields, names, from) ==
    LET at == {i \in DOMAIN fields : i >= from /\ fields[i][1] \in names}
    IN  IF from = NPos \/ at = {} THEN NPos ELSE Min(at)

(* "&name=": the first field of a line has no separator in front.          *)
FindArg(line, name, from) ==
    Find(line.fields, {name}, IF from = 1 THEN 2 ELSE from)
Value(line, i) == line.fields[i][2]
WrappingValue(line, name, from) ==
    LET i == FindArg(line, name, from)
    IN  IF i = NPos THEN line.wrapped[name] ELSE Value(line, i)

(* The function of a line, and where the lookups behind it start.          *)
Func(line) ==
    LET f == FindArg(line, "f", 1)
    IN  IF f = NPos THEN [name |-> "none", from |-> NPos]
        ELSE IF f = Len(line.fields) THEN [name |-> "last", from |-> NPos]
        ELSE [name |-> line.fields[f][2], from |-> f + 1]
DETECT_FUNC_VALUE(func, line) == Func(line).name = func

-----------------------------------------------------------------------------
(* A bundle: index 0 of every pair is for videos, 1 for trials.            *)
Pair(x) == [t \in 0 .. 1 |-> x]
stat_data_bundle ==
    [firstbuffer_sum |-> Pair(0), firstbuffer_count |-> Pair(0),
     firstbuffer_dist |-> Pair([k \in 0 .. FIRSTBUFFER_DIST_COUNT - 1 |-> 0]),
     e2 |-> Pair(<<>>), e3 |-> Pair(<<>>),
     playspeed_sum |-> Pair(0), playspeed_count |-> Pair(0),
     speed_dist |-> Pair([k \in 0 .. SPEED_DIST_COUNT - 1 |-> 0])]

cc_data == [cc_count |-> 0, cc_playtime_du |-> 0]

(* map[cc].cc_count += 1 makes the entry when there is none.               *)
CountCC(map, cc) ==
    IF cc \in DOMAIN map THEN [map EXCEPT ![cc].cc_count = @ + 1]
    ELSE map @@ (cc :> [cc_data EXCEPT !.cc_count = 1])

NewStats == [i \in DOMAIN Machines |-> [v \in 0 .. VDM_COUNT - 1 |-> stat_data_bundle]]

(* Of two machines with one name the later owns the entry.  The four cases *)
(* of the function are the same.                                           *)
index_of_machine(line, from) ==
    LET vod == FindArg(line, "vod", from)
        known == {i \in DOMAIN Machines : vod # NPos /\ Machines[i] = line.fields[vod][2]}
    IN  IF known = {} THEN -1 ELSE Max(known)

Skip(s) == [pc |-> "reading", stats |-> s]
Abort(s) == [pc |-> "aborted", stats |-> s]
Undefined(s) == [pc |-> "undefined", stats |-> s]

(* The machine and the download mode come behind the function; the handler *)
(* gets the bundle's place and where to look on.  The comparison of the    *)
(* assert is unsigned: a negative mode fails it.                           *)
DO_INDEX_OF_MACHINE_AND_VDM(s, line, Handler(_, _, _)) ==
    LET from == Func(line).from
        index == index_of_machine(line, from)
        v == FindArg(line, "vdm", from)
        vdm == Atoi(Value(line, v))
    IN  IF index = -1 \/ v = NPos THEN Skip(s)
        ELSE IF vdm \notin 0 .. VDM_COUNT - 1 THEN Abort(s)
        ELSE Handler(index, vdm, v + 1)

Bin(n, width, count) == Min({Max({n \div width, 0}), count - 1})

AddFirstBufferOneSum(b, t, time) ==
    [b EXCEPT !.firstbuffer_sum[0] = @ + time,
              !.firstbuffer_count[t] = @ + 1,
              !.firstbuffer_dist[t][Bin(time, 1000, FIRSTBUFFER_DIST_COUNT)] = @ + 1]
AddFirstBuffer(b, t, time) ==
    [b EXCEPT !.firstbuffer_sum[t] = @ + time,
              !.firstbuffer_count[t] = @ + 1,
              !.firstbuffer_dist[t][Bin(time, 1000, FIRSTBUFFER_DIST_COUNT)] = @ + 1]
FirstBufferLine(s, line) ==
    LET Handler(i, vdm, from) ==
          LET at == FindArg(line, "time", from)
              time == Atoi(Value(line, at))
              playtype == WrappingValue(line, "playtype", at)
          IN  IF at = NPos \/ time < 0 THEN Skip(s)
              ELSE Skip([s EXCEPT ![i][vdm] =
                             AddFirstBuffer(@, IF playtype = "1" THEN 1 ELSE 0, time)])
    IN  DO_INDEX_OF_MACHINE_AND_VDM(s, line, Handler)

(* A playtype below 0 passes its assert and indexes the memory before the  *)
(* arrays.                                                                 *)
AnyCC(cc) == TRUE
KnownCC(cc) == cc \notin {"", "0"}
BufferLine(s, line) ==
    LET Handler(i, vdm, from) ==
          LET p == FindArg(line, "playtype", from)
              t == Atoi(Value(line, p))
              e == FindArg(line, "e", p)
              e_value == Atoi(Value(line, e))
              cc == WrappingValue(line, "cc", e)
          IN  IF p = NPos THEN Skip(s)
              ELSE IF t >= 2 THEN Abort(s)
              ELSE IF e = NPos \/ ~KnownCC(cc) \/ e_value \notin {-2, -3} THEN Skip(s)
              ELSE IF t < 0 THEN Undefined(s)
              ELSE IF e_value = -2
              THEN Skip([s EXCEPT ![i][vdm].e2[t] = CountCC(@, cc)])
              ELSE Skip([s EXCEPT ![i][vdm].e3[t] = CountCC(@, cc)])
    IN  DO_INDEX_OF_MACHINE_AND_VDM(s, line, Handler)

SaneSpeed(speed) == speed > 0 /\ speed < 10 * 1024 * 1024
AddSpeed(b, t, speed) ==
    [b EXCEPT !.playspeed_sum[t] = @ + speed,
              !.playspeed_count[t] = @ + 1,
              !.speed_dist[t][Bin(speed, 100, SPEED_DIST_COUNT)] = @ + 1]
SpeedLine(s, line, t) ==
    LET Handler(i, vdm, from) ==
          LET at == FindArg(line, "s", from)
              speed == Atoi(Value(line, at))
          IN  IF at # NPos /\ SaneSpeed(speed)
              THEN Skip([s EXCEPT ![i][vdm] = AddSpeed(@, t, speed)])
              ELSE Skip(s)
    IN  DO_INDEX_OF_MACHINE_AND_VDM(s, line, Handler)

(* The playing time goes to the first bundle with the play in e2 and to    *)
(* the first with it in e3; trials are not looked at.                      *)
Holders(s, holds(_)) ==
    {<<i, v>> \in (DOMAIN s) \X (0 .. VDM_COUNT - 1) : holds(s[i][v])}
First(places) ==
    CHOOSE p \in places : \A q \in places : p[1] < q[1] \/ (p[1] = q[1] /\ p[2] <= q[2])
UpdateAll(s, cc, du) ==
    [i \in DOMAIN s |-> [v \in 0 .. VDM_COUNT - 1 |->
        IF cc \in DOMAIN s[i][v].e2[0] THEN [s[i][v] EXCEPT !.e2[0][cc].cc_playtime_du = du]
        ELSE s[i][v]]]
update_playtime_du_in_cc_data(s, cc, du) ==
    LET in2 == Holders(s, LAMBDA b : cc \in DOMAIN b.e2[0])
        in3 == Holders(s, LAMBDA b : cc \in DOMAIN b.e3[0])
        p == First(in2)
        q == First(in3)
        s2 == IF in2 = {} THEN s
              ELSE [s EXCEPT ![p[1]][p[2]].e2[0][cc].cc_playtime_du = du]
    IN  IF in3 = {} THEN s2
        ELSE [s2 EXCEPT ![q[1]][q[2]].e3[0][cc].cc_playtime_du = du]

IsPlaytime(line) == Func(line).name = "none" /\ line.fields[1] = <<"f", "playtime">>
PlaytimeLine(s, line) ==
    LET at == FindArg(line, "du", 2)
        du == Atoi(Value(line, at))
        cc == WrappingValue(line, "cc", at)
    IN  IF IsPlaytime(line) /\ at # NPos /\ du >= DEFAULT_PLAYTIME_DU /\ KnownCC(cc)
        THEN Skip(update_playtime_du_in_cc_data(s, cc, du))
        ELSE Skip(s)

StatLine(s, line) ==
    LET func == Func(line).name
    IN  CASE func = "none" -> PlaytimeLine(s, line)
          [] func = "firstbuffer" -> FirstBufferLine(s, line)
          [] func = "buffer" -> BufferLine(s, line)
          [] func = "playspeed" -> SpeedLine(s, line, 0)
          [] func = "trialPlayspeed" -> SpeedLine(s, line, 1)
          [] OTHER -> Skip(s)

-----------------------------------------------------------------------------
(* What is printed.  A rate of two counts is 0 when the second is.         *)
Average(sum, count) == IF count = 0 THEN 0 ELSE sum \div count
Rate(n, m) == Average(Percent * n, m)
Size(map) == Cardinality(DOMAIN map)

print_stat_reslut(hour, i, b) ==
    <<<<"time", hour>>, <<"machine", Machines[i]>>,
      <<"firstbuffer_count", b.firstbuffer_count[0]>>,
      <<"t_firstbuffer_count", b.firstbuffer_count[1]>>,
      <<"firstbuffer", Average(b.firstbuffer_sum[0], b.firstbuffer_count[0])>>,
      <<"t_firstbuffer", Average(b.firstbuffer_sum[1], b.firstbuffer_count[1])>>,
      <<"interrupt_rate", Rate(Size(b.e2[0]), Size(b.e3[0]))>>,
      <<"t_interrupt_rate", Rate(Size(b.e2[1]), Size(b.e3[1]))>>,
      <<"playspeed", Average(b.playspeed_sum[0], b.playspeed_count[0])>>,
      <<"trialPlayspeed", Average(b.playspeed_sum[1], b.playspeed_count[1])>>>>

Long(map) == {cc \in DOMAIN map : map[cc].cc_playtime_du >= DEFAULT_PLAYTIME_DU}
print_stat_interrrupt_rate_ex(b) ==
    LET long2 == Cardinality(Long(b.e2[0]))
        long3 == Cardinality(Long(b.e3[0]))
    IN  <<<<"interrupt_rate0", Rate(Size(b.e2[0]) - long2, Size(b.e3[0]) - long3)>>,
          <<"interrupt_rate1", Rate(long2, long3)>>>>

(* The bundles in the order of the two loops.                              *)
Bundles(s) == FlattenSeq([i \in DOMAIN s |-> <<<<i, s[i][0]>>, <<i, s[i][1]>>>>])
Report(hour, s) ==
    Append([k \in DOMAIN Bundles(s) |->
              print_stat_reslut(hour, Bundles(s)[k][1], Bundles(s)[k][2])],
           FlattenSeq([k \in DOMAIN Bundles(s) |->
                         print_stat_interrrupt_rate_ex(Bundles(s)[k][2])]))
Distributions(s) == [k \in DOMAIN Bundles(s) |-> Bundles(s)[k][2].firstbuffer_dist[0]]

-----------------------------------------------------------------------------
(* One statistic of a log, without the machines.                           *)
stat_first_buffer(lines) ==
    LET Add(acc, line) ==
          LET at == FindArg(line, "time", Func(line).from)
              t == IF WrappingValue(line, "playtype", at) = "1" THEN 1 ELSE 0
          IN  IF ~DETECT_FUNC_VALUE("firstbuffer", line) \/ at = NPos THEN acc
              ELSE [acc EXCEPT !.count[t] = @ + 1, !.sum[t] = @ + Atoi(Value(line, at))]
    IN  FoldLeft(Add, [aborted |-> FALSE, count |-> Pair(0), sum |-> Pair(0)], lines)

stat_interrupt_rate(lines) ==
    LET Add(acc, line) ==
          LET p == FindArg(line, "playtype", Func(line).from)
              t == Atoi(Value(line, p))
              e == FindArg(line, "e", p)
              e_value == Atoi(Value(line, e))
              cc == WrappingValue(line, "cc", e)
          IN  IF ~DETECT_FUNC_VALUE("buffer", line) \/ p = NPos \/ acc.aborted THEN acc
              ELSE IF t >= 2 THEN [acc EXCEPT !.aborted = TRUE]
              ELSE IF e = NPos \/ ~KnownCC(cc) \/ e_value \notin {-2, -3} THEN acc
              ELSE IF t < 0 THEN [acc EXCEPT !.aborted = TRUE]
              ELSE IF e_value = -2
              THEN [acc EXCEPT !.e2[t] = CountCC(@, cc)]
              ELSE [acc EXCEPT !.e3[t] = CountCC(@, cc)]
    IN  FoldLeft(Add, [aborted |-> FALSE, e2 |-> Pair(<<>>), e3 |-> Pair(<<>>)], lines)

SumSpeeds(func, lines) ==
    LET Add(acc, line) ==
          LET at == FindArg(line, "s", Func(line).from)
          IN  IF ~DETECT_FUNC_VALUE(func, line) \/ at = NPos THEN acc
              ELSE [acc EXCEPT !.count = @ + 1, !.sum = @ + Atoi(Value(line, at))]
    IN  FoldLeft(Add, [aborted |-> FALSE, count |-> 0, sum |-> 0], lines)
stat_playspeed(lines) == SumSpeeds("playspeed", lines)
stat_trial_playspeed(lines) == SumSpeeds("trialPlayspeed", lines)

(* The statistic of stat_single_func: by number, or by what the name of    *)
(* the data file contains ("firstbuffer" contains "buffer").               *)
FuncNum(argc, num, name) ==
    IF argc = 3 THEN num
    ELSE IF argc # 2 \/ "gz" \in name THEN -1
    ELSE IF "firstbuffer" \in name THEN 0
    ELSE IF "buffer" \in name THEN 1
    ELSE IF "trialPlayspeed" \in name THEN 3
    ELSE IF "playspeed" \in name THEN 2
    ELSE -1
stat_single_func(argc, num, name, lines) ==
    LET func == FuncNum(argc, num, name)
    IN  CASE func = 0 -> [func |-> 0, acc |-> stat_first_buffer(lines)]
          [] func = 1 -> [func |-> 1, acc |-> stat_interrupt_rate(lines)]
          [] func = 2 -> [func |-> 2, acc |-> stat_playspeed(lines)]
          [] func = 3 -> [func |-> 3, acc |-> stat_trial_playspeed(lines)]
          [] OTHER -> [func |-> -1, acc |-> [aborted |-> FALSE]]

-----------------------------------------------------------------------------
(* The tools look for "name=", which a longer name may end in.  Behind the *)
(* last field of a line npos + 1 starts over at its front.                 *)
Ending(name) ==
    CASE name = "firstbuffer" -> {name, "t_firstbuffer"}
      [] name = "firstbuffer_count" -> {name, "t_firstbuffer_count"}
      [] name = "interrupt_rate" -> {name, "t_interrupt_rate"}
      [] OTHER -> {name}
Behind(line, i) == IF i = Len(line) THEN 1 ELSE i + 1

TraitFlags == <<"firstbuffer", "t_firstbuffer", "interrupt_rate", "t_interrupt_rate",
                "playspeed", "trialPlayspeed">>
tool_trait_stat_values(lines) ==
    LET Column(line, acc, k) ==
          LET i == Find(line, Ending(TraitFlags[k]), acc.from)
          IN  IF i = NPos THEN [acc EXCEPT !.from = NPos]
              ELSE [from |-> Behind(line, i), cols |-> [acc.cols EXCEPT ![k] = Append(@, line[i][2])]]
        AddLine(cols, line) ==
          FoldLeft(LAMBDA acc, k : Column(line, acc, k), [from |-> 1, cols |-> cols],
                   [k \in DOMAIN TraitFlags |-> k]).cols
    IN  FoldLeft(AddLine, [k \in DOMAIN TraitFlags |-> <<>>], lines)

(* The bins of the distribution lines in four groups.                      *)
Groups == <<0 .. 1, 2 .. 4, 5 .. 7, 8 .. 10>>
tool_vod_stat_reslut_handle2(dists) ==
    [g \in DOMAIN Groups |->
        FoldLeft(LAMBDA n, dist : n + MapThenSumSet(LAMBDA k : dist[k], Groups[g]), 0, dists)]

(* The lines are summed while the time stays the same.  When it changes, a *)
(* row is written if the NEW time ends in "23"; the last time has no row.  *)
NoSums == [count |-> 0, sum |-> 0, rates |-> 0]
Row(time, sums) ==
    [time |-> time, firstbuffer |-> Average(sums.sum, sums.count),
     rate |-> Average(sums.rates, sums.count)]
NewTime(acc, time) ==
    IF time = acc.bak THEN acc
    ELSE [acc EXCEPT !.bak = time, !.sums = NoSums,
                     !.rows = IF acc.sums.count # 0 /\ time \in LastHour
                              THEN Append(@, Row(time, acc.sums)) ELSE @]
tool_vod_stat_reslut_handle(lines) ==
    LET Add(acc, line) ==
          LET at == Find(line, {"time"}, 1)
              n == Find(line, Ending("firstbuffer_count"), at)
              f == Find(line, Ending("firstbuffer"), IF n = NPos THEN n ELSE Behind(line, n))
              r == Find(line, Ending("interrupt_rate"), IF f = NPos THEN f ELSE Behind(line, f))
              new == NewTime(acc, line[at][2])
          IN  IF acc.aborted \/ NPos \in {at, n, f, r} THEN [acc EXCEPT !.aborted = TRUE]
              ELSE [new EXCEPT !.sums = [count |-> @.count + line[n][2],
                                         sum |-> @.sum + line[f][2] * line[n][2],
                                         rates |-> @.rates + line[r][2] * line[n][2]]]
    IN  FoldLeft(Add, [aborted |-> FALSE, bak |-> "", sums |-> NoSums, rows |-> <<>>], lines)

-----------------------------------------------------------------------------
NoTool == [kind |-> "none"]

Init ==
    /\ pc = "reading" /\ run = 1 /\ left = MaxLines /\ log = <<>> /\ stats = NewStats
    /\ file = <<>> /\ printed = <<>> /\ firsts = 0 /\ tool = NoTool

ReadLine(line) ==
    LET r == StatLine(stats, line)
    IN  /\ pc = "reading" /\ left > 0
        /\ left' = left - 1
        /\ log' = Append(log, line)
        /\ pc' = r.pc /\ stats' = r.stats
        /\ UNCHANGED <<run, file, printed, firsts, tool>>

EndOfInput ==
    /\ pc = "reading"
    /\ pc' = "printed"
    /\ file' = file \o Report(Hours[run], stats)
    /\ printed' = printed \o Distributions(stats)
    /\ firsts' = FoldLeft(LAMBDA n, b : n + b[2].firstbuffer_count[0], firsts, Bundles(stats))
    /\ UNCHANGED <<run, left, log, stats, tool>>

(* A failed assert ends the program before anything is printed.            *)
NextRun ==
    /\ pc \in {"printed", "aborted"} /\ run < Len(Hours)
    /\ pc' = "reading" /\ run' = run + 1
    /\ log' = <<>> /\ stats' = NewStats /\ tool' = NoTool
    /\ UNCHANGED <<left, file, printed, firsts>>

UseTool(result) ==
    /\ pc = "printed" /\ tool = NoTool
    /\ tool' = result
    /\ UNCHANGED <<pc, run, left, log, stats, file, printed, firsts>>
Single(argc, num, name) ==
    UseTool([kind |-> "single", of |-> stat_single_func(argc, num, name, log)])
Trait == UseTool([kind |-> "trait", columns |-> tool_trait_stat_values(file)])
Handle(lines) == UseTool([kind |-> "handle", lines |-> lines,
                          of |-> tool_vod_stat_reslut_handle(lines)])
Handle2 == UseTool([kind |-> "handle2", groups |-> tool_vod_stat_reslut_handle2(printed)])

(* The result file as it is, or only its lines with a time.                *)
Timed(lines) == SelectSeq(lines, LAMBDA line : line[1][1] = "time")
Next ==
    \/ \E line \in Lines : ReadLine(line)
    \/ EndOfInput
    \/ NextRun
    \/ \E num \in -1 .. 3 : Single(3, num, {})
    \/ \E name \in {{"firstbuffer", "buffer"}, {"buffer"}, {"trialPlayspeed"},
                    {"playspeed"}, {"gz"}, {}} : Single(2, 0, name)
    \/ Trait
    \/ \E lines \in {file, Timed(file)} : Handle(lines)
    \/ Handle2

Spec == Init /\ [][Next]_vars

-----------------------------------------------------------------------------
(* What a line says, whatever scans it: the named fields, in this order,   *)
(* not counting the first field of the line; no field is there twice.      *)
At(line, name) == {i \in 2 .. Len(line.fields) : line.fields[i][1] = name}
Says(line, names) ==
    \A k \in DOMAIN names :
        /\ At(line, names[k]) # {}
        /\ k > 1 => \E i \in At(line, names[k - 1]), j \in At(line, names[k]) : i < j
The(line, name) == line.fields[Min(At(line, name))][2]
About(line, func, i, vdm) ==
    /\ Says(line, <<"f", "vdm">>) /\ Says(line, <<"f", "vod">>)
    /\ The(line, "f") = func /\ The(line, "vod") = Machines[i] /\ Atoi(The(line, "vdm")) = vdm
Play(line, t) ==
    /\ Says(line, <<"f", "vdm", "playtype", "e">>) /\ Atoi(The(line, "playtype")) = t
CCOf(line) == IF Says(line, <<"e", "cc">>) THEN The(line, "cc") ELSE line.wrapped["cc"]
Lag(line) == Says(line, <<"f", "vdm", "time">>) /\ Atoi(The(line, "time")) >= 0
Trial(line) ==
    "1" = IF Says(line, <<"time", "playtype">>) THEN The(line, "playtype") ELSE line.wrapped["playtype"]
Seen(P(_)) == {k \in DOMAIN log : P(log[k])}

(* What the forward scan accumulates in the bundles, line by line, is what *)
(* the lines say: the buffering times by machine, mode and kind of play,   *)
(* and the plays with an interruption or a start (_stat_all_func,          *)
(* handle_vod_stat.cpp:768-887).  Nothing else is counted, but for lines   *)
(* that do not name their play or kind: each of these counts for what      *)
(* stands at the wrapped place, which may be the name of another play.  A  *)
(* machine given twice is left out.                                        *)
StatsAreOfTheLog ==
    pc \in {"reading", "printed"} =>
      \A i \in DOMAIN Machines, v \in 0 .. 1, t \in 0 .. 1 :
        (\A j \in DOMAIN Machines : Machines[j] = Machines[i] => j = i) =>
        /\ stats[i][v].firstbuffer_count[t]
             = Cardinality(Seen(LAMBDA l : /\ About(l, "firstbuffer", i, v) /\ Lag(l)
                                           /\ Trial(l) = (t = 1)))
        /\ DOMAIN stats[i][v].e2[t]
             = {CCOf(log[k]) : k \in Seen(LAMBDA l : About(l, "buffer", i, v) /\ Play(l, t)
                                              /\ The(l, "e") = "-2")} \ {"", "0"}
        /\ DOMAIN stats[i][v].e3[t]
             = {CCOf(log[k]) : k \in Seen(LAMBDA l : About(l, "buffer", i, v) /\ Play(l, t)
                                              /\ The(l, "e") = "-3")} \ {"", "0"}

(* A playing time of ten minutes or more reaches the interruptions of its  *)
(* play exactly when one was logged before it; a bundle that got it is the *)
(* only one of the play unless another line or bundle came later           *)
(* (update_playtime_du_in_cc_data, handle_vod_stat.cpp:549).               *)
PlaytimeOf(line, cc) ==
    /\ IsPlaytime(line) /\ Says(line, <<"du", "cc">>)
    /\ The(line, "cc") = cc /\ Atoi(The(line, "du")) >= DEFAULT_PLAYTIME_DU
Interrupted(line, cc) ==
    \E i \in DOMAIN Machines, v \in 0 .. 1 :
        About(line, "buffer", i, v) /\ Play(line, 0) /\ The(line, "e") = "-2" /\ CCOf(line) = cc
PlaytimeReaches ==
    pc \in {"reading", "printed"} =>
      \A cc \in {CCOf(log[k]) : k \in Seen(LAMBDA l : \E c \in {CCOf(l)} : Interrupted(l, c))} \ {"0", ""} :
        LET got == {<<i, v>> \in (DOMAIN stats) \X (0 .. 1) :
                      cc \in Long(stats[i][v].e2[0])}
            plays == Seen(LAMBDA l : PlaytimeOf(l, cc))
        IN  /\ (got # {}) <=> \E k \in plays : \E j \in 1 .. k - 1 : Interrupted(log[j], cc)
            /\ Cardinality(got) <= Cardinality(plays)

(* Both programs for one statistic agree: when no assert stops either, the *)
(* starts and interruptions that stat_single_func finds in the log of one  *)
(* machine are those of all the bundles together, provided every line      *)
(* names a machine and a mode before its other fields and no time is       *)
(* negative (stat_single_func, handle_vod_stat.cpp:383).                   *)
Placed(line) ==
    /\ \A f \in {"time", "playtype", "e", "cc"} : Says(line, <<f>>) => Says(line, <<"vdm", f>>)
    /\ \E i \in DOMAIN Machines : Says(line, <<"f", "vod">>) /\ The(line, "vod") = Machines[i]
    /\ Says(line, <<"time">>) => Lag(line)
SingleAgrees ==
    tool.kind = "single" /\ (\A k \in DOMAIN log : Placed(log[k]) \/ IsPlaytime(log[k])) =>
      LET all == {<<i, v>> : i \in DOMAIN stats, v \in 0 .. 1}
          acc == tool.of.acc
      IN  \A t \in 0 .. 1 :
          /\ tool.of.func = 0 =>
               /\ acc.count[t] = MapThenSumSet(LAMBDA p : stats[p[1]][p[2]].firstbuffer_count[t], all)
               /\ acc.sum[t] = MapThenSumSet(LAMBDA p : stats[p[1]][p[2]].firstbuffer_sum[t], all)
          /\ tool.of.func = 1 /\ ~acc.aborted =>
               /\ DOMAIN acc.e2[t] = UNION {DOMAIN stats[p[1]][p[2]].e2[t] : p \in all}
               /\ DOMAIN acc.e3[t] = UNION {DOMAIN stats[p[1]][p[2]].e3[t] : p \in all}

(* The tools understand what the program prints.  The columns of           *)
(* tool_trait_stat_values stay aligned: one entry per line with a time,    *)
(* and it is that line's.  The four groups of tool_vod_stat_reslut_handle2 *)
(* hold every buffering time that was ever counted.                        *)
ToolsReadReports ==
    /\ tool.kind = "trait" =>
         \A k \in DOMAIN TraitFlags :
            tool.columns[k] = [j \in DOMAIN Timed(file) |->
                                 LET line == Timed(file)[j]
                                 IN  (CHOOSE f \in {line[i] : i \in DOMAIN line} :
                                         f[1] = TraitFlags[k])[2]]
    /\ tool.kind = "handle2" => FoldLeft(LAMBDA n, g : n + g, 0, tool.groups) = firsts

(* tool_vod_stat_reslut_handle stops at the line of interrupt rates that   *)
(* every report ends with, so it works only on a file without them.  There *)
(* it writes a row for every time ending in "23" that follows another one  *)
(* with plays, and the row's average lies between the averages of the      *)
(* lines of that other time (handle_vod_stat.cpp:1214-1228).               *)
RowsAreOfOneTime ==
    tool.kind = "handle" =>
      LET lines == tool.lines
          TimeOf(j) == lines[j][1][2]
          counted(time) == {j \in DOMAIN lines : TimeOf(j) = time /\ lines[j][3][2] > 0}
          before == [k \in DOMAIN Hours |-> {TimeOf(j) : j \in DOMAIN lines}
                                              \cap {Hours[h] : h \in 1 .. k - 1}]
          last(k) == Hours[Max({h \in 1 .. k - 1 : Hours[h] \in before[k]})]
      IN  /\ tool.of.aborted <=> \E j \in DOMAIN lines : lines[j][1][1] # "time"
          /\ ~tool.of.aborted =>
               \A k \in DOMAIN Hours :
                 LET rows == SelectSeq(tool.of.rows, LAMBDA r : r.time = Hours[k])
                     due == /\ Hours[k] \in LastHour /\ before[k] # {}
                            /\ \E j \in DOMAIN lines : TimeOf(j) = Hours[k]
                            /\ counted(last(k)) # {}
                 IN  /\ Len(rows) = IF due THEN 1 ELSE 0
                     /\ due => \E lo, hi \in counted(last(k)) :
                            /\ lines[lo][5][2] <= rows[1].firstbuffer
                            /\ rows[1].firstbuffer <= lines[hi][5][2]

(* Whatever reads the same log, or what the program has made of it, comes  *)
(* to the same numbers: the single statistics, and the three tools that    *)
(* read the printed reports.                                               *)
ToolsAgree == SingleAgrees /\ ToolsReadReports /\ RowsAreOfOneTime

=============================================================================
