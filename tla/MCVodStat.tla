----------------------------- MODULE MCVodStat -----------------------------
(* A log of two machines: lines with their fields in order, out of order,  *)
(* missing, or with values at the bounds.                                  *)
EXTENDS VodStat

\* Past npos, "&cc=" leads to the fourth character of a line, which is the id behind
\* "id=", and "&playtype=" to the tenth, the end of an id of seven characters.
LongId == "9999991"
Line(fields) ==
    [fields |-> fields,
     wrapped |-> [cc |-> IF fields[1][1] = "id" THEN fields[1][2] ELSE "laytime",
                  playtype |-> IF fields[1][2] = LongId THEN "1" ELSE "rstbuffer"]]
FirstBuffer(vod, vdm, time, rest) ==
    Line(<<<<"id", "9">>, <<"f", "firstbuffer">>, <<"vod", vod>>, <<"vdm", vdm>>,
           <<"time", time>>>> \o rest)
Buffer(vod, vdm, rest) ==
    Line(<<<<"id", "9">>, <<"f", "buffer">>, <<"vdm", vdm>>>> \o rest \o <<<<"vod", vod>>>>)
Playtime(du, rest) == Line(<<<<"f", "playtime">>, <<"du", du>>>> \o rest)

MCLines ==
    {FirstBuffer("m1", "0", "10500", <<<<"playtype", "1">>>>),
     FirstBuffer("m2", "0", "2000", <<<<"playtype", "0">>>>),
     Line(<<<<"id", LongId>>, <<"f", "firstbuffer">>, <<"vod", "m1">>, <<"vdm", "1">>, <<"time", "999">>>>),
     Line(<<<<"id", "a">>, <<"f", "buffer">>, <<"vod", "m1">>, <<"vdm", "0">>, <<"playtype", "0">>, <<"e", "-2">>>>),
     Line(<<<<"id", "9">>, <<"f", "firstbuffer">>, <<"time", "1000">>, <<"vod", "m1">>, <<"vdm", "0">>>>),
     Buffer("m1", "0", <<<<"playtype", "0">>, <<"e", "-2">>, <<"cc", "a">>>>),
     Buffer("m2", "1", <<<<"playtype", "0">>, <<"e", "-2">>, <<"cc", "a">>>>),
     Buffer("m1", "0", <<<<"playtype", "0">>, <<"e", "-3">>, <<"cc", "a">>>>),
     Buffer("m1", "1", <<<<"playtype", "1">>, <<"e", "-3">>, <<"cc", "0">>>>),
     Buffer("m1", "1", <<<<"playtype", "-1">>, <<"e", "-2">>, <<"cc", "a">>>>),
     Buffer("m1", "-1", <<<<"playtype", "0">>, <<"e", "-2">>, <<"cc", "a">>>>),
     Line(<<<<"id", "9">>, <<"f", "playspeed">>, <<"vod", "m1">>, <<"vdm", "0">>, <<"s", "450">>>>),
     Playtime("600", <<<<"cc", "a">>>>),
     Playtime("599", <<<<"cc", "a">>>>)}
MCNumber ==
    "0" :> 0 @@ "1" :> 1 @@ "2" :> 2 @@ "-1" :> -1 @@ "-2" :> -2 @@ "-3" :> -3 
      @@ "999" :> 999 @@ "1000" :> 1000 @@ "2000" :> 2000 @@ "10500" :> 10500
      @@ "450" :> 450 @@ "599" :> 599 @@ "600" :> 600
MCMachines == <<"m1", "m2">>
MCHours == <<"21", "22", "23">>
MCLastHour == {"23"}
=============================================================================
