------------------------------- MODULE Toolbox --------------------------------
(***************************************************************************)
(* The helpers of the library that share nothing: time arithmetic, range   *)
(* lists, the buffer of a socket message, the output buffer, the base64    *)
(* coders, the text conversions, the handles of databases and the thread   *)
(* objects of Windows.  A behaviour is the use of one of them, chosen at   *)
(* its start; the others stay as they are made.                            *)
(***************************************************************************)
EXTENDS TimeArith, Ranges, SocketBuffers, CoutBuffer, Base64, Text, DbHandles, WinThread

VARIABLE task   \* the helper in use

toolboxVars == <<task, timeVars, rangeVars, bufferVars, coutVars, base64Vars, textVars,
                 dbVars, winThreadVars>>

Init ==
    /\ task \in {"time", "ranges", "message", "cout", "base64", "text", "handles", "thread"}
    /\ TimeInit /\ RangesInit /\ BufferInit /\ CoutInit /\ Base64Init /\ TextInit
    /\ DbInit /\ WinThreadInit
    /\ task # "text" => word = <<>>

Next ==
    /\ UNCHANGED task
    /\ \/ task = "time" /\ TimeNext
       \/ task # "time" /\ UNCHANGED timeVars
    /\ \/ task = "ranges" /\ RangesNext
       \/ task # "ranges" /\ UNCHANGED rangeVars
    /\ \/ task = "message" /\ BufferNext
       \/ task # "message" /\ UNCHANGED bufferVars
    /\ \/ task = "cout" /\ CoutNext
       \/ task # "cout" /\ UNCHANGED coutVars
    /\ \/ task = "base64" /\ Base64Next
       \/ task # "base64" /\ UNCHANGED base64Vars
    /\ \/ task = "text" /\ TextNext
       \/ task # "text" /\ UNCHANGED textVars
    /\ \/ task = "handles" /\ DbNext
       \/ task # "handles" /\ UNCHANGED dbVars
    /\ \/ task = "thread" /\ WinThreadNext
       \/ task # "thread" /\ UNCHANGED winThreadVars

Spec == Init /\ [][Next]_toolboxVars

=============================================================================
