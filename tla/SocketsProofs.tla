--------------------------- MODULE SocketsProofs ---------------------------
(***************************************************************************)
(* Proofs about the start of Winsock for every set of threads, in WinSock  *)
(* alone and as Sockets uses it.  StartedOnce is not inductive: it needs   *)
(* that one thread at most is between its winning compare-and-exchange and *)
(* its second one, and that winsock_state shows when there is one.         *)
(* Then proofs about the buffers whose bytes go over a socket, CoutBuffer  *)
(* and SocketBuffers: each has a section with its invariant, the lemmas    *)
(* about its operators, and its theorem.                                   *)
(***************************************************************************)
EXTENDS Sockets, CoutBuffer, SocketBuffers, ByteStreamProofs,
        FiniteSetTheorems, TLAPS

Starting(t) == pc[t] \in {"startup", "publish", "revert"}

\* One thread starts Winsock, and WS_INITIALIZING says that there is one.
OneStarter == /\ \A t, u \in Threads : Starting(t) /\ Starting(u) => t = u
              /\ winsock_state = "WS_INITIALIZING" <=> \E t \in Threads : Starting(t)

\* How often Winsock is started, at each place of the protocol.
Startups == /\ startups \in {0, 1}
            /\ winsock_state = "WS_UNINITIALIZED" => startups = 0
            /\ winsock_state = "WS_INITIALIZED" /\ ~exited => startups = 1
            /\ \A t \in Threads : /\ pc[t] = "publish" => startups = 1
                                  /\ pc[t] \in {"startup", "revert"} => startups = 0

\* init_winsock() returns when Winsock is initialised.
ReadyInv == \A t \in Threads : pc[t] = "ready" => winsock_state = "WS_INITIALIZED"

IInv == InitTypeOK /\ OneStarter /\ Startups /\ ReadyInv

-----------------------------------------------------------------------------
USE WinSockAssumption

LEMMA InitInv == InitWinSock => IInv
  <1> SUFFICES ASSUME InitWinSock PROVE IInv
    OBVIOUS
  <1>1. InitTypeOK
    <2>1. exited \in BOOLEAN
      BY DEF InitWinSock
    <2>2. failures \in 0 .. MaxFailures /\ startups \in Nat
      BY DEF InitWinSock
    <2>3. /\ winsock_state \in WSInitStates
          /\ pc \in [Threads -> {"out", "check", "cas", "startup", "publish", "revert",
                                 "wait", "assert0", "ready", "threw"}]
      BY DEF InitWinSock, WSInitStates
    <2>4. QED
      BY <2>1, <2>2, <2>3 DEF InitTypeOK
  <1>2. OneStarter /\ Startups /\ ReadyInv
    BY DEF InitWinSock, OneStarter, Startups, ReadyInv, Starting
  <1>3. QED
    BY <1>1, <1>2 DEF IInv

\* The steps that leave the state and the counters alone and keep every thread
\* out of the start, and out of "ready" unless Winsock is initialised.
LEMMA QuietStep ==
    ASSUME IInv, NEW t \in Threads, ~Starting(t),
           NEW to \in {"out", "check", "cas", "wait", "assert0", "ready", "threw"},
           to = "ready" => winsock_state = "WS_INITIALIZED",
           pc' = [pc EXCEPT ![t] = to],
           UNCHANGED <<winsock_state, startups, failures, exited>>
    PROVE  IInv'
  <1>1. InitTypeOK'
    BY DEF IInv, InitTypeOK
  <1>2. \A u \in Threads : Starting(u)' <=> Starting(u)
    BY DEF IInv, InitTypeOK, Starting
  <1>3. OneStarter'
    BY <1>2 DEF IInv, OneStarter
  <1>4. Startups' /\ ReadyInv'
    BY DEF IInv, InitTypeOK, Startups, ReadyInv
  <1>5. QED
    BY <1>1, <1>3, <1>4 DEF IInv

LEMMA CompareExchangeStep ==
    ASSUME IInv, NEW t \in Threads, CompareExchange(t)
    PROVE  IInv'
  <1>1. CASE winsock_state = "WS_UNINITIALIZED"
    <2>1. pc' = [pc EXCEPT ![t] = "startup"] /\ winsock_state' = "WS_INITIALIZING"
          /\ UNCHANGED <<startups, failures, exited>>
      BY <1>1 DEF CompareExchange, Goto
    <2>2. \A u \in Threads : ~Starting(u)
      BY <1>1 DEF IInv, OneStarter
    <2>3. \A u \in Threads : Starting(u)' <=> u = t
      BY <2>1, <2>2 DEF IInv, InitTypeOK, Starting
    <2>4. OneStarter'
      BY <2>1, <2>3 DEF OneStarter
    <2>5. InitTypeOK' /\ Startups' /\ ReadyInv'
      BY <1>1, <2>1, <2>2 DEF IInv, InitTypeOK, Startups, ReadyInv, Starting, WSInitStates
    <2>6. QED
      BY <2>4, <2>5 DEF IInv
  <1>2. CASE winsock_state = "WS_INITIALIZING"
    <2>1. pc[t] = "cas" /\ pc' = [pc EXCEPT ![t] = "wait"]
          /\ UNCHANGED <<winsock_state, startups, failures, exited>>
      BY <1>2 DEF CompareExchange, Goto
    <2>2. QED
      BY <2>1, QuietStep DEF Starting
  <1>3. CASE winsock_state = "WS_INITIALIZED"
    <2>1. pc[t] = "cas" /\ pc' = [pc EXCEPT ![t] = "ready"]
          /\ UNCHANGED <<winsock_state, startups, failures, exited>>
      BY <1>3 DEF CompareExchange, Goto
    <2>2. QED
      BY <1>3, <2>1, QuietStep DEF Starting
  <1>4. QED
    BY <1>1, <1>2, <1>3 DEF IInv, InitTypeOK, WSInitStates

\* WSAStartup, with either result.
LEMMA StartupStep ==
    ASSUME IInv, NEW t \in Threads, Startup(t)
    PROVE  IInv'
  <1>1. Starting(t) /\ startups = 0
    BY DEF Startup, Goto, IInv, Startups, Starting
  <1>2. \A u \in Threads : Starting(u)' <=> Starting(u)
    BY <1>1 DEF Startup, Goto, IInv, InitTypeOK, Starting
  <1>3. OneStarter'
    BY <1>2 DEF Startup, IInv, OneStarter
  <1>4. winsock_state = "WS_INITIALIZING" /\ \A u \in Threads : Starting(u) => u = t
    BY <1>1 DEF IInv, OneStarter
  <1>5. InitTypeOK' /\ Startups' /\ ReadyInv'
    BY <1>1, <1>4 DEF Startup, Goto, IInv, InitTypeOK, Startups, ReadyInv, Starting, WSInitStates
  <1>6. QED
    BY <1>3, <1>5 DEF IInv

\* The second compare-and-exchange, after a start that has succeeded or failed.
LEMMA PublishStep ==
    ASSUME IInv, NEW t \in Threads, Publish(t) \/ Revert(t)
    PROVE  IInv'
  <1>1. Starting(t)
    BY DEF Publish, Revert, Goto, Starting
  <1>2. winsock_state = "WS_INITIALIZING" /\ \A u \in Threads : Starting(u) => u = t
    BY <1>1 DEF IInv, OneStarter
  <1>3. \A u \in Threads : ~Starting(u)'
    BY <1>1, <1>2 DEF Publish, Revert, Goto, IInv, InitTypeOK, Starting
  <1>4. winsock_state' # "WS_INITIALIZING"
    BY <1>2 DEF Publish, Revert, Exchange
  <1>5. OneStarter'
    BY <1>3, <1>4 DEF OneStarter
  <1>6. InitTypeOK' /\ Startups' /\ ReadyInv'
    BY <1>2 DEF Publish, Revert, Goto, Exchange, IInv, InitTypeOK, Startups, ReadyInv, Starting,
           WSInitStates
  <1>7. QED
    BY <1>5, <1>6 DEF IInv

LEMMA ExitStep == IInv /\ Exit => IInv'
  BY DEF Exit, IInv, InitTypeOK, OneStarter, Startups, ReadyInv, Starting, WSInitStates

LEMMA Inductive == IInv /\ [NextWinSock]_initVars => IInv'
  <1> SUFFICES ASSUME IInv, [NextWinSock]_initVars
               PROVE  IInv'
    OBVIOUS
  <1>1. CASE UNCHANGED initVars
    BY <1>1 DEF initVars, IInv, InitTypeOK, OneStarter, Startups, ReadyInv, Starting
  <1>2. CASE Exit
    BY <1>2, ExitStep
  <1>3. ASSUME NEW t \in Threads, Enter(t) \/ Leave(t) \/ Check(t) \/ Wait(t) \/ AssertVoid(t)
        PROVE  IInv'
    <2>1. ~Starting(t)
      BY <1>3 DEF Enter, Leave, Check, Wait, AssertVoid, Goto, Starting
    <2>2. PICK to \in {"out", "check", "cas", "wait", "assert0", "ready", "threw"} :
             /\ pc' = [pc EXCEPT ![t] = to]
             /\ to = "ready" => winsock_state = "WS_INITIALIZED"
      BY <1>3 DEF Enter, Leave, Check, Wait, AssertVoid, Goto
    <2>3. UNCHANGED <<winsock_state, startups, failures, exited>>
      BY <1>3 DEF Enter, Leave, Check, Wait, AssertVoid
    <2>4. QED
      BY <2>1, <2>2, <2>3, QuietStep
  <1>4. QED
    BY <1>1, <1>2, <1>3, CompareExchangeStep, StartupStep, PublishStep DEF NextWinSock, InitStep

LEMMA Invariant == WinSockSpec => []IInv
  BY InitInv, Inductive, PTL DEF WinSockSpec

\* Every step of a socket operation is a step of init_winsock() or leaves it alone:
\* what is proved of WinSock holds of Sockets.
LEMMA StepsUseWinSock == [Next]_vars => [NextWinSock]_initVars
  <1> SUFFICES ASSUME [Next]_vars
               PROVE  [NextWinSock]_initVars
    OBVIOUS
  <1>1. CASE UNCHANGED vars
    BY <1>1 DEF vars
  <1>2. ASSUME NEW t \in Threads, Step(t)
        PROVE  [NextWinSock]_initVars
    BY <1>2 DEF Step, Initialise, Throw, Socket, AcceptReturn, SetUp, SetUpLeaks, ConnectFails,
           Return, NextWinSock
  <1>3. ASSUME NEW t \in Threads, NEW v \in Vars,
               Construct(t, v) \/ \E s \in Vars : Accept(t, v, s)
        PROVE  [NextWinSock]_initVars
    BY <1>3 DEF Construct, Accept, Begin, NextWinSock
  <1>4. ASSUME NEW v \in Vars,
               Close(v) \/ Destroy(v) \/ \E w \in Vars : Copy(v, w) \/ Assign(v, w)
        PROVE  [NextWinSock]_initVars
    BY <1>4 DEF Close, Destroy, Copy, Assign
  <1>5. CASE ExitAll
    BY <1>5 DEF ExitAll, NextWinSock
  <1>6. QED
    BY <1>1, <1>2, <1>3, <1>4, <1>5 DEF Next

LEMMA SocketsUseWinSock == Spec => WinSockSpec
  <1>1. Init => InitWinSock
    BY DEF Init
  <1>2. QED
    BY <1>1, StepsUseWinSock, PTL DEF Spec, WinSockSpec

-----------------------------------------------------------------------------
\* In every use of the sockets, Winsock is started at most once, and no caller of
\* init_winsock() goes on before it is.
THEOREM WinsockStartsOnce == Spec => []StartedOnce
  <1>1. IInv => StartedOnce
    BY DEF IInv, Startups, ReadyInv, StartedOnce
  <1>2. QED
    BY <1>1, Invariant, SocketsUseWinSock, PTL

\* The two assertions behind WSAStartup hold: nobody else moves winsock_state while
\* a thread starts Winsock.
THEOREM ExchangeAssertsHold == Spec => []ExchangeAsserts
  <1>1. IInv => ExchangeAsserts
    BY DEF IInv, OneStarter, Starting, ExchangeAsserts
  <1>2. QED
    BY <1>1, Invariant, SocketsUseWinSock, PTL

-----------------------------------------------------------------------------
(* The handles.  That every open handle has one owner needs to be known of *)
(* objects, calls in progress and leaks together, and that the object a    *)
(* call constructs is not constructed by another one.                      *)

USE SocketsAssumption DEF SocketsAssumption

\* A call constructs an object of its own, and has a handle only while it sets it up.
CallInv == \A t \in Threads :
    /\ call[t].fn = "none" <=> call[t].var = INVALID_SOCKET
    /\ call[t].var \notin live
    /\ \A u \in Threads : call[t].var = call[u].var /\ call[t].var \in Vars => t = u
    /\ call[t].h \in Handles =>
          pc[t] = "ready" /\ call[t].fn \in {"openSocket", "connectSocket"}

\* The owners of handles have open ones, each its own; every open handle has one.
OwnInv == ~exited =>
    /\ \A v \in Vars : sock[v] \in Handles => sock[v] \in open \ leaked
    /\ \A v, w \in Vars : sock[v] \in Handles /\ sock[v] = sock[w] => v = w
    /\ \A t \in Threads : call[t].h \in Handles =>
          call[t].h \in open \ leaked /\ \A v \in Vars : sock[v] # call[t].h
    /\ \A t, u \in Threads : call[t].h \in Handles /\ call[t].h = call[u].h => t = u
    /\ leaked \subseteq open
    /\ \A h \in open : \/ h \in leaked
                       \/ \E v \in Vars : sock[v] = h
                       \/ \E t \in Threads : call[t].h = h

SInv == IInv /\ TypeOK /\ CallInv /\ OwnInv

LEMMA InitSockets == Init => SInv
  <1> SUFFICES ASSUME Init PROVE SInv
    OBVIOUS
  <1>1. IInv
    BY InitInv DEF Init
  <1>2. NoCall \in Call
    BY DEF NoCall, Call, Handle
  <1>3. TypeOK
    BY <1>1, <1>2 DEF Init, TypeOK, IInv, Handle
  <1>4. CallInv /\ OwnInv
    BY DEF Init, CallInv, OwnInv, NoCall
  <1> QED
    BY <1>1, <1>3, <1>4 DEF SInv

\* A call begins.
LEMMA BeginStep ==
    ASSUME SInv, IInv', NEW t \in Threads, NEW v \in Vars, Fresh(v),
           NEW fn \in {"openSocket", "connectSocket", "acceptSocket"},
           NEW s \in Vars \cup {INVALID_SOCKET}, Begin(t, fn, v, s)
    PROVE  SInv'
  <1> USE DEF SInv
  <1> DEFINE c == [fn |-> fn, var |-> v, on |-> s, h |-> INVALID_SOCKET]
  <1>1. /\ call' = [call EXCEPT ![t] = c] /\ UNCHANGED <<live, sock, open, leaked, exited>>
        /\ pc[t] = "out" /\ pc' = [pc EXCEPT ![t] = "check"]
    BY DEF Begin, Enter, Goto
  <1>2. c \in Call /\ c.fn = fn /\ c.var = v /\ c.h = INVALID_SOCKET
    BY DEF Call, Handle
  <1> HIDE DEF c
  <1>3. TypeOK'
    BY <1>1, <1>2 DEF TypeOK, IInv
  <1>4. v \notin live /\ \A u \in Threads : call[u].var # v
    BY DEF Fresh, Used
  <1>5. call[t].h = INVALID_SOCKET
    BY <1>1 DEF CallInv, TypeOK, Call, Handle
  <1>6. CallInv'
    BY <1>1, <1>2, <1>4 DEF CallInv, TypeOK, IInv, InitTypeOK
  <1>7. OwnInv'
    BY <1>1, <1>2, <1>5 DEF OwnInv, TypeOK
  <1> QED
    BY <1>3, <1>6, <1>7

\* Winsock is started, or the call throws.
LEMMA StartStep ==
    ASSUME SInv, IInv', NEW t \in Threads, Initialise(t) \/ Throw(t)
    PROVE  SInv'
  <1> USE DEF SInv
  <1>1. CASE Initialise(t)
    <2>1. UNCHANGED <<live, sock, open, call, leaked, exited>>
      BY <1>1 DEF Initialise, socketVars, InitStep, Check, CompareExchange, Startup, Publish,
                  Revert, Wait, AssertVoid
    <2>2. pc[t] # "ready" /\ \A u \in Threads : u # t => pc'[u] = pc[u]
      BY <1>1 DEF Initialise, InitStep, Check, CompareExchange, Startup, Publish,
                  Revert, Wait, AssertVoid, Goto, IInv, InitTypeOK
    <2>3. TypeOK'
      BY <2>1 DEF TypeOK, IInv
    <2>4. CallInv' /\ OwnInv'
      BY <2>1, <2>2 DEF CallInv, OwnInv
    <2> QED
      BY <2>3, <2>4
  <1>2. CASE Throw(t)
    <2>1. /\ call' = [call EXCEPT ![t] = NoCall] /\ UNCHANGED <<live, sock, open, leaked, exited>>
          /\ pc[t] = "threw" /\ pc' = [pc EXCEPT ![t] = "out"]
      BY <1>2 DEF Throw, Leave, Goto
    <2>2. /\ NoCall \in Call /\ NoCall.fn = "none" /\ NoCall.var = INVALID_SOCKET
          /\ NoCall.h = INVALID_SOCKET
      BY DEF NoCall, Call, Handle
    <2>3. call[t].h = INVALID_SOCKET
      BY <2>1 DEF CallInv, TypeOK, Call, Handle
    <2>4. TypeOK'
      BY <2>1, <2>2 DEF TypeOK, IInv
    <2>5. CallInv'
      BY <2>1, <2>2 DEF CallInv, TypeOK, IInv, InitTypeOK
    <2>6. OwnInv'
      BY <2>1, <2>2, <2>3 DEF OwnInv, TypeOK
    <2> QED
      BY <2>4, <2>5, <2>6
  <1> QED
    BY <1>1, <1>2

\* ::socket() gives a handle to the call.
LEMMA HandleGiven ==
    ASSUME SInv, IInv', NEW t \in Threads, InFunction(t, {"openSocket", "connectSocket"}),
           call[t].h = INVALID_SOCKET, NEW h \in Handles \ open,
           call' = [call EXCEPT ![t].h = h], open' = open \cup {h},
           UNCHANGED <<initVars, live, sock, leaked>>
    PROVE  SInv'
  <1> USE DEF SInv
  <1> DEFINE c == [call[t] EXCEPT !.h = h]
  <1>1. UNCHANGED <<pc, exited>> /\ call' = [call EXCEPT ![t] = c]
    BY DEF initVars
  <1>2. /\ c \in Call /\ c.fn = call[t].fn /\ c.var = call[t].var /\ c.h = h
        /\ c.fn \in {"openSocket", "connectSocket"} /\ pc[t] = "ready"
    BY DEF TypeOK, Call, Handle, InFunction
  <1> HIDE DEF c
  <1>3. TypeOK'
    BY <1>1, <1>2 DEF TypeOK, IInv
  <1>4. CallInv'
    BY <1>1, <1>2 DEF CallInv, TypeOK
  <1>5. \A u \in Threads : call'[u].h = IF u = t THEN h ELSE call[u].h
    BY <1>1, <1>2 DEF TypeOK
  <1>6. OwnInv'
    <2> SUFFICES ASSUME ~exited PROVE OwnInv'
      BY <1>1 DEF OwnInv
    <2>1. UNCHANGED <<sock, leaked>> /\ call[t].h \notin Handles /\ h \in open' /\ h \notin open
      OBVIOUS
    <2>2. /\ \A v \in Vars : sock[v] \in Handles => sock[v] \in open \ leaked
          /\ \A u \in Threads : call[u].h \in Handles =>
                call[u].h \in open \ leaked /\ \A v \in Vars : sock[v] # call[u].h
          /\ \A u, x \in Threads : call[u].h \in Handles /\ call[u].h = call[x].h => u = x
          /\ leaked \subseteq open
          /\ \A g \in open : \/ g \in leaked
                             \/ \E v \in Vars : sock[v] = g
                             \/ \E u \in Threads : call[u].h = g
      BY DEF OwnInv
    <2>3. \A u \in Threads : call'[u].h \in Handles =>
             call'[u].h \in open' \ leaked' /\ \A v \in Vars : sock'[v] # call'[u].h
      BY <1>5, <2>1, <2>2
    <2>4. \A u, x \in Threads : call'[u].h \in Handles /\ call'[u].h = call'[x].h => u = x
      BY <1>5, <2>1, <2>2
    <2>5. \A g \in open' : \/ g \in leaked'
                           \/ \E v \in Vars : sock'[v] = g
                           \/ \E u \in Threads : call'[u].h = g
      <3> SUFFICES ASSUME NEW g \in open, g \notin leaked, \A v \in Vars : sock[v] # g
                   PROVE  \E u \in Threads : call'[u].h = g
        BY <1>5, <2>1
      <3>1. PICK u \in Threads : call[u].h = g
        BY <2>2
      <3>2. u # t
        BY <2>1, <3>1 DEF TypeOK
      <3> QED
        BY <1>5, <3>1, <3>2
    <2>6. /\ \A v \in Vars : sock'[v] \in Handles => sock'[v] \in open' \ leaked'
          /\ \A v, w \in Vars : sock'[v] \in Handles /\ sock'[v] = sock'[w] => v = w
          /\ leaked' \subseteq open'
      BY <2>1, <2>2 DEF OwnInv
    <2> QED
      BY <2>3, <2>4, <2>5, <2>6, ZenonT(30) DEF OwnInv
  <1> QED
    BY <1>3, <1>4, <1>6

\* The object takes what the function has returned; what becomes of the call's own
\* handle differs.
LEMMA ReturnStep ==
    ASSUME SInv, IInv', NEW t \in Threads, call[t].fn # "none", NEW h \in Handle, Return(t, h),
           open' \subseteq Handles, leaked' \subseteq Handles, OwnInv'
    PROVE  SInv'
  <1> USE DEF SInv
  <1>1. /\ call' = [call EXCEPT ![t] = NoCall] /\ live' = live \cup {call[t].var}
        /\ sock' = [sock EXCEPT ![call[t].var] = h]
        /\ \A u \in Threads : u # t => pc'[u] = pc[u]
    BY DEF Return, Leave, Goto, IInv, InitTypeOK
  <1>2. /\ NoCall \in Call /\ NoCall.fn = "none" /\ NoCall.var = INVALID_SOCKET
        /\ NoCall.h = INVALID_SOCKET
    BY DEF NoCall, Call, Handle
  <1>3. call[t].var \in Vars
    BY DEF CallInv, TypeOK, Call
  <1>4. TypeOK'
    BY <1>1, <1>2, <1>3 DEF TypeOK, IInv
  <1>5. CallInv'
    BY <1>1, <1>2, <1>3 DEF CallInv, TypeOK
  <1> QED
    BY <1>4, <1>5

\* Before it returns the object has no handle, and afterwards the call has none.
LEMMA ReturnFacts ==
    ASSUME SInv, NEW t \in Threads, call[t].fn # "none", NEW h \in Handle, Return(t, h)
    PROVE  /\ call[t].var \in Vars /\ sock[call[t].var] = INVALID_SOCKET
           /\ sock' = [sock EXCEPT ![call[t].var] = h]
           /\ sock \in [Vars -> Handle] /\ call' \in [Threads -> Call]
           /\ \A u \in Threads : call'[u].h = IF u = t THEN INVALID_SOCKET ELSE call[u].h
           /\ exited' = exited
  BY DEF SInv, TypeOK, CallInv, Call, Handle, NoCall, Return, Leave

LEMMA SocketStep ==
    ASSUME SInv, IInv', NEW t \in Threads, Socket(t)
    PROVE  SInv'
  <1> USE DEF SInv
  <1>1. CASE \E h \in Handles \ open : /\ call' = [call EXCEPT ![t].h = h]
                                       /\ open' = open \cup {h}
                                       /\ UNCHANGED <<initVars, live, sock, leaked>>
    BY <1>1, HandleGiven DEF Socket
  <1>2. CASE Return(t, INVALID_SOCKET) /\ UNCHANGED <<open, leaked>>
    <2>1. INVALID_SOCKET \in Handle /\ call[t].fn # "none" /\ call[t].h = INVALID_SOCKET
      BY DEF Socket, InFunction, Handle
    <2>2. OwnInv'
      BY <1>2, <2>1, ReturnFacts DEF OwnInv
    <2> QED
      BY <1>2, <2>1, <2>2, ReturnStep DEF TypeOK
  <1> QED
    BY <1>1, <1>2 DEF Socket

LEMMA AcceptReturnStep ==
    ASSUME SInv, IInv', NEW t \in Threads, AcceptReturn(t)
    PROVE  SInv'
  <1> USE DEF SInv
  <1>1. call[t].fn = "acceptSocket" /\ UNCHANGED leaked
    BY DEF AcceptReturn, InFunction
  <1>2. call[t].h = INVALID_SOCKET
    BY <1>1 DEF CallInv, TypeOK, Call, Handle
  <1>3. CASE \E h \in Handles \ open : Return(t, h) /\ open' = open \cup {h}
    <2> PICK h \in Handles \ open : Return(t, h) /\ open' = open \cup {h}
      BY <1>3
    <2>1. h \in Handle
      BY DEF Handle
    <2>2. OwnInv'
      BY <1>1, <1>2, <2>1, ReturnFacts DEF OwnInv
    <2> QED
      BY <1>1, <2>1, <2>2, ReturnStep DEF TypeOK
  <1>4. CASE Return(t, INVALID_SOCKET) /\ UNCHANGED open
    <2>1. INVALID_SOCKET \in Handle
      BY DEF Handle
    <2>2. OwnInv'
      BY <1>1, <1>2, <1>4, <2>1, ReturnFacts DEF OwnInv
    <2> QED
      BY <1>1, <1>4, <2>1, <2>2, ReturnStep DEF TypeOK
  <1> QED
    BY <1>3, <1>4 DEF AcceptReturn

\* The call's handle goes to the object, is leaked, or is closed.
LEMMA OpenedReturns ==
    ASSUME SInv, IInv', NEW t \in Threads, SetUp(t) \/ SetUpLeaks(t) \/ ConnectFails(t)
    PROVE  SInv'
  <1> USE DEF SInv
  <1>1. call[t].fn # "none" /\ call[t].h \in Handles /\ INVALID_SOCKET \in Handle
    BY DEF SetUp, SetUpLeaks, ConnectFails, Opened, InFunction, TypeOK, Call, Handle
  <1>2. CASE SetUp(t)
    <2>1. call[t].h \in Handle /\ Return(t, call[t].h) /\ UNCHANGED <<open, leaked>>
      BY <1>1, <1>2 DEF SetUp, Handle
    <2>2. OwnInv'
      BY <1>1, <2>1, ReturnFacts DEF OwnInv
    <2> QED
      BY <1>1, <2>1, <2>2, ReturnStep DEF TypeOK
  <1>3. CASE SetUpLeaks(t)
    <2>1. Return(t, INVALID_SOCKET) /\ UNCHANGED open
          /\ leaked' = IF exited THEN leaked ELSE leaked \cup {call[t].h}
      BY <1>3 DEF SetUpLeaks
    <2>2. OwnInv'
      BY <1>1, <2>1, ReturnFacts DEF OwnInv
    <2> QED
      BY <1>1, <2>1, <2>2, ReturnStep DEF TypeOK
  <1>4. CASE ConnectFails(t)
    <2>1. Return(t, INVALID_SOCKET) /\ UNCHANGED leaked /\ open' = open \ {call[t].h}
      BY <1>4 DEF ConnectFails
    <2>2. OwnInv'
      BY <1>1, <2>1, ReturnFacts DEF OwnInv
    <2> QED
      BY <1>1, <2>1, <2>2, ReturnStep DEF TypeOK
  <1> QED
    BY <1>2, <1>3, <1>4

-----------------------------------------------------------------------------
\* The operations on constructed objects.
LEMMA CloseStep ==
    ASSUME SInv, IInv', NEW v \in Vars, Close(v) \/ Destroy(v)
    PROVE  SInv'
  <1> USE DEF SInv
  <1>1. /\ UNCHANGED <<pc, exited, call, leaked>> /\ open' = open \ {sock[v]}
        /\ live' \subseteq live /\ live \ {v} \subseteq live'
        /\ sock' = [sock EXCEPT ![v] = INVALID_SOCKET]
    BY DEF Close, Destroy, initVars
  <1>2. TypeOK'
    BY <1>1 DEF TypeOK, IInv, Handle
  <1>3. CallInv'
    BY <1>1 DEF CallInv
  <1>4. OwnInv'
    BY <1>1 DEF OwnInv, TypeOK, Handle
  <1> QED
    BY <1>2, <1>3, <1>4

LEMMA CopyStep ==
    ASSUME SInv, IInv', NEW v \in Vars, NEW w \in Vars, Copy(v, w) \/ Assign(v, w)
    PROVE  SInv'
  <1> USE DEF SInv
  <1>1. /\ UNCHANGED <<pc, exited, call, leaked>> /\ v # w /\ open' = open \ {sock[v]}
        /\ sock' = [sock EXCEPT ![v] = sock[w], ![w] = INVALID_SOCKET]
        /\ live' = live \cup {v} /\ w \in live /\ \A t \in Threads : call[t].var # v
    <2>1. CASE Copy(v, w)
      <3>1. v \notin live /\ w \in live /\ sock[v] = INVALID_SOCKET /\ sock[v] \notin open
        BY <2>1 DEF Copy, Fresh, Usable, TypeOK
      <3> QED
        BY <2>1, <3>1 DEF Copy, Fresh, Used, initVars
    <2>2. CASE Assign(v, w)
      BY <2>2 DEF Assign, Usable, Used, initVars
    <2> QED
      BY <2>1, <2>2
  <1>2. TypeOK'
    BY <1>1 DEF TypeOK, IInv, Handle
  <1>3. CallInv'
    BY <1>1 DEF CallInv
  <1>4. OwnInv'
    BY <1>1 DEF OwnInv, TypeOK, Handle
  <1> QED
    BY <1>2, <1>3, <1>4

LEMMA ExitAllStep ==
    ASSUME SInv, IInv', ExitAll
    PROVE  SInv'
  <1> USE DEF SInv
  <1>1. UNCHANGED <<pc, live, sock, call>> /\ exited'
        /\ open' \subseteq open /\ leaked' \subseteq leaked
    BY DEF ExitAll, Exit
  <1>2. TypeOK' /\ CallInv' /\ OwnInv'
    BY <1>1 DEF TypeOK, CallInv, OwnInv, IInv
  <1> QED
    BY <1>2

LEMMA SocketsInductive == SInv /\ [Next]_vars => SInv'
  <1> SUFFICES ASSUME SInv, [Next]_vars PROVE SInv'
    OBVIOUS
  <1>1. IInv'
    BY StepsUseWinSock, Inductive DEF SInv
  <1>2. CASE UNCHANGED vars
    BY <1>1, <1>2 DEF vars, socketVars, initVars, SInv, TypeOK, IInv, CallInv, OwnInv
  <1>3. ASSUME NEW t \in Threads, Step(t)
        PROVE  SInv'
    BY <1>1, <1>3, StartStep, SocketStep, AcceptReturnStep, OpenedReturns DEF Step
  <1>4. ASSUME NEW t \in Threads, NEW v \in Vars, Construct(t, v)
        PROVE  SInv'
    BY <1>1, <1>4, BeginStep DEF Construct
  <1>5. ASSUME NEW t \in Threads, NEW v \in Vars, NEW s \in Vars, Accept(t, v, s)
        PROVE  SInv'
    BY <1>1, <1>5, BeginStep DEF Accept
  <1>6. QED
    BY <1>1, <1>2, <1>3, <1>4, <1>5, CloseStep, CopyStep, ExitAllStep DEF Next

-----------------------------------------------------------------------------
LEMMA AtMostOne ==
    ASSUME NEW S, \A x, y \in S : x = y
    PROVE  Cardinality(S) = IF S = {} THEN 0 ELSE 1
  <1>1. CASE S = {}
    BY <1>1, FS_EmptySet
  <1>2. CASE S # {}
    <2> PICK x : x \in S
      BY <1>2
    <2>1. S = {x}
      OBVIOUS
    <2>2. Cardinality({x}) = 1
      BY FS_Singleton
    <2> QED
      BY <1>2, <2>1, <2>2
  <1> QED
    BY <1>1, <1>2

\* Every variable of Sockets keeps its type.
THEOREM TypeCorrect == Spec => []TypeOK
  <1>1. SInv => TypeOK
    BY DEF SInv
  <1>2. QED
    BY InitSockets, SocketsInductive, <1>1, PTL DEF Spec

\* Whatever objects are copied, assigned, accepted and closed by any number of
\* threads: each open handle has one owner, an object, a call or a known leak.
THEOREM HandlesHaveOneOwner == Spec => []HandlesAccounted
  <1>1. SInv => HandlesAccounted
    <2> SUFFICES ASSUME SInv, ~exited, NEW h \in Handles
                 PROVE  Cardinality({v \in Vars : sock[v] = h})
                          + Cardinality({t \in Threads : call[t].h = h})
                          + (IF h \in leaked THEN 1 ELSE 0) = IF h \in open THEN 1 ELSE 0
      BY DEF HandlesAccounted
    <2> DEFINE V == {v \in Vars : sock[v] = h}
               T == {t \in Threads : call[t].h = h}
    <2>1. OwnInv /\ ~exited
      BY DEF SInv
    <2>2. Cardinality(V) = IF V = {} THEN 0 ELSE 1
      <3>1. \A v, w \in V : v = w
        BY <2>1 DEF OwnInv
      <3> QED
        BY <3>1, AtMostOne
    <2>3. Cardinality(T) = IF T = {} THEN 0 ELSE 1
      <3>1. \A t, u \in T : t = u
        BY <2>1 DEF OwnInv
      <3> QED
        BY <3>1, AtMostOne
    <2>4. /\ h \in leaked => h \in open /\ V = {} /\ T = {}
          /\ V # {} => h \in open /\ T = {}
          /\ T # {} => h \in open
          /\ h \in open => h \in leaked \/ V # {} \/ T # {}
      BY <2>1 DEF OwnInv
    <2> QED
      BY <2>2, <2>3, <2>4
  <1>2. QED
    BY InitSockets, SocketsInductive, <1>1, PTL DEF Spec

-----------------------------------------------------------------------------
(* CoutBuffer, for any things that are inserted and any sizes.  The queue  *)
(* is in the memory: each thing that is owed is held, byte by byte, between *)
(* two boundaries, the first at the read and the last at the write position.*)

Couts == {c \in [mem : Seq(Nat), read : Nat, write : Nat, thrown : BOOLEAN] :
            c.read <= c.write /\ c.write <= Len(c.mem)}

\* d is what c has become by writing behind what c holds.
Extends(c, d) ==
    /\ d \in Couts /\ d.read = c.read /\ d.thrown = c.thrown /\ c.write <= d.write
    /\ \A i \in 1 .. c.write : d.mem[i] = c.mem[i]

\* The bytes from a to b are ...
HoldsBytes(mem, a, b, bytes) == b = a + Len(bytes) /\ \A i \in 1 .. Len(bytes) : mem[a + i] = bytes[i]
HoldsNumber(mem, a, b, n) == HoldsBytes(mem, a, b, Reverse(Hton(UInt32, n)))
HoldsString(mem, a, b, str) ==
    HoldsNumber(mem, a, a + UInt32, Len(str)) /\ HoldsBytes(mem, a + UInt32, b, str)
HoldsOne(type, mem, a, b, v) ==
    IF type = "string" THEN HoldsString(mem, a, b, v) ELSE HoldsNumber(mem, a, b, v)

\* ... the first n elements, one behind the other, with the boundaries p, ...
Boundaries(type, mem, a, b, vec, n, p) ==
    /\ p \in [0 .. n -> a .. b] /\ p[0] = a /\ p[n] = b
    /\ \A i \in 1 .. n : HoldsOne(type, mem, p[i - 1], p[i], vec[i])
HoldsVector(type, mem, a, b, vec) ==
    /\ HoldsNumber(mem, a, a + UInt32, Len(vec))
    /\ \E p : Boundaries(type, mem, a + UInt32, b, vec, Len(vec), p)
HoldsThing(type, mem, a, b, v) ==
    CASE type = "int" -> HoldsNumber(mem, a, b, v)
      [] type = "string" -> HoldsString(mem, a, b, v)
      [] type = "ints" -> HoldsVector("int", mem, a, b, v)
      [] type = "strings" -> HoldsVector("string", mem, a, b, v)

-----------------------------------------------------------------------------
HIDE SocketsAssumption DEF SocketsAssumption
HIDE WinSockAssumption

USE CoutAssumption, ByteAssumption

\* The parts of a buffer object.
LEMMA CoutParts ==
    ASSUME NEW c \in Couts
    PROVE  /\ c.mem \in Seq(Nat) /\ Len(c.mem) \in Nat /\ c.read \in Nat /\ c.write \in Nat
           /\ c.thrown \in BOOLEAN /\ c.read <= c.write /\ c.write <= Len(c.mem)
  BY DEF Couts

\* Writing nothing and writing twice extend what is held.
LEMMA ExtendsItself ==
    ASSUME NEW c \in Couts
    PROVE  Extends(c, c)
  BY CoutParts DEF Extends

\* Of two steps that extend, the second keeps what the first has kept.
LEMMA ExtendsTwice ==
    ASSUME NEW c \in Couts, NEW d, NEW e, Extends(c, d), Extends(d, e)
    PROVE  Extends(c, e)
  <1>1. c.write \in Nat /\ d.write \in Nat /\ e.write \in Nat
    BY CoutParts DEF Extends
  <1>2. c.write <= d.write /\ d.write <= e.write /\ c.write <= e.write
    BY <1>1 DEF Extends
  <1>3. \A i \in 1 .. c.write : i \in 1 .. d.write
    BY <1>1, <1>2
  <1>4. \A i \in 1 .. c.write : e.mem[i] = c.mem[i]
    BY <1>3 DEF Extends
  <1>5. QED
    BY <1>2, <1>4 DEF Extends

\* A sequence up to p, and more behind it.
LEMMA Prefixed ==
    ASSUME NEW mem \in Seq(Nat), NEW p \in Nat, p <= Len(mem)
    PROVE  /\ SubSeq(mem, 1, p) \in Seq(Nat) /\ Len(SubSeq(mem, 1, p)) = p
           /\ \A i \in 1 .. p : SubSeq(mem, 1, p)[i] = mem[i]
  <1>1. mem \in [1 .. Len(mem) -> Nat] /\ Len(mem) \in Nat
    BY LenProperties
  <1>2. \A i \in 1 .. p : mem[i] \in Nat
    BY <1>1
  <1>3. /\ SubSeq(mem, 1, p) \in Seq(Nat)
        /\ Len(SubSeq(mem, 1, p)) = IF 1 <= p THEN p - 1 + 1 ELSE 0
        /\ \A i \in 1 .. p - 1 + 1 : SubSeq(mem, 1, p)[i] = mem[1 + i - 1]
    BY <1>2, SubSeqProperties
  <1>4. p - 1 + 1 = p /\ \A i \in 1 .. p : 1 + i - 1 = i
    OBVIOUS
  <1>5. \A i \in 1 .. p : SubSeq(mem, 1, p)[i] = mem[i]
    BY <1>3, <1>4, Zenon
  <1>6. QED
    BY <1>3, <1>5

\* Memory that grows keeps what it holds.
LEMMA SpaceKeeps ==
    ASSUME NEW mem \in Seq(Nat), NEW size \in Nat, Len(mem) <= size
    PROVE  /\ Space(size, mem) \in Seq(Nat) /\ Len(Space(size, mem)) = size
           /\ \A i \in 1 .. Len(mem) : Space(size, mem)[i] = mem[i]
  <1> DEFINE n == Len(mem)
             rest == [i \in 1 .. size - n |-> Unwritten]
             new == mem \o rest
  <1>1. Unwritten \in Nat
    BY DEF Unwritten
  <1>2. n \in Nat /\ n <= size /\ size - n \in Nat
    OBVIOUS
  <1>3. rest \in Seq(Nat) /\ Len(rest) = size - n
    BY <1>1, <1>2
  <1> HIDE DEF rest
  <1>4. /\ new \in Seq(Nat) /\ Len(new) = n + Len(rest)
        /\ \A i \in 1 .. n + Len(rest) : new[i] = IF i <= n THEN mem[i] ELSE rest[i - n]
    BY <1>3, ConcatProperties
  <1> HIDE DEF n, new
  <1>5. \A i \in 1 .. n : i \in 1 .. n + Len(rest) /\ i <= n
    BY <1>2, <1>3
  <1>6. \A i \in 1 .. n : new[i] = mem[i]
    BY <1>4, <1>5, Zenon
  <1>7. Len(new) = size
    BY <1>2, <1>3, <1>4
  <1>8. Space(size, mem) = new
    BY DEF Space, new, rest, n
  <1>9. QED
    BY <1>4, <1>6, <1>7, <1>8 DEF n

\* The buffer with other memory that begins with what it holds.
LEMMA NewMemory ==
    ASSUME NEW c \in Couts, NEW size \in Nat, c.write <= size
    PROVE  LET d == [c EXCEPT !.mem = Space(size, Contents(c))]
           IN  Extends(c, d) /\ d.write = c.write /\ Len(d.mem) = size
  <1> DEFINE w == c.write
             old == SubSeq(c.mem, 1, w)
             new == Space(size, old)
  <1>1. c.mem \in Seq(Nat) /\ w \in Nat /\ w <= Len(c.mem)
    BY CoutParts
  <1>2. old \in Seq(Nat) /\ Len(old) = w /\ \A i \in 1 .. w : old[i] = c.mem[i]
    BY <1>1, Prefixed
  <1> HIDE DEF old
  <1>3. w <= size
    OBVIOUS
  <1> HIDE DEF w
  <1>4. new \in Seq(Nat) /\ Len(new) = size /\ \A i \in 1 .. Len(old) : new[i] = old[i]
    BY <1>2, <1>3, SpaceKeeps
  <1>5. \A i \in 1 .. w : new[i] = c.mem[i]
    BY <1>2, <1>4
  <1>6. Contents(c) = old
    BY DEF Contents, old, w
  <1> HIDE DEF new
  <1> DEFINE d == [c EXCEPT !.mem = new]
  <1>7. d.mem = new /\ d.write = w /\ d.read = c.read /\ d.thrown = c.thrown /\ c.read <= w
    BY CoutParts DEF Couts, w
  <1>8. d \in Couts
    BY <1>3, <1>4, <1>7 DEF Couts, w
  <1> HIDE DEF d
  <1>9. Extends(c, d) /\ d.write = c.write /\ Len(d.mem) = size
    BY <1>1, <1>4, <1>5, <1>7, <1>8 DEF Extends, w
  <1>10. QED
    BY <1>6, <1>9 DEF d, new

\* Room is made without touching what is held.
LEMMA RoomMade ==
    ASSUME NEW c \in Couts, NEW n \in Nat
    PROVE  /\ Extends(c, TryApply(c, n)) /\ TryApply(c, n).write = c.write
           /\ c.write + n <= Len(TryApply(c, n).mem)
  <1> DEFINE size == 2 * (c.write + n)
  <1>1. c.write \in Nat /\ size \in Nat /\ c.write <= size /\ c.write + n <= size
    BY CoutParts
  <1>2. CASE c.write + n > Len(c.mem)
    <2>1. TryApply(c, n) = [c EXCEPT !.mem = Space(size, Contents(c))]
      BY <1>2 DEF TryApply
    <2> HIDE DEF size
    <2>2. QED
      BY <1>1, <2>1, NewMemory
  <1>3. CASE ~(c.write + n > Len(c.mem))
    <2>1. TryApply(c, n) = c /\ c.write + n <= Len(c.mem)
      BY <1>1, <1>3, CoutParts DEF TryApply
    <2>2. QED
      BY <2>1, ExtendsItself
  <1>4. QED
    BY <1>2, <1>3

\* reserve_size moves what is held and drops none of it.
LEMMA ReserveKeeps ==
    ASSUME NEW c \in Couts, NEW size \in Nat
    PROVE  Extends(c, Reserved(c, size)) /\ Reserved(c, size).write = c.write
  <1>1. CASE Len(c.mem) < size
    <2>1. c.write <= size
      BY <1>1, CoutParts
    <2>2. QED
      BY <1>1, <2>1, NewMemory DEF Reserved
  <1>2. CASE ~(Len(c.mem) < size)
    BY <1>2, ExtendsItself DEF Reserved
  <1>3. QED
    BY <1>1, <1>2

\* Bytes are put where there is room for them.
LEMMA BytesPut ==
    ASSUME NEW d \in Couts, NEW bytes \in Seq(Nat), d.write + Len(bytes) <= Len(d.mem)
    PROVE  LET n == d.write + Len(bytes)
               e == [d EXCEPT !.mem = SubSeq(@, 1, d.write) \o bytes \o SubSeq(@, n + 1, Len(@)),
                              !.write = n]
           IN  /\ Extends(d, e) /\ HoldsBytes(e.mem, d.write, e.write, bytes)
               /\ Len(e.mem) = Len(d.mem)
  <1> DEFINE w == d.write
             k == Len(bytes)
             n == w + k
             new == Over(d.mem, w, bytes)
             e == [d EXCEPT !.mem = SubSeq(@, 1, d.write) \o bytes \o SubSeq(@, n + 1, Len(@)),
                            !.write = n]
  <1>1. /\ w \in Nat /\ k \in Nat /\ d.read \in Nat /\ d.read <= w /\ n \in Nat /\ n <= Len(d.mem)
        /\ d.mem \in Seq(Nat) /\ Len(d.mem) \in Nat
    BY CoutParts
  <1>2. /\ new \in Seq(Nat) /\ Len(new) = Len(d.mem)
        /\ \A i \in 1 .. Len(d.mem) :
             new[i] = IF w < i /\ i <= w + Len(bytes) THEN bytes[i - w] ELSE d.mem[i]
    BY <1>1, Overwritten
  <1>3. e = [d EXCEPT !.mem = new, !.write = n]
    BY DEF Over
  <1> HIDE DEF e, new
  <1>4. e.mem = new /\ e.write = n /\ e.read = d.read /\ e.thrown = d.thrown
    BY <1>3 DEF Couts
  <1>5. e \in [mem : Seq(Nat), read : Nat, write : Nat, thrown : BOOLEAN]
    BY <1>1, <1>2, <1>3 DEF Couts
  <1>6. k = Len(bytes)
    OBVIOUS
  <1> HIDE DEF k
  <1>7. n = w + k /\ d.read <= n /\ w <= n
    BY <1>1
  <1>8. e \in Couts
    BY <1>1, <1>2, <1>4, <1>5, <1>7 DEF Couts
  <1> HIDE DEF n, w
  <1>9. \A i \in 1 .. w : i \in 1 .. Len(d.mem) /\ ~(w < i)
    BY <1>1, <1>7
  <1>10. \A i \in 1 .. w : new[i] = d.mem[i]
    BY <1>2, <1>9, Zenon
  <1>11. \A i \in 1 .. k : w + i \in 1 .. Len(d.mem) /\ w < w + i /\ w + i <= w + k /\ (w + i) - w = i
    BY <1>1, <1>7
  <1>12. \A i \in 1 .. k : new[w + i] = bytes[i]
    BY <1>2, <1>6, <1>11, Zenon
  <1>13. Extends(d, e)
    BY <1>4, <1>7, <1>8, <1>10 DEF Extends, w
  <1>14. HoldsBytes(e.mem, w, e.write, bytes)
    BY <1>4, <1>6, <1>7, <1>12 DEF HoldsBytes
  <1>15. Len(e.mem) = Len(d.mem)
    BY <1>2, <1>4
  <1>16. QED
    BY <1>13, <1>14, <1>15 DEF e, n, w, k

\* Bytes are inserted behind what is held, and in place if there is room.
LEMMA BytesInserted ==
    ASSUME NEW c \in Couts, NEW bytes \in Seq(Nat)
    PROVE  /\ Extends(c, Inserted(c, bytes))
           /\ HoldsBytes(Inserted(c, bytes).mem, c.write, Inserted(c, bytes).write, bytes)
           /\ c.write + Len(bytes) <= Len(c.mem) => Len(Inserted(c, bytes).mem) = Len(c.mem)
  <1> DEFINE d == TryApply(c, Len(bytes))
  <1>0. c.write + Len(bytes) <= Len(c.mem) => d = c
    BY CoutParts DEF TryApply
  <1>1. Len(bytes) \in Nat
    OBVIOUS
  <1>2. Extends(c, d) /\ d.write = c.write /\ c.write + Len(bytes) <= Len(d.mem)
    BY <1>1, RoomMade
  <1> HIDE DEF d
  <1>3. d \in Couts /\ d.write + Len(bytes) <= Len(d.mem)
    BY <1>2 DEF Extends
  <1>4. Inserted(c, bytes)
          = [d EXCEPT !.mem = SubSeq(@, 1, d.write) \o bytes
                                \o SubSeq(@, d.write + Len(bytes) + 1, Len(@)),
                      !.write = d.write + Len(bytes)]
    BY DEF Inserted, d
  <1> DEFINE e == Inserted(c, bytes)
  <1>5. /\ Extends(d, e) /\ HoldsBytes(e.mem, d.write, e.write, bytes)
        /\ Len(e.mem) = Len(d.mem)
    BY <1>3, <1>4, BytesPut
  <1> HIDE DEF e
  <1>6. Extends(c, e)
    BY <1>2, <1>5, ExtendsTwice
  <1>7. c.write + Len(bytes) <= Len(c.mem) => Len(e.mem) = Len(c.mem)
    BY <1>0, <1>5
  <1>8. QED
    BY <1>2, <1>5, <1>6, <1>7 DEF e

\* The bytes of a number, the least significant first.
LEMMA NumberBytes ==
    ASSUME NEW n \in Int
    PROVE  Reverse(Hton(UInt32, n)) \in Seq(Nat) /\ Len(Reverse(Hton(UInt32, n))) = 4
  <1>1. Hton(UInt32, n) \in Seq(Nat) /\ Len(Hton(UInt32, n)) = 4
    BY HtonType DEF UInt32
  <1> DEFINE h == Hton(UInt32, n)
  <1>2. h \in [1 .. 4 -> Nat]
    BY <1>1, LenProperties
  <1> HIDE DEF h
  <1>3. Reverse(h) = [i \in 1 .. 4 |-> h[(4 - i) + 1]]
    BY <1>1 DEF Reverse, h
  <1>4. \A i \in 1 .. 4 : h[(4 - i) + 1] \in Nat
    BY <1>2
  <1>5. [i \in 1 .. 4 |-> h[(4 - i) + 1]] \in Seq(Nat)
    BY <1>4
  <1>6. QED
    BY <1>3, <1>5 DEF h

\* operator<< of a number.
LEMMA NumberInserted ==
    ASSUME NEW c \in Couts, NEW n \in Int
    PROVE  /\ Extends(c, InsertNumber(c, n))
           /\ HoldsNumber(InsertNumber(c, n).mem, c.write, InsertNumber(c, n).write, n)
           /\ InsertNumber(c, n).write = c.write + 4
           /\ c.write + 4 <= Len(c.mem) => Len(InsertNumber(c, n).mem) = Len(c.mem)
  <1> DEFINE bytes == Reverse(Hton(UInt32, n))
             d == Inserted(c, bytes)
  <1>1. bytes \in Seq(Nat) /\ Len(bytes) = 4
    BY NumberBytes
  <1> HIDE DEF bytes
  <1>2. /\ Extends(c, d) /\ HoldsBytes(d.mem, c.write, d.write, bytes)
        /\ c.write + 4 <= Len(c.mem) => Len(d.mem) = Len(c.mem)
    BY <1>1, BytesInserted
  <1> HIDE DEF d
  <1>3. d.write = c.write + 4
    BY <1>1, <1>2 DEF HoldsBytes
  <1>4. InsertNumber(c, n) = d
    BY DEF InsertNumber, d, bytes
  <1>5. QED
    BY <1>2, <1>3, <1>4 DEF HoldsNumber, bytes

\* Whatever is written behind it, what is held stays.
LEMMA BytesStay ==
    ASSUME NEW d, NEW e, Extends(d, e), d \in Couts,
           NEW a \in Nat, NEW b \in Nat, NEW bytes \in Seq(Nat), HoldsBytes(d.mem, a, b, bytes), b <= d.write
    PROVE  HoldsBytes(e.mem, a, b, bytes)
  <1>1. Len(bytes) \in Nat /\ d.write \in Nat /\ b = a + Len(bytes)
    BY CoutParts DEF HoldsBytes
  <1>2. \A i \in 1 .. Len(bytes) : a + i \in 1 .. d.write
    BY <1>1
  <1>3. QED
    BY <1>1, <1>2 DEF HoldsBytes, Extends

\* The same for a number, a string, elements and any thing.
LEMMA NumberStays ==
    ASSUME NEW d \in Couts, NEW e, Extends(d, e),
           NEW a \in Nat, NEW b \in Nat, NEW n \in Int, HoldsNumber(d.mem, a, b, n), b <= d.write
    PROVE  HoldsNumber(e.mem, a, b, n)
  BY NumberBytes, BytesStay DEF HoldsNumber

\* A string stays where it is held when more is written, ...
LEMMA StringStays ==
    ASSUME NEW d \in Couts, NEW e, Extends(d, e),
           NEW a \in Nat, NEW b \in Nat, NEW str \in Seq(Nat), HoldsString(d.mem, a, b, str),
           b <= d.write
    PROVE  HoldsString(e.mem, a, b, str)
  <1> DEFINE m == a + UInt32
             k == Len(str)
  <1>1. /\ m \in Nat /\ k \in Int /\ HoldsNumber(d.mem, a, m, k)
        /\ HoldsBytes(d.mem, m, b, str)
    BY DEF HoldsString, UInt32
  <1>2. m <= b
    BY <1>1 DEF HoldsBytes
  <1>3. m <= d.write
    BY <1>1, <1>2, CoutParts
  <1> HIDE DEF m, k
  <1>4. HoldsNumber(e.mem, a, m, k)
    BY <1>1, <1>3, NumberStays
  <1>5. HoldsBytes(e.mem, m, b, str)
    BY <1>1, BytesStay
  <1>6. QED
    BY <1>4, <1>5 DEF HoldsString, m, k

\* What is held of either type of element, and of any type of thing below.
Ones(type) == IF type = "string" THEN Seq(Nat) ELSE Int

\* ... and so does an element of either type, ...
LEMMA OneStays ==
    ASSUME NEW d \in Couts, NEW e, Extends(d, e), NEW type, NEW v \in Ones(type),
           NEW a \in Nat, NEW b \in Nat, HoldsOne(type, d.mem, a, b, v), b <= d.write
    PROVE  HoldsOne(type, e.mem, a, b, v)
  <1>1. CASE type = "string"
    BY <1>1, StringStays DEF HoldsOne, Ones
  <1>2. CASE type # "string"
    BY <1>2, NumberStays DEF HoldsOne, Ones
  <1>3. QED
    BY <1>1, <1>2

\* ... every one of the first n elements, ...
LEMMA ElementsStay ==
    ASSUME NEW d \in Couts, NEW e, Extends(d, e), NEW type, NEW vec \in Seq(Ones(type)),
           NEW n \in 0 .. Len(vec),
           NEW a \in Nat, NEW b \in Nat, NEW p, Boundaries(type, d.mem, a, b, vec, n, p), b <= d.write
    PROVE  Boundaries(type, e.mem, a, b, vec, n, p)
  <1>1. \A i \in 0 .. n : p[i] \in Nat /\ p[i] <= d.write
    BY CoutParts DEF Boundaries
  <1>2. ASSUME NEW i \in 1 .. n
        PROVE  HoldsOne(type, e.mem, p[i - 1], p[i], vec[i])
    <2>1. i - 1 \in 0 .. n /\ i \in 0 .. n /\ i \in 1 .. Len(vec)
      OBVIOUS
    <2>2. vec[i] \in Ones(type)
      BY <2>1
    <2>3. p[i - 1] \in Nat /\ p[i] \in Nat /\ p[i] <= d.write
      BY <1>1, <2>1
    <2>4. HoldsOne(type, d.mem, p[i - 1], p[i], vec[i])
      BY DEF Boundaries
    <2>5. QED
      BY <2>2, <2>3, <2>4, OneStays
  <1>3. QED
    BY <1>2 DEF Boundaries

\* ... a vector, which is its length and its elements, ...
LEMMA VectorStays ==
    ASSUME NEW d \in Couts, NEW e, Extends(d, e), NEW type, NEW vec \in Seq(Ones(type)),
           NEW a \in Nat, NEW b \in Nat, HoldsVector(type, d.mem, a, b, vec), b <= d.write
    PROVE  HoldsVector(type, e.mem, a, b, vec)
  <1> DEFINE m == a + UInt32
             k == Len(vec)
  <1>1. PICK p : Boundaries(type, d.mem, m, b, vec, Len(vec), p)
    BY DEF HoldsVector
  <1>2. m \in Nat /\ k \in Int /\ HoldsNumber(d.mem, a, m, k)
    BY DEF HoldsVector, UInt32
  <1>3. m <= b
    <2>1. 0 \in 0 .. Len(vec) /\ p[0] \in m .. b
      BY <1>1 DEF Boundaries
    <2>2. QED
      BY <1>2, <2>1
  <1>4. m <= d.write
    BY <1>2, <1>3, CoutParts
  <1> HIDE DEF m, k
  <1>5. HoldsNumber(e.mem, a, m, k)
    BY <1>2, <1>4, NumberStays
  <1>6. Boundaries(type, e.mem, m, b, vec, Len(vec), p)
    <2>1. Len(vec) \in 0 .. Len(vec)
      OBVIOUS
    <2>2. QED
      BY <1>1, <1>2, <2>1, ElementsStay, Zenon
  <1>7. QED
    BY <1>5, <1>6 DEF HoldsVector, m, k

Values(type) ==
    CASE type = "int" -> Int [] type = "string" -> Seq(Nat)
      [] type = "ints" -> Seq(Int) [] type = "strings" -> Seq(Seq(Nat))

\* ... and a thing of any type.
LEMMA ThingStays ==
    ASSUME NEW d \in Couts, NEW e, Extends(d, e), NEW type \in ThingTypes, NEW v \in Values(type),
           NEW a \in Nat, NEW b \in Nat, HoldsThing(type, d.mem, a, b, v), b <= d.write
    PROVE  HoldsThing(type, e.mem, a, b, v)
  <1>1. CASE type = "int"
    BY <1>1, NumberStays DEF HoldsThing, Values
  <1>2. CASE type = "string"
    BY <1>2, StringStays DEF HoldsThing, Values
  <1>3. CASE type = "ints"
    <2>1. v \in Seq(Ones("int")) /\ HoldsVector("int", d.mem, a, b, v)
      BY <1>3 DEF HoldsThing, Values, Ones
    <2>2. HoldsVector("int", e.mem, a, b, v)
      BY <2>1, VectorStays
    <2>3. QED
      BY <1>3, <2>2 DEF HoldsThing
  <1>4. CASE type = "strings"
    <2>1. v \in Seq(Ones("string")) /\ HoldsVector("string", d.mem, a, b, v)
      BY <1>4 DEF HoldsThing, Values, Ones
    <2>2. HoldsVector("string", e.mem, a, b, v)
      BY <2>1, VectorStays
    <2>3. QED
      BY <1>4, <2>2 DEF HoldsThing
  <1>5. QED
    BY <1>1, <1>2, <1>3, <1>4 DEF ThingTypes

-----------------------------------------------------------------------------
\* operator<< of a string: room is made for both parts before the first is written.
LEMMA StringInserted ==
    ASSUME NEW c \in Couts, NEW str \in Seq(Nat)
    PROVE  /\ Extends(c, InsertString(c, str))
           /\ HoldsString(InsertString(c, str).mem, c.write, InsertString(c, str).write, str)
  <1> DEFINE k == Len(str)
             c1 == TryApply(c, UInt32 + k)
             d == InsertNumber(c1, k)
             e == InsertString(c, str)
  <1>1. k \in Nat /\ UInt32 + k \in Nat /\ UInt32 + k = 4 + k /\ k = Len(str) /\ k \in Int
    BY DEF UInt32
  <1>2. Extends(c, c1) /\ c1.write = c.write /\ c.write + (4 + k) <= Len(c1.mem)
    BY <1>1, RoomMade
  <1>3. e = [d EXCEPT !.mem = SubSeq(@, 1, d.write) \o str
                                \o SubSeq(@, d.write + Len(str) + 1, Len(@)),
                      !.write = d.write + Len(str)]
    BY DEF InsertString
  <1> HIDE DEF c1, k, e
  <1>4. c1 \in Couts /\ c1.write \in Nat /\ Len(c1.mem) \in Nat /\ c1.write + 4 <= Len(c1.mem)
    <2>1. c1 \in Couts
      BY <1>2 DEF Extends
    <2>2. QED
      BY <1>1, <1>2, <2>1, CoutParts
  <1>5. /\ Extends(c1, d) /\ HoldsNumber(d.mem, c1.write, d.write, k)
        /\ d.write = c1.write + 4 /\ Len(d.mem) = Len(c1.mem)
    BY <1>1, <1>4, NumberInserted
  <1> HIDE DEF d
  <1>6. d \in Couts /\ d.write + Len(str) <= Len(d.mem)
    <2>1. d \in Couts
      BY <1>5 DEF Extends
    <2>2. QED
      BY <1>1, <1>2, <1>4, <1>5, <2>1, CoutParts
  <1>7. Extends(d, e) /\ HoldsBytes(e.mem, d.write, e.write, str)
    BY <1>3, <1>6, BytesPut
  <1>8. Extends(c, d)
    BY <1>2, <1>5, ExtendsTwice
  <1>9. Extends(c, e)
    BY <1>7, <1>8, ExtendsTwice
  <1>10. d.write \in Nat
    BY <1>6, CoutParts
  <1>11. HoldsNumber(e.mem, c1.write, d.write, k)
    BY <1>1, <1>4, <1>5, <1>6, <1>7, <1>10, NumberStays
  <1>12. d.write = c.write + UInt32
    BY <1>2, <1>5 DEF UInt32
  <1>13. HoldsString(e.mem, c.write, e.write, str)
    BY <1>1, <1>2, <1>7, <1>11, <1>12 DEF HoldsString
  <1>14. QED
    BY <1>9, <1>13 DEF e

\* What was written behind c are the first n elements of vec.
Written(type, c, vec, n) ==
    {d \in Couts : Extends(c, d) /\ \E p : Boundaries(type, d.mem, c.write, d.write, vec, n, p)}

\* With no element written the buffer is what it was, ...
LEMMA NoneWritten ==
    ASSUME NEW c \in Couts, NEW type, NEW vec
    PROVE  c \in Written(type, c, vec, 0)
  <1> DEFINE p == [i \in 0 .. 0 |-> c.write]
  <1>1. c.write \in Nat
    BY CoutParts
  <1>2. Boundaries(type, c.mem, c.write, c.write, vec, 0, p)
    BY <1>1 DEF Boundaries
  <1>3. Extends(c, c)
    BY ExtendsItself
  <1>4. QED
    BY <1>2, <1>3 DEF Written

\* ... and one more element is held behind those before it.
LEMMA OneMoreWritten ==
    ASSUME NEW c \in Couts, NEW type, NEW vec \in Seq(Ones(type)), NEW n \in 1 .. Len(vec),
           NEW d \in Written(type, c, vec, n - 1),
           NEW e, Extends(d, e), HoldsOne(type, e.mem, d.write, e.write, vec[n])
    PROVE  e \in Written(type, c, vec, n)
  <1>1. PICK p : Boundaries(type, d.mem, c.write, d.write, vec, n - 1, p)
    BY DEF Written
  <1>2. d \in Couts /\ Extends(c, d) /\ n - 1 \in 0 .. Len(vec)
    BY DEF Written
  <1>3. c.write \in Nat /\ d.write \in Nat /\ d.write <= d.write
    BY <1>2, CoutParts
  <1>4. Boundaries(type, e.mem, c.write, d.write, vec, n - 1, p)
    BY <1>1, <1>2, <1>3, ElementsStay
  <1>5. e \in Couts /\ Extends(c, e) /\ d.write <= e.write /\ c.write <= d.write /\ e.write \in Nat
    BY <1>2, ExtendsTwice, CoutParts DEF Extends
  <1> DEFINE q == [i \in 0 .. n |-> IF i = n THEN e.write ELSE p[i]]
  <1>6. q \in [0 .. n -> c.write .. e.write]
    <2>1. ASSUME NEW i \in 0 .. n
          PROVE  q[i] \in c.write .. e.write
      <3>1. CASE i = n
        BY <1>3, <1>5, <3>1
      <3>2. CASE i # n
        <4>1. i \in 0 .. n - 1
          BY <3>2
        <4>2. p[i] \in c.write .. d.write
          BY <1>4, <4>1 DEF Boundaries
        <4>3. QED
          BY <1>3, <1>5, <3>2, <4>2
      <3>3. QED
        BY <3>1, <3>2
    <2>2. QED
      BY <2>1
  <1>7. q[0] = c.write /\ q[n] = e.write
    BY <1>4 DEF Boundaries
  <1>8. ASSUME NEW i \in 1 .. n
        PROVE  HoldsOne(type, e.mem, q[i - 1], q[i], vec[i])
    <2>1. q[i - 1] = p[i - 1]
      BY <1>8
    <2>2. CASE i = n
      <3>1. p[n - 1] = d.write /\ q[n] = e.write
        BY <1>4 DEF Boundaries
      <3>2. QED
        BY <2>1, <2>2, <3>1
    <2>3. CASE i # n
      <3>1. i \in 1 .. n - 1 /\ q[i] = p[i]
        BY <2>3
      <3>2. QED
        BY <1>4, <2>1, <3>1 DEF Boundaries
    <2>4. QED
      BY <2>2, <2>3
  <1> HIDE DEF q
  <1>9. Boundaries(type, e.mem, c.write, e.write, vec, n, q)
    BY <1>6, <1>7, <1>8 DEF Boundaries
  <1>10. QED
    BY <1>5, <1>9 DEF Written

InsertNumberTo(c, d, buffer, n) == InsertNumber(buffer, n)
InsertStringTo(c, d, buffer, str) == InsertString(buffer, str)
NumbersIn == INSTANCE FoldInduction WITH Step <- InsertNumberTo
StringsIn == INSTANCE FoldInduction WITH Step <- InsertStringTo

\* operator<< of vectors.
LEMMA NumbersInserted ==
    ASSUME NEW c \in Couts, NEW vec \in Seq(Int)
    PROVE  InsertVector(InsertNumber, c, vec) \in Written("int", InsertNumber(c, Len(vec)), vec, Len(vec))
  <1> DEFINE b == InsertNumber(c, Len(vec))
             Inv == [n \in 0 .. Len(vec) |-> Written("int", b, vec, n)]
  <1>1. b \in Couts
    BY NumberInserted DEF Extends
  <1> HIDE DEF b
  <1>2. b \in Inv[0]
    BY <1>1, NoneWritten
  <1>3. ASSUME NEW i \in 1 .. Len(vec), NEW d \in Inv[i - 1]
        PROVE  InsertNumberTo(0, 0, d, vec[i]) \in Inv[i]
    <2>1. i - 1 \in 0 .. Len(vec) /\ i \in 0 .. Len(vec) /\ vec \in Seq(Ones("int"))
      BY DEF Ones
    <2>2. d \in Written("int", b, vec, i - 1) /\ d \in Couts /\ vec[i] \in Int
      BY <2>1 DEF Written
    <2> DEFINE e == InsertNumber(d, vec[i])
    <2>3. Extends(d, e) /\ HoldsOne("int", e.mem, d.write, e.write, vec[i])
      BY <2>2, NumberInserted DEF HoldsOne
    <2> HIDE DEF e
    <2>4. e \in Written("int", b, vec, i)
      BY <1>1, <2>1, <2>2, <2>3, OneMoreWritten
    <2>5. QED
      BY <2>1, <2>4 DEF e, InsertNumberTo
  <1> HIDE DEF Inv
  <1>4. NumbersIn!Fold(0, 0, b, vec) \in Inv[Len(vec)]
    BY <1>2, <1>3, NumbersIn!FoldInvariant
  <1>5. InsertVector(InsertNumber, c, vec) = NumbersIn!Fold(0, 0, b, vec)
    BY DEF InsertVector, InsertNumberTo, NumbersIn!Fold, FoldLeft, MapThenFoldSet, Max, b
  <1>6. QED
    BY <1>4, <1>5 DEF Inv, b

\* operator<< of a vector of strings writes each behind the last, as it does with numbers.
LEMMA StringsInserted ==
    ASSUME NEW c \in Couts, NEW vec \in Seq(Seq(Nat))
    PROVE  InsertVector(InsertString, c, vec) \in Written("string", InsertNumber(c, Len(vec)), vec, Len(vec))
  <1> DEFINE b == InsertNumber(c, Len(vec))
             Inv == [n \in 0 .. Len(vec) |-> Written("string", b, vec, n)]
  <1>1. b \in Couts
    BY NumberInserted DEF Extends
  <1> HIDE DEF b
  <1>2. b \in Inv[0]
    BY <1>1, NoneWritten
  <1>3. ASSUME NEW i \in 1 .. Len(vec), NEW d \in Inv[i - 1]
        PROVE  InsertStringTo(0, 0, d, vec[i]) \in Inv[i]
    <2>1. i - 1 \in 0 .. Len(vec) /\ i \in 0 .. Len(vec) /\ vec \in Seq(Ones("string"))
      BY DEF Ones
    <2>2. d \in Written("string", b, vec, i - 1) /\ d \in Couts /\ vec[i] \in Seq(Nat)
      BY <2>1 DEF Written
    <2> DEFINE e == InsertString(d, vec[i])
    <2>3. Extends(d, e) /\ HoldsOne("string", e.mem, d.write, e.write, vec[i])
      BY <2>2, StringInserted DEF HoldsOne
    <2> HIDE DEF e
    <2>4. e \in Written("string", b, vec, i)
      BY <1>1, <2>1, <2>2, <2>3, OneMoreWritten
    <2>5. QED
      BY <2>1, <2>4 DEF e, InsertStringTo
  <1> HIDE DEF Inv
  <1>4. StringsIn!Fold(0, 0, b, vec) \in Inv[Len(vec)]
    BY <1>2, <1>3, StringsIn!FoldInvariant
  <1>5. InsertVector(InsertString, c, vec) = StringsIn!Fold(0, 0, b, vec)
    BY DEF InsertVector, InsertStringTo, StringsIn!Fold, FoldLeft, MapThenFoldSet, Max, b
  <1>6. QED
    BY <1>4, <1>5 DEF Inv, b

\* The length and the elements behind it are a vector.
LEMMA ElementsInserted ==
    ASSUME NEW c \in Couts, NEW type, NEW vec \in Seq(Ones(type)), NEW d,
           d \in Written(type, InsertNumber(c, Len(vec)), vec, Len(vec))
    PROVE  Extends(c, d) /\ HoldsVector(type, d.mem, c.write, d.write, vec)
  <1> DEFINE b == InsertNumber(c, Len(vec))
  <1>1. Len(vec) \in Int /\ c.write \in Nat
    BY CoutParts
  <1>2. /\ Extends(c, b) /\ HoldsNumber(b.mem, c.write, b.write, Len(vec))
        /\ b.write = c.write + 4
    BY <1>1, NumberInserted
  <1>3. d \in Written(type, b, vec, Len(vec))
    OBVIOUS
  <1> HIDE DEF b
  <1>4. PICK p : Boundaries(type, d.mem, b.write, d.write, vec, Len(vec), p)
    BY <1>3 DEF Written
  <1>5. Extends(b, d)
    BY <1>3 DEF Written
  <1>6. b \in Couts /\ b.write \in Nat
    BY <1>2, CoutParts DEF Extends
  <1>7. HoldsNumber(d.mem, c.write, b.write, Len(vec))
    BY <1>1, <1>2, <1>5, <1>6, NumberStays
  <1>8. b.write = c.write + UInt32
    BY <1>2 DEF UInt32
  <1>9. Extends(c, d)
    BY <1>2, <1>5, ExtendsTwice
  <1>10. QED
    BY <1>4, <1>7, <1>8, <1>9 DEF HoldsVector

\* operator<< of any thing.
LEMMA ThingInserted ==
    ASSUME NEW c \in Couts, NEW type \in ThingTypes, NEW v \in Values(type)
    PROVE  /\ Extends(c, InsertType(c, type, v))
           /\ HoldsThing(type, InsertType(c, type, v).mem, c.write, InsertType(c, type, v).write, v)
  <1>1. CASE type = "int"
    BY <1>1, NumberInserted DEF Values, InsertType, HoldsThing
  <1>2. CASE type = "string"
    BY <1>2, StringInserted DEF Values, InsertType, HoldsThing
  <1>3. CASE type = "ints"
    <2> DEFINE d == InsertVector(InsertNumber, c, v)
    <2>1. v \in Seq(Int) /\ v \in Seq(Ones("int"))
      BY <1>3 DEF Values, Ones
    <2>2. d \in Written("int", InsertNumber(c, Len(v)), v, Len(v))
      BY <2>1, NumbersInserted
    <2>3. InsertType(c, type, v) = d
      BY <1>3 DEF InsertType
    <2> HIDE DEF d
    <2>4. Extends(c, d) /\ HoldsVector("int", d.mem, c.write, d.write, v)
      BY <2>1, <2>2, ElementsInserted
    <2>5. QED
      BY <1>3, <2>3, <2>4 DEF HoldsThing
  <1>4. CASE type = "strings"
    <2> DEFINE d == InsertVector(InsertString, c, v)
    <2>1. v \in Seq(Seq(Nat)) /\ v \in Seq(Ones("string"))
      BY <1>4 DEF Values, Ones
    <2>2. d \in Written("string", InsertNumber(c, Len(v)), v, Len(v))
      BY <2>1, StringsInserted
    <2>3. InsertType(c, type, v) = d
      BY <1>4 DEF InsertType
    <2> HIDE DEF d
    <2>4. Extends(c, d) /\ HoldsVector("string", d.mem, c.write, d.write, v)
      BY <2>1, <2>2, ElementsInserted
    <2>5. QED
      BY <1>4, <2>3, <2>4 DEF HoldsThing
  <1>5. QED
    BY <1>1, <1>2, <1>3, <1>4 DEF ThingTypes

-----------------------------------------------------------------------------
\* operator>> finds a number where one is held, ...
LEMMA NumberExtracted ==
    ASSUME NEW c \in Couts, NEW old, NEW n \in CoutNumbers, NEW b \in Nat,
           HoldsNumber(c.mem, c.read, b, n), b <= c.write
    PROVE  ExtractNumber(c, old) = [c |-> [c EXCEPT !.read = b], v |-> n]
  <1> DEFINE r == c.read
             h == Hton(UInt32, n)
             part == SubSeq(c.mem, r + 1, r + UInt32)
  <1>1. n \in Int
    <2>1. Power[4] \in Nat
      BY PowerPositive
    <2>2. QED
      BY <2>1 DEF CoutNumbers, UInt32
  <1>2. h \in Seq(Nat) /\ Len(h) = 4 /\ Reverse(h) \in Seq(Nat) /\ Len(Reverse(h)) = 4
    BY <1>1, HtonType, NumberBytes DEF UInt32
  <1>3. b = r + 4 /\ \A i \in 1 .. 4 : c.mem[r + i] = Reverse(h)[i]
    BY <1>2 DEF HoldsNumber, HoldsBytes
  <1>4. Ntoh(h) = n
    BY NtohOfHton DEF CoutNumbers, UInt32
  <1> HIDE DEF h
  <1>5. /\ c.mem \in Seq(Nat) /\ r \in Nat /\ c.write \in Nat /\ Len(c.mem) \in Nat
        /\ c.write <= Len(c.mem)
    BY CoutParts
  <1>6. part \in Seq(Nat) /\ Len(part) = 4 /\ \A i \in 1 .. 4 : part[i] = c.mem[r + i]
    <2>1. r + 4 <= Len(c.mem) /\ part = SubSeq(c.mem, r + 1, r + 4)
      BY <1>3, <1>5 DEF UInt32
    <2> HIDE DEF part, r
    <2>2. /\ SubSeq(c.mem, r + 1, r + 4) \in Seq(Nat) /\ Len(SubSeq(c.mem, r + 1, r + 4)) = 4
          /\ \A i \in 1 .. 4 : SubSeq(c.mem, r + 1, r + 4)[i] = c.mem[r + i]
      <3>1. 4 \in Nat
        OBVIOUS
      <3>2. QED
        BY <1>5, <2>1, <3>1, Middle
    <2>3. QED
      BY <2>1, <2>2
  <1> HIDE DEF part
  <1>7. Reverse(part) = h
    <2>1. Reverse(part) = [i \in 1 .. 4 |-> part[(4 - i) + 1]]
      BY <1>6 DEF Reverse
    <2>2. Reverse(h) = [i \in 1 .. 4 |-> h[(4 - i) + 1]]
      BY <1>2 DEF Reverse
    <2>3. \A i \in 1 .. 4 : (4 - i) + 1 \in 1 .. 4 /\ (4 - ((4 - i) + 1)) + 1 = i
      OBVIOUS
    <2>4. \A i \in 1 .. 4 : part[i] = Reverse(h)[i]
      BY <1>3, <1>6
    <2>5. \A i \in 1 .. 4 : part[(4 - i) + 1] = h[i]
      BY <2>2, <2>3, <2>4
    <2>6. h = [i \in 1 .. 4 |-> h[i]]
      BY <1>2
    <2>7. QED
      BY <2>1, <2>5, <2>6, Zenon
  <1>8. Unread(c) >= UInt32
    <2>1. b = r + 4
      BY <1>3
    <2>2. r + 4 <= c.write /\ c.write - r >= 4
      BY <1>5, <2>1
    <2>3. QED
      BY <2>2 DEF Unread, UInt32
  <1>9. ExtractNumber(c, old) = [c |-> [c EXCEPT !.read = @ + UInt32], v |-> Ntoh(Reverse(part))]
    BY <1>8 DEF ExtractNumber, part
  <1>10. [c EXCEPT !.read = @ + UInt32] = [c EXCEPT !.read = b]
    BY <1>3 DEF Couts, UInt32
  <1>11. QED
    BY <1>4, <1>7, <1>9, <1>10

\* The cursor moves within what is held.
LEMMA ReadMoved ==
    ASSUME NEW c \in Couts, NEW b \in Nat, b <= c.write
    PROVE  LET d == [c EXCEPT !.read = b]
           IN  /\ d \in Couts /\ d.read = b /\ d.mem = c.mem /\ d.write = c.write
               /\ d.thrown = c.thrown /\ \A m : [d EXCEPT !.read = m] = [c EXCEPT !.read = m]
  BY DEF Couts

\* ... a string where one is held, ...
LEMMA StringExtracted ==
    ASSUME NEW c \in Couts, NEW old, NEW str \in CoutStrings, NEW b \in Nat,
           HoldsString(c.mem, c.read, b, str), b <= c.write
    PROVE  ExtractString(c, old) = [c |-> [c EXCEPT !.read = b], v |-> str]
  <1> DEFINE k == Len(str)
             a == c.read + UInt32
             d == [c EXCEPT !.read = a]
             part == SubSeq(c.mem, a + 1, a + k)
  <1>1. str \in Seq(Nat) /\ k \in CoutNumbers /\ k \in Nat
    BY DEF CoutStrings
  <1>2. HoldsNumber(c.mem, c.read, a, k) /\ HoldsBytes(c.mem, a, b, str)
    BY DEF HoldsString
  <1>3. b = a + k /\ \A i \in 1 .. k : c.mem[a + i] = str[i]
    BY <1>2 DEF HoldsBytes
  <1>4. /\ c.mem \in Seq(Nat) /\ a \in Nat /\ c.write \in Nat /\ Len(c.mem) \in Nat
        /\ c.write <= Len(c.mem)
    BY CoutParts DEF UInt32
  <1>5. a <= c.write
    BY <1>1, <1>3, <1>4
  <1>6. k = Len(str)
    OBVIOUS
  <1>7. str \in [1 .. k -> Nat] /\ str = [i \in 1 .. k |-> str[i]]
    BY <1>1, LenProperties
  <1>8. part = SubSeq(c.mem, a + 1, a + k)
    OBVIOUS
  <1> HIDE DEF a, k, part
  <1>9. ExtractNumber(c, Leftover) = [c |-> d, v |-> k]
    BY <1>1, <1>2, <1>4, <1>5, NumberExtracted
  <1>10. /\ d \in Couts /\ d.read = a /\ d.mem = c.mem /\ d.write = c.write
         /\ \A m : [d EXCEPT !.read = m] = [c EXCEPT !.read = m]
    BY <1>4, <1>5, ReadMoved
  <1> HIDE DEF d
  <1>11. ~(k > Unread(d))
    BY <1>1, <1>3, <1>4, <1>10 DEF Unread
  <1>12. part = str
    <2>1. a + k <= Len(c.mem)
      BY <1>1, <1>3, <1>4
    <2>2. part \in Seq(Nat) /\ Len(part) = k /\ \A i \in 1 .. k : part[i] = c.mem[a + i]
      BY <1>1, <1>4, <1>8, <2>1, Middle, SMTT(30)
    <2>3. \A i \in 1 .. k : part[i] = str[i]
      BY <1>3, <2>2
    <2>4. part = [i \in 1 .. k |-> part[i]]
      BY <2>2
    <2>5. QED
      BY <1>7, <2>3, <2>4
  <1>13. ExtractString(c, old) = [c |-> [d EXCEPT !.read = @ + k], v |-> SubSeq(d.mem, d.read + 1, d.read + k)]
    BY <1>9, <1>11 DEF ExtractString
  <1>14. [d EXCEPT !.read = @ + k] = [d EXCEPT !.read = b]
    BY <1>3, <1>10
  <1>15. QED
    BY <1>8, <1>10, <1>12, <1>13, <1>14

\* ... and the elements of a vector.
ExtractNumberNext(x, y, r, i) ==
    IF r.c.thrown THEN r
    ELSE LET e == ExtractNumber(r.c, x)
         IN  [c |-> e.c, v |-> IF e.c.thrown THEN r.v ELSE Append(r.v, e.v)]
ExtractStringNext(x, y, r, i) ==
    IF r.c.thrown THEN r
    ELSE LET e == ExtractString(r.c, x)
         IN  [c |-> e.c, v |-> IF e.c.thrown THEN r.v ELSE Append(r.v, e.v)]
NumbersOut == INSTANCE FoldInduction WITH Step <- ExtractNumberNext
StringsOut == INSTANCE FoldInduction WITH Step <- ExtractStringNext

\* Appending the next element of a vector gives one element more of it.
LEMMA OneMoreElement ==
    ASSUME NEW S, NEW vec \in Seq(S), NEW i \in 1 .. Len(vec)
    PROVE  Append(SubSeq(vec, 1, i - 1), vec[i]) = SubSeq(vec, 1, i)
  <1> DEFINE a == SubSeq(vec, 1, i - 1)
             b == SubSeq(vec, 1, i)
  <1>1. vec \in [1 .. Len(vec) -> S] /\ Len(vec) \in Nat
    BY LenProperties
  <1>2. /\ a \in Seq(S) /\ Len(a) = IF 1 <= i - 1 THEN i - 1 - 1 + 1 ELSE 0
        /\ \A j \in 1 .. i - 1 - 1 + 1 : a[j] = vec[1 + j - 1]
    <2>1. \A j \in 1 .. i - 1 : vec[j] \in S
      BY <1>1
    <2>2. 1 \in Int /\ i - 1 \in Int
      OBVIOUS
    <2>3. QED
      BY <2>1, <2>2, SubSeqProperties
  <1>3. /\ b \in Seq(S) /\ Len(b) = IF 1 <= i THEN i - 1 + 1 ELSE 0
        /\ \A j \in 1 .. i - 1 + 1 : b[j] = vec[1 + j - 1]
    <2>1. \A j \in 1 .. i : vec[j] \in S
      BY <1>1
    <2>2. 1 \in Int /\ i \in Int
      OBVIOUS
    <2>3. QED
      BY <2>1, <2>2, SubSeqProperties
  <1> HIDE DEF a, b
  <1>4. Len(a) = i - 1 /\ Len(b) = i
    BY <1>2, <1>3
  <1>5. /\ \A j \in 1 .. i - 1 : a[j] = vec[j]
        /\ \A j \in 1 .. i : b[j] = vec[j]
    <2>1. i - 1 - 1 + 1 = i - 1 /\ i - 1 + 1 = i /\ \A j \in 1 .. i : 1 + j - 1 = j
      OBVIOUS
    <2>2. \A j \in 1 .. i - 1 : j \in 1 .. i
      OBVIOUS
    <2>3. \A j \in 1 .. i - 1 : a[j] = vec[j]
      BY <1>2, <2>1, <2>2, Zenon
    <2>4. \A j \in 1 .. i : b[j] = vec[j]
      BY <1>3, <2>1, Zenon
    <2>5. QED
      BY <2>3, <2>4
  <1> DEFINE e == Append(a, vec[i])
  <1>6. e \in Seq(S) /\ Len(e) = i /\ \A j \in 1 .. i : e[j] = vec[j]
    <2>1. vec[i] \in S
      BY <1>1
    <2>2. /\ e \in Seq(S) /\ Len(e) = Len(a) + 1
          /\ \A j \in 1 .. Len(a) : e[j] = a[j]
          /\ e[Len(a) + 1] = vec[i]
      BY <1>2, <2>1, AppendProperties
    <2> HIDE DEF e
    <2>3. Len(e) = i /\ e[i] = vec[i]
      BY <1>4, <2>2
    <2>4. \A j \in 1 .. i : j = i \/ j \in 1 .. i - 1
      OBVIOUS
    <2>5. QED
      BY <1>4, <1>5, <2>2, <2>3, <2>4
  <1> HIDE DEF e
  <1>7. e = [j \in 1 .. i |-> e[j]] /\ b = [j \in 1 .. i |-> b[j]]
    BY <1>3, <1>4, <1>6
  <1>8. e = b
    BY <1>5, <1>6, <1>7
  <1>9. QED
    BY <1>8 DEF e, a, b

\* What has been extracted when i elements have been.
Halfway(c, vec, p, i) == [c |-> [c EXCEPT !.read = p[i]], v |-> SubSeq(vec, 1, i)]

\* operator>> of a vector reads its length first, and stands before the first element.
LEMMA VectorStart ==
    ASSUME NEW c \in Couts, ~c.thrown, NEW S, NEW vec \in CoutVectors(S), NEW b \in Nat,
           NEW type, HoldsVector(type, c.mem, c.read, b, vec), b <= c.write
    PROVE  \E p : /\ Boundaries(type, c.mem, c.read + UInt32, b, vec, Len(vec), p)
                  /\ ExtractNumber(c, Leftover) = [c |-> [c EXCEPT !.read = p[0]], v |-> Len(vec)]
                  /\ [c |-> [c EXCEPT !.read = p[0]], v |-> <<>>] = Halfway(c, vec, p, 0)
                  /\ \A i \in 0 .. Len(vec) : p[i] \in Nat /\ p[i] <= c.write
  <1> DEFINE m == c.read + UInt32
             k == Len(vec)
  <1>1. PICK p : Boundaries(type, c.mem, m, b, vec, k, p)
    BY DEF HoldsVector
  <1>2. HoldsNumber(c.mem, c.read, m, k) /\ k \in CoutNumbers /\ m \in Nat /\ k \in Nat
    BY CoutParts DEF HoldsVector, CoutVectors, UInt32
  <1> HIDE DEF m, k
  <1>3. p[0] = m /\ p \in [0 .. k -> m .. b]
    BY <1>1 DEF Boundaries
  <1>4. c.write \in Nat
    BY CoutParts
  <1>5. \A i \in 0 .. k : p[i] \in Nat /\ p[i] <= c.write
    BY <1>2, <1>3, <1>4
  <1>6. ExtractNumber(c, Leftover) = [c |-> [c EXCEPT !.read = p[0]], v |-> k]
    BY <1>2, <1>3, <1>5, NumberExtracted
  <1>7. SubSeq(vec, 1, 0) = <<>>
    BY DEF CoutVectors
  <1>8. QED
    BY <1>1, <1>5, <1>6, <1>7 DEF Halfway, m, k

\* One element more.
LEMMA VectorStep ==
    ASSUME NEW c \in Couts, ~c.thrown, NEW S, NEW vec \in Seq(S), NEW p,
           NEW i \in 1 .. Len(vec), p[i - 1] \in Nat, p[i - 1] <= c.write,
           p[i] \in Nat, p[i] <= c.write, NEW e,
           e.c = Halfway(c, vec, p, i).c, e.v = vec[i],
           NEW r, r = Halfway(c, vec, p, i - 1)
    PROVE  /\ ~r.c.thrown /\ ~e.c.thrown
           /\ [c |-> e.c, v |-> Append(r.v, e.v)] = Halfway(c, vec, p, i)
  <1> DEFINE d == [c EXCEPT !.read = p[i - 1]]
             d2 == [c EXCEPT !.read = p[i]]
  <1>1. r.c = d /\ r.v = SubSeq(vec, 1, i - 1) /\ e.c = d2
    BY DEF Halfway
  <1>2. d.thrown = c.thrown
    BY ReadMoved
  <1>3. d2.thrown = c.thrown
    BY ReadMoved
  <1> HIDE DEF d, d2
  <1>4. Append(r.v, e.v) = SubSeq(vec, 1, i)
    BY <1>1, OneMoreElement
  <1>5. QED
    BY <1>1, <1>2, <1>3, <1>4 DEF Halfway, d2

\* operator>> of a vector of numbers gives the vector back that is held, ...
LEMMA NumbersExtracted ==
    ASSUME NEW c \in Couts, ~c.thrown, NEW x, NEW vec \in CoutVectors(CoutNumbers), NEW b \in Nat,
           HoldsVector("int", c.mem, c.read, b, vec), b <= c.write
    PROVE  ExtractVector(ExtractNumber, c, x, <<>>) = [c |-> [c EXCEPT !.read = b], v |-> vec]
  <1> DEFINE k == Len(vec)
             n == ExtractNumber(c, Leftover)
             start == [c |-> n.c, v |-> <<>>]
             idx == [i \in 1 .. n.v |-> i]
  <1>1. PICK p : /\ Boundaries("int", c.mem, c.read + UInt32, b, vec, k, p)
                 /\ n = [c |-> [c EXCEPT !.read = p[0]], v |-> k]
                 /\ [c |-> [c EXCEPT !.read = p[0]], v |-> <<>>] = Halfway(c, vec, p, 0)
                 /\ \A i \in 0 .. k : p[i] \in Nat /\ p[i] <= c.write
    BY VectorStart
  <1>2. vec \in Seq(CoutNumbers) /\ k \in Nat /\ k = Len(vec)
    BY DEF CoutVectors
  <1>3. n.v = k /\ start = Halfway(c, vec, p, 0)
    BY <1>1
  <1>4. idx \in Seq(Nat) /\ Len(idx) = k
    BY <1>2, <1>3
  <1>5. ExtractVector(ExtractNumber, c, x, <<>>) = NumbersOut!Fold(x, 0, start, idx)
    BY DEF ExtractVector, ExtractNumberNext, NumbersOut!Fold, FoldLeft, MapThenFoldSet, Max
  <1> HIDE DEF n, start, idx, k
  <1> DEFINE Inv == [i \in 0 .. k |-> {Halfway(c, vec, p, i)}]
  <1>6. start \in Inv[0]
    BY <1>2, <1>3
  <1>7. ASSUME NEW i \in 1 .. Len(idx), NEW r \in Inv[i - 1]
        PROVE  ExtractNumberNext(x, 0, r, idx[i]) \in Inv[i]
    <2>1. i - 1 \in 0 .. k /\ i \in 0 .. k /\ i \in 1 .. k
      BY <1>2, <1>4
    <2>2. r = Halfway(c, vec, p, i - 1)
      BY <2>1
    <2>3. /\ p[i - 1] \in Nat /\ p[i - 1] <= c.write /\ p[i] \in Nat /\ p[i] <= c.write
          /\ HoldsOne("int", c.mem, p[i - 1], p[i], vec[i])
      BY <1>1, <2>1 DEF Boundaries
    <2> DEFINE d == [c EXCEPT !.read = p[i - 1]]
               e == ExtractNumber(d, x)
    <2>0. [d EXCEPT !.read = p[i]] = [c EXCEPT !.read = p[i]]
      BY <2>3, ReadMoved
    <2>4. d \in Couts /\ d.mem = c.mem /\ d.read = p[i - 1] /\ d.write = c.write /\ r.c = d
      BY <2>2, <2>3, ReadMoved DEF Halfway
    <2> HIDE DEF d
    <2>5. vec[i] \in CoutNumbers
      BY <1>2, <2>1
    <2>6. e = [c |-> [d EXCEPT !.read = p[i]], v |-> vec[i]]
      BY <2>3, <2>4, <2>5, NumberExtracted DEF HoldsOne
    <2> HIDE DEF e
    <2>7. /\ ~r.c.thrown /\ ~e.c.thrown
          /\ [c |-> e.c, v |-> Append(r.v, e.v)] = Halfway(c, vec, p, i)
      <3>1. e.c = Halfway(c, vec, p, i).c /\ e.v = vec[i]
        BY <2>0, <2>6 DEF Halfway
      <3>2. i \in 1 .. Len(vec)
        BY <1>2, <2>1
      <3>3. QED
        BY <1>2, <2>2, <2>3, <3>1, <3>2, VectorStep, SMTT(30)
    <2>8. ExtractNumberNext(x, 0, r, idx[i]) = Halfway(c, vec, p, i)
      BY <2>4, <2>7 DEF ExtractNumberNext, e
    <2>9. QED
      BY <2>1, <2>8
  <1> HIDE DEF Inv
  <1>8. NumbersOut!Fold(x, 0, start, idx) \in Inv[Len(idx)]
    BY <1>4, <1>6, <1>7, NumbersOut!FoldInvariant
  <1>9. NumbersOut!Fold(x, 0, start, idx) = Halfway(c, vec, p, k)
    BY <1>2, <1>4, <1>8 DEF Inv
  <1>10. p[k] = b /\ SubSeq(vec, 1, k) = vec
    <2>1. p[k] = b
      BY <1>1 DEF Boundaries
    <2>2. SubSeq(vec, 1, Len(vec)) = vec
      BY <1>2
    <2>3. QED
      BY <1>2, <2>1, <2>2
  <1>11. QED
    BY <1>5, <1>9, <1>10 DEF Halfway

\* ... and so does that of a vector of strings.
LEMMA StringsExtracted ==
    ASSUME NEW c \in Couts, ~c.thrown, NEW x, NEW vec \in CoutVectors(CoutStrings), NEW b \in Nat,
           HoldsVector("string", c.mem, c.read, b, vec), b <= c.write
    PROVE  ExtractVector(ExtractString, c, x, <<>>) = [c |-> [c EXCEPT !.read = b], v |-> vec]
  <1> DEFINE k == Len(vec)
             n == ExtractNumber(c, Leftover)
             start == [c |-> n.c, v |-> <<>>]
             idx == [i \in 1 .. n.v |-> i]
  <1>1. PICK p : /\ Boundaries("string", c.mem, c.read + UInt32, b, vec, k, p)
                 /\ n = [c |-> [c EXCEPT !.read = p[0]], v |-> k]
                 /\ [c |-> [c EXCEPT !.read = p[0]], v |-> <<>>] = Halfway(c, vec, p, 0)
                 /\ \A i \in 0 .. k : p[i] \in Nat /\ p[i] <= c.write
    BY VectorStart
  <1>2. vec \in Seq(CoutStrings) /\ k \in Nat /\ k = Len(vec)
    BY DEF CoutVectors
  <1>3. n.v = k /\ start = Halfway(c, vec, p, 0)
    BY <1>1
  <1>4. idx \in Seq(Nat) /\ Len(idx) = k
    BY <1>2, <1>3
  <1>5. ExtractVector(ExtractString, c, x, <<>>) = StringsOut!Fold(x, 0, start, idx)
    BY DEF ExtractVector, ExtractStringNext, StringsOut!Fold, FoldLeft, MapThenFoldSet, Max
  <1> HIDE DEF n, start, idx, k
  <1> DEFINE Inv == [i \in 0 .. k |-> {Halfway(c, vec, p, i)}]
  <1>6. start \in Inv[0]
    BY <1>2, <1>3
  <1>7. ASSUME NEW i \in 1 .. Len(idx), NEW r \in Inv[i - 1]
        PROVE  ExtractStringNext(x, 0, r, idx[i]) \in Inv[i]
    <2>1. i - 1 \in 0 .. k /\ i \in 0 .. k /\ i \in 1 .. k
      BY <1>2, <1>4
    <2>2. r = Halfway(c, vec, p, i - 1)
      BY <2>1
    <2>3. /\ p[i - 1] \in Nat /\ p[i - 1] <= c.write /\ p[i] \in Nat /\ p[i] <= c.write
          /\ HoldsOne("string", c.mem, p[i - 1], p[i], vec[i])
      BY <1>1, <2>1 DEF Boundaries
    <2> DEFINE d == [c EXCEPT !.read = p[i - 1]]
               e == ExtractString(d, x)
    <2>0. [d EXCEPT !.read = p[i]] = [c EXCEPT !.read = p[i]]
      BY <2>3, ReadMoved
    <2>4. d \in Couts /\ d.mem = c.mem /\ d.read = p[i - 1] /\ d.write = c.write /\ r.c = d
      BY <2>2, <2>3, ReadMoved DEF Halfway
    <2> HIDE DEF d
    <2>5. vec[i] \in CoutStrings
      BY <1>2, <2>1
    <2>6. e = [c |-> [d EXCEPT !.read = p[i]], v |-> vec[i]]
      BY <2>3, <2>4, <2>5, StringExtracted DEF HoldsOne
    <2> HIDE DEF e
    <2>7. /\ ~r.c.thrown /\ ~e.c.thrown
          /\ [c |-> e.c, v |-> Append(r.v, e.v)] = Halfway(c, vec, p, i)
      <3>1. e.c = Halfway(c, vec, p, i).c /\ e.v = vec[i]
        BY <2>0, <2>6 DEF Halfway
      <3>2. i \in 1 .. Len(vec)
        BY <1>2, <2>1
      <3>3. QED
        BY <1>2, <2>2, <2>3, <3>1, <3>2, VectorStep, SMTT(30)
    <2>8. ExtractStringNext(x, 0, r, idx[i]) = Halfway(c, vec, p, i)
      BY <2>4, <2>7 DEF ExtractStringNext, e
    <2>9. QED
      BY <2>1, <2>8
  <1> HIDE DEF Inv
  <1>8. StringsOut!Fold(x, 0, start, idx) \in Inv[Len(idx)]
    BY <1>4, <1>6, <1>7, StringsOut!FoldInvariant
  <1>9. StringsOut!Fold(x, 0, start, idx) = Halfway(c, vec, p, k)
    BY <1>2, <1>4, <1>8 DEF Inv
  <1>10. p[k] = b /\ SubSeq(vec, 1, k) = vec
    <2>1. p[k] = b
      BY <1>1 DEF Boundaries
    <2>2. SubSeq(vec, 1, Len(vec)) = vec
      BY <1>2
    <2>3. QED
      BY <1>2, <2>1, <2>2
  <1>11. QED
    BY <1>5, <1>9, <1>10 DEF Halfway

\* operator>> of any thing, where it is held.
LEMMA ThingExtracted ==
    ASSUME NEW c \in Couts, ~c.thrown, NEW type \in ThingTypes, NEW v \in ThingValues(type), NEW b \in Nat,
           HoldsThing(type, c.mem, c.read, b, v), b <= c.write
    PROVE  ExtractType(c, type) = [c |-> [c EXCEPT !.read = b], v |-> v]
  <1>1. CASE type = "int"
    BY <1>1, NumberExtracted DEF ThingValues, HoldsThing, ExtractType
  <1>2. CASE type = "string"
    BY <1>2, StringExtracted DEF ThingValues, HoldsThing, ExtractType
  <1>3. CASE type = "ints"
    <2>1. v \in CoutVectors(CoutNumbers) /\ HoldsVector("int", c.mem, c.read, b, v)
      BY <1>3 DEF ThingValues, HoldsThing
    <2>2. ExtractVector(ExtractNumber, c, Leftover, <<>>) = [c |-> [c EXCEPT !.read = b], v |-> v]
      BY <2>1, NumbersExtracted
    <2>3. QED
      BY <1>3, <2>2 DEF ExtractType
  <1>4. CASE type = "strings"
    <2>1. v \in CoutVectors(CoutStrings) /\ HoldsVector("string", c.mem, c.read, b, v)
      BY <1>4 DEF ThingValues, HoldsThing
    <2>2. ExtractVector(ExtractString, c, <<>>, <<>>) = [c |-> [c EXCEPT !.read = b], v |-> v]
      BY <2>1, StringsExtracted
    <2>3. QED
      BY <1>4, <2>2 DEF ExtractType
  <1>5. QED
    BY <1>1, <1>2, <1>3, <1>4 DEF ThingTypes

\* An empty buffer stays empty, whatever is tried.
Thrown(c) == {c, [c EXCEPT !.thrown = TRUE]}

\* Of an empty buffer a number cannot be read: the variable stays as it is.
LEMMA NumberFromNothing ==
    ASSUME NEW c \in Couts, c.read = c.write, NEW old
    PROVE  ExtractNumber(c, old) = [c |-> c, v |-> old]
  <1>1. c.read \in Nat /\ Unread(c) = 0
    BY CoutParts DEF Unread
  <1>2. QED
    BY <1>1 DEF ExtractNumber, UInt32

\* A string is read from nothing by its length, which is then what was left over.
LEMMA StringFromNothing ==
    ASSUME NEW c \in Couts, c.read = c.write, NEW old
    PROVE  ExtractString(c, old).c \in Thrown(c)
  <1>1. c.read \in Nat /\ Unread(c) = 0
    BY CoutParts DEF Unread
  <1>2. ExtractNumber(c, Leftover) = [c |-> c, v |-> Leftover]
    BY NumberFromNothing
  <1>3. CASE Leftover > 0
    <2>1. ExtractString(c, old) = [c |-> [c EXCEPT !.thrown = TRUE], v |-> <<>>]
      BY <1>1, <1>2, <1>3 DEF ExtractString
    <2>2. QED
      BY <2>1 DEF Thrown
  <1>4. CASE ~(Leftover > 0)
    <2>1. Leftover = 0 /\ ~(Leftover > Unread(c))
      BY <1>1, <1>4
    <2> DEFINE n == ExtractNumber(c, Leftover)
    <2>2. n.c = c /\ n.v = Leftover
      BY <1>2
    <2>3. ExtractString(c, old)
            = IF n.v > Unread(n.c) THEN [c |-> [n.c EXCEPT !.thrown = TRUE], v |-> <<>>]
              ELSE [c |-> [n.c EXCEPT !.read = @ + n.v],
                    v |-> SubSeq(n.c.mem, n.c.read + 1, n.c.read + n.v)]
      BY DEF ExtractString
    <2> HIDE DEF n
    <2>4. ExtractString(c, old).c = [c EXCEPT !.read = @ + Leftover]
      BY <2>1, <2>2, <2>3
    <2>5. [c EXCEPT !.read = @ + Leftover] = c
      BY <1>1, <2>1 DEF Couts
    <2>6. QED
      BY <2>4, <2>5 DEF Thrown
  <1>5. QED
    BY <1>3, <1>4

\* The elements of a vector read from nothing move no position either.
LEMMA ElementsFromNothing ==
    ASSUME NEW c \in Couts, c.read = c.write, NEW x
    PROVE  /\ ExtractVector(ExtractNumber, c, x, <<>>).c \in Thrown(c)
           /\ ExtractVector(ExtractString, c, x, <<>>).c \in Thrown(c)
  <1> DEFINE n == ExtractNumber(c, Leftover)
             start == [c |-> n.c, v |-> <<>>]
             idx == [i \in 1 .. n.v |-> i]
             vn == ExtractNumber(c, x)
             vs == ExtractString(c, x)
             Rn == [c : Thrown(c), v : Seq({vn.v})]
             Rs == [c : Thrown(c), v : Seq({vs.v})]
  <1>1. n = [c |-> c, v |-> Leftover]
    BY NumberFromNothing
  <1>2. start = [c |-> c, v |-> <<>>] /\ idx \in Seq(Nat)
    BY <1>1
  <1>3. ExtractVector(ExtractNumber, c, x, <<>>) = NumbersOut!Fold(x, 0, start, idx)
    BY DEF ExtractVector, ExtractNumberNext, NumbersOut!Fold, FoldLeft, MapThenFoldSet, Max
  <1>4. ExtractVector(ExtractString, c, x, <<>>) = StringsOut!Fold(x, 0, start, idx)
    BY DEF ExtractVector, ExtractStringNext, StringsOut!Fold, FoldLeft, MapThenFoldSet, Max
  <1> HIDE DEF start, idx, n
  <1>5. start \in Rn /\ start \in Rs
    <2>1. \A S : <<>> \in Seq(S)
      OBVIOUS
    <2>2. QED
      BY <1>2, <2>1 DEF Thrown
  <1> HIDE DEF vs, Rs
  <1>6. ASSUME NEW r \in Rn, NEW i
        PROVE  ExtractNumberNext(x, 0, r, i) \in Rn
    <2>1. CASE r.c.thrown
      BY <2>1 DEF ExtractNumberNext
    <2>2. CASE ~r.c.thrown
      <3>1. r.c = c
        BY <2>2 DEF Thrown, Couts
      <3>2. vn.c = c
        BY NumberFromNothing
      <3> HIDE DEF vn
      <3>3. ExtractNumberNext(x, 0, r, i) = [c |-> c, v |-> Append(r.v, vn.v)]
        BY <2>2, <3>1, <3>2 DEF ExtractNumberNext, vn
      <3>4. r.v \in Seq({vn.v}) /\ Append(r.v, vn.v) \in Seq({vn.v})
        OBVIOUS
      <3>5. c \in Thrown(c)
        BY DEF Thrown
      <3> DEFINE w == Append(r.v, vn.v)
      <3> HIDE DEF w
      <3>6. [c |-> c, v |-> w] \in [c : Thrown(c), v : Seq({vn.v})]
        BY <3>4, <3>5 DEF w
      <3>7. QED
        BY <3>3, <3>6, Zenon DEF w
    <2>3. QED
      BY <2>1, <2>2
  <1> HIDE DEF vn, Rn
  <1> USE DEF vs, Rs
  <1>7. ASSUME NEW r \in Rs, NEW i
        PROVE  ExtractStringNext(x, 0, r, i) \in Rs
    <2>1. CASE r.c.thrown
      BY <2>1 DEF ExtractStringNext
    <2>2. CASE ~r.c.thrown
      <3>1. r.c = c
        BY <2>2 DEF Thrown, Couts
      <3>2. vs.c \in Thrown(c)
        BY StringFromNothing
      <3> HIDE DEF vs
      <3>3. ExtractStringNext(x, 0, r, i)
              = [c |-> vs.c, v |-> IF vs.c.thrown THEN r.v ELSE Append(r.v, vs.v)]
        BY <2>2, <3>1 DEF ExtractStringNext, vs
      <3>4. Append(r.v, vs.v) \in Seq({vs.v}) /\ r.v \in Seq({vs.v})
        OBVIOUS
      <3> DEFINE w == IF vs.c.thrown THEN r.v ELSE Append(r.v, vs.v)
      <3>5. w \in Seq({vs.v})
        BY <3>4
      <3> HIDE DEF w
      <3>6. [c |-> vs.c, v |-> w] \in [c : Thrown(c), v : Seq({vs.v})]
        BY <3>2, <3>5
      <3>7. QED
        BY <3>3, <3>6, Zenon DEF w
    <2>3. QED
      BY <2>1, <2>2
  <1> HIDE DEF Rs
  <1> USE DEF vn, vs
  <1>8. NumbersOut!Fold(x, 0, start, idx) \in Rn
    BY <1>2, <1>5, <1>6, NumbersOut!FoldType
  <1>9. StringsOut!Fold(x, 0, start, idx) \in Rs
    BY <1>2, <1>5, <1>7, StringsOut!FoldType
  <1>10. QED
    BY <1>3, <1>4, <1>8, <1>9 DEF Rn, Rs

\* So nothing moves, whatever is read from an empty buffer.
LEMMA ThingFromNothing ==
    ASSUME NEW c \in Couts, c.read = c.write, NEW type \in ThingTypes
    PROVE  ExtractType(c, type).c \in Thrown(c)
  <1>1. CASE type = "int"
    <2>1. ExtractType(c, type) = [c |-> c, v |-> Leftover]
      BY <1>1, NumberFromNothing DEF ExtractType
    <2>2. QED
      BY <2>1 DEF Thrown
  <1>2. CASE type = "string"
    BY <1>2, StringFromNothing DEF ExtractType
  <1>3. CASE type = "ints"
    BY <1>3, ElementsFromNothing DEF ExtractType
  <1>4. CASE type = "strings"
    BY <1>4, ElementsFromNothing DEF ExtractType
  <1>5. QED
    BY <1>1, <1>2, <1>3, <1>4 DEF ThingTypes

-----------------------------------------------------------------------------
\* The things wait one behind the other from a to b, with the boundaries p.
Queue(mem, a, b, things, p) ==
    /\ p \in [0 .. Len(things) -> 0 .. b] /\ p[0] = a /\ p[Len(things)] = b
    /\ \A i \in 1 .. Len(things) : HoldsThing(things[i][1], mem, p[i - 1], p[i], things[i][2])

\* What is owed waits from the read to the write position, and the last thing
\* that was got is the one that was due.
CoutIInv ==
    /\ cout \in Couts /\ ~cout.thrown
    /\ owed \in Seq(Things)
    /\ \E p : Queue(cout.mem, cout.read, cout.write, owed, p)
    /\ got # <<>> => got[1] = got[2] /\ ~got[3]

\* A thing is of its type.
LEMMA ThingTyped ==
    ASSUME NEW thing \in Things
    PROVE  /\ thing = <<thing[1], thing[2]>> /\ thing[1] \in ThingTypes
           /\ thing[2] \in ThingValues(thing[1]) /\ thing[2] \in Values(thing[1])
  <1>1. /\ thing = <<thing[1], thing[2]>> /\ thing[1] \in ThingTypes
        /\ thing[2] \in ThingValues(thing[1])
    BY ThingsAssumption
  <1> DEFINE type == thing[1]
             v == thing[2]
  <1> HIDE DEF type, v
  <1>2. CoutNumbers \subseteq Int /\ CoutStrings \subseteq Seq(Nat)
    <2>1. Power[4] \in Nat
      BY PowerPositive
    <2>2. QED
      BY <2>1 DEF CoutNumbers, CoutStrings, UInt32
  <1>3. type \in ThingTypes /\ v \in ThingValues(type)
    BY <1>1 DEF type, v
  <1>4. \A S, T : S \subseteq T => Seq(S) \subseteq Seq(T)
    OBVIOUS
  <1>5. /\ CoutVectors(CoutNumbers) \subseteq Seq(CoutNumbers)
        /\ CoutVectors(CoutStrings) \subseteq Seq(CoutStrings)
    BY DEF CoutVectors
  <1>6. /\ CoutVectors(CoutNumbers) \subseteq Seq(Int)
        /\ CoutVectors(CoutStrings) \subseteq Seq(Seq(Nat))
    BY <1>2, <1>4, <1>5
  <1>7. v \in Values(type)
    BY <1>2, <1>3, <1>6 DEF ThingTypes, ThingValues, Values
  <1>8. QED
    BY <1>1, <1>7 DEF type, v

\* Every thing takes some room.
LEMMA ThingTakesRoom ==
    ASSUME NEW type \in ThingTypes, NEW v \in Values(type), NEW mem, NEW a \in Nat, NEW b \in Nat,
           HoldsThing(type, mem, a, b, v)
    PROVE  a < b
  <1>1. \A n \in Int, e \in Nat : HoldsNumber(mem, a, e, n) => e = a + 4
    BY NumberBytes DEF HoldsNumber, HoldsBytes
  <1>2. CASE type = "int"
    BY <1>1, <1>2 DEF HoldsThing, Values
  <1>3. CASE type = "string"
    <2>1. v \in Seq(Nat) /\ HoldsBytes(mem, a + UInt32, b, v)
      BY <1>3 DEF HoldsThing, Values, HoldsString
    <2>2. b = a + 4 + Len(v) /\ Len(v) \in Nat
      BY <2>1 DEF HoldsBytes, UInt32
    <2>3. QED
      BY <2>2
  <1>4. ASSUME NEW t, HoldsVector(t, mem, a, b, v), Len(v) \in Nat
        PROVE  a < b
    <2>1. PICK p : Boundaries(t, mem, a + UInt32, b, v, Len(v), p)
      BY <1>4 DEF HoldsVector
    <2>2. p[0] \in a + 4 .. b
      BY <1>4, <2>1 DEF Boundaries, UInt32
    <2>3. QED
      BY <2>2
  <1>5. CASE type \in {"ints", "strings"}
    <2>1. \A S : \A vec \in Seq(S) : Len(vec) \in Nat
      OBVIOUS
    <2>2. Len(v) \in Nat
      BY <1>5, <2>1 DEF Values
    <2>3. \E t : HoldsVector(t, mem, a, b, v)
      BY <1>5 DEF HoldsThing
    <2>4. QED
      BY <1>4, <2>2, <2>3
  <1>6. QED
    BY <1>2, <1>3, <1>5 DEF ThingTypes

\* What waits stays when something is written behind it.
LEMMA QueueStays ==
    ASSUME NEW d \in Couts, NEW e, Extends(d, e), NEW things \in Seq(Things), NEW a, NEW p,
           Queue(d.mem, a, d.write, things, p)
    PROVE  \A i \in 1 .. Len(things) : HoldsThing(things[i][1], e.mem, p[i - 1], p[i], things[i][2])
  <1>1. ASSUME NEW i \in 1 .. Len(things)
        PROVE  HoldsThing(things[i][1], e.mem, p[i - 1], p[i], things[i][2])
    <2>1. i - 1 \in 0 .. Len(things) /\ i \in 0 .. Len(things) /\ d.write \in Nat
      BY CoutParts
    <2>2. p[i - 1] \in 0 .. d.write /\ p[i] \in 0 .. d.write
      BY <2>1 DEF Queue
    <2>3. p[i - 1] \in Nat /\ p[i] \in Nat /\ p[i] <= d.write
      BY <2>1, <2>2
    <2>4. HoldsThing(things[i][1], d.mem, p[i - 1], p[i], things[i][2])
      BY DEF Queue
    <2>5. things[i] \in Things
      OBVIOUS
    <2>6. things[i][1] \in ThingTypes /\ things[i][2] \in Values(things[i][1])
      BY <2>5, ThingTyped
    <2> DEFINE type == things[i][1]
               v == things[i][2]
               x == p[i - 1]
               y == p[i]
    <2>7. type \in ThingTypes /\ v \in Values(type) /\ x \in Nat /\ y \in Nat /\ y <= d.write
          /\ HoldsThing(type, d.mem, x, y, v)
      BY <2>3, <2>4, <2>6
    <2> HIDE DEF type, v, x, y
    <2>8. HoldsThing(type, e.mem, x, y, v)
      BY <2>7, ThingStays
    <2>9. QED
      BY <2>8 DEF type, v, x, y
  <1>2. QED
    BY <1>1

\* A buffer is empty when nothing waits, and only then.
LEMMA QueueEmpty ==
    ASSUME CoutIInv
    PROVE  (owed = <<>>) <=> (cout.read = cout.write)
  <1>1. PICK p : Queue(cout.mem, cout.read, cout.write, owed, p)
    BY DEF CoutIInv
  <1>2. cout \in Couts /\ owed \in Seq(Things) /\ cout.write \in Nat /\ cout.read \in Nat
    BY CoutParts DEF CoutIInv
  <1>3. CASE owed = <<>>
    <2>1. Len(owed) = 0
      BY <1>3
    <2>2. QED
      BY <1>1, <1>3, <2>1 DEF Queue
  <1>4. CASE owed # <<>>
    <2>1. Len(owed) \in Nat /\ 1 \in 1 .. Len(owed) /\ 1 \in 0 .. Len(owed) /\ owed[1] \in Things
      BY <1>2, <1>4
    <2>2. /\ HoldsThing(owed[1][1], cout.mem, p[1 - 1], p[1], owed[1][2])
          /\ p[0] = cout.read /\ p[1] \in 0 .. cout.write
      BY <1>1, <2>1 DEF Queue
    <2>3. owed[1][1] \in ThingTypes /\ owed[1][2] \in Values(owed[1][1])
      BY <2>1, ThingTyped
    <2>4. HoldsThing(owed[1][1], cout.mem, cout.read, p[1], owed[1][2]) /\ p[1] \in Nat /\ p[1] <= cout.write
      BY <1>2, <2>2
    <2>5. cout.read < p[1]
      BY <1>2, <2>3, <2>4, ThingTakesRoom
    <2>6. QED
      BY <1>2, <1>4, <2>4, <2>5
  <1>5. QED
    BY <1>3, <1>4

\* A new buffer holds nothing and owes nothing.
LEMMA CoutInitEstablishes == CoutInit => CoutIInv
  <1> SUFFICES ASSUME CoutInit PROVE CoutIInv
    OBVIOUS
  <1>1. cout \in Couts /\ ~cout.thrown /\ cout.read = 0 /\ cout.write = 0
    BY DEF CoutInit, Couts
  <1>2. owed \in Seq(Things) /\ Len(owed) = 0 /\ got = <<>>
    BY DEF CoutInit
  <1> DEFINE p == [i \in 0 .. 0 |-> 0]
  <1>3. Queue(cout.mem, 0, 0, owed, p)
    BY <1>2 DEF Queue
  <1>4. QED
    BY <1>1, <1>2, <1>3 DEF CoutIInv

\* operator<< puts its thing behind the others.
LEMMA InsertStep ==
    ASSUME CoutIInv, NEW thing \in Things, Insert(thing)
    PROVE  CoutIInv'
  <1> DEFINE type == thing[1]
             v == thing[2]
             n == Len(owed)
  <1>1. /\ cout \in Couts /\ ~cout.thrown /\ owed \in Seq(Things)
        /\ (got # <<>> => got[1] = got[2] /\ ~got[3])
    BY DEF CoutIInv
  <1>2. PICK p : Queue(cout.mem, cout.read, cout.write, owed, p)
    BY DEF CoutIInv
  <1>3. cout' = InsertType(cout, type, v) /\ owed' = Append(owed, thing) /\ got' = got
    BY DEF Insert
  <1>4. type \in ThingTypes /\ v \in Values(type)
    BY ThingTyped
  <1>5. Extends(cout, cout') /\ HoldsThing(type, cout'.mem, cout.write, cout'.write, v)
    BY <1>1, <1>3, <1>4, ThingInserted
  <1>6. cout' \in Couts /\ cout'.read = cout.read /\ ~cout'.thrown
    BY <1>1, <1>5 DEF Extends
  <1>7. /\ cout.write \in Nat /\ cout'.write \in Nat /\ cout.write <= cout'.write
    BY <1>1, <1>5, <1>6, CoutParts DEF Extends
  <1>8. n \in Nat /\ owed' \in Seq(Things) /\ Len(owed') = n + 1 /\ owed'[n + 1] = thing
        /\ \A i \in 1 .. n : owed'[i] = owed[i]
    BY <1>1, <1>3, AppendProperties
  <1>9. \A i \in 1 .. n : HoldsThing(owed[i][1], cout'.mem, p[i - 1], p[i], owed[i][2])
    BY <1>1, <1>2, <1>5, QueueStays
  <1>10. p \in [0 .. n -> 0 .. cout.write] /\ p[0] = cout.read /\ p[n] = cout.write
    BY <1>2 DEF Queue
  <1> HIDE DEF n
  <1> DEFINE q == [i \in 0 .. n + 1 |-> IF i = n + 1 THEN cout'.write ELSE p[i]]
  <1>11. q \in [0 .. n + 1 -> 0 .. cout'.write]
    <2>1. ASSUME NEW i \in 0 .. n + 1
          PROVE  q[i] \in 0 .. cout'.write
      <3>1. i = n + 1 \/ i \in 0 .. n
        BY <1>8
      <3>2. ASSUME i \in 0 .. n
            PROVE  p[i] \in 0 .. cout'.write
        BY <1>7, <1>10, <3>2
      <3>3. QED
        BY <1>7, <3>1, <3>2
    <2>2. QED
      BY <2>1
  <1>12. q[0] = cout.read /\ q[n + 1] = cout'.write
    BY <1>8, <1>10
  <1>13. ASSUME NEW i \in 1 .. n + 1
         PROVE  HoldsThing(owed'[i][1], cout'.mem, q[i - 1], q[i], owed'[i][2])
    <2>1. q[i - 1] = p[i - 1]
      BY <1>8
    <2>2. CASE i = n + 1
      <3>1. p[i - 1] = cout.write /\ q[i] = cout'.write
        BY <1>8, <1>10, <1>12, <2>2
      <3>2. QED
        BY <1>5, <1>8, <2>1, <2>2, <3>1
    <2>3. CASE i # n + 1
      <3>1. i \in 1 .. n /\ q[i] = p[i] /\ owed'[i] = owed[i]
        BY <1>8, <2>3
      <3>2. QED
        BY <1>9, <2>1, <3>1
    <2>4. QED
      BY <2>2, <2>3
  <1> HIDE DEF q
  <1>14. Queue(cout'.mem, cout'.read, cout'.write, owed', q)
    BY <1>6, <1>8, <1>11, <1>12, <1>13 DEF Queue
  <1>15. QED
    BY <1>1, <1>3, <1>6, <1>8, <1>14 DEF CoutIInv

\* operator>> takes the thing that has waited longest, if something waits and the
\* type is asked for, ...
LEMMA ExtractDueStep ==
    ASSUME CoutIInv, NEW type \in ThingTypes, Extract(type), owed # <<>>, Head(owed)[1] = type
    PROVE  CoutIInv'
  <1> DEFINE thing == Head(owed)
             v == thing[2]
             n == Len(owed)
             r == ExtractType(cout, type)
  <1>1. cout \in Couts /\ ~cout.thrown /\ owed \in Seq(Things)
    BY DEF CoutIInv
  <1>2. PICK p : Queue(cout.mem, cout.read, cout.write, owed, p)
    BY DEF CoutIInv
  <1>3. thing \in Things /\ thing = owed[1] /\ n \in Nat /\ n >= 1
    BY <1>1
  <1>4. thing = <<type, v>> /\ v \in ThingValues(type) /\ v \in Values(type)
    BY <1>3, ThingTyped
  <1>5. /\ p \in [0 .. n -> 0 .. cout.write] /\ p[0] = cout.read /\ p[n] = cout.write
        /\ \A i \in 1 .. n : HoldsThing(owed[i][1], cout.mem, p[i - 1], p[i], owed[i][2])
    BY <1>2 DEF Queue
  <1>6. cout.write \in Nat
    BY <1>1, CoutParts
  <1>7. HoldsThing(type, cout.mem, cout.read, p[1], v) /\ p[1] \in Nat /\ p[1] <= cout.write
    <2>1. 1 \in 1 .. n /\ 1 \in 0 .. n /\ 1 - 1 = 0
      BY <1>3
    <2>2. HoldsThing(owed[1][1], cout.mem, p[0], p[1], owed[1][2])
      BY <1>5, <2>1
    <2>3. QED
      BY <1>3, <1>5, <1>6, <2>1, <2>2
  <1>8. r = [c |-> [cout EXCEPT !.read = p[1]], v |-> v]
    BY <1>1, <1>4, <1>7, ThingExtracted
  <1>9. /\ cout' = [r.c EXCEPT !.thrown = FALSE]
        /\ got' = <<<<type, r.v>>, thing, r.c.thrown>> /\ owed' = Tail(owed)
    BY DEF Extract
  <1> HIDE DEF r
  <1> DEFINE d == [cout EXCEPT !.read = p[1]]
  <1>10. /\ d \in Couts /\ d.read = p[1] /\ d.mem = cout.mem /\ d.write = cout.write
         /\ d.thrown = cout.thrown
    BY <1>1, <1>7, ReadMoved
  <1>11. r.c = d /\ r.v = v
    BY <1>8
  <1> HIDE DEF d
  <1>12. [d EXCEPT !.thrown = FALSE] = d
    BY <1>1, <1>10 DEF Couts
  <1>13. cout' = d /\ ~cout'.thrown /\ cout' \in Couts
    BY <1>1, <1>9, <1>10, <1>11, <1>12
  <1>14. got' # <<>> => got'[1] = got'[2] /\ ~got'[3]
    <2>1. got'[1] = <<type, v>> /\ got'[2] = thing /\ got'[3] = d.thrown
      BY <1>9, <1>11
    <2>2. QED
      BY <1>1, <1>4, <1>10, <2>1
  <1>15. /\ owed' \in Seq(Things) /\ Len(owed') = n - 1
         /\ \A i \in 1 .. n - 1 : owed'[i] = owed[i + 1]
    BY <1>1, <1>3, <1>9, HeadTailProperties
  <1> HIDE DEF n
  <1> DEFINE q == [i \in 0 .. n - 1 |-> p[i + 1]]
  <1>16. q \in [0 .. n - 1 -> 0 .. cout.write] /\ q[0] = p[1] /\ q[n - 1] = cout.write
    <2>1. \A i \in 0 .. n - 1 : i + 1 \in 0 .. n
      BY <1>3
    <2>2. 0 \in 0 .. n - 1 /\ n - 1 \in 0 .. n - 1 /\ 0 + 1 = 1 /\ n - 1 + 1 = n
      BY <1>3
    <2>3. q \in [0 .. n - 1 -> 0 .. cout.write]
      BY <1>5, <2>1
    <2>4. q[0] = p[0 + 1] /\ q[n - 1] = p[n - 1 + 1]
      BY <2>2
    <2> HIDE DEF q
    <2>5. QED
      BY <1>5, <2>2, <2>3, <2>4
  <1>17. ASSUME NEW i \in 1 .. n - 1
         PROVE  HoldsThing(owed'[i][1], cout.mem, q[i - 1], q[i], owed'[i][2])
    <2>1. i + 1 \in 1 .. n /\ i + 1 - 1 = i /\ i - 1 + 1 = i /\ i - 1 \in 0 .. n - 1 /\ i \in 0 .. n - 1
      BY <1>3
    <2>2. q[i - 1] = p[i - 1 + 1] /\ q[i] = p[i + 1]
      BY <2>1
    <2> HIDE DEF q
    <2>3. HoldsThing(owed[i + 1][1], cout.mem, p[i + 1 - 1], p[i + 1], owed[i + 1][2])
      BY <1>5, <2>1
    <2>4. owed'[i] = owed[i + 1]
      BY <1>15
    <2>5. QED
      BY <2>1, <2>2, <2>3, <2>4
  <1> HIDE DEF q
  <1>18. Queue(cout'.mem, cout'.read, cout'.write, owed', q)
    BY <1>10, <1>13, <1>15, <1>16, <1>17 DEF Queue
  <1>19. QED
    BY <1>13, <1>14, <1>15, <1>18 DEF CoutIInv

\* ... and changes nothing if nothing waits.
LEMMA ExtractStep ==
    ASSUME CoutIInv, NEW type \in ThingTypes, Extract(type)
    PROVE  CoutIInv'
  <1>1. CASE owed # <<>> /\ Head(owed)[1] = type
    BY <1>1, ExtractDueStep
  <1>2. CASE owed = <<>>
    <2> DEFINE r == ExtractType(cout, type)
    <2>1. cout \in Couts /\ ~cout.thrown /\ cout.read = cout.write
      BY <1>2, QueueEmpty DEF CoutIInv
    <2>2. r.c \in Thrown(cout)
      BY <2>1, ThingFromNothing
    <2>3. cout' = [r.c EXCEPT !.thrown = FALSE] /\ got' = <<>> /\ owed' = <<>>
      BY <1>2 DEF Extract
    <2> HIDE DEF r
    <2>4. cout' = cout
      BY <2>1, <2>2, <2>3 DEF Thrown, Couts
    <2>5. QED
      BY <1>2, <2>3, <2>4 DEF CoutIInv
  <1>3. QED
    BY <1>1, <1>2 DEF Extract

\* reset_wr: what waited is given up, and both positions are at the start again.
LEMMA ResetPositionsStep ==
    ASSUME CoutIInv, ResetPositions
    PROVE  CoutIInv'
  <1>1. cout \in Couts /\ ~cout.thrown
    BY DEF CoutIInv
  <1>2. cout' = [cout EXCEPT !.read = 0, !.write = 0] /\ owed' = <<>> /\ got' = <<>>
    BY DEF ResetPositions
  <1>3. cout' \in Couts /\ ~cout'.thrown /\ cout'.read = 0 /\ cout'.write = 0
    <2>1. /\ cout = [mem |-> cout.mem, read |-> cout.read, write |-> cout.write, thrown |-> cout.thrown]
          /\ cout.mem \in Seq(Nat) /\ cout.thrown = FALSE
      BY <1>1 DEF Couts
    <2> DEFINE c == [mem |-> cout.mem, read |-> 0, write |-> 0, thrown |-> FALSE]
    <2>2. cout' = c
      BY <1>2, <2>1
    <2>3. 0 <= Len(cout.mem)
      BY <2>1
    <2>4. c \in [mem : Seq(Nat), read : Nat, write : Nat, thrown : BOOLEAN]
      BY <2>1
    <2>5. c \in Couts
      BY <2>3, <2>4 DEF Couts
    <2>6. QED
      BY <2>2, <2>5
  <1>4. owed' \in Seq(Things) /\ Len(owed') = 0
    BY <1>2
  <1> DEFINE p == [i \in 0 .. 0 |-> 0]
  <1>5. Queue(cout'.mem, 0, 0, owed', p)
    BY <1>4 DEF Queue
  <1>6. QED
    BY <1>2, <1>3, <1>4, <1>5 DEF CoutIInv

\* reserve_size keeps the queue where it is.
LEMMA ReserveStep ==
    ASSUME CoutIInv, NEW size \in Reserves, Reserve(size)
    PROVE  CoutIInv'
  <1>1. cout \in Couts /\ ~cout.thrown /\ owed \in Seq(Things) /\ size \in Nat
    BY DEF CoutIInv, CoutAssumption
  <1>2. cout' = Reserved(cout, size) /\ owed' = owed /\ got' = got
    BY DEF Reserve
  <1>3. Extends(cout, cout') /\ cout'.write = cout.write
    BY <1>1, <1>2, ReserveKeeps
  <1>4. PICK p : Queue(cout.mem, cout.read, cout.write, owed, p)
    BY DEF CoutIInv
  <1>5. \A i \in 1 .. Len(owed) : HoldsThing(owed[i][1], cout'.mem, p[i - 1], p[i], owed[i][2])
    BY <1>1, <1>3, <1>4, QueueStays
  <1>6. cout'.read = cout.read /\ ~cout'.thrown /\ cout' \in Couts
    BY <1>1, <1>3 DEF Extends
  <1>7. Queue(cout'.mem, cout'.read, cout'.write, owed', p)
    BY <1>2, <1>3, <1>4, <1>5, <1>6 DEF Queue
  <1>8. QED
    BY <1>1, <1>2, <1>6, <1>7 DEF CoutIInv

\* Every step of CCoutBuffer keeps the invariant.
LEMMA CoutIInvInductive == CoutIInv /\ [CoutNext]_coutVars => CoutIInv'
  <1> SUFFICES ASSUME CoutIInv, [CoutNext]_coutVars
               PROVE  CoutIInv'
    OBVIOUS
  <1>1. CASE UNCHANGED coutVars
    BY <1>1 DEF CoutIInv, coutVars
  <1>2. CASE CoutNext
    BY <1>2, InsertStep, ExtractStep, ResetPositionsStep, ReserveStep DEF CoutNext
  <1>3. QED
    BY <1>1, <1>2

\* For every base of the bytes, whatever is inserted, extracted, reserved or reset:
\* what comes out of CCoutBuffer is what went in longest ago, and length() is 0
\* exactly when everything was taken (CCoutBuffer in cout_buffer.h).
THEOREM QueueIsKept == CoutSpec => []FirstInFirstOut
  <1>1. CoutIInv => FirstInFirstOut
    <2> SUFFICES ASSUME CoutIInv PROVE FirstInFirstOut
      OBVIOUS
    <2>1. cout.read <= cout.write /\ cout.write <= Len(cout.mem)
      BY CoutParts DEF CoutIInv
    <2>2. QED
      BY <2>1, QueueEmpty DEF CoutIInv, FirstInFirstOut
  <1>2. QED
    BY <1>1, CoutInitEstablishes, CoutIInvInductive, PTL DEF CoutSpec

-----------------------------------------------------------------------------
(* SocketBuffers, for any sizes and messages.  What a buffer has taken is   *)
(* in its memory, item behind item, and arrives there or not at all.       *)

\* Buffers that are written, and those of the sender.
Buffers(sizes) ==
    {b \in [max : sizes, size : Nat, pos : Nat, mem : Seq(Nat), state : {"made"}] :
        b.pos <= b.max /\ b.size = b.pos /\ Len(b.mem) = b.max}
OutBuffers == Buffers(0 .. Power[UInt32] - 1)

\* The bytes from a to b are an item.
HoldsItem(type, mem, a, b, v) ==
    IF type = "string"
    THEN HoldsBytes(mem, a, a + UInt32, Hton(UInt32, Len(v))) /\ HoldsBytes(mem, a + UInt32, b, v)
    ELSE HoldsBytes(mem, a, b, Hton(Bytes(type), v))

\* The items fill the memory up to b, with the boundaries p.
HoldsItems(mem, b, items, p) ==
    /\ p \in [0 .. Len(items) -> 0 .. b] /\ p[0] = 0 /\ p[Len(items)] = b
    /\ \A i \in 1 .. Len(items) : HoldsItem(items[i][1], mem, p[i - 1], p[i], items[i][2])

Unsent == [j \in 1 .. 2 |-> [SocketBuffer(0) EXCEPT !.state = "gone"]]

\* As long as nothing is sent each buffer holds what it has kept.
Composing ==
    /\ out \in [1 .. 2 -> OutBuffers]
    /\ kept \in [1 .. 2 -> Seq(Messages)]
    /\ \A i \in 1 .. 2 : \E p : HoldsItems(out[i].mem, out[i].pos, kept[i], p)
    /\ in = SocketBuffer(0) /\ wire = <<>> /\ message = <<>> /\ taken = <<>>

\* The bytes from the k-th of a frame on: the size of a message, then the message.
Frame(body, i) == IF i <= 4 THEN Hton(UInt32, Len(body))[i] ELSE body[i - 4]
OnTheWire(body, k) ==
    /\ wire \in Seq(Nat) /\ k + Len(wire) <= 4 + Len(body)
    /\ \A i \in 1 .. Len(wire) : wire[i] = Frame(body, k + i)

\* The buffer that a whole message is read from, rightly or wrongly.
Readers(body) ==
    [max : {Len(body)}, size : {Len(body)}, pos : 0 .. Len(body), mem : {body},
     state : {"body", "undefined"}]

\* The reader has nothing, the size, a failure, or the whole message.
Arriving(body, p) ==
    \/ in = SocketBuffer(0) /\ OnTheWire(body, 0) /\ taken = <<>>
    \/ /\ in = [max |-> 4, size |-> 4, pos |-> 0, mem |-> Hton(UInt32, Len(body)), state |-> "made"]
       /\ OnTheWire(body, 4) /\ taken = <<>>
    \/ in.state = "closed" /\ in.pos = 0 /\ in.max \in Nat /\ taken = <<>>
    \/ /\ in \in Readers(body)
       /\ taken \in Seq(MessageTypes \X (Nat \cup Seq(Nat)))
       /\ \A n \in DOMAIN taken : SameTypes(n) => taken[n] = message[n]
       /\ SameTypes(Len(taken)) => in.state = "body" /\ in.pos = p[Len(taken)]

Sent ==
    /\ out = Unsent
    /\ message \in Seq(Messages)
    /\ \E body \in Seq(Nat) : \E p :
          /\ Len(body) < Power[UInt32]
          /\ HoldsItems(body, Len(body), message, p)
          /\ Arriving(body, p)

SocketIInv == Composing \/ Sent

-----------------------------------------------------------------------------
USE SocketBuffersAssumption

\* An item is of its type, and a number has as many bytes as its type.
LEMMA ItemTyped ==
    ASSUME NEW item \in Messages
    PROVE  /\ item = <<item[1], item[2]>> /\ item[1] \in MessageTypes
           /\ item[1] = "string" => item[2] \in Seq(Nat)
           /\ item[1] # "string" => /\ Bytes(item[1]) \in {1, 2, 4, 8}
                                    /\ item[2] \in 0 .. Power[Bytes(item[1])] - 1
  <1>1. /\ item = <<item[1], item[2]>> /\ item[1] \in MessageTypes
        /\ item[2] \in IF item[1] = "string" THEN Seq(Nat) ELSE 0 .. Power[Bytes(item[1])] - 1
    BY MessagesAssumption
  <1>2. item[1] # "string" => Bytes(item[1]) \in {1, 2, 4, 8}
    BY <1>1 DEF MessageTypes, Bytes, UInt8, UInt16, UInt32
  <1>3. item[2] \in IF item[1] = "string" THEN Seq(Nat) ELSE 0 .. Power[Bytes(item[1])] - 1
    BY <1>1, Zenon
  <1>4. item[1] = "string" => item[2] \in Seq(Nat)
    BY <1>3, Zenon
  <1>5. item[1] # "string" => item[2] \in 0 .. Power[Bytes(item[1])] - 1
    BY <1>3, Zenon
  <1>6. QED
    BY <1>1, <1>2, <1>4, <1>5, Zenon

\* Bytes that are moved by s, or stay with s = 0, are held where they are now, ...
LEMMA BytesMoved ==
    ASSUME NEW mem, NEW to, NEW n \in Nat, NEW s \in Nat, \A i \in 1 .. n : to[s + i] = mem[i],
           NEW a \in Nat, NEW b \in Nat, b <= n, NEW bytes \in Seq(Nat), HoldsBytes(mem, a, b, bytes)
    PROVE  HoldsBytes(to, s + a, s + b, bytes)
  <1>1. Len(bytes) \in Nat /\ b = a + Len(bytes) /\ \A i \in 1 .. Len(bytes) : mem[a + i] = bytes[i]
    BY DEF HoldsBytes
  <1>2. \A i \in 1 .. Len(bytes) : a + i \in 1 .. n /\ s + (a + i) = (s + a) + i
    BY <1>1, SMTT(30)
  <1>3. \A i \in 1 .. Len(bytes) : to[(s + a) + i] = bytes[i]
    BY <1>1, <1>2
  <1>4. s + b = (s + a) + Len(bytes)
    BY <1>1
  <1>5. QED
    BY <1>3, <1>4 DEF HoldsBytes

\* ... and so is an item.
LEMMA ItemMoved ==
    ASSUME NEW mem, NEW to, NEW n \in Nat, NEW s \in Nat, \A i \in 1 .. n : to[s + i] = mem[i],
           NEW a \in Nat, NEW b \in Nat, b <= n,
           NEW item \in Messages, HoldsItem(item[1], mem, a, b, item[2])
    PROVE  HoldsItem(item[1], to, s + a, s + b, item[2])
  <1>1. CASE item[1] = "string"
    <2> DEFINE str == item[2]
               h == Hton(UInt32, Len(str))
    <2>1. str \in Seq(Nat) /\ Len(str) \in Nat
      BY <1>1, ItemTyped
    <2>2. h \in Seq(Nat) /\ Len(h) = 4
      BY <2>1, HtonType DEF UInt32
    <2>3. HoldsBytes(mem, a, a + 4, h) /\ HoldsBytes(mem, a + 4, b, str)
      BY <1>1 DEF HoldsItem, UInt32
    <2> HIDE DEF h, str
    <2>4. b = (a + 4) + Len(str)
      BY <2>3 DEF HoldsBytes
    <2>5. a + 4 \in Nat /\ a + 4 <= n
      BY <2>1, <2>4
    <2>6. HoldsBytes(to, s + a, s + (a + 4), h) /\ HoldsBytes(to, s + (a + 4), s + b, str)
      BY <2>1, <2>2, <2>3, <2>5, BytesMoved
    <2>7. s + (a + 4) = (s + a) + 4
      OBVIOUS
    <2>8. HoldsBytes(to, s + a, (s + a) + 4, h) /\ HoldsBytes(to, (s + a) + 4, s + b, str)
      BY <2>6, <2>7
    <2>9. QED
      BY <1>1, <2>8 DEF HoldsItem, UInt32, h, str
  <1>2. CASE item[1] # "string"
    <2>1. Bytes(item[1]) \in {1, 2, 4, 8} /\ item[2] \in 0 .. Power[Bytes(item[1])] - 1
      BY <1>2, ItemTyped
    <2>2. item[2] \in Int
      BY <2>1, PowerPositive
    <2>3. Hton(Bytes(item[1]), item[2]) \in Seq(Nat)
      BY <2>1, <2>2, HtonType
    <2>4. HoldsBytes(mem, a, b, Hton(Bytes(item[1]), item[2]))
      BY <1>2 DEF HoldsItem
    <2>5. HoldsBytes(to, s + a, s + b, Hton(Bytes(item[1]), item[2]))
      BY <2>3, <2>4, BytesMoved
    <2>6. QED
      BY <1>2, <2>5 DEF HoldsItem
  <1>3. QED
    BY <1>1, <1>2

\* The parts of a buffer.
LEMMA BufferParts ==
    ASSUME NEW S, S \subseteq Nat, NEW b \in Buffers(S)
    PROVE  /\ b.max \in S /\ b.max \in Nat /\ b.size = b.pos /\ b.pos \in Nat /\ b.mem \in Seq(Nat)
           /\ b.state = "made" /\ b.pos <= b.max /\ Len(b.mem) = b.max
           /\ b = [max |-> b.max, size |-> b.size, pos |-> b.pos, mem |-> b.mem, state |-> b.state]
  BY DEF Buffers

\* A buffer as it is made.
LEMMA BufferMade ==
    ASSUME NEW S, S \subseteq Nat, NEW max \in S
    PROVE  SocketBuffer(max) \in Buffers(S)
  <1> DEFINE mem == [i \in 1 .. max |-> Junk]
  <1>1. max \in Nat /\ 0 <= max /\ Junk \in Nat
    BY DEF Junk
  <1>2. mem \in Seq(Nat) /\ Len(mem) = max
    BY <1>1
  <1> HIDE DEF mem
  <1>3. SocketBuffer(max) = [max |-> max, size |-> 0, pos |-> 0, mem |-> mem, state |-> "made"]
    BY DEF SocketBuffer, mem
  <1>4. QED
    BY <1>1, <1>2, <1>3 DEF Buffers

\* What is stored is behind what is held, which stays.
LEMMA Stored ==
    ASSUME NEW S, S \subseteq Nat, NEW b \in Buffers(S), NEW bytes \in Seq(Nat), FitsIn(b, Len(bytes))
    PROVE  /\ Store(b, bytes) \in Buffers(S)
           /\ Store(b, bytes).max = b.max
           /\ Store(b, bytes).pos = b.pos + Len(bytes)
           /\ \A i \in 1 .. b.pos : Store(b, bytes).mem[i] = b.mem[i]
           /\ HoldsBytes(Store(b, bytes).mem, b.pos, b.pos + Len(bytes), bytes)
  <1> DEFINE n == Len(bytes)
             w == b.pos
             new == Over(b.mem, w, bytes)
             c == Store(b, bytes)
  <1>1. /\ n \in Nat /\ w \in Nat /\ b.max \in S /\ b.max \in Nat /\ w + n <= b.max
        /\ b.mem \in Seq(Nat) /\ Len(b.mem) = b.max /\ w + n \in Nat
    BY BufferParts DEF FitsIn
  <1>2. /\ new \in Seq(Nat) /\ Len(new) = b.max
        /\ \A i \in 1 .. b.max : new[i] = IF w < i /\ i <= w + n THEN bytes[i - w] ELSE b.mem[i]
    <2>1. w + Len(bytes) <= Len(b.mem)
      BY <1>1
    <2> HIDE DEF new, w
    <2>2. /\ Over(b.mem, w, bytes) \in Seq(Nat) /\ Len(Over(b.mem, w, bytes)) = Len(b.mem)
          /\ \A i \in 1 .. Len(b.mem) :
               Over(b.mem, w, bytes)[i] = IF w < i /\ i <= w + Len(bytes) THEN bytes[i - w] ELSE b.mem[i]
      BY <1>1, <2>1, Overwritten, SMTT(30)
    <2>3. QED
      BY <1>1, <2>2, Zenon DEF new
  <1>3. c = [b EXCEPT !.mem = new, !.pos = w + n, !.size = w + n]
    <2>1. new = SubSeq(b.mem, 1, b.pos) \o bytes \o SubSeq(b.mem, b.pos + n + 1, b.max)
      BY <1>1 DEF Over
    <2>2. QED
      BY <2>1, BufferParts DEF Store
  <1> HIDE DEF c, new
  <1>4. c.max = b.max /\ c.pos = w + n /\ c.size = w + n /\ c.mem = new
    BY <1>3 DEF Buffers
  <1>5. c \in Buffers(S)
    <2>1. c \in [max : S, size : Nat, pos : Nat, mem : Seq(Nat), state : {"made"}]
      BY <1>1, <1>2, <1>3 DEF Buffers
    <2> HIDE DEF n, w
    <2>2. QED
      BY <1>1, <1>2, <1>4, <2>1 DEF Buffers
  <1> HIDE DEF n, w
  <1>6. \A i \in 1 .. w : i \in 1 .. b.max /\ ~(w < i)
    BY <1>1
  <1>7. \A i \in 1 .. w : new[i] = b.mem[i]
    BY <1>2, <1>6, Zenon
  <1>8. \A i \in 1 .. n : w + i \in 1 .. b.max /\ w < w + i /\ w + i <= w + n /\ (w + i) - w = i
    BY <1>1
  <1>9. \A i \in 1 .. n : new[w + i] = bytes[i]
    BY <1>2, <1>8, Zenon
  <1>10. HoldsBytes(new, w, w + n, bytes)
    BY <1>9 DEF HoldsBytes, n
  <1>11. c.max = b.max /\ c.pos = w + n /\ c.mem = new
    BY <1>4
  <1>12. QED
    BY <1>5, <1>7, <1>10, <1>11 DEF c, n, w

\* An item is appended whole behind what is held, if there is room, and not at all if not.
LEMMA ItemAppended ==
    ASSUME NEW S, S \subseteq Nat, NEW b \in Buffers(S), NEW item \in Messages
    PROVE  LET c == AppendItem(b, item[1], item[2])
           IN  IF FitsIn(b, Needs(item[1], item[2]))
               THEN /\ c \in Buffers(S) /\ b.pos <= c.pos
                    /\ \A i \in 1 .. b.pos : c.mem[i] = b.mem[i]
                    /\ HoldsItem(item[1], c.mem, b.pos, c.pos, item[2])
               ELSE c = b
  <1> DEFINE type == item[1]
             v == item[2]
             c == AppendItem(b, type, v)
  <1>1. b.pos \in Nat /\ b.max \in Nat
    BY BufferParts
  <1>2. CASE type = "string"
    <2> DEFINE h == Hton(UInt32, Len(v))
               d == Store(b, h)
               e == Store(d, v)
    <2>1. v \in Seq(Nat) /\ Len(v) \in Nat /\ Needs(type, v) = 4 + Len(v)
      BY <1>2, ItemTyped DEF Needs, UInt32
    <2>2. h \in Seq(Nat) /\ Len(h) = 4
      BY <2>1, HtonType DEF UInt32
    <2>3. CASE FitsIn(b, 4 + Len(v))
      <3>1. b.pos + 4 <= b.max /\ b.pos + 4 + Len(v) <= b.max
        BY <1>1, <2>1, <2>3 DEF FitsIn
      <3>2. c = e
        BY <1>2, <2>3, <3>1 DEF AppendItem, AppendString, AppendInt, FitsIn, UInt32
      <3> HIDE DEF c, h
      <3>3. /\ d \in Buffers(S) /\ d.max = b.max /\ d.pos = b.pos + 4
            /\ \A i \in 1 .. b.pos : d.mem[i] = b.mem[i]
            /\ HoldsBytes(d.mem, b.pos, b.pos + 4, h)
        <4>1. FitsIn(b, Len(h))
          BY <2>2, <3>1 DEF FitsIn
        <4> HIDE DEF d
        <4>2. /\ Store(b, h) \in Buffers(S) /\ Store(b, h).max = b.max
              /\ Store(b, h).pos = b.pos + Len(h)
              /\ \A i \in 1 .. b.pos : Store(b, h).mem[i] = b.mem[i]
              /\ HoldsBytes(Store(b, h).mem, b.pos, b.pos + Len(h), h)
          BY <2>2, <4>1, Stored
        <4>3. QED
          BY <2>2, <4>2 DEF d
      <3> HIDE DEF d
      <3>4. FitsIn(d, Len(v))
        BY <1>1, <2>1, <3>1, <3>3 DEF FitsIn
      <3>5. /\ e \in Buffers(S) /\ e.pos = d.pos + Len(v)
            /\ \A i \in 1 .. d.pos : e.mem[i] = d.mem[i]
            /\ HoldsBytes(e.mem, d.pos, d.pos + Len(v), v)
        <4> HIDE DEF e, v
        <4>1. d \in Buffers(S) /\ v \in Seq(Nat) /\ S \subseteq Nat
          BY <2>1, <3>3
        <4>2. /\ Store(d, v) \in Buffers(S) /\ Store(d, v).max = d.max
              /\ Store(d, v).pos = d.pos + Len(v)
              /\ \A i \in 1 .. d.pos : Store(d, v).mem[i] = d.mem[i]
              /\ HoldsBytes(Store(d, v).mem, d.pos, d.pos + Len(v), v)
          BY <3>4, <4>1, Stored
        <4>3. QED
          BY <4>2 DEF e
      <3> HIDE DEF e
      <3>6. d.pos \in Nat /\ \A i \in 1 .. b.pos : i \in 1 .. d.pos
        BY <1>1, <3>3
      <3>7. \A i \in 1 .. b.pos : e.mem[i] = b.mem[i]
        BY <3>3, <3>5, <3>6
      <3>8. HoldsBytes(e.mem, b.pos, b.pos + 4, h)
        <4>1. \A i \in 1 .. d.pos : e.mem[0 + i] = d.mem[i]
          BY <3>5, <3>6
        <4>2. HoldsBytes(e.mem, 0 + b.pos, 0 + (b.pos + 4), h)
          <5>1. b.pos + 4 \in Nat /\ b.pos + 4 <= d.pos /\ 0 \in Nat
            BY <1>1, <3>3
          <5>2. HoldsBytes(d.mem, b.pos, b.pos + 4, h)
            BY <3>3
          <5>3. QED
            BY <1>1, <2>2, <3>6, <4>1, <5>1, <5>2, BytesMoved
        <4>3. 0 + b.pos = b.pos /\ 0 + (b.pos + 4) = b.pos + 4
          BY <1>1
        <4>4. QED
          BY <4>2, <4>3
      <3>9. HoldsItem(type, e.mem, b.pos, e.pos, v)
        BY <1>2, <3>3, <3>5, <3>8 DEF HoldsItem, UInt32, h
      <3>10. b.pos <= e.pos
        BY <1>1, <2>1, <3>3, <3>5
      <3>11. QED
        BY <2>1, <2>3, <3>2, <3>5, <3>7, <3>9, <3>10 DEF c
    <2>4. CASE ~FitsIn(b, 4 + Len(v))
      BY <1>2, <2>1, <2>4 DEF AppendItem, AppendString, UInt32
    <2>5. QED
      BY <2>3, <2>4
  <1>3. CASE type # "string"
    <2> DEFINE w == Bytes(type)
               h == Hton(w, v)
    <2>1. w \in {1, 2, 4, 8} /\ v \in Int /\ Needs(type, v) = w
      BY <1>3, ItemTyped, PowerPositive DEF Needs
    <2>2. h \in Seq(Nat) /\ Len(h) = w
      BY <2>1, HtonType
    <2>3. CASE FitsIn(b, w)
      <3>1. c = Store(b, h)
        BY <1>3, <2>3 DEF AppendItem, AppendInt
      <3> HIDE DEF c, w, h
      <3>2. /\ c \in Buffers(S) /\ c.pos = b.pos + w
            /\ \A i \in 1 .. b.pos : c.mem[i] = b.mem[i]
            /\ HoldsBytes(c.mem, b.pos, b.pos + w, h)
        BY <2>2, <2>3, <3>1, Stored
      <3>3. HoldsItem(type, c.mem, b.pos, c.pos, v)
        BY <1>3, <3>2 DEF HoldsItem, h, w
      <3>4. b.pos <= c.pos
        BY <1>1, <2>1, <3>2
      <3>5. QED
        BY <2>1, <2>3, <3>2, <3>3, <3>4 DEF c
    <2>4. CASE ~FitsIn(b, w)
      BY <1>3, <2>1, <2>4 DEF AppendItem, AppendInt
    <2>5. QED
      BY <2>3, <2>4
  <1>4. QED
    BY <1>2, <1>3

-----------------------------------------------------------------------------
\* A buffer in which nothing was put holds no items.
LEMMA NoItems == ASSUME NEW mem PROVE \E p : HoldsItems(mem, 0, <<>>, p)
  <1> DEFINE p == [i \in 0 .. 0 |-> 0]
  <1>1. Len(<<>>) = 0 /\ p \in [0 .. 0 -> 0 .. 0] /\ p[0] = 0
    OBVIOUS
  <1> HIDE DEF p
  <1>2. HoldsItems(mem, 0, <<>>, p)
    BY <1>1 DEF HoldsItems
  <1>3. QED
    BY <1>2

\* The boundaries of items are within what they fill.
LEMMA ItemBounds ==
    ASSUME NEW mem, NEW b \in Nat, NEW items \in Seq(Messages), NEW p, HoldsItems(mem, b, items, p)
    PROVE  /\ Len(items) \in Nat
           /\ \A i \in 0 .. Len(items) : p[i] \in Nat /\ p[i] <= b
           /\ \A i \in 1 .. Len(items) :
                /\ items[i] \in Messages /\ p[i - 1] \in Nat /\ p[i] \in Nat /\ p[i] <= b
                /\ HoldsItem(items[i][1], mem, p[i - 1], p[i], items[i][2])
  <1>1. Len(items) \in Nat /\ items \in [1 .. Len(items) -> Messages]
    BY LenProperties
  <1>2. \A i \in 0 .. Len(items) : p[i] \in Nat /\ p[i] <= b
    BY DEF HoldsItems
  <1>3. \A i \in 1 .. Len(items) : i - 1 \in 0 .. Len(items) /\ i \in 0 .. Len(items)
    BY <1>1
  <1>4. \A i \in 1 .. Len(items) : HoldsItem(items[i][1], mem, p[i - 1], p[i], items[i][2])
    BY DEF HoldsItems
  <1>5. QED
    BY <1>1, <1>2, <1>3, <1>4

\* One more item behind those held.
LEMMA OneMoreItem ==
    ASSUME NEW mem, NEW to, NEW b \in Nat, NEW e \in Nat, b <= e, \A i \in 1 .. b : to[i] = mem[i],
           NEW items \in Seq(Messages), NEW p, HoldsItems(mem, b, items, p),
           NEW item \in Messages, HoldsItem(item[1], to, b, e, item[2])
    PROVE  \E q : HoldsItems(to, e, Append(items, item), q)
  <1> DEFINE n == Len(items)
             q == [i \in 0 .. n + 1 |-> IF i <= n THEN p[i] ELSE e]
             more == Append(items, item)
  <1>1. /\ n \in Nat
        /\ \A i \in 0 .. n : p[i] \in Nat /\ p[i] <= b
        /\ \A i \in 1 .. n :
              /\ items[i] \in Messages /\ p[i - 1] \in Nat /\ p[i] \in Nat /\ p[i] <= b
              /\ HoldsItem(items[i][1], mem, p[i - 1], p[i], items[i][2])
    BY ItemBounds
  <1>2. /\ Len(more) = n + 1 /\ more[n + 1] = item
        /\ \A i \in 1 .. n : more[i] = items[i]
    OBVIOUS
  <1>3. p[0] = 0 /\ p[n] = b
    BY DEF HoldsItems
  <1> HIDE DEF more, n
  <1>4. \A i \in 0 .. n + 1 : q[i] = IF i <= n THEN p[i] ELSE e
    OBVIOUS
  <1>5. q \in [0 .. n + 1 -> 0 .. e] /\ q[0] = 0 /\ q[n] = b /\ q[n + 1] = e
    <2>1. \A i \in 0 .. n + 1 : i <= n => i \in 0 .. n
      BY <1>1
    <2>2. \A i \in 0 .. n + 1 : (IF i <= n THEN p[i] ELSE e) \in 0 .. e
      BY <1>1, <2>1
    <2>3. 0 <= n /\ n <= n /\ ~(n + 1 <= n) /\ 0 \in 0 .. n + 1 /\ n \in 0 .. n + 1 /\ n + 1 \in 0 .. n + 1
      BY <1>1
    <2>4. q \in [0 .. n + 1 -> 0 .. e]
      BY <2>2
    <2>5. QED
      BY <1>3, <1>4, <2>3, <2>4
  <1> HIDE DEF q
  <1>6. \A i \in 1 .. b : to[0 + i] = mem[i]
    OBVIOUS
  <1>7. ASSUME NEW i \in 1 .. n + 1
        PROVE  HoldsItem(more[i][1], to, q[i - 1], q[i], more[i][2])
    <2>1. CASE i = n + 1
      <3>1. more[i] = item /\ q[i] = e /\ i - 1 = n /\ q[i - 1] = b
        BY <1>1, <1>2, <1>5, <2>1
      <3>2. QED
        BY <3>1
    <2>2. CASE i # n + 1
      <3>1. i \in 1 .. n /\ i - 1 \in 0 .. n + 1 /\ i \in 0 .. n + 1 /\ i <= n /\ i - 1 <= n
        BY <1>1, <2>2
      <3>2. more[i] = items[i] /\ q[i] = p[i] /\ q[i - 1] = p[i - 1]
        BY <1>2, <1>4, <3>1
      <3>3. /\ items[i] \in Messages /\ p[i - 1] \in Nat /\ p[i] \in Nat /\ p[i] <= b
            /\ HoldsItem(items[i][1], mem, p[i - 1], p[i], items[i][2])
        BY <1>1, <3>1
      <3>4. HoldsItem(items[i][1], to, 0 + p[i - 1], 0 + p[i], items[i][2])
        <4>1. 0 \in Nat
          OBVIOUS
        <4>2. QED
          BY <1>6, <3>3, <4>1, ItemMoved
      <3>5. 0 + p[i - 1] = p[i - 1] /\ 0 + p[i] = p[i]
        BY <3>3
      <3>6. HoldsItem(items[i][1], to, p[i - 1], p[i], items[i][2])
        BY <3>4, <3>5
      <3>7. QED
        BY <3>2, <3>6
    <2>3. QED
      BY <2>1, <2>2
  <1>8. HoldsItems(to, e, more, q)
    BY <1>2, <1>5, <1>7 DEF HoldsItems
  <1>9. QED
    BY <1>8 DEF more

\* All that another buffer holds behind what is held.
LEMMA ItemsBehind ==
    ASSUME NEW mem, NEW other, NEW to, NEW b \in Nat, NEW c \in Nat,
           \A i \in 1 .. b : to[i] = mem[i], \A i \in 1 .. c : to[b + i] = other[i],
           NEW items \in Seq(Messages), NEW p, HoldsItems(mem, b, items, p),
           NEW more \in Seq(Messages), NEW q, HoldsItems(other, c, more, q)
    PROVE  \E r : HoldsItems(to, b + c, items \o more, r)
  <1> DEFINE n == Len(items)
             k == Len(more)
             all == items \o more
             r == [i \in 0 .. n + k |-> IF i <= n THEN p[i] ELSE b + q[i - n]]
  <1>1. /\ n \in Nat
        /\ \A i \in 0 .. n : p[i] \in Nat /\ p[i] <= b
        /\ \A i \in 1 .. n :
              /\ items[i] \in Messages /\ p[i - 1] \in Nat /\ p[i] \in Nat /\ p[i] <= b
              /\ HoldsItem(items[i][1], mem, p[i - 1], p[i], items[i][2])
    BY ItemBounds
  <1>2. /\ k \in Nat
        /\ \A i \in 0 .. k : q[i] \in Nat /\ q[i] <= c
        /\ \A i \in 1 .. k :
              /\ more[i] \in Messages /\ q[i - 1] \in Nat /\ q[i] \in Nat /\ q[i] <= c
              /\ HoldsItem(more[i][1], other, q[i - 1], q[i], more[i][2])
    BY ItemBounds
  <1>3. /\ all \in Seq(Messages) /\ Len(all) = n + k
        /\ \A i \in 1 .. n + k : all[i] = IF i <= n THEN items[i] ELSE more[i - n]
    BY ConcatProperties
  <1>4. p[0] = 0 /\ p[n] = b /\ q[0] = 0 /\ q[k] = c
    BY DEF HoldsItems
  <1> HIDE DEF all, n, k
  <1>5. \A i \in 0 .. n + k : r[i] = IF i <= n THEN p[i] ELSE b + q[i - n]
    OBVIOUS
  <1>6. r \in [0 .. n + k -> 0 .. b + c] /\ r[0] = 0 /\ \A j \in 0 .. k : r[n + j] = b + q[j]
    <2>1. \A i \in 0 .. n + k : IF i <= n THEN i \in 0 .. n ELSE i - n \in 0 .. k
      BY <1>1, <1>2
    <2>2. \A i \in 0 .. n + k : (IF i <= n THEN p[i] ELSE b + q[i - n]) \in 0 .. b + c
      <3> SUFFICES ASSUME NEW i \in 0 .. n + k
                   PROVE  (IF i <= n THEN p[i] ELSE b + q[i - n]) \in 0 .. b + c
        OBVIOUS
      <3>1. CASE i <= n
        BY <1>1, <2>1, <3>1
      <3>2. CASE ~(i <= n)
        BY <1>2, <2>1, <3>2
      <3>3. QED
        BY <3>1, <3>2
    <2>3. r \in [0 .. n + k -> 0 .. b + c]
      BY <2>2
    <2>4. 0 \in 0 .. n + k /\ 0 <= n
      BY <1>1, <1>2
    <2>5. r[0] = 0
      BY <1>4, <1>5, <2>4
    <2> HIDE DEF r
    <2>6. ASSUME NEW j \in 0 .. k PROVE r[n + j] = b + q[j]
      <3>1. n + j \in 0 .. n + k /\ (n + j) - n = j
        BY <1>1, <1>2
      <3>2. CASE j = 0
        <4>1. n + j <= n /\ n + j = n
          BY <1>1, <3>2
        <4>2. r[n + j] = p[n]
          BY <1>5, <3>1, <4>1
        <4>3. QED
          BY <1>4, <3>2, <4>2
      <3>3. CASE j # 0
        <4>1. ~(n + j <= n)
          BY <1>1, <1>2, <3>3
        <4>2. QED
          BY <1>5, <3>1, <4>1
      <3>4. QED
        BY <3>2, <3>3
    <2>7. QED
      BY <2>3, <2>5, <2>6
  <1> HIDE DEF r
  <1>7. ASSUME NEW i \in 1 .. n + k
        PROVE  HoldsItem(all[i][1], to, r[i - 1], r[i], all[i][2])
    <2>1. CASE i <= n
      <3>1. i \in 1 .. n /\ i - 1 \in 0 .. n + k /\ i \in 0 .. n + k /\ i <= n /\ i - 1 <= n
        BY <1>1, <1>2, <2>1
      <3>2. all[i] = items[i] /\ r[i] = p[i] /\ r[i - 1] = p[i - 1]
        BY <1>3, <1>5, <3>1
      <3>3. /\ items[i] \in Messages /\ p[i - 1] \in Nat /\ p[i] \in Nat /\ p[i] <= b
            /\ HoldsItem(items[i][1], mem, p[i - 1], p[i], items[i][2])
        BY <1>1, <3>1
      <3>4. HoldsItem(items[i][1], to, 0 + p[i - 1], 0 + p[i], items[i][2])
        <4>1. 0 \in Nat /\ \A x \in 1 .. b : to[0 + x] = mem[x]
          OBVIOUS
        <4>2. QED
          BY <3>3, <4>1, ItemMoved
      <3>5. 0 + p[i - 1] = p[i - 1] /\ 0 + p[i] = p[i]
        BY <3>3
      <3>6. HoldsItem(items[i][1], to, p[i - 1], p[i], items[i][2])
        BY <3>4, <3>5
      <3>7. QED
        BY <3>2, <3>6
    <2>2. CASE ~(i <= n)
      <3> DEFINE j == i - n
      <3>1. /\ j \in 1 .. k /\ j \in 0 .. k /\ j - 1 \in 0 .. k /\ n + j = i /\ n + (j - 1) = i - 1
            /\ i \in 1 .. n + k
        BY <1>1, <1>2, <2>2
      <3>2. all[i] = more[j]
        BY <1>3, <2>2
      <3> HIDE DEF j
      <3>3. r[i] = b + q[j] /\ r[i - 1] = b + q[j - 1]
        <4>1. r[n + j] = b + q[j] /\ r[n + (j - 1)] = b + q[j - 1]
          BY <1>6, <3>1
        <4>2. QED
          BY <3>1, <4>1
      <3>4. /\ more[j] \in Messages /\ q[j - 1] \in Nat /\ q[j] \in Nat /\ q[j] <= c
            /\ HoldsItem(more[j][1], other, q[j - 1], q[j], more[j][2])
        BY <1>2, <3>1
      <3>5. HoldsItem(more[j][1], to, b + q[j - 1], b + q[j], more[j][2])
        BY <3>4, ItemMoved
      <3>6. QED
        BY <3>2, <3>3, <3>5
    <2>3. QED
      BY <2>1, <2>2
  <1>8. r[n + k] = b + c
    <2>1. k \in 0 .. k
      BY <1>2
    <2>2. QED
      BY <1>4, <1>6, <2>1
  <1>9. HoldsItems(to, b + c, all, r)
    BY <1>3, <1>6, <1>7, <1>8 DEF HoldsItems
  <1>10. QED
    BY <1>9 DEF all

-----------------------------------------------------------------------------
\* At first both buffers are empty and nothing is sent.
LEMMA BufferInitEstablishes == BufferInit => SocketIInv
  <1> SUFFICES ASSUME BufferInit PROVE Composing
    BY DEF SocketIInv
  <1>1. PICK m \in MaxSizes, n \in MaxSizes : out = <<SocketBuffer(m), SocketBuffer(n)>>
    BY DEF BufferInit
  <1> DEFINE S == 0 .. Power[UInt32] - 1
  <1>2. S \subseteq Nat /\ m \in S /\ n \in S
    BY DEF SocketBuffersAssumption
  <1> HIDE DEF S
  <1>3. SocketBuffer(m) \in Buffers(S) /\ SocketBuffer(n) \in Buffers(S)
    BY <1>2, BufferMade
  <1>4. SocketBuffer(m).pos = 0 /\ SocketBuffer(n).pos = 0
    BY DEF SocketBuffer
  <1> DEFINE b1 == SocketBuffer(m)
             b2 == SocketBuffer(n)
  <1> HIDE DEF b1, b2
  <1>5. out = <<b1, b2>> /\ b1 \in Buffers(S) /\ b2 \in Buffers(S) /\ b1.pos = 0 /\ b2.pos = 0
    BY <1>1, <1>3, <1>4 DEF b1, b2
  <1>6. out \in [1 .. 2 -> Buffers(S)] /\ \A i \in 1 .. 2 : out[i].pos = 0
    BY <1>5
  <1>7. kept = <<<<>>, <<>>>> /\ in = SocketBuffer(0) /\ wire = <<>> /\ message = <<>> /\ taken = <<>>
    BY DEF BufferInit
  <1>8. kept \in [1 .. 2 -> Seq(Messages)] /\ \A i \in 1 .. 2 : kept[i] = <<>>
    <2> DEFINE none == <<>>
    <2>1. none \in Seq(Messages) /\ kept = <<none, none>>
      BY <1>7
    <2> HIDE DEF none
    <2>2. kept \in [1 .. 2 -> Seq(Messages)] /\ \A i \in 1 .. 2 : kept[i] = none
      BY <2>1
    <2>3. QED
      BY <2>2 DEF none
  <1>9. \A i \in 1 .. 2 : \E p : HoldsItems(out[i].mem, out[i].pos, kept[i], p)
    BY <1>6, <1>8, NoItems
  <1>10. QED
    BY <1>6, <1>7, <1>8, <1>9 DEF Composing, OutBuffers, S

\* The sender has its buffers until it sends.
LEMMA NotYetSent ==
    ASSUME SocketIInv, NEW i \in 1 .. 2, out[i].state = "made"
    PROVE  Composing
  <1>1. ~Sent
    BY DEF Sent, Unsent, SocketBuffer
  <1>2. QED
    BY <1>1 DEF SocketIInv

\* While it puts a message together nothing else happens.
LEMMA StillComposing ==
    ASSUME Composing, UNCHANGED <<wire, in, message, taken>>,
           out' \in [1 .. 2 -> OutBuffers], kept' \in [1 .. 2 -> Seq(Messages)],
           \A i \in 1 .. 2 : \E p : HoldsItems(out'[i].mem, out'[i].pos, kept'[i], p)
    PROVE  SocketIInv'
  <1>1. in' = SocketBuffer(0) /\ wire' = <<>> /\ message' = <<>> /\ taken' = <<>>
    BY DEF Composing
  <1>2. Composing'
    BY <1>1 DEF Composing
  <1>3. QED
    BY <1>2 DEF SocketIInv

\* Sizes are numbers, and 0 is one of them.
LEMMA OutSizes == 0 .. Power[UInt32] - 1 \subseteq Nat /\ 0 \in 0 .. Power[UInt32] - 1
  <1>1. Power[4] \in Nat \ {0}
    BY PowerPositive
  <1>2. QED
    BY <1>1 DEF UInt32

\* appendByte, appendShort, appendInt, appendString: kept and held, or dropped.
LEMMA PutStep ==
    ASSUME SocketIInv, NEW i \in 1 .. 2, NEW item \in Messages, Put(i, item)
    PROVE  SocketIInv'
  <1> DEFINE b == out[i]
             c == AppendItem(b, item[1], item[2])
             fits == FitsIn(b, Needs(item[1], item[2]))
  <1>1. Composing
    BY NotYetSent DEF Put
  <1>2. /\ out \in [1 .. 2 -> OutBuffers] /\ kept \in [1 .. 2 -> Seq(Messages)]
        /\ \A j \in 1 .. 2 : \E p : HoldsItems(out[j].mem, out[j].pos, kept[j], p)
    BY <1>1 DEF Composing
  <1>3. b \in OutBuffers
    BY <1>2
  <1>4. IF fits
        THEN /\ c \in OutBuffers /\ b.pos <= c.pos
             /\ \A j \in 1 .. b.pos : c.mem[j] = b.mem[j]
             /\ HoldsItem(item[1], c.mem, b.pos, c.pos, item[2])
        ELSE c = b
    BY <1>3, OutSizes, ItemAppended DEF OutBuffers
  <1>5. /\ out' = [out EXCEPT ![i] = c]
        /\ kept' = IF fits THEN [kept EXCEPT ![i] = Append(@, item)] ELSE kept
        /\ UNCHANGED <<wire, in, message, taken>>
    BY DEF Put
  <1> HIDE DEF c, fits
  <1>6. CASE fits
    <2>1. /\ c \in OutBuffers /\ b.pos <= c.pos
          /\ \A j \in 1 .. b.pos : c.mem[j] = b.mem[j]
          /\ HoldsItem(item[1], c.mem, b.pos, c.pos, item[2])
      BY <1>4, <1>6
    <2>2. PICK p : HoldsItems(b.mem, b.pos, kept[i], p)
      BY <1>2
    <2>3. b.pos \in Nat /\ c.pos \in Nat
      BY <1>3, <2>1, OutSizes, BufferParts DEF OutBuffers
    <2>4. kept[i] \in Seq(Messages)
      BY <1>2
    <2> HIDE DEF b
    <2>5. \E q : HoldsItems(c.mem, c.pos, Append(kept[i], item), q)
      BY <2>1, <2>2, <2>3, <2>4, OneMoreItem
    <2>6. kept' = [kept EXCEPT ![i] = Append(@, item)]
      BY <1>5, <1>6
    <2>7. /\ out' \in [1 .. 2 -> OutBuffers] /\ out'[i] = c
          /\ \A j \in 1 .. 2 : j # i => out'[j] = out[j]
      BY <1>2, <1>5, <2>1
    <2>8. /\ kept' \in [1 .. 2 -> Seq(Messages)] /\ kept'[i] = Append(kept[i], item)
          /\ \A j \in 1 .. 2 : j # i => kept'[j] = kept[j]
      <3>1. Append(kept[i], item) \in Seq(Messages)
        BY <2>4
      <3>2. QED
        BY <1>2, <2>6, <3>1
    <2>9. \A j \in 1 .. 2 : \E q : HoldsItems(out'[j].mem, out'[j].pos, kept'[j], q)
      BY <1>2, <2>5, <2>7, <2>8, Zenon
    <2>10. QED
      BY <1>1, <1>5, <2>7, <2>8, <2>9, StillComposing
  <1>7. CASE ~fits
    <2>1. out' = out /\ kept' = kept
      BY <1>2, <1>4, <1>5, <1>7
    <2>2. QED
      BY <1>1, <1>2, <1>5, <2>1, StillComposing
  <1>8. QED
    BY <1>6, <1>7

\* The copy constructor takes the memory over with all that it holds.
LEMMA CopyBufferStep ==
    ASSUME SocketIInv, NEW i \in 1 .. 2, CopyBuffer(i)
    PROVE  SocketIInv'
  <1>1. Composing
    <2>1. 1 \in 1 .. 2 /\ out[1].state = "made"
      BY DEF CopyBuffer
    <2>2. QED
      BY <2>1, NotYetSent
  <1>2. /\ out \in [1 .. 2 -> OutBuffers] /\ kept \in [1 .. 2 -> Seq(Messages)]
        /\ \A j \in 1 .. 2 : \E p : HoldsItems(out[j].mem, out[j].pos, kept[j], p)
    BY <1>1 DEF Composing
  <1> DEFINE empty == SocketBuffer(0)
  <1>3. empty \in OutBuffers /\ empty.pos = 0
    <2>1. empty \in OutBuffers
      BY OutSizes, BufferMade DEF OutBuffers
    <2>2. QED
      BY <2>1 DEF SocketBuffer
  <1> HIDE DEF empty
  <1>4. /\ out' = [out EXCEPT ![3 - i] = out[i], ![i] = empty]
        /\ kept' = [kept EXCEPT ![3 - i] = kept[i], ![i] = <<>>]
        /\ UNCHANGED <<wire, in, message, taken>>
    BY DEF CopyBuffer, empty
  <1>5. 3 - i \in 1 .. 2 /\ 3 - i # i /\ \A j \in 1 .. 2 : j = i \/ j = 3 - i
    OBVIOUS
  <1>6. out' \in [1 .. 2 -> OutBuffers] /\ out'[i] = empty /\ out'[3 - i] = out[i]
    BY <1>2, <1>3, <1>4, <1>5
  <1>7. kept' \in [1 .. 2 -> Seq(Messages)] /\ kept'[i] = <<>> /\ kept'[3 - i] = kept[i]
    <2>1. <<>> \in Seq(Messages)
      OBVIOUS
    <2>2. QED
      BY <1>2, <1>4, <1>5, <2>1
  <1>8. \E p : HoldsItems(out'[i].mem, out'[i].pos, kept'[i], p)
    <2>1. PICK p : HoldsItems(out'[i].mem, 0, <<>>, p)
      BY NoItems
    <2>2. out'[i].pos = 0 /\ kept'[i] = <<>>
      BY <1>3, <1>6, <1>7
    <2>3. QED
      BY <2>1, <2>2
  <1>9. \E p : HoldsItems(out'[3 - i].mem, out'[3 - i].pos, kept'[3 - i], p)
    BY <1>2, <1>6, <1>7
  <1>10. \A j \in 1 .. 2 : \E p : HoldsItems(out'[j].mem, out'[j].pos, kept'[j], p)
    BY <1>5, <1>8, <1>9, Zenon
  <1>11. QED
    BY <1>1, <1>4, <1>6, <1>7, <1>10, StillComposing

\* What one buffer holds is behind what the other holds, if it fits.
LEMMA BufferAppended ==
    ASSUME NEW S, S \subseteq Nat, NEW b \in Buffers(S), NEW T, T \subseteq Nat, NEW c \in Buffers(T)
    PROVE  LET d == AppendBuffer(b, c)
           IN  IF FitsIn(b, c.size)
               THEN /\ d \in Buffers(S) /\ d.pos = b.pos + c.pos
                    /\ \A i \in 1 .. b.pos : d.mem[i] = b.mem[i]
                    /\ \A i \in 1 .. c.pos : d.mem[b.pos + i] = c.mem[i]
               ELSE d = b
  <1> DEFINE d == AppendBuffer(b, c)
             bytes == SubSeq(c.mem, 1, c.pos)
  <1>1. /\ c.pos \in Nat /\ c.pos <= Len(c.mem) /\ c.mem \in Seq(Nat) /\ c.size = c.pos
        /\ b.pos \in Nat
    BY BufferParts
  <1>2. bytes \in Seq(Nat) /\ Len(bytes) = c.pos /\ \A i \in 1 .. c.pos : bytes[i] = c.mem[i]
    BY <1>1, Prefixed
  <1>3. CASE FitsIn(b, c.size)
    <2>1. d = Store(b, bytes) /\ FitsIn(b, c.pos)
      BY <1>1, <1>3 DEF AppendBuffer
    <2> HIDE DEF bytes, d
    <2>2. /\ d \in Buffers(S) /\ d.pos = b.pos + c.pos
          /\ \A i \in 1 .. b.pos : d.mem[i] = b.mem[i]
          /\ HoldsBytes(d.mem, b.pos, b.pos + c.pos, bytes)
      <3>1. FitsIn(b, Len(bytes))
        BY <1>2, <2>1
      <3>2. /\ Store(b, bytes) \in Buffers(S) /\ Store(b, bytes).pos = b.pos + Len(bytes)
            /\ \A i \in 1 .. b.pos : Store(b, bytes).mem[i] = b.mem[i]
            /\ HoldsBytes(Store(b, bytes).mem, b.pos, b.pos + Len(bytes), bytes)
        BY <1>2, <3>1, Stored
      <3>3. QED
        BY <1>2, <2>1, <3>2
    <2>3. \A i \in 1 .. c.pos : d.mem[b.pos + i] = bytes[i]
      BY <1>2, <2>2 DEF HoldsBytes
    <2>4. \A i \in 1 .. c.pos : d.mem[b.pos + i] = c.mem[i]
      BY <1>2, <2>3
    <2>5. QED
      BY <1>3, <2>2, <2>4 DEF d
  <1>4. CASE ~FitsIn(b, c.size)
    BY <1>4 DEF AppendBuffer
  <1>5. QED
    BY <1>3, <1>4

\* appendBuffer keeps the items of both.
LEMMA PutBufferStep ==
    ASSUME SocketIInv, PutBuffer
    PROVE  SocketIInv'
  <1>1. Composing
    <2>1. 1 \in 1 .. 2 /\ out[1].state = "made"
      BY DEF PutBuffer
    <2>2. QED
      BY <2>1, NotYetSent
  <1>2. /\ out \in [1 .. 2 -> OutBuffers] /\ kept \in [1 .. 2 -> Seq(Messages)]
        /\ \A j \in 1 .. 2 : \E p : HoldsItems(out[j].mem, out[j].pos, kept[j], p)
    BY <1>1 DEF Composing
  <1> DEFINE b == out[1]
             c == out[2]
             d == AppendBuffer(b, c)
             fits == FitsIn(b, c.size)
  <1>3. b \in OutBuffers /\ c \in OutBuffers /\ b.pos \in Nat /\ c.pos \in Nat
    <2>1. b \in OutBuffers /\ c \in OutBuffers
      BY <1>2
    <2>2. QED
      BY <2>1, OutSizes, BufferParts DEF OutBuffers
  <1>4. /\ out' = [out EXCEPT ![1] = d]
        /\ kept' = IF fits THEN [kept EXCEPT ![1] = @ \o kept[2]] ELSE kept
        /\ UNCHANGED <<wire, in, message, taken>>
    BY DEF PutBuffer
  <1> HIDE DEF b, c
  <1>5. IF fits
        THEN /\ d \in OutBuffers /\ d.pos = b.pos + c.pos
             /\ \A i \in 1 .. b.pos : d.mem[i] = b.mem[i]
             /\ \A i \in 1 .. c.pos : d.mem[b.pos + i] = c.mem[i]
        ELSE d = b
    BY <1>3, OutSizes, BufferAppended DEF OutBuffers
  <1> HIDE DEF d, fits
  <1>6. CASE fits
    <2>1. /\ d \in OutBuffers /\ d.pos = b.pos + c.pos
          /\ \A i \in 1 .. b.pos : d.mem[i] = b.mem[i]
          /\ \A i \in 1 .. c.pos : d.mem[b.pos + i] = c.mem[i]
      BY <1>5, <1>6
    <2>2. PICK p : HoldsItems(b.mem, b.pos, kept[1], p)
      BY <1>2 DEF b
    <2>3. PICK q : HoldsItems(c.mem, c.pos, kept[2], q)
      BY <1>2 DEF c
    <2>4. kept[1] \in Seq(Messages) /\ kept[2] \in Seq(Messages)
      BY <1>2
    <2>5. \E r : HoldsItems(d.mem, b.pos + c.pos, kept[1] \o kept[2], r)
      BY <1>3, <2>1, <2>2, <2>3, <2>4, ItemsBehind
    <2>6. /\ out' \in [1 .. 2 -> OutBuffers] /\ out'[1] = d /\ out'[2] = out[2]
      BY <1>2, <1>4, <2>1
    <2>7. kept' \in [1 .. 2 -> Seq(Messages)] /\ kept'[1] = kept[1] \o kept[2] /\ kept'[2] = kept[2]
      <3>1. kept[1] \o kept[2] \in Seq(Messages)
        BY <2>4
      <3>2. kept' = [kept EXCEPT ![1] = @ \o kept[2]]
        BY <1>4, <1>6
      <3>3. QED
        BY <1>2, <3>1, <3>2
    <2>8. \E r : HoldsItems(out'[1].mem, out'[1].pos, kept'[1], r)
      BY <2>1, <2>5, <2>6, <2>7
    <2>9. \E r : HoldsItems(out'[2].mem, out'[2].pos, kept'[2], r)
      BY <1>2, <2>6, <2>7
    <2>10. \A j \in 1 .. 2 : j = 1 \/ j = 2
      OBVIOUS
    <2>11. \A j \in 1 .. 2 : \E r : HoldsItems(out'[j].mem, out'[j].pos, kept'[j], r)
      BY <2>8, <2>9, <2>10, Zenon
    <2>12. QED
      BY <1>1, <1>4, <2>6, <2>7, <2>11, StillComposing
  <1>7. CASE ~fits
    <2>1. out' = out /\ kept' = kept
      BY <1>2, <1>4, <1>5, <1>7 DEF b
    <2>2. QED
      BY <1>1, <1>2, <1>4, <2>1, StillComposing
  <1>8. QED
    BY <1>6, <1>7

-----------------------------------------------------------------------------
\* Items are held by any memory with the same bytes.
LEMMA ItemsSame ==
    ASSUME NEW mem, NEW to, NEW b \in Nat, \A i \in 1 .. b : to[i] = mem[i],
           NEW items \in Seq(Messages), NEW p, HoldsItems(mem, b, items, p)
    PROVE  HoldsItems(to, b, items, p)
  <1>1. ASSUME NEW i \in 1 .. Len(items)
        PROVE  HoldsItem(items[i][1], to, p[i - 1], p[i], items[i][2])
    <2>1. /\ items[i] \in Messages /\ p[i - 1] \in Nat /\ p[i] \in Nat /\ p[i] <= b
          /\ HoldsItem(items[i][1], mem, p[i - 1], p[i], items[i][2])
      BY ItemBounds
    <2>2. 0 \in Nat /\ \A x \in 1 .. b : to[0 + x] = mem[x]
      OBVIOUS
    <2>3. HoldsItem(items[i][1], to, 0 + p[i - 1], 0 + p[i], items[i][2])
      BY <2>1, <2>2, ItemMoved
    <2>4. 0 + p[i - 1] = p[i - 1] /\ 0 + p[i] = p[i]
      BY <2>1
    <2>5. QED
      BY <2>3, <2>4
  <1>2. QED
    BY <1>1 DEF HoldsItems

\* The frame of a message: the four bytes of its size, and the message.
LEMMA Framed ==
    ASSUME NEW b \in OutBuffers
    PROVE  LET f == AppendBuffer(AppendSize_t(SocketBuffer(UInt32 + b.size), b.size), b)
           IN  /\ f.size = 4 + b.pos /\ f.mem \in Seq(Nat) /\ f.size <= Len(f.mem)
               /\ \A i \in 1 .. 4 : f.mem[i] = Hton(UInt32, b.pos)[i]
               /\ \A i \in 1 .. b.pos : f.mem[4 + i] = b.mem[i]
  <1> DEFINE k == b.pos
             f0 == SocketBuffer(4 + k)
             h == Hton(UInt32, k)
             f1 == Store(f0, h)
             f == AppendBuffer(f1, b)
             S == 0 .. Power[UInt32] - 1
  <1>1. k \in Nat /\ b.size = k /\ b \in Buffers(S) /\ S \subseteq Nat
    BY OutSizes, BufferParts DEF OutBuffers
  <1>2. 4 + k \in Nat /\ Nat \subseteq Nat /\ k \in Int
    BY <1>1
  <1>3. h \in Seq(Nat) /\ Len(h) = 4
    BY <1>2, HtonType DEF UInt32
  <1> HIDE DEF S, k
  <1>4. f0 \in Buffers(Nat) /\ f0.max = 4 + k /\ f0.pos = 0
    BY <1>2, BufferMade DEF SocketBuffer
  <1> HIDE DEF f0, h
  <1>5. FitsIn(f0, 4) /\ FitsIn(f0, Len(h))
    BY <1>1, <1>3, <1>4 DEF FitsIn
  <1>6. /\ f1 \in Buffers(Nat) /\ f1.max = 4 + k /\ f1.pos = 4
        /\ HoldsBytes(f1.mem, 0, 4, h)
    <2>1. /\ f1 \in Buffers(Nat) /\ f1.max = f0.max /\ f1.pos = f0.pos + Len(h)
          /\ HoldsBytes(f1.mem, f0.pos, f0.pos + Len(h), h)
      <3> HIDE DEF f1
      <3>1. f0 \in Buffers(Nat) /\ h \in Seq(Nat) /\ Nat \subseteq Nat
        BY <1>3, <1>4
      <3>2. /\ Store(f0, h) \in Buffers(Nat) /\ Store(f0, h).max = f0.max
            /\ Store(f0, h).pos = f0.pos + Len(h)
            /\ \A i \in 1 .. f0.pos : Store(f0, h).mem[i] = f0.mem[i]
            /\ HoldsBytes(Store(f0, h).mem, f0.pos, f0.pos + Len(h), h)
        BY <1>5, <3>1, Stored
      <3>3. QED
        BY <3>2 DEF f1
    <2> HIDE DEF f1
    <2>2. QED
      BY <1>3, <1>4, <2>1
  <1>7. AppendSize_t(f0, k) = f1
    BY <1>5 DEF AppendSize_t, AppendInt, h, UInt32
  <1> HIDE DEF f1
  <1>8. FitsIn(f1, b.size)
    BY <1>1, <1>6 DEF FitsIn
  <1>9. /\ f \in Buffers(Nat) /\ f.pos = f1.pos + b.pos
        /\ \A i \in 1 .. f1.pos : f.mem[i] = f1.mem[i]
        /\ \A i \in 1 .. b.pos : f.mem[f1.pos + i] = b.mem[i]
    BY <1>1, <1>2, <1>6, <1>8, BufferAppended
  <1> HIDE DEF f
  <1>10. /\ f.size = 4 + k /\ f.mem \in Seq(Nat) /\ f.size <= Len(f.mem)
         /\ \A i \in 1 .. 4 : f.mem[i] = f1.mem[i]
         /\ \A i \in 1 .. k : f.mem[4 + i] = b.mem[i]
    <2>1. f.size = f.pos /\ f.mem \in Seq(Nat) /\ f.pos <= Len(f.mem)
      BY <1>2, <1>9, BufferParts
    <2>2. QED
      BY <1>6, <1>9, <2>1 DEF k
  <1>11. \A i \in 1 .. 4 : f1.mem[i] = h[i]
    <2>1. \A i \in 1 .. 4 : f1.mem[0 + i] = h[i] /\ 0 + i = i
      BY <1>3, <1>6 DEF HoldsBytes
    <2>2. QED
      BY <2>1
  <1>12. \A i \in 1 .. 4 : f.mem[i] = h[i]
    BY <1>10, <1>11
  <1>13. AppendBuffer(AppendSize_t(SocketBuffer(UInt32 + b.size), b.size), b) = f
    BY <1>1, <1>7 DEF f, f0, UInt32
  <1>14. QED
    BY <1>10, <1>12, <1>13 DEF k, h

\* A message is sent behind its size, and some of both arrives.
LEMMA SendStep ==
    ASSUME SocketIInv, NEW i \in 1 .. 2, NEW arrive, Send(i, arrive)
    PROVE  SocketIInv'
  <1> DEFINE b == out[i]
             k == b.pos
             f == AppendBuffer(AppendSize_t(SocketBuffer(UInt32 + b.size), b.size), b)
  <1>1. Composing
    BY NotYetSent DEF Send
  <1>2. /\ out \in [1 .. 2 -> OutBuffers] /\ kept \in [1 .. 2 -> Seq(Messages)]
        /\ \A j \in 1 .. 2 : \E p : HoldsItems(out[j].mem, out[j].pos, kept[j], p)
        /\ in = SocketBuffer(0) /\ taken = <<>>
    BY <1>1 DEF Composing
  <1>3. b \in OutBuffers
    BY <1>2
  <1>4. /\ out' = Unsent /\ message' = kept[i] /\ arrive \in 0 .. f.size
        /\ wire' = SubSeq(f.mem, 1, arrive) /\ in' = in /\ taken' = taken
    BY DEF Send, Unsent
  <1>5. PICK p : HoldsItems(b.mem, k, kept[i], p)
    BY <1>2
  <1> HIDE DEF b
  <1>6. /\ f.size = 4 + k /\ f.mem \in Seq(Nat) /\ f.size <= Len(f.mem)
        /\ \A j \in 1 .. 4 : f.mem[j] = Hton(UInt32, k)[j]
        /\ \A j \in 1 .. k : f.mem[4 + j] = b.mem[j]
    BY <1>3, Framed
  <1> HIDE DEF f
  <1>7. /\ k \in Nat /\ k <= Len(b.mem) /\ b.mem \in Seq(Nat) /\ k < Power[UInt32]
    <2>1. /\ b.max \in 0 .. Power[UInt32] - 1 /\ k \in Nat /\ k <= b.max /\ Len(b.mem) = b.max
          /\ b.mem \in Seq(Nat)
      BY <1>3, OutSizes, BufferParts DEF OutBuffers
    <2>2. Power[UInt32] \in Nat
      BY PowerPositive DEF UInt32
    <2> HIDE DEF k
    <2>3. QED
      BY <2>1, <2>2
  <1> HIDE DEF k
  <1>8. PICK body \in Seq(Nat) : Len(body) = k /\ \A j \in 1 .. k : body[j] = b.mem[j]
    BY <1>7, Prefixed
  <1>9. HoldsItems(body, Len(body), message', p)
    <2>1. kept[i] \in Seq(Messages)
      BY <1>2
    <2>2. HoldsItems(body, k, kept[i], p)
      BY <1>5, <1>7, <1>8, <2>1, ItemsSame
    <2>3. QED
      BY <1>4, <1>8, <2>2
  <1>10. OnTheWire(body, 0)'
    <2>1. arrive \in Nat /\ arrive <= 4 + k /\ arrive <= Len(f.mem)
      BY <1>4, <1>6, <1>7
    <2>2. wire' \in Seq(Nat) /\ Len(wire') = arrive /\ \A j \in 1 .. arrive : wire'[j] = f.mem[j]
      BY <1>4, <1>6, <2>1, Prefixed
    <2>3. ASSUME NEW j \in 1 .. Len(wire')
          PROVE  wire'[j] = Frame(body, 0 + j)
      <3>1. j \in 1 .. arrive /\ 0 + j = j /\ wire'[j] = f.mem[j]
        BY <2>1, <2>2
      <3>2. CASE j <= 4
        <4>1. j \in 1 .. 4
          BY <2>1, <3>1, <3>2, SMTT(30)
        <4>2. QED
          BY <1>6, <1>8, <3>1, <3>2, <4>1 DEF Frame
      <3>3. CASE ~(j <= 4)
        <4>1. j - 4 \in 1 .. k /\ 4 + (j - 4) = j
          BY <1>7, <2>1, <3>1, <3>3, SMTT(30)
        <4>2. f.mem[4 + (j - 4)] = b.mem[j - 4] /\ body[j - 4] = b.mem[j - 4]
          BY <1>6, <1>8, <4>1
        <4>3. QED
          BY <3>1, <3>3, <4>1, <4>2 DEF Frame
      <3>4. QED
        BY <3>2, <3>3
    <2>4. 0 + Len(wire') <= 4 + Len(body)
      BY <1>8, <2>1, <2>2
    <2>5. QED
      BY <2>2, <2>3, <2>4 DEF OnTheWire
  <1>11. Arriving(body, p)'
    BY <1>2, <1>4, <1>10 DEF Arriving
  <1>12. Sent'
    <2>1. message' \in Seq(Messages)
      BY <1>2, <1>4
    <2>2. Len(body) < Power[UInt32] /\ body \in Seq(Nat)
      BY <1>7, <1>8
    <2>3. QED
      BY <1>4, <1>9, <1>11, <2>1, <2>2 DEF Sent
  <1>13. QED
    BY <1>12 DEF SocketIInv

-----------------------------------------------------------------------------
\* Nothing is received before something is sent.
LEMMA AlreadySent ==
    ASSUME SocketIInv, out[1].state = "gone" \/ in # SocketBuffer(0)
    PROVE  Sent
  <1>1. ASSUME Composing PROVE FALSE
    <2>1. out[1] \in OutBuffers /\ in = SocketBuffer(0)
      BY <1>1 DEF Composing
    <2>2. out[1].state = "made"
      BY <2>1, OutSizes, BufferParts DEF OutBuffers
    <2>3. QED
      BY <2>1, <2>2
  <1>2. QED
    BY <1>1 DEF SocketIInv

\* Once a message is sent only the reader moves.
LEMMA StillSent ==
    ASSUME Sent, UNCHANGED <<out, message>>, NEW body \in Seq(Nat), NEW p,
           Len(body) < Power[UInt32], HoldsItems(body, Len(body), message, p), Arriving(body, p)'
    PROVE  SocketIInv'
  <1>1. out' = Unsent /\ message' \in Seq(Messages) /\ HoldsItems(body, Len(body), message', p)
    BY DEF Sent
  <1>2. Sent'
    BY <1>1 DEF Sent
  <1>3. QED
    BY <1>2 DEF SocketIInv

\* The first n bytes that arrive behind k others, and those behind them.
SplitAt(body, k, n) ==
    /\ SubSeq(wire, 1, n) \in Seq(Nat) /\ Len(SubSeq(wire, 1, n)) = n
    /\ \A i \in 1 .. n : SubSeq(wire, 1, n)[i] = Frame(body, k + i)
    /\ SubSeq(wire, n + 1, Len(wire)) \in Seq(Nat)
    /\ k + n + Len(SubSeq(wire, n + 1, Len(wire))) <= 4 + Len(body)
    /\ \A i \in 1 .. Len(SubSeq(wire, n + 1, Len(wire))) :
          SubSeq(wire, n + 1, Len(wire))[i] = Frame(body, k + n + i)

\* What arrives may be split anywhere.
LEMMA WireSplit ==
    ASSUME NEW body \in Seq(Nat), NEW k \in Nat, NEW n \in Nat, OnTheWire(body, k), n <= Len(wire)
    PROVE  SplitAt(body, k, n)
  <1> DEFINE rest == SubSeq(wire, n + 1, Len(wire))
             m == Len(wire) - n
  <1>1. /\ wire \in Seq(Nat) /\ Len(wire) \in Nat /\ k + Len(wire) <= 4 + Len(body)
        /\ \A i \in 1 .. Len(wire) : wire[i] = Frame(body, k + i)
    BY DEF OnTheWire
  <1>2. /\ SubSeq(wire, 1, n) \in Seq(Nat) /\ Len(SubSeq(wire, 1, n)) = n
        /\ \A i \in 1 .. n : SubSeq(wire, 1, n)[i] = wire[i]
    BY <1>1, Prefixed
  <1>3. \A i \in 1 .. n : i \in 1 .. Len(wire)
    BY <1>1
  <1>4. \A i \in 1 .. n : SubSeq(wire, 1, n)[i] = Frame(body, k + i)
    BY <1>1, <1>2, <1>3
  <1>5. m \in Nat /\ n + m = Len(wire) /\ n + m <= Len(wire)
    BY <1>1
  <1>6. rest = SubSeq(wire, n + 1, n + m)
    BY <1>5
  <1> HIDE DEF rest, m
  <1>7. rest \in Seq(Nat) /\ Len(rest) = m /\ \A i \in 1 .. m : rest[i] = wire[n + i]
    <2>1. /\ SubSeq(wire, n + 1, n + m) \in Seq(Nat)
          /\ Len(SubSeq(wire, n + 1, n + m)) = m
          /\ \A i \in 1 .. m : SubSeq(wire, n + 1, n + m)[i] = wire[n + i]
      <3>1. wire \in Seq(Nat)
        BY <1>1
      <3>2. QED
        BY <1>5, <3>1, Middle, SMTT(30)
    <2>2. QED
      BY <1>6, <2>1, Zenon
  <1>8. \A i \in 1 .. m : n + i \in 1 .. Len(wire) /\ k + (n + i) = k + n + i
    BY <1>5
  <1>9. \A i \in 1 .. m : rest[i] = Frame(body, k + n + i)
    BY <1>1, <1>7, <1>8
  <1>10. k + n + m <= 4 + Len(body)
    <2>1. Len(body) \in Nat
      OBVIOUS
    <2>2. QED
      BY <1>1, <1>5, <2>1
  <1>11. QED
    BY <1>2, <1>4, <1>7, <1>9, <1>10 DEF rest, SplitAt

\* The size of the message is received whole or not at all, ...
LEMMA ReceiveSizeStep ==
    ASSUME SocketIInv, ReceiveSize
    PROVE  SocketIInv'
  <1>1. Sent
    BY AlreadySent DEF ReceiveSize
  <1>2. PICK body, p :
          /\ body \in Seq(Nat)
          /\ Len(body) < Power[UInt32] /\ HoldsItems(body, Len(body), message, p) /\ Arriving(body, p)
    BY <1>1 DEF Sent
  <1>3. in.max = 0 /\ in.state = "made"
    BY DEF ReceiveSize
  <1>4. OnTheWire(body, 0) /\ taken = <<>>
    BY <1>2, <1>3 DEF Arriving, Readers
  <1>5. /\ in' = Receive(4) /\ wire' = SubSeq(wire, 5, Len(wire))
        /\ UNCHANGED <<out, message, taken>>
    BY DEF ReceiveSize, UInt32
  <1>6. Len(wire) \in Nat
    BY <1>4 DEF OnTheWire
  <1>7. CASE Len(wire) >= 4
    <2> DEFINE first == SubSeq(wire, 1, 4)
               rest == SubSeq(wire, 4 + 1, Len(wire))
               h == Hton(UInt32, Len(body))
    <2>1. /\ first \in Seq(Nat) /\ Len(first) = 4
          /\ \A i \in 1 .. 4 : first[i] = Frame(body, 0 + i)
          /\ rest \in Seq(Nat) /\ 0 + 4 + Len(rest) <= 4 + Len(body)
          /\ \A i \in 1 .. Len(rest) : rest[i] = Frame(body, 0 + 4 + i)
      <3>1. 0 \in Nat /\ 4 \in Nat /\ 4 <= Len(wire)
        BY <1>6, <1>7
      <3>2. QED
        <4>1. body \in Seq(Nat) /\ OnTheWire(body, 0)
          BY <1>2, <1>4
        <4>2. SplitAt(body, 0, 4)
          BY <3>1, <4>1, WireSplit
        <4>3. QED
          BY <4>2 DEF SplitAt
    <2>2. wire' = rest
      BY <1>5
    <2>3. h \in Seq(Nat) /\ Len(h) = 4
      <3>1. Len(body) \in Int
        BY <1>2
      <3>2. QED
        BY <3>1, HtonType DEF UInt32
    <2>4. in' = [max |-> 4, size |-> 4, pos |-> 0, mem |-> first, state |-> "made"]
      <3>1. Receive(4) = [SocketBuffer(4) EXCEPT !.mem = first, !.size = 4]
        BY <1>6, <1>7 DEF Receive
      <3> HIDE DEF first
      <3>2. QED
        BY <1>5, <3>1 DEF SocketBuffer
    <2> HIDE DEF first, rest
    <2>5. first = h
      <3>1. \A i \in 1 .. 4 : 0 + i = i /\ i <= 4
        OBVIOUS
      <3>2. \A i \in 1 .. 4 : first[i] = h[i]
        BY <2>1, <3>1 DEF Frame
      <3> HIDE DEF h
      <3>3. QED
        BY <2>1, <2>3, <3>2, SeqEqual
    <2>6. OnTheWire(body, 4)'
      <3>1. /\ wire' \in Seq(Nat) /\ 4 + Len(wire') <= 4 + Len(body)
            /\ \A i \in 1 .. Len(wire') : wire'[i] = Frame(body, 4 + i)
        BY <2>1, <2>2
      <3>2. QED
        BY <3>1 DEF OnTheWire
    <2>7. Arriving(body, p)'
      BY <1>4, <1>5, <2>4, <2>5, <2>6 DEF Arriving
    <2>8. QED
      BY <1>1, <1>2, <1>5, <2>7, StillSent
  <1>8. CASE ~(Len(wire) >= 4)
    <2>1. in' = [SocketBuffer(4) EXCEPT !.state = "closed"]
      BY <1>5, <1>8 DEF Receive
    <2>2. in'.state = "closed" /\ in'.pos = 0 /\ in'.max \in Nat
      BY <2>1 DEF SocketBuffer
    <2>3. Arriving(body, p)'
      BY <1>4, <1>5, <2>2 DEF Arriving
    <2>4. QED
      BY <1>1, <1>2, <1>5, <2>3, StillSent
  <1>9. QED
    BY <1>7, <1>8

\* ... and so is the message, which fills a buffer of the size that was received.
LEMMA ReceiveBodyStep ==
    ASSUME SocketIInv, ReceiveBody
    PROVE  SocketIInv'
  <1>1. /\ in.max = 4 /\ in.pos = 0 /\ in.state = "made"
        /\ in' = [Receive(ReadInt(in, UInt32).v) EXCEPT !.state = IF @ = "made" THEN "body" ELSE @]
        /\ UNCHANGED <<out, message, taken, wire>>
    BY DEF ReceiveBody, UInt32
  <1>2. Sent
    <2>1. in # SocketBuffer(0)
      BY <1>1 DEF SocketBuffer
    <2>2. QED
      BY <2>1, AlreadySent
  <1>3. PICK body, p :
          /\ body \in Seq(Nat)
          /\ Len(body) < Power[UInt32] /\ HoldsItems(body, Len(body), message, p) /\ Arriving(body, p)
    BY <1>2 DEF Sent
  <1> DEFINE k == Len(body)
             h == Hton(UInt32, k)
  <1>4. /\ in = [max |-> 4, size |-> 4, pos |-> 0, mem |-> h, state |-> "made"]
        /\ OnTheWire(body, 4) /\ taken = <<>>
    BY <1>1, <1>3 DEF Arriving, Readers, SocketBuffer
  <1>5. k \in Nat /\ k \in 0 .. Power[4] - 1
    <2>1. Power[4] \in Nat /\ k \in Nat
      BY PowerPositive, SMTT(30)
    <2>2. QED
      BY <1>3, <2>1 DEF UInt32
  <1>6. h \in Seq(Nat) /\ Len(h) = 4 /\ Ntoh(h) = k
    BY <1>5, HtonType, NtohOfHton DEF UInt32
  <1> HIDE DEF h
  <1>7. ReadInt(in, UInt32).v = k
    <2>1. FitsIn(in, UInt32) /\ SubSeq(in.mem, in.pos + 1, in.pos + UInt32) = SubSeq(h, 1, 4)
      BY <1>4 DEF FitsIn, UInt32
    <2>2. SubSeq(h, 1, 4) \in Seq(Nat) /\ Len(SubSeq(h, 1, 4)) = 4
          /\ \A i \in 1 .. 4 : SubSeq(h, 1, 4)[i] = h[i]
      <3>1. 4 \in Nat /\ 4 <= Len(h)
        BY <1>6
      <3>2. QED
        BY <1>6, <3>1, Prefixed
    <2>3. SubSeq(h, 1, 4) = h
      <3> DEFINE g == SubSeq(h, 1, 4)
      <3> HIDE DEF g
      <3>1. g \in Seq(Nat) /\ Len(g) = 4 /\ \A i \in 1 .. 4 : g[i] = h[i]
        BY <2>2 DEF g
      <3>2. g = h
        BY <1>6, <3>1, SeqEqual
      <3>3. QED
        BY <3>2 DEF g
    <2>4. ReadInt(in, UInt32).v = Ntoh(SubSeq(in.mem, in.pos + 1, in.pos + UInt32))
      BY <2>1 DEF ReadInt
    <2>5. QED
      BY <1>6, <2>1, <2>3, <2>4
  <1>8. in' = [Receive(k) EXCEPT !.state = IF @ = "made" THEN "body" ELSE @]
    BY <1>1, <1>7
  <1>9. Len(wire) \in Nat /\ 4 + Len(wire) <= 4 + k
    BY <1>4 DEF OnTheWire
  <1>10. CASE k > 0 /\ Len(wire) >= k
    <2> DEFINE first == SubSeq(wire, 1, k)
    <2>1. first \in Seq(Nat) /\ Len(first) = k /\ \A i \in 1 .. k : first[i] = Frame(body, 4 + i)
      <3>1. 4 \in Nat /\ k <= Len(wire)
        BY <1>5, <1>9, <1>10
      <3>2. QED
        <4>1. SplitAt(body, 4, k)
          BY <1>3, <1>4, <1>5, <3>1, WireSplit
        <4>2. QED
          BY <4>1 DEF SplitAt
    <2>2. Receive(k) = [SocketBuffer(k) EXCEPT !.mem = first, !.size = k]
      BY <1>10 DEF Receive
    <2> HIDE DEF first
    <2>3. in' = [max |-> k, size |-> k, pos |-> 0, mem |-> first, state |-> "body"]
      BY <1>8, <2>2 DEF SocketBuffer
    <2>4. first = body
      <3>1. \A i \in 1 .. k : ~(4 + i <= 4) /\ (4 + i) - 4 = i
        BY <1>5
      <3>2. \A i \in 1 .. k : first[i] = body[i]
        BY <2>1, <3>1 DEF Frame
      <3>3. QED
        BY <1>3, <2>1, <3>2
    <2>5. in' \in Readers(body)
      BY <1>5, <2>3, <2>4 DEF Readers
    <2>6. p[0] = 0
      BY <1>3 DEF HoldsItems
    <2>7. /\ taken' = <<>> /\ taken' \in Seq(MessageTypes \X (Nat \cup Seq(Nat)))
          /\ DOMAIN taken' = {} /\ Len(taken') = 0
      <3>1. \A S : <<>> \in Seq(S)
        OBVIOUS
      <3>2. DOMAIN <<>> = {} /\ Len(<<>>) = 0
        OBVIOUS
      <3>3. QED
        BY <1>1, <1>4, <3>1, <3>2
    <2>8. in'.state = "body" /\ in'.pos = p[Len(taken')]
      BY <2>3, <2>6, <2>7
    <2>9. Arriving(body, p)'
      BY <2>5, <2>7, <2>8, Zenon DEF Arriving
    <2>10. QED
      BY <1>1, <1>2, <1>3, <2>9, StillSent
  <1>11. CASE ~(k > 0 /\ Len(wire) >= k)
    <2>1. Receive(k) = [SocketBuffer(k) EXCEPT !.state = "closed"]
      BY <1>11 DEF Receive
    <2>2. in'.state = "closed" /\ in'.pos = 0 /\ in'.max \in Nat
      BY <1>5, <1>8, <2>1 DEF SocketBuffer
    <2>3. Arriving(body, p)'
      BY <1>1, <1>4, <2>2 DEF Arriving
    <2>4. QED
      BY <1>1, <1>2, <1>3, <2>3, StillSent
  <1>12. QED
    BY <1>10, <1>11

-----------------------------------------------------------------------------
\* The parts of the reader's buffer.
LEMMA ReaderParts ==
    ASSUME NEW body \in Seq(Nat), NEW b \in Readers(body)
    PROVE  /\ b.max = Len(body) /\ b.mem = body /\ b.pos \in Nat /\ b.pos <= b.max /\ Len(body) \in Nat
           /\ b.state \in {"body", "undefined"}
  BY DEF Readers

\* The reader's buffer at another position.
LEMMA ReaderMoved ==
    ASSUME NEW body \in Seq(Nat), NEW b \in Readers(body), NEW e \in Nat, e <= Len(body)
    PROVE  /\ [b EXCEPT !.pos = e] \in Readers(body) /\ [b EXCEPT !.pos = e].pos = e
           /\ [b EXCEPT !.pos = e].state = b.state
  <1>1. Len(body) \in Nat /\ e \in 0 .. Len(body)
    OBVIOUS
  <1>2. QED
    BY <1>1 DEF Readers

\* Of any bytes a number is read, or 0 if they are too few.
LEMMA AnyNumberRead ==
    ASSUME NEW body \in Seq(Nat), NEW b \in Readers(body), NEW w \in {1, 2, 4, 8}
    PROVE  /\ ReadInt(b, w).b \in Readers(body) /\ ReadInt(b, w).v \in Nat
           /\ ReadInt(b, w).b.state = b.state
  <1>1. /\ b.max = Len(body) /\ b.mem = body /\ b.pos \in Nat /\ b.pos <= b.max /\ Len(body) \in Nat
    BY ReaderParts
  <1>2. CASE FitsIn(b, w)
    <2> DEFINE part == SubSeq(body, b.pos + 1, b.pos + w)
               c == [b EXCEPT !.pos = b.pos + w]
    <2>1. b.pos + w <= Len(body) /\ b.pos + w \in Nat /\ w \in Nat
      BY <1>1, <1>2 DEF FitsIn
    <2>2. part \in Seq(Nat)
      BY <1>1, <2>1, Middle
    <2>3. c \in Readers(body) /\ c.state = b.state
      BY <2>1, ReaderMoved
    <2>4. ReadInt(b, w) = [b |-> c, v |-> Ntoh(part)]
      BY <1>1, <1>2 DEF ReadInt
    <2> HIDE DEF part, c
    <2>5. Ntoh(part) \in Nat
      BY <2>2, NtohType
    <2>6. QED
      BY <2>3, <2>4, <2>5
  <1>3. CASE ~FitsIn(b, w)
    BY <1>3 DEF ReadInt
  <1>4. QED
    BY <1>2, <1>3

\* Whatever is asked for, the position stays in the buffer.
LEMMA AnyItemRead ==
    ASSUME NEW body \in Seq(Nat), NEW b \in Readers(body), NEW type \in MessageTypes
    PROVE  ReadItem(b, type).b \in Readers(body) /\ ReadItem(b, type).v \in Nat \cup Seq(Nat)
  <1>1. CASE type # "string"
    <2>1. Bytes(type) \in {1, 2, 4, 8}
      BY <1>1 DEF Bytes, MessageTypes, UInt8, UInt16, UInt32
    <2>2. ReadItem(b, type) = ReadInt(b, Bytes(type))
      BY <1>1 DEF ReadItem
    <2>3. QED
      BY <2>1, <2>2, AnyNumberRead
  <1>2. CASE type = "string"
    <2> DEFINE n == ReadInt(b, UInt32)
               c == n.b
               left == c.max - c.pos
               m == IF n.v > left THEN left - 1 ELSE n.v
               e == c.pos + m
               str == SubSeq(body, c.pos + 1, c.pos + m)
    <2>1. c \in Readers(body) /\ n.v \in Nat
      BY AnyNumberRead DEF UInt32
    <2>2. ReadItem(b, type)
            = CASE n.v = 0 -> [b |-> c, v |-> <<>>]
                [] n.v # 0 /\ n.v > left /\ left = 0 -> [b |-> [c EXCEPT !.state = "undefined"], v |-> <<>>]
                [] OTHER -> [b |-> [c EXCEPT !.pos = @ + m], v |-> SubSeq(c.mem, c.pos + 1, c.pos + m)]
      BY <1>2 DEF ReadItem, ReadString
    <2> HIDE DEF n
    <2>3. /\ c.max = Len(body) /\ c.mem = body /\ c.pos \in Nat /\ c.pos <= c.max /\ Len(body) \in Nat
      BY <2>1, ReaderParts
    <2>4. \A S : <<>> \in Seq(S)
      OBVIOUS
    <2>5. CASE n.v = 0
      <3>1. ReadItem(b, type) = [b |-> c, v |-> <<>>]
        BY <2>2, <2>5
      <3>2. ReadItem(b, type).b = c /\ ReadItem(b, type).v = <<>>
        BY <3>1
      <3>3. <<>> \in Seq(Nat)
        BY <2>4
      <3>4. QED
        BY <2>1, <3>2, <3>3, Zenon
    <2>6. CASE n.v # 0 /\ n.v > left /\ left = 0
      <3>1. ReadItem(b, type) = [b |-> [c EXCEPT !.state = "undefined"], v |-> <<>>]
        BY <2>2, <2>6
      <3> HIDE DEF c
      <3>2. [c EXCEPT !.state = "undefined"] \in Readers(body)
        BY <2>1 DEF Readers
      <3>3. QED
        BY <2>4, <3>1, <3>2
    <2>7. CASE n.v # 0 /\ ~(n.v > left /\ left = 0)
      <3>1. ReadItem(b, type) = [b |-> [c EXCEPT !.pos = @ + m], v |-> SubSeq(c.mem, c.pos + 1, c.pos + m)]
        BY <2>2, <2>7
      <3>2. m \in Nat /\ c.pos + m <= Len(body)
        BY <2>1, <2>3, <2>7, SMTT(30)
      <3> HIDE DEF c, m
      <3>3. [c EXCEPT !.pos = @ + m] = [c EXCEPT !.pos = e] /\ e \in Nat /\ e <= Len(body)
        BY <2>3, <3>2
      <3>4. str \in Seq(Nat)
        BY <2>3, <3>2, Middle
      <3>5. [c EXCEPT !.pos = e] \in Readers(body)
        BY <2>1, <3>3, ReaderMoved
      <3>6. ReadItem(b, type) = [b |-> [c EXCEPT !.pos = e], v |-> str]
        BY <2>3, <3>1, <3>3
      <3> HIDE DEF e, str
      <3>7. QED
        BY <3>4, <3>5, <3>6
    <2>8. QED
      BY <2>5, <2>6, <2>7
  <1>3. QED
    BY <1>1, <1>2

\* A number that is held is read, ...
LEMMA HeldNumberRead ==
    ASSUME NEW body \in Seq(Nat), NEW b \in Readers(body), NEW w \in {1, 2, 4, 8},
           NEW m \in 0 .. Power[w] - 1, NEW e \in Nat, e <= Len(body),
           HoldsBytes(body, b.pos, e, Hton(w, m))
    PROVE  ReadInt(b, w) = [b |-> [b EXCEPT !.pos = e], v |-> m] /\ e = b.pos + w
  <1> DEFINE h == Hton(w, m)
             r == b.pos
             part == SubSeq(body, r + 1, r + w)
  <1>1. /\ b.max = Len(body) /\ b.mem = body /\ r \in Nat /\ Len(body) \in Nat /\ w \in Nat
    BY ReaderParts
  <1>2. h \in Seq(Nat) /\ Len(h) = w /\ Ntoh(h) = m
    <2>1. m \in Int
      BY PowerPositive
    <2>2. QED
      BY <2>1, HtonType, NtohOfHton
  <1> HIDE DEF h, r
  <1>3. e = r + w /\ \A i \in 1 .. w : body[r + i] = h[i]
    BY <1>2 DEF HoldsBytes, h, r
  <1>4. r + w <= Len(body)
    BY <1>3
  <1>5. part \in Seq(Nat) /\ Len(part) = w /\ \A i \in 1 .. w : part[i] = body[r + i]
    BY <1>1, <1>4, Middle, SMTT(30)
  <1> HIDE DEF part
  <1>6. part = h
    <2>1. \A i \in 1 .. w : part[i] = h[i]
      BY <1>3, <1>5
    <2>2. QED
      BY <1>2, <1>5, <2>1, SeqEqual
  <1>7. FitsIn(b, w)
    BY <1>1, <1>4 DEF FitsIn, r
  <1>8. ReadInt(b, w) = [b |-> [b EXCEPT !.pos = @ + w], v |-> Ntoh(part)]
    BY <1>1, <1>7 DEF ReadInt, part, r
  <1>9. [b EXCEPT !.pos = @ + w] = [b EXCEPT !.pos = e]
    BY <1>3 DEF r
  <1>10. Ntoh(part) = m
    BY <1>2, <1>6
  <1>11. QED
    BY <1>3, <1>8, <1>9, <1>10 DEF r

\* ... and so is a string: nothing of it is cut off.
LEMMA HeldItemRead ==
    ASSUME NEW body \in Seq(Nat), Len(body) < Power[UInt32], NEW b \in Readers(body),
           NEW item \in Messages, NEW e \in Nat, e <= Len(body),
           HoldsItem(item[1], body, b.pos, e, item[2])
    PROVE  ReadItem(b, item[1]) = [b |-> [b EXCEPT !.pos = e], v |-> item[2]]
  <1>1. CASE item[1] # "string"
    <2> DEFINE w == Bytes(item[1])
    <2>1. w \in {1, 2, 4, 8} /\ item[2] \in 0 .. Power[w] - 1
      BY <1>1, ItemTyped
    <2>2. HoldsBytes(body, b.pos, e, Hton(w, item[2])) /\ ReadItem(b, item[1]) = ReadInt(b, w)
      BY <1>1 DEF HoldsItem, ReadItem
    <2> HIDE DEF w
    <2>3. QED
      BY <2>1, <2>2, HeldNumberRead, SMTT(30)
  <1>2. CASE item[1] = "string"
    <2> DEFINE str == item[2]
               k == Len(str)
               m == b.pos + 4
               c == [b EXCEPT !.pos = m]
               n == ReadInt(b, UInt32)
               left == n.b.max - n.b.pos
    <2>1. str \in Seq(Nat) /\ k \in Nat
      BY <1>2, ItemTyped
    <2>2. HoldsBytes(body, b.pos, m, Hton(4, k)) /\ HoldsBytes(body, m, e, str)
      BY <1>2 DEF HoldsItem, UInt32
    <2>3. b.pos \in Nat /\ Len(body) \in Nat /\ m \in Nat
      BY ReaderParts
    <2>4. e = m + k /\ \A i \in 1 .. k : body[m + i] = str[i]
      BY <2>2 DEF HoldsBytes
    <2>5. ReadItem(b, item[1])
            = CASE n.v = 0 -> [b |-> n.b, v |-> <<>>]
                [] n.v # 0 /\ n.v > left /\ left = 0 -> [b |-> [n.b EXCEPT !.state = "undefined"], v |-> <<>>]
                [] OTHER -> [b |-> [n.b EXCEPT !.pos = @ + (IF n.v > left THEN left - 1 ELSE n.v)],
                             v |-> SubSeq(n.b.mem, n.b.pos + 1, n.b.pos + (IF n.v > left THEN left - 1 ELSE n.v))]
      BY <1>2 DEF ReadItem, ReadString
    <2> HIDE DEF k, m, n, str
    <2>6. m <= Len(body) /\ k <= Len(body) - m
      BY <2>1, <2>3, <2>4
    <2>7. k \in 0 .. Power[4] - 1
      <3>1. Power[4] \in Nat /\ Len(body) < Power[4]
        BY PowerPositive, SMTT(30) DEF UInt32
      <3>2. QED
        BY <2>1, <2>3, <2>6, <3>1
    <2>8. n = [b |-> c, v |-> k]
      BY <2>2, <2>3, <2>6, <2>7, HeldNumberRead DEF n, UInt32
    <2>9. c \in Readers(body) /\ c.pos = m /\ c.max = Len(body) /\ c.mem = body
      <3>1. c \in Readers(body) /\ c.pos = m
        BY <2>3, <2>6, ReaderMoved
      <3> HIDE DEF c
      <3>2. QED
        BY <3>1, ReaderParts
    <2> HIDE DEF c
    <2>10. n.b = c /\ n.v = k /\ left = Len(body) - m
      BY <2>8, <2>9
    <2> HIDE DEF left
    <2>11. ~(k > left) /\ ~(n.v > left)
      BY <2>1, <2>3, <2>6, <2>10
    <2>12. [c EXCEPT !.pos = e] = [b EXCEPT !.pos = e]
      BY DEF c
    <2>13. CASE k = 0
      <3>1. ReadItem(b, item[1]) = [b |-> c, v |-> <<>>]
        BY <2>5, <2>10, <2>13
      <3>2. str = <<>> /\ e = m
        BY <2>1, <2>3, <2>4, <2>13 DEF k
      <3>3. c = [b EXCEPT !.pos = e]
        BY <3>2 DEF c
      <3>4. QED
        BY <3>1, <3>2, <3>3 DEF str
    <2>14. CASE k # 0
      <3> DEFINE part == SubSeq(body, m + 1, m + k)
      <3>1. ReadItem(b, item[1]) = [b |-> [c EXCEPT !.pos = @ + k], v |-> SubSeq(c.mem, c.pos + 1, c.pos + k)]
        BY <2>5, <2>10, <2>11, <2>14
      <3>2. [c EXCEPT !.pos = @ + k] = [c EXCEPT !.pos = e]
        BY <2>4, <2>9
      <3>3. m + k <= Len(body)
        BY <2>4
      <3>4. part \in Seq(Nat) /\ Len(part) = k /\ \A i \in 1 .. k : part[i] = body[m + i]
        BY <2>1, <2>3, <3>3, Middle
      <3>5. SubSeq(c.mem, c.pos + 1, c.pos + k) = part
        BY <2>9
      <3> HIDE DEF part
      <3>6. \A i \in 1 .. k : part[i] = str[i]
        BY <2>4, <3>4
      <3>7. part = str
        BY <2>1, <3>4, <3>6, SeqEqual DEF k
      <3>8. QED
        BY <2>12, <3>1, <3>2, <3>5, <3>7 DEF str
    <2>15. QED
      BY <2>13, <2>14
  <1>3. QED
    BY <1>1, <1>2

-----------------------------------------------------------------------------
\* readByte, readShort, readInt, readString: an item that was sent, if the types agree so
\* far, and something within the buffer in any case.
LEMMA TakeStep ==
    ASSUME SocketIInv, NEW type \in MessageTypes, Take(type)
    PROVE  SocketIInv'
  <1> DEFINE r == ReadItem(in, type)
             V == MessageTypes \X (Nat \cup Seq(Nat))
  <1>1. /\ in.state = "body" /\ in' = r.b /\ taken' = Append(taken, <<type, r.v>>)
        /\ UNCHANGED <<out, message>>
    BY DEF Take
  <1>2. Sent
    <2>1. in # SocketBuffer(0)
      BY <1>1 DEF SocketBuffer
    <2>2. QED
      BY <2>1, AlreadySent
  <1>3. PICK body, p :
          /\ body \in Seq(Nat)
          /\ Len(body) < Power[UInt32] /\ HoldsItems(body, Len(body), message, p) /\ Arriving(body, p)
    BY <1>2 DEF Sent
  <1>4. /\ in \in Readers(body) /\ taken \in Seq(V)
        /\ \A j \in DOMAIN taken : SameTypes(j) => taken[j] = message[j]
        /\ SameTypes(Len(taken)) => in.pos = p[Len(taken)]
    <2>1. /\ in # SocketBuffer(0) /\ in.state # "closed"
          /\ in # [max |-> 4, size |-> 4, pos |-> 0, mem |-> Hton(UInt32, Len(body)), state |-> "made"]
      BY <1>1 DEF SocketBuffer
    <2>2. QED
      BY <1>3, <2>1, Zenon DEF Arriving
  <1>5. r.b \in Readers(body) /\ r.v \in Nat \cup Seq(Nat)
    BY <1>3, <1>4, AnyItemRead
  <1>6. message \in Seq(Messages) /\ Len(message) \in Nat
    BY <1>2 DEF Sent
  <1> HIDE DEF r
  <1>7. PICK n \in Nat : n = Len(taken)
    BY <1>4
  <1>8. /\ taken' \in Seq(V) /\ Len(taken') = n + 1 /\ taken'[n + 1] = <<type, r.v>>
        /\ DOMAIN taken' = 1 .. n + 1 /\ DOMAIN taken = 1 .. n
        /\ \A j \in 1 .. n : taken'[j] = taken[j]
    <2>1. <<type, r.v>> \in V
      BY <1>5
    <2> DEFINE x == <<type, r.v>>
    <2> HIDE DEF x, V
    <2>2. QED
      BY <1>1, <1>4, <1>7, <2>1 DEF x
  <1> HIDE DEF V
  <1>9. \A j \in 1 .. n : SameTypes(j)' => SameTypes(j)
    <2>1. ASSUME NEW j \in 1 .. n, SameTypes(j)' PROVE SameTypes(j)
      <3>1. \A i \in 1 .. j : i \in 1 .. n
        BY <1>8
      <3>2. j <= Len(message) /\ \A i \in 1 .. j : taken'[i][1] = message[i][1]
        BY <1>1, <2>1 DEF SameTypes
      <3>3. QED
        BY <1>8, <3>1, <3>2 DEF SameTypes
    <2>2. QED
      BY <2>1
  <1>10. ASSUME SameTypes(n + 1)'
        PROVE  taken'[n + 1] = message'[n + 1] /\ in'.state = "body" /\ in'.pos = p[n + 1]
    <2> DEFINE item == message[n + 1]
               e == p[n + 1]
    <2>1. n + 1 <= Len(message) /\ \A i \in 1 .. n + 1 : taken'[i][1] = message[i][1]
      BY <1>1, <1>10 DEF SameTypes
    <2>2. SameTypes(n)
      <3>1. n <= Len(message) /\ \A i \in 1 .. n : i \in 1 .. n + 1
        BY <1>6, <1>8, <2>1
      <3>2. QED
        BY <1>8, <2>1, <3>1 DEF SameTypes
    <2>3. n + 1 \in 1 .. Len(message) /\ (n + 1) - 1 = n /\ n + 1 \in 1 .. n + 1
      BY <1>6, <1>8, <2>1
    <2>4. /\ item \in Messages /\ e \in Nat /\ e <= Len(body)
          /\ HoldsItem(item[1], body, p[n], e, item[2])
      <3>1. Len(body) \in Nat
        BY <1>3
      <3>2. QED
        BY <1>3, <1>6, <2>3, <3>1, ItemBounds
    <2>5. item[1] = type
      <3>1. taken'[n + 1][1] = message[n + 1][1]
        BY <2>1, <2>3
      <3>2. QED
        BY <1>8, <3>1
    <2>6. in.pos = p[n]
      BY <1>4, <1>7, <2>2
    <2> HIDE DEF item, e
    <2>7. HoldsItem(item[1], body, in.pos, e, item[2])
      BY <2>4, <2>6
    <2>8. r = [b |-> [in EXCEPT !.pos = e], v |-> item[2]]
      BY <1>3, <1>4, <2>4, <2>5, <2>7, HeldItemRead DEF r
    <2>9. in' = [in EXCEPT !.pos = e] /\ r.v = item[2]
      BY <1>1, <2>8
    <2>10. in'.pos = e /\ in'.state = "body"
      BY <1>1, <1>4, <2>9 DEF Readers
    <2>11. taken'[n + 1] = item
      BY <1>8, <2>4, <2>5, <2>9, ItemTyped
    <2>12. QED
      BY <1>1, <2>10, <2>11 DEF item, e
  <1>11. \A j \in DOMAIN taken' : SameTypes(j)' => taken'[j] = message'[j]
    <2>1. ASSUME NEW j \in 1 .. n + 1, SameTypes(j)' PROVE taken'[j] = message'[j]
      <3>1. CASE j = n + 1
        BY <1>10, <2>1, <3>1
      <3>2. CASE j # n + 1
        <4>1. j \in 1 .. n /\ j \in DOMAIN taken
          BY <1>8, <3>2
        <4>2. taken[j] = message[j] /\ taken'[j] = taken[j]
          BY <1>4, <1>8, <1>9, <2>1, <4>1
        <4>3. QED
          BY <1>1, <4>2
      <3>3. QED
        BY <3>1, <3>2
    <2>2. QED
      BY <1>8, <2>1
  <1>12. Arriving(body, p)'
    <2>1. SameTypes(Len(taken))' => in'.state = "body" /\ in'.pos = p[Len(taken')]
      <3>1. SameTypes(Len(taken))' => SameTypes(n + 1)'
        BY <1>8 DEF SameTypes
      <3>2. QED
        BY <1>8, <1>10, <3>1
    <2>2. in' \in Readers(body) /\ taken' \in Seq(V)
      BY <1>1, <1>5, <1>8
    <2>3. QED
      BY <1>11, <2>1, <2>2, Zenon DEF Arriving, V
  <1>13. QED
    BY <1>1, <1>2, <1>3, <1>12, StillSent

\* Every step of sender and reader keeps the invariant.
LEMMA SocketIInvInductive == SocketIInv /\ [BufferNext]_bufferVars => SocketIInv'
  <1> SUFFICES ASSUME SocketIInv, [BufferNext]_bufferVars
               PROVE  SocketIInv'
    OBVIOUS
  <1>1. CASE UNCHANGED bufferVars
    <2>1. /\ out' = out /\ kept' = kept /\ wire' = wire /\ in' = in /\ message' = message
          /\ taken' = taken
      BY <1>1 DEF bufferVars
    <2>2. Composing => Composing'
      BY <2>1 DEF Composing
    <2>3. Sent => Sent'
      BY <2>1 DEF Sent, Arriving, OnTheWire, SameTypes
    <2>4. QED
      BY <2>2, <2>3 DEF SocketIInv
  <1>2. CASE BufferNext
    BY <1>2, PutStep, CopyBufferStep, PutBufferStep, SendStep, ReceiveSizeStep, ReceiveBodyStep, TakeStep
       DEF BufferNext
  <1>3. QED
    BY <1>1, <1>2

\* For every base of the bytes, any sizes and any messages: what the reader takes from its
\* SocketBuffer is, item by item, what was appended to the sender's, as long as it asks for the
\* same types, whatever was dropped, copied or cut off; no position leaves its buffer, and the
\* string that would be read from outside is asked for by other types only (socketbuffer.cxx).
THEOREM MessagesArrive == BufferSpec => []MessageRead
  <1>1. SocketIInv => MessageRead
    <2>1. ASSUME Composing PROVE MessageRead
      <3>1. in.state = "made" /\ in.pos = 0 /\ in.max = 0 /\ DOMAIN taken = {}
        BY <2>1 DEF Composing, SocketBuffer
      <3>2. \A i \in 1 .. 2 : out[i].pos <= out[i].max
        <4>1. \A i \in 1 .. 2 : out[i] \in OutBuffers
          BY <2>1 DEF Composing
        <4>2. QED
          BY <4>1, OutSizes, BufferParts DEF OutBuffers
      <3>3. QED
        BY <3>1, <3>2 DEF MessageRead
    <2>2. ASSUME Sent PROVE MessageRead
      <3>1. \A i \in 1 .. 2 : out[i].pos <= out[i].max
        BY <2>2 DEF Sent, Unsent, SocketBuffer
      <3>2. PICK body, p : body \in Seq(Nat) /\ Arriving(body, p)
        BY <2>2 DEF Sent
      <3>3. CASE taken = <<>> /\ in.pos = 0 /\ in.max \in Nat /\ in.state # "undefined"
        <4>1. DOMAIN taken = {} /\ in.pos <= in.max
          BY <3>3
        <4>2. QED
          BY <3>1, <3>3, <4>1 DEF MessageRead
      <3>4. CASE /\ in \in Readers(body)
                 /\ \A n \in DOMAIN taken : SameTypes(n) => taken[n] = message[n]
                 /\ SameTypes(Len(taken)) => in.state = "body"
        <4>1. in.pos <= in.max
          BY <3>2, <3>4, ReaderParts
        <4>2. in.state = "undefined" => ~SameTypes(Len(taken))
          BY <3>4
        <4>3. QED
          BY <3>1, <3>4, <4>1, <4>2 DEF MessageRead
      <3>5. QED
        BY <3>2, <3>3, <3>4 DEF Arriving, SocketBuffer
    <2>3. QED
      BY <2>1, <2>2 DEF SocketIInv
  <1>2. QED
    BY <1>1, BufferInitEstablishes, SocketIInvInductive, PTL DEF BufferSpec

=============================================================================
