------------------------------- MODULE Sockets -------------------------------
(***************************************************************************)
(* log4cplus AbstractSocket, Socket and ServerSocket over the functions of *)
(* socket-win32.cxx, composed with init_winsock() (module WinSock).  A     *)
(* socket object owns its handle: copying and assigning take the handle    *)
(* from the right-hand side.  The system gives a closed handle's number to *)
(* the next socket, so that closing a handle twice would close a stranger. *)
(*                                                                         *)
(* While a thread constructs an object, or accepts on one, no other thread *)
(* uses it; threads meet in init_winsock() and in the system's handles.    *)
(* The members state and err, which no code reads, are left out.           *)
(***************************************************************************)
EXTENDS WinSock, FiniteSets

CONSTANTS Vars,             \* the socket objects' storage
          Handles,          \* the handle numbers the system gives out
          INVALID_SOCKET

ASSUME SocketsAssumption == INVALID_SOCKET \notin Handles /\ INVALID_SOCKET \notin Vars

VARIABLES live,     \* the constructed objects
          sock,     \* sock[v]: the member sock
          open,     \* the handles open in the system
          call,     \* call[t]: the constructor or accept() that t is in
          leaked    \* history: the handles that a failing function has left open

socketVars == <<live, sock, open, call, leaked>>
vars == <<initVars, socketVars>>

Handle == Handles \cup {INVALID_SOCKET}

\* var is the object under construction, on the server object that accepts, h the
\* local variable sock of openSocket and connectSocket.
Call == [fn : {"none", "openSocket", "connectSocket", "acceptSocket"},
         var : Vars \cup {INVALID_SOCKET}, on : Vars \cup {INVALID_SOCKET}, h : Handle]

NoCall == [fn |-> "none", var |-> INVALID_SOCKET, on |-> INVALID_SOCKET, h |-> INVALID_SOCKET]

TypeOK == /\ InitTypeOK
          /\ live \subseteq Vars
          /\ sock \in [Vars -> Handle]
          /\ open \subseteq Handles
          /\ call \in [Threads -> Call]
          /\ leaked \subseteq Handles
          /\ \A v \in Vars \ live : sock[v] = INVALID_SOCKET

Init == /\ InitWinSock
        /\ live = {} /\ open = {} /\ leaked = {}
        /\ sock = [v \in Vars |-> INVALID_SOCKET]
        /\ call = [t \in Threads |-> NoCall]

Used(v) == \E t \in Threads : v \in {call[t].var, call[t].on}
Fresh(v) == v \notin live /\ ~Used(v)
Usable(v) == v \in live /\ ~Used(v)

-----------------------------------------------------------------------------
(* The constructors and accept(). *)

Begin(t, fn, v, s) ==
    /\ Enter(t)
    /\ call' = [call EXCEPT ![t] = [fn |-> fn, var |-> v, on |-> s, h |-> INVALID_SOCKET]]
    /\ UNCHANGED <<live, sock, open, leaked>>

Construct(t, v) == /\ Fresh(v)
                   /\ \E fn \in {"openSocket", "connectSocket"} : Begin(t, fn, v, INVALID_SOCKET)

Accept(t, v, s) == Fresh(v) /\ Usable(s) /\ Begin(t, "acceptSocket", v, s)

Initialise(t) == InitStep(t) /\ UNCHANGED socketVars

\* init_winsock() throws: the object is not constructed.
Throw(t) == /\ pc[t] = "threw" /\ Leave(t)
            /\ call' = [call EXCEPT ![t] = NoCall]
            /\ UNCHANGED <<live, sock, open, leaked>>

\* The object takes what the function has returned.
Return(t, h) == /\ Leave(t)
                /\ live' = live \cup {call[t].var}
                /\ sock' = [sock EXCEPT ![call[t].var] = h]
                /\ call' = [call EXCEPT ![t] = NoCall]

InFunction(t, fns) == pc[t] = "ready" /\ call[t].fn \in fns

\* ::socket().  Without Winsock it fails.
Socket(t) == /\ InFunction(t, {"openSocket", "connectSocket"}) /\ call[t].h = INVALID_SOCKET
             /\ \/ /\ startups = 1
                   /\ \E h \in Handles \ open :
                         /\ call' = [call EXCEPT ![t].h = h]
                         /\ open' = open \cup {h}
                   /\ UNCHANGED <<initVars, live, sock, leaked>>
                \/ Return(t, INVALID_SOCKET) /\ UNCHANGED <<open, leaked>>

\* ::accept() on the server's handle; a server that is not open gives no socket.
AcceptReturn(t) == /\ InFunction(t, {"acceptSocket"})
                   /\ \/ /\ sock[call[t].on] # INVALID_SOCKET /\ startups = 1
                         /\ \E h \in Handles \ open : Return(t, h) /\ open' = open \cup {h}
                      \/ Return(t, INVALID_SOCKET) /\ UNCHANGED open
                   /\ UNCHANGED leaked

Opened(t) == InFunction(t, {"openSocket", "connectSocket"}) /\ call[t].h # INVALID_SOCKET

\* bind() and listen(), or connect() and setsockopt(), succeed.
SetUp(t) == Opened(t) /\ Return(t, call[t].h) /\ UNCHANGED <<open, leaked>>

\* bind() or listen() fails, or the address is bad: the handle is left open.
SetUpLeaks(t) == /\ Opened(t)
                 /\ Return(t, INVALID_SOCKET)
                 /\ leaked' = IF exited THEN leaked ELSE leaked \cup {call[t].h}
                 /\ UNCHANGED open

\* connect() or setsockopt() fails: closesocket().
ConnectFails(t) == /\ Opened(t) /\ call[t].fn = "connectSocket"
                   /\ Return(t, INVALID_SOCKET)
                   /\ open' = open \ {call[t].h}
                   /\ UNCHANGED leaked

-----------------------------------------------------------------------------
(* The other operations of AbstractSocket, each by a thread of its own. *)

\* close(), also by read() and write() when they fail.
Close(v) == /\ Usable(v) /\ sock[v] # INVALID_SOCKET
            /\ open' = open \ {sock[v]}
            /\ sock' = [sock EXCEPT ![v] = INVALID_SOCKET]
            /\ UNCHANGED <<initVars, live, call, leaked>>

\* ~AbstractSocket.
Destroy(v) == /\ Usable(v)
              /\ live' = live \ {v}
              /\ open' = open \ {sock[v]}
              /\ sock' = [sock EXCEPT ![v] = INVALID_SOCKET]
              /\ UNCHANGED <<initVars, call, leaked>>

CopyShares(v, w) ==   \* a slip: copy() leaves the right-hand side its handle
    /\ Fresh(v) /\ Usable(w)
    /\ live' = live \cup {v}
    /\ sock' = [sock EXCEPT ![v] = sock[w]]
    /\ UNCHANGED <<initVars, open, call, leaked>>

\* v is copy-constructed from w.
Copy(v, w) == /\ Fresh(v) /\ Usable(w)
              /\ live' = live \cup {v}
              /\ sock' = [sock EXCEPT ![v] = sock[w], ![w] = INVALID_SOCKET]
              /\ UNCHANGED <<initVars, open, call, leaked>>

\* v = w; the handle v had is closed.
Assign(v, w) == /\ Usable(v) /\ Usable(w) /\ v # w
                /\ open' = open \ {sock[v]}
                /\ sock' = [sock EXCEPT ![v] = sock[w], ![w] = INVALID_SOCKET]
                /\ UNCHANGED <<initVars, live, call, leaked>>

\* WSACleanup at exit closes what is open.
ExitAll == Exit /\ open' = (IF startups' = 0 THEN {} ELSE open)
                /\ leaked' = (IF startups' = 0 THEN {} ELSE leaked)
                /\ UNCHANGED <<live, sock, call>>

Step(t) == Initialise(t) \/ Throw(t) \/ Socket(t) \/ AcceptReturn(t)
           \/ SetUp(t) \/ SetUpLeaks(t) \/ ConnectFails(t)

Next == \/ \E t \in Threads : \/ Step(t)
                             \/ \E v \in Vars : \/ Construct(t, v)
                                                \/ \E s \in Vars : Accept(t, v, s)
        \/ \E v \in Vars : \/ Close(v) \/ Destroy(v)
                           \/ \E w \in Vars : Copy(v, w) \/ Assign(v, w)
        \/ ExitAll

Spec == Init /\ [][Next]_vars

\* t is in a system call that waits for the peer, for as long as it takes:
\* ::accept() on an open server, or the name lookup and ::connect().
Blocked(t) == \/ InFunction(t, {"acceptSocket"}) /\ sock[call[t].on] # INVALID_SOCKET
              \/ Opened(t) /\ call[t].fn = "connectSocket"

\* A thread inside a constructor or accept() goes on where it waits for nobody but
\* other threads; nothing is assumed of a call that waits for the peer.
Local(t) == ~Blocked(t) /\ Step(t)
FairSpec == Spec /\ \A t \in Threads : WF_vars(Local(t))

-----------------------------------------------------------------------------
(* Correctness. *)

\* Every open handle has one owner, an object, a call in progress or the leak of
\* a failed call, and every owner's handle is open: no sequence of copies and
\* assignments closes a handle twice, loses one, or closes a reused number.
HandlesAccounted == ~exited => \A h \in Handles :
    Cardinality({v \in Vars : sock[v] = h}) + Cardinality({t \in Threads : call[t].h = h})
      + (IF h \in leaked THEN 1 ELSE 0) = IF h \in open THEN 1 ELSE 0

\* A constructor or accept() ends, in an object or in a throw, unless the peer it
\* waits for never answers: no thread is left in init_winsock() by another one
\* that fails to start Winsock, nor by one whose accept() or connect() blocks.
CallsEnd == \A t \in Threads : call[t].fn # "none" ~> call[t].fn = "none" \/ Blocked(t)

=============================================================================
