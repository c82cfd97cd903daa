---------------------------- MODULE SocketBuffers ----------------------------
(***************************************************************************)
(* SocketBuffer (src/log4cplus/socketbuffer.cxx) with Socket::write and    *)
(* Socket::read: a message is put together in a buffer, copied, sent, cut  *)
(* off perhaps, received in a buffer of the reader's size and taken apart. *)
(* The build is the one without UNICODE, so that a character has one byte. *)
(*                                                                         *)
(* A buffer has one position, for reading and writing.  Its memory holds   *)
(* junk where nothing was written.                                         *)
(***************************************************************************)
EXTENDS Naturals, Sequences, SequencesExt, ByteStream

CONSTANTS
    MaxSizes,   \* sizes of the buffers that messages are put together in
    Messages,   \* what may be appended: <<type, value>>
    MaxReads    \* bound: how often is read from a buffer

(* A size is a number of four bytes when it is sent.                       *)
ASSUME SocketBuffersAssumption ==
    MaxSizes \subseteq 0 .. Power[UInt32] - 1 /\ MaxReads \in Nat

VARIABLES
    out,        \* the two buffers of the sender
    kept,       \* history: the items each of them has taken
    wire,       \* the bytes that arrive before the connection is closed
    in,         \* the buffer of the reader
    message,    \* history: the items that were sent
    taken       \* history: the items read

bufferVars == <<out, kept, wire, in, message, taken>>

Junk == 0
SocketBuffer(max) == [max |-> max, size |-> 0, pos |-> 0,
                      mem |-> [i \in 1 .. max |-> Junk], state |-> "made"]

(* Every append drops what does not fit and says nothing.                  *)
FitsIn(b, n) == b.pos + n <= b.max
Store(b, bytes) ==
    LET n == Len(bytes)
    IN  [b EXCEPT !.mem = SubSeq(@, 1, b.pos) \o bytes \o SubSeq(@, b.pos + n + 1, b.max),
                  !.pos = @ + n, !.size = b.pos + n]
AppendInt(b, w, n) == IF FitsIn(b, w) THEN Store(b, Hton(w, n)) ELSE b
AppendStringPart(b, str) ==
    LET c == AppendInt(b, UInt32, Len(str)) IN IF FitsIn(c, Len(str)) THEN Store(c, str) ELSE c
AppendString(b, str) ==
    IF FitsIn(b, UInt32 + Len(str)) THEN Store(AppendInt(b, UInt32, Len(str)), str) ELSE b
AppendBuffer(b, c) == IF FitsIn(b, c.size) THEN Store(b, SubSeq(c.mem, 1, c.size)) ELSE b
AppendSize_t(b, n) == AppendInt(b, UInt32, n)

MessageTypes == {"byte", "short", "int", "string"}
Bytes(type) == CASE type = "byte" -> UInt8 [] type = "short" -> UInt16 [] type = "int" -> UInt32
\* What is appended is of the type that it is appended as.
ASSUME MessagesAssumption ==
    \A item \in Messages :
       /\ item = <<item[1], item[2]>> /\ item[1] \in MessageTypes
       /\ item[2] \in IF item[1] = "string" THEN Seq(Nat) ELSE 0 .. Power[Bytes(item[1])] - 1

Needs(type, v) == IF type = "string" THEN UInt32 + Len(v) ELSE Bytes(type)
AppendItem(b, type, v) ==
    IF type = "string" THEN AppendString(b, v) ELSE AppendInt(b, Bytes(type), v)

(* Numbers that are not there read as 0 and move nothing.                  *)
ReadInt(b, w) ==
    IF FitsIn(b, w) THEN [b |-> [b EXCEPT !.pos = @ + w], v |-> Ntoh(SubSeq(b.mem, b.pos + 1, b.pos + w))]
    ELSE [b |-> b, v |-> 0]

(* A string that is longer than what is left is cut off, one character too *)
(* early; with nothing left the length wraps below 0 and the string is     *)
(* read from outside the buffer.                                           *)
ReadString(b) ==
    LET n == ReadInt(b, UInt32)
        left == n.b.max - n.b.pos
        m == IF n.v > left THEN left - 1 ELSE n.v
    IN  CASE n.v = 0 -> [b |-> n.b, v |-> <<>>]
          [] n.v # 0 /\ n.v > left /\ left = 0 -> [b |-> [n.b EXCEPT !.state = "undefined"], v |-> <<>>]
          [] OTHER -> [b |-> [n.b EXCEPT !.pos = @ + m], v |-> SubSeq(n.b.mem, n.b.pos + 1, n.b.pos + m)]
ReadItem(b, type) == IF type = "string" THEN ReadString(b) ELSE ReadInt(b, Bytes(type))

-----------------------------------------------------------------------------
BufferInit ==
    /\ \E m, n \in MaxSizes : out = <<SocketBuffer(m), SocketBuffer(n)>>
    /\ in = SocketBuffer(0)
    /\ kept = <<<<>>, <<>>>> /\ wire = <<>> /\ message = <<>> /\ taken = <<>>

Put(i, item) ==
    /\ out[i].state = "made"
    /\ out' = [out EXCEPT ![i] = AppendItem(@, item[1], item[2])]
    /\ kept' = IF FitsIn(out[i], Needs(item[1], item[2]))
               THEN [kept EXCEPT ![i] = Append(@, item)] ELSE kept
    /\ UNCHANGED <<wire, in, message, taken>>

(* A copy takes the memory over and leaves the original without any.       *)
CopyBuffer(i) ==
    /\ out[1].state = "made"
    /\ out' = [out EXCEPT ![3 - i] = out[i], ![i] = SocketBuffer(0)]
    /\ kept' = [kept EXCEPT ![3 - i] = kept[i], ![i] = <<>>]
    /\ UNCHANGED <<wire, in, message, taken>>
PutBuffer ==
    /\ out[1].state = "made"
    /\ out' = [out EXCEPT ![1] = AppendBuffer(@, out[2])]
    /\ kept' = IF FitsIn(out[1], out[2].size) THEN [kept EXCEPT ![1] = @ \o kept[2]] ELSE kept
    /\ UNCHANGED <<wire, in, message, taken>>

(* A message goes out behind its size, in a buffer that has room for both, *)
(* and some of it arrives before the connection is closed.                 *)
Send(i, arrive) ==
    LET frame == AppendBuffer(AppendSize_t(SocketBuffer(UInt32 + out[i].size), out[i].size), out[i])
    IN  /\ out[i].state = "made"
        /\ out' = [j \in 1 .. 2 |-> [SocketBuffer(0) EXCEPT !.state = "gone"]]
        /\ kept' = <<<<>>, <<>>>>
        /\ message' = kept[i]
        /\ arrive \in 0 .. frame.size
        /\ wire' = SubSeq(frame.mem, 1, arrive)
        /\ UNCHANGED <<in, taken>>

(* read() fills a buffer: it fails, and the caller gives up, unless as     *)
(* many bytes arrive as the buffer holds.                                  *)
Receive(max) ==
    IF max > 0 /\ Len(wire) >= max
    THEN [SocketBuffer(max) EXCEPT !.mem = SubSeq(wire, 1, max), !.size = max]
    ELSE [SocketBuffer(max) EXCEPT !.state = "closed"]
ReceiveSize ==
    /\ out[1].state = "gone" /\ in.max = 0 /\ in.state = "made"
    /\ in' = Receive(UInt32)
    /\ wire' = SubSeq(wire, UInt32 + 1, Len(wire))
    /\ UNCHANGED <<out, kept, message, taken>>
ReceiveBody ==
    /\ in.max = UInt32 /\ in.size = UInt32 /\ in.pos = 0 /\ in.state = "made"
    /\ in' = [Receive(ReadInt(in, UInt32).v) EXCEPT !.state = IF @ = "made" THEN "body" ELSE @]
    /\ UNCHANGED <<out, kept, wire, message, taken>>
Take(type) ==
    LET r == ReadItem(in, type)
    IN  /\ in.state = "body" /\ Len(taken) < MaxReads
        /\ in' = r.b
        /\ taken' = Append(taken, <<type, r.v>>)
        /\ UNCHANGED <<out, kept, wire, message>>

BufferNext ==
    \/ \E i \in 1 .. 2, item \in Messages : Put(i, item)
    \/ \E i \in 1 .. 2 : CopyBuffer(i)
    \/ PutBuffer
    \/ \E i \in 1 .. 2 :
          \E arrive \in {0, UInt32, UInt32 + out[i].size - 1, UInt32 + out[i].size} : Send(i, arrive)
    \/ ReceiveSize
    \/ ReceiveBody
    \/ \E type \in MessageTypes : Take(type)

BufferSpec == BufferInit /\ [][BufferNext]_bufferVars

-----------------------------------------------------------------------------
(* What the reader takes is what the sender's buffer has taken, item by    *)
(* item, as long as it asks for the types that were appended: a message is *)
(* whole or is not received at all, whatever was dropped because it did    *)
(* not fit and from whichever buffer it was copied or appended.            *)
SameTypes(n) == n <= Len(message) /\ \A i \in 1 .. n : taken[i][1] = message[i][1]
MessageRead ==
    /\ \A n \in DOMAIN taken : SameTypes(n) => taken[n] = message[n]
    /\ in.state = "undefined" => ~SameTypes(Len(taken))
    /\ \A i \in 1 .. 2 : out[i].pos <= out[i].max
    /\ in.pos <= in.max

=============================================================================
