------------------------------ MODULE Commands ------------------------------
(***************************************************************************)
(* Encoding requests and decoding responses (src/MobileCommands.h and      *)
(* .cpp): one request object, one response object, the two handlers that   *)
(* point to them, and the phone at the other end, which is not in the      *)
(* repository; it reads and writes the fields the structs declare, as      *)
(* MobileCommandsTest.cpp does in its place.                               *)
(*                                                                         *)
(* The handlers are told a buffer and its length.  Every combination of a  *)
(* command, a buffer that is too short, just right or too long, a message  *)
(* that arrives whole or cut off, and a response object that is fresh or   *)
(* was decoded into before is a behaviour.                                 *)
(***************************************************************************)
EXTENDS ByteStream, CommandTable

CONSTANTS
    SizeT,         \* sizeof(size_t): 4 in the Win32 build
    SizeofString,  \* sizeof(std::string)
    Fills,         \* ways to fill the fields of a command: 0 is all empty
    Junk           \* what uninitialised variables and memory may hold

ASSUME CommandsAssumption ==
    /\ SizeT \in Nat /\ SizeofString \in Nat
    /\ Fills \subseteq Nat /\ Junk \subseteq 0 .. Byte - 1

VARIABLES
    phase,     \* "idle", "made", "set", "encoded", "answered", "decoded"
    cmd,       \* the command under way
    request,   \* the request object: a function from its fields to values
    response,  \* the response object
    decodes,   \* how often the response object was decoded into
    wire,      \* the bytes under way
    sent,      \* history: the object whose bytes are under way, as sent
    last       \* history: the last handler's stream and the buffer's length

vars == <<phase, cmd, request, response, decodes, wire, sent, last>>

Requests == DOMAIN Declared \ {"Error"}
Index(fields, n) == CHOOSE i \in DOMAIN fields : fields[i][1] = n
Names(fields) == {fields[i][1] : i \in DOMAIN fields}
TypeIn(fields, n) == IF n \in Names(fields) THEN fields[Index(fields, n)][2] ELSE "UInt32"

(* operator<< and operator>> by type.                                      *)
PutBasic(s, type, v) ==
    CASE type = "UInt32" -> PutInt(s, UInt32, v)
      [] type = "UInt64" -> PutInt(s, UInt64, v)
      [] type = "String" -> PutString(s, v)
GetBasic(s, type, old) ==
    CASE type = "UInt32" -> GetInt(s, UInt32, old)
      [] type = "UInt64" -> GetInt(s, UInt64, old)
      [] type = "String" -> GetString(s, old)
LengthBasic(type, v) ==
    CASE type = "UInt32" -> UInt32
      [] type = "UInt64" -> UInt64
      [] type = "String" -> SizeT + Len(v)

(* A struct is moved field by field.                                       *)
PutStruct(s, fields, order, obj) ==
    FoldLeft(LAMBDA t, n : PutBasic(t, TypeIn(fields, n), obj[n]), s, order)
GetStruct(s, fields, order, obj) ==
    FoldLeft(LAMBDA r, n : LET g == GetBasic(r.s, TypeIn(fields, n), r.v[n])
                           IN  [s |-> g.s, v |-> [r.v EXCEPT ![n] = g.v]],
             [s |-> s, v |-> obj], order)
LengthStruct(fields, counts, obj) ==
    MapThenSumSet(LAMBDA n : LengthBasic(TypeIn(fields, n), obj[n]), counts)
Fresh(fields, junk) ==
    [n \in Names(fields) |-> IF TypeIn(fields, n) = "String" THEN <<>> ELSE junk]

(* An array of files is as long as its elements say; each is asserted to   *)
(* have the length it carries.                                             *)
PutFile(s, file) == PutStruct(s, FileStruct, FileStructCodec.moves, file)
LengthFile(file) == LengthStruct(FileStruct, FileStructCodec.counts, file)
GetFile(s, file) ==
    LET r == GetStruct(s, FileStruct, FileStructCodec.moves, file)
    IN  IF LengthFile(r.v) = UInt32 + r.v["m_struct_length"] THEN r
        ELSE [r EXCEPT !.s = Fail(r.s)]
PutCalc(s, calc) == PutStruct(s, TypeCalc, TypeCalcCodec.moves, calc)
GetCalc(s, calc) == GetStruct(s, TypeCalc, TypeCalcCodec.moves, calc)
LengthCalc(calc) == LengthStruct(TypeCalc, TypeCalcCodec.counts, calc)
PutUInt32(s, n) == PutInt(s, UInt32, n)
GetUInt32(s, old) == GetInt(s, UInt32, old)
PutStrings(s, strings) == PutVector(PutString, s, strings)
GetStrings(s, old) == GetVector(GetString, s, <<>>, old)

SumLengths(LengthOf(_), vec) == FoldLeft(LAMBDA n, e : n + LengthOf(e), SizeT, vec)

Put(s, type, v) ==
    CASE type = "UInt32s" -> PutVector(PutUInt32, s, v)
      [] type = "FileStructs" -> PutVector(PutFile, s, v)
      [] type = "TypeCalcs" -> PutVector(PutCalc, s, v)
      [] type = "Stringss" -> PutVector(PutStrings, s, v)
      [] OTHER -> PutBasic(s, type, v)

(* The number of files is read into an uninitialised variable.             *)
GetFiles(s, old) ==
    LET n == GetInt(s, UInt32, s.junk)
    IN  GetElements(GetFile, n.s, n.v, Fresh(FileStruct, s.junk), old)
Get(s, type, old) ==
    CASE type = "UInt32s" -> GetVector(GetUInt32, s, s.junk, old)
      [] type = "FileStructs" -> GetFiles(s, old)
      [] type = "TypeCalcs" -> GetVector(GetCalc, s, Fresh(TypeCalc, s.junk), old)
      [] type = "Stringss" -> GetVector(GetStrings, s, <<>>, old)
      [] OTHER -> GetBasic(s, type, old)
LengthType(type, v) ==
    CASE type = "UInt32s" -> SizeT + UInt32 * Len(v)
      [] type = "FileStructs" -> SumLengths(LengthFile, v)
      [] type = "TypeCalcs" -> SumLengths(LengthCalc, v)
      [] type = "Stringss" ->
            SumLengths(LAMBDA strings :
                         SumLengths(LAMBDA str : LengthBasic("String", str), strings), v)
      [] OTHER -> LengthBasic(type, v)

PutAll(s, fields, order, obj) ==
    FoldLeft(LAMBDA t, n : Put(t, TypeIn(fields, n), obj[n]), s, order)
GetAll(s, fields, order, obj) ==
    FoldLeft(LAMBDA r, n : LET g == Get(r.s, TypeIn(fields, n), r.v[n])
                           IN  [s |-> g.s, v |-> [r.v EXCEPT ![n] = g.v]],
             [s |-> s, v |-> obj], order)

(* Length(): the base class adds nothing, so that the length counts what   *)
(* comes behind m_command_length.                                          *)
LengthBase == 0
LengthRequestBase == LengthBase + 3 * UInt32
LengthResponseBase == LengthBase + 3 * UInt32
Length(base, fields, codec, obj) ==
    base + codec.sizeofs * SizeofString
         + MapThenSumSet(LAMBDA n : LengthType(TypeIn(fields, n), obj[n]), codec.counts)

(* TransByteOrderAndWrite and AndRead of a class call those of its base    *)
(* and go on with a stream on the rest of the buffer.                      *)
WriteBase(s, obj) == PutStruct(s, <<>>, CommandBase, obj)
ReadBase(s, obj) == GetStruct(s, <<>>, CommandBase, obj)
WriteRequestBase(s, obj) == PutStruct(Nested(WriteBase(s, obj)), <<>>, RequestBase, obj)
ReadResponseBaseAgain(s, obj) ==
    LET r == ReadBase(s, obj) IN GetStruct(Nested(s), <<>>, ResponseBase, r.v)
ReadResponseBase(s, obj) ==
    LET r == ReadBase(s, obj) IN GetStruct(Nested(r.s), <<>>, ResponseBase, r.v)
WriteRequest(c, s, obj) ==
    LET fields == Declared[c].request.fields
        codec == Codecs[c].request
        w == PutAll(Nested(WriteRequestBase(s, obj)), fields, codec.moves, obj)
    IN  GetAll(w, fields, codec.against, obj)
ReadResponse(c, s, obj) ==
    LET r == ReadResponseBase(s, obj)
    IN  GetAll(Nested(r.s), Declared[c].response.fields, Codecs[c].response.moves, r.v)

-----------------------------------------------------------------------------
(* Values that tell the fields apart.                                      *)
Basic(type, i) == IF type = "String" THEN [k \in 1 .. 1 + (i % 2) |-> i % Byte] ELSE i
Filled(fields, i) ==
    [n \in Names(fields) |-> Basic(TypeIn(fields, n), i + Index(fields, n))]
FilledFile(i) ==
    LET file == Filled(FileStruct, i)
    IN  [file EXCEPT !["m_struct_length"] = LengthFile(file) - UInt32]
FillType(type, i, fill) ==
    IF fill = 0 THEN IF type \in {"UInt32", "UInt64"} THEN 0 ELSE <<>>
    ELSE
    CASE type = "UInt32s" -> <<i, i + 1>>
      [] type = "FileStructs" -> <<FilledFile(fill), FilledFile(fill + 1)>>
      [] type = "TypeCalcs" -> <<Filled(TypeCalc, fill), Filled(TypeCalc, fill + 1)>>
      [] type = "Stringss" -> <<<<<<1>>, <<2, 3>>>>, <<>>, <<<<fill>>>>>>
      [] OTHER -> Basic(type, i + fill)
FillFields(fields, fill) ==
    [n \in Names(fields) |-> FillType(TypeIn(fields, n), Index(fields, n), fill)]

(* An object has the fields of its base classes too.                       *)
WithBase(own, base) ==
    [n \in DOMAIN own \cup DOMAIN base |-> IF n \in DOMAIN own THEN own[n] ELSE base[n]]

NewRequest(c, fill, junk) ==
    WithBase(FillFields(Declared[c].request.fields, fill),
             [m_protocol_version |-> fill, m_sequence |-> fill + 1, m_command_length |-> junk,
              m_command_name |-> Declared[c].request.name, m_command_flag |-> 0,
              m_priority_level |-> junk])
NewResponse(c, junk) ==
    LET fields == Declared[c].response.fields
        own == [n \in Names(fields) |->
                  IF TypeIn(fields, n) \in {"UInt32", "UInt64"} THEN junk ELSE <<>>]
    IN  WithBase(own,
                 [m_protocol_version |-> junk, m_sequence |-> junk, m_command_length |-> junk,
                  m_command_name |-> Declared[c].response.name, m_command_flag |-> 0,
                  m_result |-> junk])

(* Memory that nobody has written: words that hold junk.                   *)
Memory(n, junk) == [i \in 1 .. n |-> IF i % UInt32 = 0 THEN junk ELSE 0]

(* The phone writes and reads what the structs declare; its lengths count  *)
(* what comes behind m_command_length.                                     *)
Order(fields) == [i \in DOMAIN fields |-> fields[i][1]]
Room == Stream(Memory(Power[UInt32], 0), Power[UInt32], 0)
Bytes(s) == SubSeq(s.mem, 1, s.ptr)
PhoneWrites(c, obj) ==
    LET fields == Declared[c].response.fields
        s == PutStruct(Room, <<>>, CommandBase \o ResponseBase, obj)
    IN  Bytes(PutAll(s, fields, Order(fields), obj))
PhoneAnswer(c, fill) ==
    LET obj == WithBase(FillFields(Declared[c].response.fields, fill),
                 [m_protocol_version |-> 1, m_sequence |-> fill + 1, m_command_length |-> 0,
                  m_command_name |-> Declared[c].response.name, m_command_flag |-> fill,
                  m_result |-> 1])
    IN  [obj EXCEPT !["m_command_length"] = Len(PhoneWrites(c, obj)) - 3 * UInt32]

None == [s |-> Stream(<<>>, 0, 0), length |-> 0]

Init ==
    /\ phase = "idle" /\ cmd = "TimeTick" /\ decodes = 0
    /\ request = <<>> /\ response = <<>> /\ wire = <<>> /\ sent = <<>> /\ last = None

(* The caller makes an object and fills it in; the priority is left alone. *)
New(c, fill, junk) ==
    /\ phase = "idle"
    /\ phase' = "made" /\ cmd' = c
    /\ request' = NewRequest(c, fill, junk)
    /\ UNCHANGED <<response, decodes, wire, sent, last>>

SetPriority(priority) ==
    /\ phase \in {"made", "set"}
    /\ request' = IF priority > 9 THEN request
                  ELSE [request EXCEPT !["m_priority_level"] = priority]
    /\ UNCHANGED <<phase, cmd, response, decodes, wire, sent, last>>

(* The handler keeps the pointer: later changes of the object count.       *)
SetData ==
    /\ phase = "made"
    /\ phase' = "set"
    /\ UNCHANGED <<cmd, request, response, decodes, wire, sent, last>>

RequestLength == Length(LengthRequestBase, Declared[cmd].request.fields,
                        Codecs[cmd].request, request)

Encode(length, junk) ==
    LET obj == [request EXCEPT !["m_command_length"] = RequestLength]
        w == WriteRequest(cmd, Stream(Memory(length, junk), length, junk), obj)
    IN  /\ phase = "set"
        /\ phase' = "encoded"
        /\ request' = w.v
        /\ wire' = Bytes(w.s) /\ sent' = w.v
        /\ last' = [s |-> w.s, length |-> length]
        /\ UNCHANGED <<cmd, response, decodes>>

(* The phone answers with the response of the command or with an error;    *)
(* its message may arrive cut off after some bytes.  The caller has no     *)
(* more use for the request.                                               *)
Answer(c, fill, arrived) ==
    LET obj == PhoneAnswer(c, fill)
        message == PhoneWrites(c, obj)
    IN  /\ phase \in {"encoded", "decoded"} /\ decodes < 2
        /\ c \in {cmd, "Error"} /\ (decodes > 0 => c = cmd)
        /\ arrived \in 0 .. Len(message)
        /\ phase' = "answered" /\ cmd' = c
        /\ sent' = obj
        /\ wire' = SubSeq(message, 1, arrived)
        /\ request' = <<>> /\ last' = None
        /\ UNCHANGED <<response, decodes>>

(* The caller decodes into a fresh object or into the one it had.          *)
Decode(fresh, spare, junk) ==
    LET length == Len(wire) + spare
        old == IF fresh \/ decodes = 0 THEN NewResponse(cmd, junk) ELSE response
        r == ReadResponse(cmd, Stream(wire \o Memory(spare, junk), length, junk), old)
    IN  /\ phase = "answered"
        /\ phase' = "decoded"
        /\ response' = [r.v EXCEPT !["m_command_length"] =
                Length(LengthResponseBase, Declared[cmd].response.fields,
                       Codecs[cmd].response, r.v)]
        /\ decodes' = IF fresh THEN 1 ELSE decodes + 1
        /\ last' = [s |-> r.s, length |-> length]
        /\ UNCHANGED <<cmd, request, wire, sent>>

(* The whole exchange with the lengths worth trying: the room that is      *)
(* needed, one byte less, a fragment of the header, and some to spare.     *)
Needed == 3 * UInt32 + Length(LengthRequestBase, Declared[cmd].request.fields,
                              Codec(<<>>, Names(Declared[cmd].request.fields)), request)
Next ==
    \/ \E c \in Requests, fill \in Fills, junk \in Junk : New(c, fill, junk)
    \/ \E priority \in {0, 9, 10} : SetPriority(priority)
    \/ SetData
    \/ /\ phase = "set"
       /\ \E length \in {6, 22, Needed - 1, Needed, Needed + 5}, junk \in Junk :
            Encode(length, junk)
    \/ \E c \in {cmd, "Error"}, fill \in IF phase \in {"encoded", "decoded"} THEN Fills ELSE {} :
          LET whole == Len(PhoneWrites(c, PhoneAnswer(c, fill)))
          IN  \E arrived \in {0, 20, whole - 5, whole - 1, whole} : Answer(c, fill, arrived)
    \/ \E fresh \in BOOLEAN, spare \in {0, 7}, junk \in Junk : Decode(fresh, spare, junk)

Spec == Init /\ [][Next]_vars

-----------------------------------------------------------------------------
(* No stream leaves its buffer, whatever the buffer's length, whatever     *)
(* arrives and however much of it is missing: the assertions at the end of *)
(* Encode and Decode (MobileCommands.h:834, 864) hold, and the bytes moved *)
(* and the bytes left are the buffer.                                      *)
StreamInBuffer ==
    /\ last.s.ptr <= last.length
    /\ last.s.ptr + last.s.len = last.length
    /\ Len(last.s.mem) = last.length

(* m_command_length as sent is the number of bytes behind it, as the       *)
(* comment in CCommandBase::Length() has it: exactly the requests whose    *)
(* Length() adds the size of a std::string object get it wrong.  (The      *)
(* request whose password is read instead of written is left out.)         *)
LengthIsExact ==
    phase = "encoded" /\ ~last.s.asserts /\ cmd # "LogWifi"
        => (sent["m_command_length"] = Len(wire) - 3 * UInt32)
             <=> cmd \notin {"CaptureFromVedio", "CaptureFromImage"}

(* Whenever Encode meets no assertion, the phone reads from the bytes the  *)
(* very object the caller filled in: header, priority and every field, in  *)
(* the order the struct declares them.                                     *)
PhoneReads(c, bytes) ==
    LET fields == Declared[c].request.fields
        r == GetStruct(Stream(bytes, Len(bytes), 0), <<>>, CommandBase \o RequestBase,
                       NewRequest(c, 0, 0))
    IN  GetAll(r.s, fields, Order(fields), r.v)
RequestReadable ==
    phase = "encoded" /\ ~last.s.asserts /\ cmd # "LogWifi" => PhoneReads(cmd, wire).v = sent

(* A response that arrives whole and is decoded into a fresh object is     *)
(* what the phone sent, whatever lies behind it in the buffer; only the    *)
(* response to SendFile, whose fields nobody reads, is not.  The length    *)
(* that Decode computes anew is the one the phone sent, but for the        *)
(* response that counts a std::string object.                              *)
Whole == Len(wire) = Len(PhoneWrites(cmd, sent))
ResponseReadable ==
    phase = "decoded" /\ decodes = 1 /\ Whole /\ cmd # "SendFile"
        => /\ ~last.s.asserts
           /\ \A n \in DOMAIN sent \ {"m_command_length"} : response[n] = sent[n]
           /\ (response["m_command_length"] = sent["m_command_length"])
                <=> cmd # "CaptureFromImage"

(* A response that is cut off anywhere, even inside a string or between    *)
(* the elements of an array, is never taken for a whole one: some          *)
(* assertion of the stream is met (but for SendFile, as above).            *)
NoSilentTruncation ==
    phase = "decoded" /\ ~Whole /\ last.length = Len(wire) /\ cmd # "SendFile"
        => last.s.asserts

=============================================================================
