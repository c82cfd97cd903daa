---------------------------- MODULE CommandsProofs ----------------------------
(***************************************************************************)
(* Proofs about Commands and the streams of ByteStream under it, for every *)
(* base of the bytes, every size of the C++ types, every way to fill in    *)
(* the fields and every content of uninitialised memory.  The folds in     *)
(* their definitions are reasoned about with FoldInduction, instantiated   *)
(* with the step of each.                                                  *)
(***************************************************************************)
EXTENDS Commands, ByteStreamProofs, FiniteSetTheorems

-----------------------------------------------------------------------------
(* Structs, field by field. *)

Basics == {"UInt32", "UInt64", "String"}
BasicOf(type) == IF type = "String" THEN Seq(Nat) ELSE Int

\* operator<< for the basic types.
LEMMA PutBasicStream ==
    ASSUME NEW n \in Nat, NEW s \in Streams(n), NEW type \in Basics, NEW v \in BasicOf(type)
    PROVE  PutBasic(s, type, v) \in Streams(n)
  <1>1. CASE type \in {"UInt32", "UInt64"}
    <2>1. v \in Int
      BY <1>1 DEF BasicOf
    <2>2. PutInt(s, UInt32, v) \in Streams(n) /\ PutInt(s, UInt64, v) \in Streams(n)
      BY <2>1, PutIntStream DEF UInt32, UInt64
    <2>3. QED
      BY <1>1, <2>2 DEF PutBasic
  <1>2. CASE type = "String"
    <2>1. v \in Seq(Nat)
      BY <1>2 DEF BasicOf
    <2>2. PutString(s, v) \in Streams(n)
      BY <2>1, PutStringStream
    <2>3. QED
      BY <1>2, <2>2 DEF PutBasic
  <1>3. QED
    BY <1>1, <1>2 DEF Basics

\* operator>> for the basic types.
LEMMA GetBasicResult ==
    ASSUME NEW n \in Nat, NEW s \in Streams(n), NEW type \in Basics, NEW old \in BasicOf(type)
    PROVE  GetBasic(s, type, old) \in Results(n, BasicOf(type))
  <1>1. CASE type \in {"UInt32", "UInt64"}
    <2>1. old \in Int /\ Nat \subseteq Int /\ BasicOf(type) = Int
      BY <1>1 DEF BasicOf
    <2>2. GetInt(s, UInt32, old) \in Results(n, Int)
      BY <2>1, GetIntResult DEF UInt32
    <2>3. GetInt(s, UInt64, old) \in Results(n, Int)
      BY <2>1, GetIntResult DEF UInt64
    <2>4. QED
      BY <1>1, <2>1, <2>2, <2>3 DEF GetBasic
  <1>2. CASE type = "String"
    <2>1. old \in Seq(Nat) /\ BasicOf(type) = Seq(Nat)
      BY <1>2 DEF BasicOf
    <2>2. GetString(s, old) \in Results(n, Seq(Nat))
      BY <2>1, GetStringResult
    <2>3. QED
      BY <1>2, <2>1, <2>2 DEF GetBasic
  <1>3. QED
    BY <1>1, <1>2 DEF Basics

PutField(fields, obj, t, m) == PutBasic(t, TypeIn(fields, m), obj[m])
PF == INSTANCE FoldInduction WITH Step <- PutField

\* Structs of any type leave the stream in its buffer: the fields that are
\* moved have a basic type, and the object holds values of it.
LEMMA PutStructStream ==
    ASSUME NEW n \in Nat, NEW s \in Streams(n), NEW F, NEW order \in Seq(F), NEW fields, NEW obj,
           \A m \in F : TypeIn(fields, m) \in Basics /\ obj[m] \in BasicOf(TypeIn(fields, m))
    PROVE  PutStruct(s, fields, order, obj) \in Streams(n)
  <1>1. ASSUME NEW t \in Streams(n), NEW m \in F
        PROVE  PutField(fields, obj, t, m) \in Streams(n)
    BY PutBasicStream DEF PutField
  <1>2. PF!Fold(fields, obj, s, order) \in Streams(n)
    BY <1>1, PF!FoldType
  <1>3. QED
    BY <1>2 DEF PutStruct, PutField, PF!Fold,
                FoldLeft, MapThenFoldSet, Max

GetField(fields, unused, r, m) ==
    LET g == GetBasic(r.s, TypeIn(fields, m), r.v[m])
    IN  [s |-> g.s, v |-> [r.v EXCEPT ![m] = g.v]]
GF == INSTANCE FoldInduction WITH Step <- GetField

\* Reading the fields of a struct, in any order and from any object.
LEMMA GetStructResult ==
    ASSUME NEW n \in Nat, NEW s \in Streams(n), NEW F, NEW order \in Seq(F), NEW fields,
           NEW X, NEW obj \in X,
           \A m \in F : TypeIn(fields, m) \in Basics,
           \A o \in X, m \in F : o[m] \in BasicOf(TypeIn(fields, m)),
           \A o \in X, m \in F : \A v \in BasicOf(TypeIn(fields, m)) : [o EXCEPT ![m] = v] \in X
    PROVE  GetStruct(s, fields, order, obj) \in Results(n, X)
  <1>1. ASSUME NEW r \in Results(n, X), NEW m \in F
        PROVE  GetField(fields, 0, r, m) \in Results(n, X)
    <2> DEFINE type == TypeIn(fields, m)
               g == GetBasic(r.s, type, r.v[m])
    <2>1. r.s \in Streams(n) /\ r.v \in X
      BY DEF Results
    <2>2. type \in Basics /\ r.v[m] \in BasicOf(type)
      BY <2>1
    <2>3. g \in Results(n, BasicOf(type))
      <3> HIDE DEF type
      <3> QED
        BY <2>1, <2>2, GetBasicResult
    <2>4. g.s \in Streams(n) /\ g.v \in BasicOf(type)
      BY <2>3 DEF Results
    <2>5. GetField(fields, 0, r, m) = [s |-> g.s, v |-> [r.v EXCEPT ![m] = g.v]]
      BY DEF GetField
    <2> HIDE DEF g
    <2>6. [r.v EXCEPT ![m] = g.v] \in X
      BY <2>1, <2>4
    <2>7. QED
      BY <2>4, <2>5, <2>6 DEF Results
  <1>2. [s |-> s, v |-> obj] \in Results(n, X)
    BY DEF Results
  <1>3. GF!Fold(fields, 0, [s |-> s, v |-> obj], order) \in Results(n, X)
    BY <1>1, <1>2, GF!FoldType
  <1>4. QED
    BY <1>3 DEF GetStruct, GetField, GF!Fold,
                FoldLeft, MapThenFoldSet, Max

-----------------------------------------------------------------------------
(* The two structs that arrays are made of. *)

\* A field list whose types are out of a set.
FieldsOf(fields, T) ==
    /\ Len(fields) \in Nat /\ DOMAIN fields = 1 .. Len(fields)
    /\ \A i \in DOMAIN fields : fields[i][2] \in T

\* Every field has one of the types the list gives.
LEMMA TypeInFields ==
    ASSUME NEW T, NEW fields, FieldsOf(fields, T), NEW m \in Names(fields)
    PROVE  TypeIn(fields, m) \in T
  <1>1. PICK i \in DOMAIN fields : fields[i][1] = m
    BY DEF Names
  <1>2. Index(fields, m) \in DOMAIN fields
    BY <1>1 DEF Index
  <1>3. \A j \in DOMAIN fields : fields[j][2] \in T
    BY DEF FieldsOf
  <1>4. QED
    BY <1>2, <1>3 DEF TypeIn

Structs(fields) ==
    {o \in [Names(fields) -> Int \cup Seq(Nat)] :
        \A m \in Names(fields) : o[m] \in BasicOf(TypeIn(fields, m))}

\* A list of fields of basic types, and what a struct moves and counts.
Plain(fields, codec) ==
    /\ FieldsOf(fields, Basics)
    /\ codec.moves \in Seq(Names(fields))
    /\ codec.counts \subseteq Names(fields)

\* The code that moves a file's fields moves fields that it declares.
LEMMA FilePlain == Plain(FileStruct, FileStructCodec)
  <1>1. FieldsOf(FileStruct, Basics)
    BY DEF FileStruct, FieldsOf, Basics, U, L, S
  <1>2. QED
    BY <1>1 DEF Plain, FileStruct, FileStructCodec, Codec, Names, U, L, S

\* So does the code that moves a type's statistics.
LEMMA CalcPlain == Plain(TypeCalc, TypeCalcCodec)
  <1>1. FieldsOf(TypeCalc, Basics)
    BY DEF TypeCalc, FieldsOf, Basics, U, L, S
  <1>2. QED
    BY <1>1 DEF Plain, TypeCalc, TypeCalcCodec, Codec, Names, U, L, S
-----------------------------------------------------------------------------
(* The commands, one by one. *)

Types == Basics \cup {"UInt32s", "FileStructs", "TypeCalcs", "Stringss"}
HeaderNames ==
    {"m_protocol_version", "m_sequence", "m_command_length", "m_command_name",
     "m_command_flag", "m_priority_level", "m_result"}

\* A codec moves and counts fields that the struct declares, and none of
\* them has the name of a field of the header.
Listed(fields, codec) ==
    /\ FieldsOf(fields, Types)
    /\ codec.moves \in Seq(Names(fields)) /\ codec.against \in Seq(Names(fields))
    /\ codec.counts \subseteq Names(fields) /\ codec.sizeofs \in Nat
    /\ Names(fields) \cap HeaderNames = {}

\* Every request of the table is listed so.
LEMMA RequestsListed ==
    \A c \in Requests : Listed(Declared[c].request.fields, Codecs[c].request)
  <1>1. Listed(LogWifi.request.fields, LogWifiCodec.request)
    <2> DEFINE fields == LogWifi.request.fields
               codec == LogWifiCodec.request
    <2>1. fields = <<S("m_password")>>
      BY DEF LogWifi, Declare
    <2>2. /\ codec.moves = <<>>
          /\ codec.counts = {"m_password"}
          /\ codec.against = <<"m_password">> /\ codec.sizeofs = 0
      BY DEF LogWifiCodec, Codec, Nothing
    <2> HIDE DEF fields, codec
    <2>3. Names(fields) = {"m_password"}
      BY <2>1 DEF Names, U, L, S
    <2>4. FieldsOf(fields, Types)
      BY <2>1 DEF FieldsOf, Types, Basics, U, L, S
    <2>5. codec.moves \in Seq(Names(fields)) /\ codec.against \in Seq(Names(fields))
      BY <2>2, <2>3
    <2>6. QED
      BY <2>2, <2>3, <2>4, <2>5 DEF Listed, HeaderNames, fields, codec
  <1>2. Listed(TimeTick.request.fields, TimeTickCodec.request)
    <2> DEFINE fields == TimeTick.request.fields
               codec == TimeTickCodec.request
    <2>1. fields = <<>>
      BY DEF TimeTick, Declare
    <2>2. /\ codec.moves = <<>>
          /\ codec.counts = {}
          /\ codec.against = <<>> /\ codec.sizeofs = 0
      BY DEF TimeTickCodec, Codec, Nothing
    <2> HIDE DEF fields, codec
    <2>3. Names(fields) = {}
      BY <2>1 DEF Names, U, L, S
    <2>4. FieldsOf(fields, Types)
      BY <2>1 DEF FieldsOf, Types, Basics, U, L, S
    <2>5. codec.moves \in Seq(Names(fields)) /\ codec.against \in Seq(Names(fields))
      BY <2>2, <2>3
    <2>6. QED
      BY <2>2, <2>3, <2>4, <2>5 DEF Listed, HeaderNames, fields, codec
  <1>3. Listed(ListPartition.request.fields, ListPartitionCodec.request)
    <2> DEFINE fields == ListPartition.request.fields
               codec == ListPartitionCodec.request
    <2>1. fields = <<>>
      BY DEF ListPartition, Declare
    <2>2. /\ codec.moves = <<>>
          /\ codec.counts = {}
          /\ codec.against = <<>> /\ codec.sizeofs = 0
      BY DEF ListPartitionCodec, Codec, Nothing
    <2> HIDE DEF fields, codec
    <2>3. Names(fields) = {}
      BY <2>1 DEF Names, U, L, S
    <2>4. FieldsOf(fields, Types)
      BY <2>1 DEF FieldsOf, Types, Basics, U, L, S
    <2>5. codec.moves \in Seq(Names(fields)) /\ codec.against \in Seq(Names(fields))
      BY <2>2, <2>3
    <2>6. QED
      BY <2>2, <2>3, <2>4, <2>5 DEF Listed, HeaderNames, fields, codec
  <1>4. Listed(GetPartitionInfo.request.fields, GetPartitionInfoCodec.request)
    <2> DEFINE fields == GetPartitionInfo.request.fields
               codec == GetPartitionInfoCodec.request
    <2>1. fields = <<U("m_partition_index")>>
      BY DEF GetPartitionInfo, Declare
    <2>2. /\ codec.moves = <<"m_partition_index">>
          /\ codec.counts = {"m_partition_index"}
          /\ codec.against = <<>> /\ codec.sizeofs = 0
      BY DEF GetPartitionInfoCodec, Codec, Nothing
    <2> HIDE DEF fields, codec
    <2>3. Names(fields) = {"m_partition_index"}
      BY <2>1 DEF Names, U, L, S
    <2>4. FieldsOf(fields, Types)
      BY <2>1 DEF FieldsOf, Types, Basics, U, L, S
    <2>5. codec.moves \in Seq(Names(fields)) /\ codec.against \in Seq(Names(fields))
      BY <2>2, <2>3
    <2>6. QED
      BY <2>2, <2>3, <2>4, <2>5 DEF Listed, HeaderNames, fields, codec
  <1>5. Listed(ListPath.request.fields, ListPathCodec.request)
    <2> DEFINE fields == ListPath.request.fields
               codec == ListPathCodec.request
    <2>1. fields = <<U("m_partition_index"), S("m_path_name"), U("m_file_mask")>>
      BY DEF ListPath, Declare
    <2>2. /\ codec.moves = <<"m_partition_index", "m_path_name", "m_file_mask">>
          /\ codec.counts = {"m_partition_index", "m_path_name", "m_file_mask"}
          /\ codec.against = <<>> /\ codec.sizeofs = 0
      BY DEF ListPathCodec, Codec, Nothing
    <2> HIDE DEF fields, codec
    <2>3. Names(fields) = {"m_partition_index", "m_path_name", "m_file_mask"}
      BY <2>1 DEF Names, U, L, S
    <2>4. FieldsOf(fields, Types)
      BY <2>1 DEF FieldsOf, Types, Basics, U, L, S
    <2>5. codec.moves \in Seq(Names(fields)) /\ codec.against \in Seq(Names(fields))
      BY <2>2, <2>3
    <2>6. QED
      BY <2>2, <2>3, <2>4, <2>5 DEF Listed, HeaderNames, fields, codec
  <1>6. Listed(DeleteFile.request.fields, DeleteFileCodec.request)
    <2> DEFINE fields == DeleteFile.request.fields
               codec == DeleteFileCodec.request
    <2>1. fields = <<U("m_partition_index"), S("m_full_filename")>>
      BY DEF DeleteFile, Declare
    <2>2. /\ codec.moves = <<"m_partition_index", "m_full_filename">>
          /\ codec.counts = {"m_partition_index", "m_full_filename"}
          /\ codec.against = <<>> /\ codec.sizeofs = 0
      BY DEF DeleteFileCodec, Codec, Nothing
    <2> HIDE DEF fields, codec
    <2>3. Names(fields) = {"m_partition_index", "m_full_filename"}
      BY <2>1 DEF Names, U, L, S
    <2>4. FieldsOf(fields, Types)
      BY <2>1 DEF FieldsOf, Types, Basics, U, L, S
    <2>5. codec.moves \in Seq(Names(fields)) /\ codec.against \in Seq(Names(fields))
      BY <2>2, <2>3
    <2>6. QED
      BY <2>2, <2>3, <2>4, <2>5 DEF Listed, HeaderNames, fields, codec
  <1>7. Listed(RenameFile.request.fields, RenameFileCodec.request)
    <2> DEFINE fields == RenameFile.request.fields
               codec == RenameFileCodec.request
    <2>1. fields = <<U("m_partition_index"), S("m_old_filename"), S("m_new_filename")>>
      BY DEF RenameFile, Declare
    <2>2. /\ codec.moves = <<"m_partition_index", "m_old_filename", "m_new_filename">>
          /\ codec.counts = {"m_partition_index", "m_old_filename", "m_new_filename"}
          /\ codec.against = <<>> /\ codec.sizeofs = 0
      BY DEF RenameFileCodec, Codec, Nothing
    <2> HIDE DEF fields, codec
    <2>3. Names(fields) = {"m_partition_index", "m_old_filename", "m_new_filename"}
      BY <2>1 DEF Names, U, L, S
    <2>4. FieldsOf(fields, Types)
      BY <2>1 DEF FieldsOf, Types, Basics, U, L, S
    <2>5. codec.moves \in Seq(Names(fields)) /\ codec.against \in Seq(Names(fields))
      BY <2>2, <2>3
    <2>6. QED
      BY <2>2, <2>3, <2>4, <2>5 DEF Listed, HeaderNames, fields, codec
  <1>8. Listed(IsExistFile.request.fields, IsExistFileCodec.request)
    <2> DEFINE fields == IsExistFile.request.fields
               codec == IsExistFileCodec.request
    <2>1. fields = <<U("m_partition_index"), S("m_full_filename"), U("m_is_file")>>
      BY DEF IsExistFile, Declare
    <2>2. /\ codec.moves = <<"m_partition_index", "m_full_filename", "m_is_file">>
          /\ codec.counts = {"m_partition_index", "m_full_filename", "m_is_file"}
          /\ codec.against = <<>> /\ codec.sizeofs = 0
      BY DEF IsExistFileCodec, Codec, Nothing
    <2> HIDE DEF fields, codec
    <2>3. Names(fields) = {"m_partition_index", "m_full_filename", "m_is_file"}
      BY <2>1 DEF Names, U, L, S
    <2>4. FieldsOf(fields, Types)
      BY <2>1 DEF FieldsOf, Types, Basics, U, L, S
    <2>5. codec.moves \in Seq(Names(fields)) /\ codec.against \in Seq(Names(fields))
      BY <2>2, <2>3
    <2>6. QED
      BY <2>2, <2>3, <2>4, <2>5 DEF Listed, HeaderNames, fields, codec
  <1>9. Listed(GetMediaInfo.request.fields, GetMediaInfoCodec.request)
    <2> DEFINE fields == GetMediaInfo.request.fields
               codec == GetMediaInfoCodec.request
    <2>1. fields = <<U("m_partition_index"), S("m_full_filename"), U("m_is_audio")>>
      BY DEF GetMediaInfo, Declare
    <2>2. /\ codec.moves = <<"m_partition_index", "m_full_filename", "m_is_audio">>
          /\ codec.counts = {"m_partition_index", "m_full_filename", "m_is_audio"}
          /\ codec.against = <<>> /\ codec.sizeofs = 0
      BY DEF GetMediaInfoCodec, Codec, Nothing
    <2> HIDE DEF fields, codec
    <2>3. Names(fields) = {"m_partition_index", "m_full_filename", "m_is_audio"}
      BY <2>1 DEF Names, U, L, S
    <2>4. FieldsOf(fields, Types)
      BY <2>1 DEF FieldsOf, Types, Basics, U, L, S
    <2>5. codec.moves \in Seq(Names(fields)) /\ codec.against \in Seq(Names(fields))
      BY <2>2, <2>3
    <2>6. QED
      BY <2>2, <2>3, <2>4, <2>5 DEF Listed, HeaderNames, fields, codec
  <1>10. Listed(CaptureFromVedio.request.fields, CaptureFromVedioCodec.request)
    <2> DEFINE fields == CaptureFromVedio.request.fields
               codec == CaptureFromVedioCodec.request
    <2>1. fields = <<U("m_partition_index"), S("m_src_filename"), S("m_picture_format"),
            U("m_width"), U("m_height"), U("m_begin_second"), U("m_keep_ratio"),
            U("m_backgroud")>>
      BY DEF CaptureFromVedio, Declare
    <2>2. /\ codec.moves = <<"m_partition_index", "m_src_filename", "m_picture_format",
               "m_width", "m_height", "m_begin_second", "m_keep_ratio", "m_backgroud">>
          /\ codec.counts = {"m_src_filename", "m_picture_format", "m_width", "m_height",
               "m_begin_second", "m_keep_ratio", "m_backgroud"}
          /\ codec.against = <<>> /\ codec.sizeofs = 1
      BY DEF CaptureFromVedioCodec, Codec, Nothing
    <2> HIDE DEF fields, codec
    <2>3. Names(fields) = {"m_partition_index", "m_src_filename", "m_picture_format", "m_width",
            "m_height", "m_begin_second", "m_keep_ratio", "m_backgroud"}
      BY <2>1 DEF Names, U, L, S
    <2>4. FieldsOf(fields, Types)
      BY <2>1 DEF FieldsOf, Types, Basics, U, L, S
    <2>5. codec.moves \in Seq(Names(fields)) /\ codec.against \in Seq(Names(fields))
      BY <2>2, <2>3
    <2>6. QED
      BY <2>2, <2>3, <2>4, <2>5 DEF Listed, HeaderNames, fields, codec
  <1>11. Listed(CaptureFromImage.request.fields, CaptureFromImageCodec.request)
    <2> DEFINE fields == CaptureFromImage.request.fields
               codec == CaptureFromImageCodec.request
    <2>1. fields = <<U("m_partition_index"), S("m_src_filename"), S("m_picture_format"),
            U("m_width"), U("m_height"), U("m_keep_ratio"), U("m_backgroud")>>
      BY DEF CaptureFromImage, Declare
    <2>2. /\ codec.moves = <<"m_partition_index", "m_src_filename", "m_picture_format",
               "m_width", "m_height", "m_keep_ratio", "m_backgroud">>
          /\ codec.counts = {"m_src_filename", "m_picture_format", "m_width", "m_height",
               "m_keep_ratio", "m_backgroud"}
          /\ codec.against = <<>> /\ codec.sizeofs = 1
      BY DEF CaptureFromImageCodec, Codec, Nothing
    <2> HIDE DEF fields, codec
    <2>3. Names(fields) = {"m_partition_index", "m_src_filename", "m_picture_format", "m_width",
            "m_height", "m_keep_ratio", "m_backgroud"}
      BY <2>1 DEF Names, U, L, S
    <2>4. FieldsOf(fields, Types)
      BY <2>1 DEF FieldsOf, Types, Basics, U, L, S
    <2>5. codec.moves \in Seq(Names(fields)) /\ codec.against \in Seq(Names(fields))
      BY <2>2, <2>3
    <2>6. QED
      BY <2>2, <2>3, <2>4, <2>5 DEF Listed, HeaderNames, fields, codec
  <1>12. Listed(FindFile.request.fields, FindFileCodec.request)
    <2> DEFINE fields == FindFile.request.fields
               codec == FindFileCodec.request
    <2>1. fields = <<U("m_partition_index"), S("m_path_name"), U("m_need_recursion"),
            <<"m_type_array", "Stringss">>>>
      BY DEF FindFile, Declare
    <2>2. /\ codec.moves = <<"m_partition_index", "m_path_name", "m_need_recursion",
               "m_type_array">>
          /\ codec.counts = {"m_partition_index", "m_path_name", "m_need_recursion",
               "m_type_array"}
          /\ codec.against = <<>> /\ codec.sizeofs = 0
      BY DEF FindFileCodec, Codec, Nothing
    <2> HIDE DEF fields, codec
    <2>3. Names(fields) = {"m_partition_index", "m_path_name", "m_need_recursion",
            "m_type_array"}
      BY <2>1 DEF Names, U, L, S
    <2>4. FieldsOf(fields, Types)
      BY <2>1 DEF FieldsOf, Types, Basics, U, L, S
    <2>5. codec.moves \in Seq(Names(fields)) /\ codec.against \in Seq(Names(fields))
      BY <2>2, <2>3
    <2>6. QED
      BY <2>2, <2>3, <2>4, <2>5 DEF Listed, HeaderNames, fields, codec
  <1>13. Listed(GetMP3Info.request.fields, GetMP3InfoCodec.request)
    <2> DEFINE fields == GetMP3Info.request.fields
               codec == GetMP3InfoCodec.request
    <2>1. fields = <<U("m_partition_index"), S("m_full_filename")>>
      BY DEF GetMP3Info, Declare
    <2>2. /\ codec.moves = <<"m_partition_index", "m_full_filename">>
          /\ codec.counts = {"m_partition_index", "m_full_filename"}
          /\ codec.against = <<>> /\ codec.sizeofs = 0
      BY DEF GetMP3InfoCodec, Codec, Nothing
    <2> HIDE DEF fields, codec
    <2>3. Names(fields) = {"m_partition_index", "m_full_filename"}
      BY <2>1 DEF Names, U, L, S
    <2>4. FieldsOf(fields, Types)
      BY <2>1 DEF FieldsOf, Types, Basics, U, L, S
    <2>5. codec.moves \in Seq(Names(fields)) /\ codec.against \in Seq(Names(fields))
      BY <2>2, <2>3
    <2>6. QED
      BY <2>2, <2>3, <2>4, <2>5 DEF Listed, HeaderNames, fields, codec
  <1>14. Listed(SendFile.request.fields, SendFileCodec.request)
    <2> DEFINE fields == SendFile.request.fields
               codec == SendFileCodec.request
    <2>1. fields = <<U("m_partition_index"), S("m_dst_filename"), L("m_file_size"),
            L("m_offset"), S("m_file_content")>>
      BY DEF SendFile, Declare
    <2>2. /\ codec.moves = <<"m_partition_index", "m_dst_filename", "m_file_size", "m_offset",
               "m_file_content">>
          /\ codec.counts = {"m_partition_index", "m_dst_filename", "m_file_size", "m_offset",
               "m_file_content"}
          /\ codec.against = <<>> /\ codec.sizeofs = 0
      BY DEF SendFileCodec, Codec, Nothing
    <2> HIDE DEF fields, codec
    <2>3. Names(fields) = {"m_partition_index", "m_dst_filename", "m_file_size", "m_offset",
            "m_file_content"}
      BY <2>1 DEF Names, U, L, S
    <2>4. FieldsOf(fields, Types)
      BY <2>1 DEF FieldsOf, Types, Basics, U, L, S
    <2>5. codec.moves \in Seq(Names(fields)) /\ codec.against \in Seq(Names(fields))
      BY <2>2, <2>3
    <2>6. QED
      BY <2>2, <2>3, <2>4, <2>5 DEF Listed, HeaderNames, fields, codec
  <1>15. Listed(RecvFile.request.fields, RecvFileCodec.request)
    <2> DEFINE fields == RecvFile.request.fields
               codec == RecvFileCodec.request
    <2>1. fields = <<U("m_partition_index"), S("m_src_filename")>>
      BY DEF RecvFile, Declare
    <2>2. /\ codec.moves = <<"m_partition_index", "m_src_filename">>
          /\ codec.counts = {"m_partition_index", "m_src_filename"}
          /\ codec.against = <<>> /\ codec.sizeofs = 0
      BY DEF RecvFileCodec, Codec, Nothing
    <2> HIDE DEF fields, codec
    <2>3. Names(fields) = {"m_partition_index", "m_src_filename"}
      BY <2>1 DEF Names, U, L, S
    <2>4. FieldsOf(fields, Types)
      BY <2>1 DEF FieldsOf, Types, Basics, U, L, S
    <2>5. codec.moves \in Seq(Names(fields)) /\ codec.against \in Seq(Names(fields))
      BY <2>2, <2>3
    <2>6. QED
      BY <2>2, <2>3, <2>4, <2>5 DEF Listed, HeaderNames, fields, codec
  <1>16. Listed(GetFileSize.request.fields, GetFileSizeCodec.request)
    <2> DEFINE fields == GetFileSize.request.fields
               codec == GetFileSizeCodec.request
    <2>1. fields = <<U("m_partition_index"), S("m_full_filename")>>
      BY DEF GetFileSize, Declare
    <2>2. /\ codec.moves = <<"m_partition_index", "m_full_filename">>
          /\ codec.counts = {"m_partition_index", "m_full_filename"}
          /\ codec.against = <<>> /\ codec.sizeofs = 0
      BY DEF GetFileSizeCodec, Codec, Nothing
    <2> HIDE DEF fields, codec
    <2>3. Names(fields) = {"m_partition_index", "m_full_filename"}
      BY <2>1 DEF Names, U, L, S
    <2>4. FieldsOf(fields, Types)
      BY <2>1 DEF FieldsOf, Types, Basics, U, L, S
    <2>5. codec.moves \in Seq(Names(fields)) /\ codec.against \in Seq(Names(fields))
      BY <2>2, <2>3
    <2>6. QED
      BY <2>2, <2>3, <2>4, <2>5 DEF Listed, HeaderNames, fields, codec
  <1>17. QED
    BY <1>1, <1>2, <1>3, <1>4, <1>5, <1>6, <1>7, <1>8, <1>9, <1>10, <1>11, <1>12,
       <1>13, <1>14, <1>15, <1>16
       DEF Requests, Declared, Codecs

\* Every response of the table is listed so.
LEMMA ResponsesListed ==
    \A c \in DOMAIN Declared : Listed(Declared[c].response.fields, Codecs[c].response)
  <1>1. Listed(Error.response.fields, ErrorCodec.response)
    <2> DEFINE fields == Error.response.fields
               codec == ErrorCodec.response
    <2>1. fields = <<U("m_error_code")>>
      BY DEF Error, Declare
    <2>2. /\ codec.moves = <<"m_error_code">>
          /\ codec.counts = {"m_error_code"}
          /\ codec.against = <<>> /\ codec.sizeofs = 0
      BY DEF ErrorCodec, Codec, Nothing
    <2> HIDE DEF fields, codec
    <2>3. Names(fields) = {"m_error_code"}
      BY <2>1 DEF Names, U, L, S
    <2>4. FieldsOf(fields, Types)
      BY <2>1 DEF FieldsOf, Types, Basics, U, L, S
    <2>5. codec.moves \in Seq(Names(fields)) /\ codec.against \in Seq(Names(fields))
      BY <2>2, <2>3
    <2>6. QED
      BY <2>2, <2>3, <2>4, <2>5 DEF Listed, HeaderNames, fields, codec
  <1>2. Listed(LogWifi.response.fields, LogWifiCodec.response)
    <2> DEFINE fields == LogWifi.response.fields
               codec == LogWifiCodec.response
    <2>1. fields = <<S("m_phone_id")>>
      BY DEF LogWifi, Declare
    <2>2. /\ codec.moves = <<"m_phone_id">>
          /\ codec.counts = {"m_phone_id"}
          /\ codec.against = <<>> /\ codec.sizeofs = 0
      BY DEF LogWifiCodec, Codec, Nothing
    <2> HIDE DEF fields, codec
    <2>3. Names(fields) = {"m_phone_id"}
      BY <2>1 DEF Names, U, L, S
    <2>4. FieldsOf(fields, Types)
      BY <2>1 DEF FieldsOf, Types, Basics, U, L, S
    <2>5. codec.moves \in Seq(Names(fields)) /\ codec.against \in Seq(Names(fields))
      BY <2>2, <2>3
    <2>6. QED
      BY <2>2, <2>3, <2>4, <2>5 DEF Listed, HeaderNames, fields, codec
  <1>3. Listed(TimeTick.response.fields, TimeTickCodec.response)
    <2> DEFINE fields == TimeTick.response.fields
               codec == TimeTickCodec.response
    <2>1. fields = <<>>
      BY DEF TimeTick, Declare
    <2>2. /\ codec.moves = <<>>
          /\ codec.counts = {}
          /\ codec.against = <<>> /\ codec.sizeofs = 0
      BY DEF TimeTickCodec, Codec, Nothing
    <2> HIDE DEF fields, codec
    <2>3. Names(fields) = {}
      BY <2>1 DEF Names, U, L, S
    <2>4. FieldsOf(fields, Types)
      BY <2>1 DEF FieldsOf, Types, Basics, U, L, S
    <2>5. codec.moves \in Seq(Names(fields)) /\ codec.against \in Seq(Names(fields))
      BY <2>2, <2>3
    <2>6. QED
      BY <2>2, <2>3, <2>4, <2>5 DEF Listed, HeaderNames, fields, codec
  <1>4. Listed(ListPartition.response.fields, ListPartitionCodec.response)
    <2> DEFINE fields == ListPartition.response.fields
               codec == ListPartitionCodec.response
    <2>1. fields = <<<<"m_partitions", "UInt32s">>>>
      BY DEF ListPartition, Declare
    <2>2. /\ codec.moves = <<"m_partitions">>
          /\ codec.counts = {"m_partitions"}
          /\ codec.against = <<>> /\ codec.sizeofs = 0
      BY DEF ListPartitionCodec, Codec, Nothing
    <2> HIDE DEF fields, codec
    <2>3. Names(fields) = {"m_partitions"}
      BY <2>1 DEF Names, U, L, S
    <2>4. FieldsOf(fields, Types)
      BY <2>1 DEF FieldsOf, Types, Basics, U, L, S
    <2>5. codec.moves \in Seq(Names(fields)) /\ codec.against \in Seq(Names(fields))
      BY <2>2, <2>3
    <2>6. QED
      BY <2>2, <2>3, <2>4, <2>5 DEF Listed, HeaderNames, fields, codec
  <1>5. Listed(GetPartitionInfo.response.fields, GetPartitionInfoCodec.response)
    <2> DEFINE fields == GetPartitionInfo.response.fields
               codec == GetPartitionInfoCodec.response
    <2>1. fields = <<L("m_patition_total_size"), L("m_partition_remain_size")>>
      BY DEF GetPartitionInfo, Declare
    <2>2. /\ codec.moves = <<"m_patition_total_size", "m_partition_remain_size">>
          /\ codec.counts = {"m_patition_total_size", "m_partition_remain_size"}
          /\ codec.against = <<>> /\ codec.sizeofs = 0
      BY DEF GetPartitionInfoCodec, Codec, Nothing
    <2> HIDE DEF fields, codec
    <2>3. Names(fields) = {"m_patition_total_size", "m_partition_remain_size"}
      BY <2>1 DEF Names, U, L, S
    <2>4. FieldsOf(fields, Types)
      BY <2>1 DEF FieldsOf, Types, Basics, U, L, S
    <2>5. codec.moves \in Seq(Names(fields)) /\ codec.against \in Seq(Names(fields))
      BY <2>2, <2>3
    <2>6. QED
      BY <2>2, <2>3, <2>4, <2>5 DEF Listed, HeaderNames, fields, codec
  <1>6. Listed(ListPath.response.fields, ListPathCodec.response)
    <2> DEFINE fields == ListPath.response.fields
               codec == ListPathCodec.response
    <2>1. fields = <<<<"m_file_array", "FileStructs">>>>
      BY DEF ListPath, Declare
    <2>2. /\ codec.moves = <<"m_file_array">>
          /\ codec.counts = {"m_file_array"}
          /\ codec.against = <<>> /\ codec.sizeofs = 0
      BY DEF ListPathCodec, Codec, Nothing
    <2> HIDE DEF fields, codec
    <2>3. Names(fields) = {"m_file_array"}
      BY <2>1 DEF Names, U, L, S
    <2>4. FieldsOf(fields, Types)
      BY <2>1 DEF FieldsOf, Types, Basics, U, L, S
    <2>5. codec.moves \in Seq(Names(fields)) /\ codec.against \in Seq(Names(fields))
      BY <2>2, <2>3
    <2>6. QED
      BY <2>2, <2>3, <2>4, <2>5 DEF Listed, HeaderNames, fields, codec
  <1>7. Listed(DeleteFile.response.fields, DeleteFileCodec.response)
    <2> DEFINE fields == DeleteFile.response.fields
               codec == DeleteFileCodec.response
    <2>1. fields = <<>>
      BY DEF DeleteFile, Declare
    <2>2. /\ codec.moves = <<>>
          /\ codec.counts = {}
          /\ codec.against = <<>> /\ codec.sizeofs = 0
      BY DEF DeleteFileCodec, Codec, Nothing
    <2> HIDE DEF fields, codec
    <2>3. Names(fields) = {}
      BY <2>1 DEF Names, U, L, S
    <2>4. FieldsOf(fields, Types)
      BY <2>1 DEF FieldsOf, Types, Basics, U, L, S
    <2>5. codec.moves \in Seq(Names(fields)) /\ codec.against \in Seq(Names(fields))
      BY <2>2, <2>3
    <2>6. QED
      BY <2>2, <2>3, <2>4, <2>5 DEF Listed, HeaderNames, fields, codec
  <1>8. Listed(RenameFile.response.fields, RenameFileCodec.response)
    <2> DEFINE fields == RenameFile.response.fields
               codec == RenameFileCodec.response
    <2>1. fields = <<>>
      BY DEF RenameFile, Declare
    <2>2. /\ codec.moves = <<>>
          /\ codec.counts = {}
          /\ codec.against = <<>> /\ codec.sizeofs = 0
      BY DEF RenameFileCodec, Codec, Nothing
    <2> HIDE DEF fields, codec
    <2>3. Names(fields) = {}
      BY <2>1 DEF Names, U, L, S
    <2>4. FieldsOf(fields, Types)
      BY <2>1 DEF FieldsOf, Types, Basics, U, L, S
    <2>5. codec.moves \in Seq(Names(fields)) /\ codec.against \in Seq(Names(fields))
      BY <2>2, <2>3
    <2>6. QED
      BY <2>2, <2>3, <2>4, <2>5 DEF Listed, HeaderNames, fields, codec
  <1>9. Listed(IsExistFile.response.fields, IsExistFileCodec.response)
    <2> DEFINE fields == IsExistFile.response.fields
               codec == IsExistFileCodec.response
    <2>1. fields = <<U("m_is_exist")>>
      BY DEF IsExistFile, Declare
    <2>2. /\ codec.moves = <<"m_is_exist">>
          /\ codec.counts = {"m_is_exist"}
          /\ codec.against = <<>> /\ codec.sizeofs = 0
      BY DEF IsExistFileCodec, Codec, Nothing
    <2> HIDE DEF fields, codec
    <2>3. Names(fields) = {"m_is_exist"}
      BY <2>1 DEF Names, U, L, S
    <2>4. FieldsOf(fields, Types)
      BY <2>1 DEF FieldsOf, Types, Basics, U, L, S
    <2>5. codec.moves \in Seq(Names(fields)) /\ codec.against \in Seq(Names(fields))
      BY <2>2, <2>3
    <2>6. QED
      BY <2>2, <2>3, <2>4, <2>5 DEF Listed, HeaderNames, fields, codec
  <1>10. Listed(GetMediaInfo.response.fields, GetMediaInfoCodec.response)
    <2> DEFINE fields == GetMediaInfo.response.fields
               codec == GetMediaInfoCodec.response
    <2>1. fields = <<S("m_duration"), S("m_audio_format"), S("m_vedio_format"),
            S("m_vedio_width_height"), U("m_tatol_bitrate"), U("m_audio_frequence"),
            U("m_audio_bitrate"), U("m_frames_per")>>
      BY DEF GetMediaInfo, Declare, MediaFields
    <2>2. /\ codec.moves = <<"m_duration", "m_audio_format", "m_vedio_format",
               "m_vedio_width_height", "m_tatol_bitrate", "m_audio_frequence", "m_audio_bitrate",
               "m_frames_per">>
          /\ codec.counts = {"m_duration", "m_audio_format", "m_vedio_format",
               "m_vedio_width_height", "m_tatol_bitrate", "m_audio_frequence", "m_audio_bitrate",
               "m_frames_per"}
          /\ codec.against = <<>> /\ codec.sizeofs = 0
      BY DEF GetMediaInfoCodec, Codec, Nothing, MediaMoves, MediaCounts
    <2> HIDE DEF fields, codec
    <2>3. Names(fields) = {"m_duration", "m_audio_format", "m_vedio_format",
            "m_vedio_width_height", "m_tatol_bitrate", "m_audio_frequence", "m_audio_bitrate",
            "m_frames_per"}
      BY <2>1 DEF Names, U, L, S
    <2>4. FieldsOf(fields, Types)
      BY <2>1 DEF FieldsOf, Types, Basics, U, L, S
    <2>5. codec.moves \in Seq(Names(fields)) /\ codec.against \in Seq(Names(fields))
      BY <2>2, <2>3
    <2>6. QED
      BY <2>2, <2>3, <2>4, <2>5 DEF Listed, HeaderNames, fields, codec
  <1>11. Listed(CaptureFromVedio.response.fields, CaptureFromVedioCodec.response)
    <2> DEFINE fields == CaptureFromVedio.response.fields
               codec == CaptureFromVedioCodec.response
    <2>1. fields = <<S("m_dst_filename"), S("m_duration"), S("m_audio_format"),
            S("m_vedio_format"), S("m_vedio_width_height"), U("m_tatol_bitrate"),
            U("m_audio_frequence"), U("m_audio_bitrate"), U("m_frames_per")>>
      BY DEF CaptureFromVedio, Declare, MediaFields
    <2>2. /\ codec.moves = <<"m_dst_filename", "m_duration", "m_audio_format", "m_vedio_format",
               "m_vedio_width_height", "m_tatol_bitrate", "m_audio_frequence", "m_audio_bitrate",
               "m_frames_per">>
          /\ codec.counts = {"m_dst_filename", "m_duration", "m_audio_format", "m_vedio_format",
               "m_vedio_width_height", "m_tatol_bitrate", "m_audio_frequence", "m_audio_bitrate",
               "m_frames_per"}
          /\ codec.against = <<>> /\ codec.sizeofs = 0
      BY DEF CaptureFromVedioCodec, Codec, Nothing, MediaMoves, MediaCounts
    <2> HIDE DEF fields, codec
    <2>3. Names(fields) = {"m_dst_filename", "m_duration", "m_audio_format", "m_vedio_format",
            "m_vedio_width_height", "m_tatol_bitrate", "m_audio_frequence", "m_audio_bitrate",
            "m_frames_per"}
      BY <2>1 DEF Names, U, L, S
    <2>4. FieldsOf(fields, Types)
      BY <2>1 DEF FieldsOf, Types, Basics, U, L, S
    <2>5. codec.moves \in Seq(Names(fields)) /\ codec.against \in Seq(Names(fields))
      BY <2>2, <2>3
    <2>6. QED
      BY <2>2, <2>3, <2>4, <2>5 DEF Listed, HeaderNames, fields, codec
  <1>12. Listed(CaptureFromImage.response.fields, CaptureFromImageCodec.response)
    <2> DEFINE fields == CaptureFromImage.response.fields
               codec == CaptureFromImageCodec.response
    <2>1. fields = <<S("m_dst_filename")>>
      BY DEF CaptureFromImage, Declare
    <2>2. /\ codec.moves = <<"m_dst_filename">>
          /\ codec.counts = {}
          /\ codec.against = <<>> /\ codec.sizeofs = 1
      BY DEF CaptureFromImageCodec, Codec, Nothing
    <2> HIDE DEF fields, codec
    <2>3. Names(fields) = {"m_dst_filename"}
      BY <2>1 DEF Names, U, L, S
    <2>4. FieldsOf(fields, Types)
      BY <2>1 DEF FieldsOf, Types, Basics, U, L, S
    <2>5. codec.moves \in Seq(Names(fields)) /\ codec.against \in Seq(Names(fields))
      BY <2>2, <2>3
    <2>6. QED
      BY <2>2, <2>3, <2>4, <2>5 DEF Listed, HeaderNames, fields, codec
  <1>13. Listed(FindFile.response.fields, FindFileCodec.response)
    <2> DEFINE fields == FindFile.response.fields
               codec == FindFileCodec.response
    <2>1. fields = <<<<"m_type_collection", "TypeCalcs">>>>
      BY DEF FindFile, Declare
    <2>2. /\ codec.moves = <<"m_type_collection">>
          /\ codec.counts = {"m_type_collection"}
          /\ codec.against = <<>> /\ codec.sizeofs = 0
      BY DEF FindFileCodec, Codec, Nothing
    <2> HIDE DEF fields, codec
    <2>3. Names(fields) = {"m_type_collection"}
      BY <2>1 DEF Names, U, L, S
    <2>4. FieldsOf(fields, Types)
      BY <2>1 DEF FieldsOf, Types, Basics, U, L, S
    <2>5. codec.moves \in Seq(Names(fields)) /\ codec.against \in Seq(Names(fields))
      BY <2>2, <2>3
    <2>6. QED
      BY <2>2, <2>3, <2>4, <2>5 DEF Listed, HeaderNames, fields, codec
  <1>14. Listed(GetMP3Info.response.fields, GetMP3InfoCodec.response)
    <2> DEFINE fields == GetMP3Info.response.fields
               codec == GetMP3InfoCodec.response
    <2>1. fields = <<S("m_duration"), S("m_artist"), S("m_album")>>
      BY DEF GetMP3Info, Declare
    <2>2. /\ codec.moves = <<"m_duration", "m_artist", "m_album">>
          /\ codec.counts = {"m_duration", "m_artist", "m_album"}
          /\ codec.against = <<>> /\ codec.sizeofs = 0
      BY DEF GetMP3InfoCodec, Codec, Nothing
    <2> HIDE DEF fields, codec
    <2>3. Names(fields) = {"m_duration", "m_artist", "m_album"}
      BY <2>1 DEF Names, U, L, S
    <2>4. FieldsOf(fields, Types)
      BY <2>1 DEF FieldsOf, Types, Basics, U, L, S
    <2>5. codec.moves \in Seq(Names(fields)) /\ codec.against \in Seq(Names(fields))
      BY <2>2, <2>3
    <2>6. QED
      BY <2>2, <2>3, <2>4, <2>5 DEF Listed, HeaderNames, fields, codec
  <1>15. Listed(SendFile.response.fields, SendFileCodec.response)
    <2> DEFINE fields == SendFile.response.fields
               codec == SendFileCodec.response
    <2>1. fields = <<L("m_success_offset"), L("m_success_length")>>
      BY DEF SendFile, Declare
    <2>2. /\ codec.moves = <<>>
          /\ codec.counts = {"m_success_offset", "m_success_length"}
          /\ codec.against = <<>> /\ codec.sizeofs = 0
      BY DEF SendFileCodec, Codec, Nothing
    <2> HIDE DEF fields, codec
    <2>3. Names(fields) = {"m_success_offset", "m_success_length"}
      BY <2>1 DEF Names, U, L, S
    <2>4. FieldsOf(fields, Types)
      BY <2>1 DEF FieldsOf, Types, Basics, U, L, S
    <2>5. codec.moves \in Seq(Names(fields)) /\ codec.against \in Seq(Names(fields))
      BY <2>2, <2>3
    <2>6. QED
      BY <2>2, <2>3, <2>4, <2>5 DEF Listed, HeaderNames, fields, codec
  <1>16. Listed(RecvFile.response.fields, RecvFileCodec.response)
    <2> DEFINE fields == RecvFile.response.fields
               codec == RecvFileCodec.response
    <2>1. fields = <<L("m_file_size"), L("m_offset"), S("m_file_content")>>
      BY DEF RecvFile, Declare
    <2>2. /\ codec.moves = <<"m_file_size", "m_offset", "m_file_content">>
          /\ codec.counts = {"m_file_size", "m_offset", "m_file_content"}
          /\ codec.against = <<>> /\ codec.sizeofs = 0
      BY DEF RecvFileCodec, Codec, Nothing
    <2> HIDE DEF fields, codec
    <2>3. Names(fields) = {"m_file_size", "m_offset", "m_file_content"}
      BY <2>1 DEF Names, U, L, S
    <2>4. FieldsOf(fields, Types)
      BY <2>1 DEF FieldsOf, Types, Basics, U, L, S
    <2>5. codec.moves \in Seq(Names(fields)) /\ codec.against \in Seq(Names(fields))
      BY <2>2, <2>3
    <2>6. QED
      BY <2>2, <2>3, <2>4, <2>5 DEF Listed, HeaderNames, fields, codec
  <1>17. Listed(GetFileSize.response.fields, GetFileSizeCodec.response)
    <2> DEFINE fields == GetFileSize.response.fields
               codec == GetFileSizeCodec.response
    <2>1. fields = <<L("m_file_size")>>
      BY DEF GetFileSize, Declare
    <2>2. /\ codec.moves = <<"m_file_size">>
          /\ codec.counts = {"m_file_size"}
          /\ codec.against = <<>> /\ codec.sizeofs = 0
      BY DEF GetFileSizeCodec, Codec, Nothing
    <2> HIDE DEF fields, codec
    <2>3. Names(fields) = {"m_file_size"}
      BY <2>1 DEF Names, U, L, S
    <2>4. FieldsOf(fields, Types)
      BY <2>1 DEF FieldsOf, Types, Basics, U, L, S
    <2>5. codec.moves \in Seq(Names(fields)) /\ codec.against \in Seq(Names(fields))
      BY <2>2, <2>3
    <2>6. QED
      BY <2>2, <2>3, <2>4, <2>5 DEF Listed, HeaderNames, fields, codec
  <1>18. QED
    BY <1>1, <1>2, <1>3, <1>4, <1>5, <1>6, <1>7, <1>8, <1>9, <1>10, <1>11, <1>12,
       <1>13, <1>14, <1>15, <1>16, <1>17
       DEF Requests, Declared, Codecs

-----------------------------------------------------------------------------
(* Arrays, element by element. *)

\* A struct has finitely many fields.
LEMMA NamesFinite ==
    ASSUME NEW T, NEW fields, FieldsOf(fields, T)
    PROVE  IsFiniteSet(Names(fields))
  <1>1. IsFiniteSet(DOMAIN fields)
    BY FS_Interval DEF FieldsOf
  <1> DEFINE name == [i \in DOMAIN fields |-> fields[i][1]]
  <1>2. name \in Surjection(DOMAIN fields, Names(fields))
    BY DEF Surjection, Names
  <1> HIDE DEF name
  <1>3. QED
    BY <1>1, <1>2, FS_Surjection

\* A struct of basic fields is written within the buffer.
LEMMA PutPlainStream ==
    ASSUME NEW n \in Nat, NEW s \in Streams(n), NEW fields, NEW codec, Plain(fields, codec),
           NEW obj \in Structs(fields)
    PROVE  PutStruct(s, fields, codec.moves, obj) \in Streams(n)
  <1>1. FieldsOf(fields, Basics) /\ codec.moves \in Seq(Names(fields))
    BY DEF Plain
  <1>2. ASSUME NEW m \in Names(fields)
        PROVE  TypeIn(fields, m) \in Basics /\ obj[m] \in BasicOf(TypeIn(fields, m))
    BY <1>1, TypeInFields DEF Structs
  <1>3. QED
    BY <1>1, <1>2, PutStructStream

\* A struct of basic fields is read within the buffer, and stays one.
LEMMA GetPlainResult ==
    ASSUME NEW n \in Nat, NEW s \in Streams(n), NEW fields, NEW codec, Plain(fields, codec),
           NEW obj \in Structs(fields)
    PROVE  GetStruct(s, fields, codec.moves, obj) \in Results(n, Structs(fields))
  <1> DEFINE F == Names(fields)
             X == Structs(fields)
  <1>1. FieldsOf(fields, Basics) /\ codec.moves \in Seq(F)
    BY DEF Plain
  <1>2. \A m \in F : TypeIn(fields, m) \in Basics
    BY <1>1, TypeInFields
  <1>3. \A o \in X, m \in F : o[m] \in BasicOf(TypeIn(fields, m))
    BY DEF Structs
  <1>4. ASSUME NEW o \in X, NEW m \in F, NEW v \in BasicOf(TypeIn(fields, m))
        PROVE  [o EXCEPT ![m] = v] \in X
    <2>1. v \in Int \cup Seq(Nat)
      BY DEF BasicOf
    <2>2. QED
      BY <2>1 DEF Structs
  <1> HIDE DEF F, X
  <1>5. obj \in X
    BY DEF X
  <1>6. GetStruct(s, fields, codec.moves, obj) \in Results(n, X)
    BY <1>1, <1>2, <1>3, <1>4, <1>5, GetStructResult
  <1>7. QED
    BY <1>6 DEF X

\* The length of a basic value is a number of bytes.
LEMMA LengthBasicNat ==
    ASSUME NEW type \in Basics, NEW v \in BasicOf(type)
    PROVE  LengthBasic(type, v) \in Nat
  BY CommandsAssumption DEF Basics, BasicOf, LengthBasic, UInt32, UInt64

CountField(fields, obj, a, m) == LengthBasic(TypeIn(fields, m), obj[m]) + a
CF == INSTANCE FoldInduction WITH Step <- CountField

\* So is the length of a struct of basic fields.
LEMMA LengthPlainNat ==
    ASSUME NEW fields, NEW codec, Plain(fields, codec), NEW obj \in Structs(fields)
    PROVE  LengthStruct(fields, codec.counts, obj) \in Nat
  <1>1. FieldsOf(fields, Basics) /\ codec.counts \subseteq Names(fields)
    BY DEF Plain
  <1>2. IsFiniteSet(codec.counts)
    BY <1>1, NamesFinite, FS_Subset
  <1>3. ASSUME NEW a \in Nat, NEW m \in codec.counts
        PROVE  CountField(fields, obj, a, m) \in Nat
    <2>1. m \in Names(fields)
      BY <1>1
    <2>2. TypeIn(fields, m) \in Basics /\ obj[m] \in BasicOf(TypeIn(fields, m))
      BY <1>1, <2>1, TypeInFields DEF Structs
    <2>3. LengthBasic(TypeIn(fields, m), obj[m]) \in Nat
      BY <2>2, LengthBasicNat
    <2>4. QED
      BY <2>3 DEF CountField
  <1> DEFINE C == codec.counts
  <1>4. CF!FoldOverSet(fields, obj, 0, C) \in Nat
    <2>1. \A a \in Nat, m \in C : CountField(fields, obj, a, m) \in Nat
      BY <1>3
    <2>2. CF!IsFiniteSet(C) /\ 0 \in Nat
      BY <1>2 DEF IsFiniteSet, CF!IsFiniteSet
    <2> HIDE DEF C
    <2>3. QED
      BY <2>1, <2>2, CF!FoldOverSetType
  <1>5. QED
    BY <1>4 DEF LengthStruct, CountField, CF!FoldOverSet,
                MapThenSumSet, MapThenFoldSet

\* A struct just constructed has a value of its type in every field.
LEMMA FreshStruct ==
    ASSUME NEW fields, FieldsOf(fields, Basics), NEW junk \in Nat
    PROVE  Fresh(fields, junk) \in Structs(fields)
  <1>1. <<>> \in Seq(Nat) /\ junk \in Int
    OBVIOUS
  <1>2. QED
    BY <1>1 DEF Fresh, Structs, BasicOf

\* The empty string is a string.
LEMMA EmptyWord == <<>> \in Seq(Nat)
  OBVIOUS

\* A file is read within the buffer, whatever its struct length says.
LEMMA GetFileResult ==
    ASSUME NEW n \in Nat, NEW s \in Streams(n), NEW file \in Structs(FileStruct)
    PROVE  GetFile(s, file) \in Results(n, Structs(FileStruct))
  <1> DEFINE r == GetStruct(s, FileStruct, FileStructCodec.moves, file)
  <1>1. r \in Results(n, Structs(FileStruct))
    BY FilePlain, GetPlainResult
  <1>2. GetFile(s, file) \in {r, [r EXCEPT !.s = Fail(r.s)]}
    BY DEF GetFile
  <1> HIDE DEF r
  <1>3. r.s \in Streams(n)
    BY <1>1 DEF Results
  <1>4. Fail(r.s) \in Streams(n)
    BY <1>3, FailStream
  <1>5. [r EXCEPT !.s = Fail(r.s)] \in Results(n, Structs(FileStruct))
    BY <1>1, <1>4 DEF Results
  <1>6. QED
    BY <1>1, <1>2, <1>5

NextNumber(unused, same, t, e) == PutUInt32(t, e)
VN == INSTANCE FoldInduction WITH Step <- NextNumber

\* operator<< for vectors of integers.
LEMMA PutNumbersStream ==
    ASSUME NEW n \in Nat, NEW s \in Streams(n), NEW vec \in Seq(Int)
    PROVE  PutVector(PutUInt32, s, vec) \in Streams(n)
  <1>1. ASSUME NEW t \in Streams(n), NEW e \in Int
        PROVE  NextNumber(0, 0, t, e) \in Streams(n)
    BY PutIntStream DEF NextNumber, PutUInt32, UInt32
  <1>2. PutInt(s, UInt32, Len(vec)) \in Streams(n)
    BY PutIntStream DEF UInt32
  <1>3. VN!Fold(0, 0, PutInt(s, UInt32, Len(vec)), vec) \in Streams(n)
    BY <1>1, <1>2, VN!FoldType
  <1>4. QED
    BY <1>3 DEF PutVector, NextNumber, VN!Fold, FoldLeft, MapThenFoldSet, Max

NextFile(unused, same, t, e) == PutFile(t, e)
VF == INSTANCE FoldInduction WITH Step <- NextFile

\* operator<< for vectors of files.
LEMMA PutFilesStream ==
    ASSUME NEW n \in Nat, NEW s \in Streams(n), NEW vec \in Seq(Structs(FileStruct))
    PROVE  PutVector(PutFile, s, vec) \in Streams(n)
  <1>1. ASSUME NEW t \in Streams(n), NEW e \in Structs(FileStruct)
        PROVE  NextFile(0, 0, t, e) \in Streams(n)
    BY FilePlain, PutPlainStream DEF NextFile, PutFile
  <1>2. PutInt(s, UInt32, Len(vec)) \in Streams(n)
    BY PutIntStream DEF UInt32
  <1>3. VF!Fold(0, 0, PutInt(s, UInt32, Len(vec)), vec) \in Streams(n)
    BY <1>1, <1>2, VF!FoldType
  <1>4. QED
    BY <1>3 DEF PutVector, NextFile, VF!Fold, FoldLeft, MapThenFoldSet, Max

NextCalc(unused, same, t, e) == PutCalc(t, e)
VC == INSTANCE FoldInduction WITH Step <- NextCalc

\* operator<< for vectors of statistics.
LEMMA PutCalcsStream ==
    ASSUME NEW n \in Nat, NEW s \in Streams(n), NEW vec \in Seq(Structs(TypeCalc))
    PROVE  PutVector(PutCalc, s, vec) \in Streams(n)
  <1>1. ASSUME NEW t \in Streams(n), NEW e \in Structs(TypeCalc)
        PROVE  NextCalc(0, 0, t, e) \in Streams(n)
    BY CalcPlain, PutPlainStream DEF NextCalc, PutCalc
  <1>2. PutInt(s, UInt32, Len(vec)) \in Streams(n)
    BY PutIntStream DEF UInt32
  <1>3. VC!Fold(0, 0, PutInt(s, UInt32, Len(vec)), vec) \in Streams(n)
    BY <1>1, <1>2, VC!FoldType
  <1>4. QED
    BY <1>3 DEF PutVector, NextCalc, VC!Fold, FoldLeft, MapThenFoldSet, Max

NextWord(unused, same, t, e) == PutString(t, e)
VW == INSTANCE FoldInduction WITH Step <- NextWord

\* operator<< for vectors of strings.
LEMMA PutWordsStream ==
    ASSUME NEW n \in Nat, NEW s \in Streams(n), NEW vec \in Seq(Seq(Nat))
    PROVE  PutVector(PutString, s, vec) \in Streams(n)
  <1>1. ASSUME NEW t \in Streams(n), NEW e \in Seq(Nat)
        PROVE  NextWord(0, 0, t, e) \in Streams(n)
    BY PutStringStream DEF NextWord
  <1>2. PutInt(s, UInt32, Len(vec)) \in Streams(n)
    BY PutIntStream DEF UInt32
  <1>3. VW!Fold(0, 0, PutInt(s, UInt32, Len(vec)), vec) \in Streams(n)
    BY <1>1, <1>2, VW!FoldType
  <1>4. QED
    BY <1>3 DEF PutVector, NextWord, VW!Fold, FoldLeft, MapThenFoldSet, Max

NextStrings(unused, same, t, e) == PutStrings(t, e)
VS == INSTANCE FoldInduction WITH Step <- NextStrings

\* operator<< for vectors of vectors of strings.
LEMMA PutStringssStream ==
    ASSUME NEW n \in Nat, NEW s \in Streams(n), NEW vec \in Seq(Seq(Seq(Nat)))
    PROVE  PutVector(PutStrings, s, vec) \in Streams(n)
  <1>1. ASSUME NEW t \in Streams(n), NEW e \in Seq(Seq(Nat))
        PROVE  NextStrings(0, 0, t, e) \in Streams(n)
    BY PutWordsStream DEF NextStrings, PutStrings
  <1>2. PutInt(s, UInt32, Len(vec)) \in Streams(n)
    BY PutIntStream DEF UInt32
  <1>3. VS!Fold(0, 0, PutInt(s, UInt32, Len(vec)), vec) \in Streams(n)
    BY <1>1, <1>2, VS!FoldType
  <1>4. QED
    BY <1>3 DEF PutVector, NextStrings, VS!Fold, FoldLeft, MapThenFoldSet, Max

AddNumber(fresh, unused, r, i) ==
    LET e == GetUInt32(r.s, fresh) IN [s |-> e.s, v |-> Append(r.v, e.v)]
EN == INSTANCE FoldInduction WITH Step <- AddNumber

\* Reading the elements of a vector of integers, however many are announced.
LEMMA NumberElements ==
    ASSUME NEW n \in Nat, NEW s \in Streams(n), NEW count \in Nat,
           NEW fresh \in Int, NEW old \in Seq(Int)
    PROVE  GetElements(GetUInt32, s, count, fresh, old) \in Results(n, Seq(Int))
  <1> DEFINE E == Int
             steps == [i \in 1 .. count |-> i]
  <1>1. ASSUME NEW r \in Results(n, Seq(E)), NEW i \in Nat
        PROVE  AddNumber(fresh, 0, r, i) \in Results(n, Seq(E))
    <2>1. r.s \in Streams(n) /\ r.v \in Seq(E)
      BY DEF Results
    <2> DEFINE e == GetUInt32(r.s, fresh)
    <2>2. e \in Results(n, E)
      BY <2>1, GetIntResult DEF GetUInt32, UInt32
    <2>3. AddNumber(fresh, 0, r, i) = [s |-> e.s, v |-> Append(r.v, e.v)]
      BY DEF AddNumber
    <2> HIDE DEF e, E
    <2>4. e.s \in Streams(n) /\ e.v \in E
      BY <2>2 DEF Results
    <2> DEFINE grown == Append(r.v, e.v)
    <2>5. grown \in Seq(E)
      BY <2>1, <2>4
    <2> HIDE DEF grown
    <2>6. [s |-> e.s, v |-> grown] \in Results(n, Seq(E))
      BY <2>4, <2>5 DEF Results
    <2>7. QED
      BY <2>3, <2>6 DEF grown
  <1>2. [s |-> s, v |-> old] \in Results(n, Seq(E))
    BY DEF Results
  <1>3. steps \in Seq(Nat)
    OBVIOUS
  <1>4. EN!Fold(fresh, 0, [s |-> s, v |-> old], steps) \in Results(n, Seq(E))
    <2> HIDE DEF E, steps
    <2> QED
      BY <1>1, <1>2, <1>3, EN!FoldType
  <1>5. QED
    BY <1>4 DEF GetElements, AddNumber, EN!Fold, FoldLeft, MapThenFoldSet, Max

\* operator>> for vectors of integers.
LEMMA GetNumbersResult ==
    ASSUME NEW n \in Nat, NEW s \in Streams(n), NEW fresh \in Int, NEW old \in Seq(Int)
    PROVE  GetVector(GetUInt32, s, fresh, old) \in Results(n, Seq(Int))
  <1> DEFINE m == GetInt(s, UInt32, 0)
  <1>1. m \in Results(n, Nat)
    BY GetIntResult DEF UInt32
  <1>2. GetVector(GetUInt32, s, fresh, old) = GetElements(GetUInt32, m.s, m.v, fresh, old)
    BY DEF GetVector
  <1> HIDE DEF m
  <1>3. m.s \in Streams(n) /\ m.v \in Nat
    BY <1>1 DEF Results
  <1>4. QED
    BY <1>2, <1>3, NumberElements

AddFile(fresh, unused, r, i) ==
    LET e == GetFile(r.s, fresh) IN [s |-> e.s, v |-> Append(r.v, e.v)]
EF == INSTANCE FoldInduction WITH Step <- AddFile

\* Reading the elements of a vector of files, however many are announced.
LEMMA FileElements ==
    ASSUME NEW n \in Nat, NEW s \in Streams(n), NEW count \in Nat,
           NEW fresh \in Structs(FileStruct), NEW old \in Seq(Structs(FileStruct))
    PROVE  GetElements(GetFile, s, count, fresh, old) \in Results(n, Seq(Structs(FileStruct)))
  <1> DEFINE E == Structs(FileStruct)
             steps == [i \in 1 .. count |-> i]
  <1>1. ASSUME NEW r \in Results(n, Seq(E)), NEW i \in Nat
        PROVE  AddFile(fresh, 0, r, i) \in Results(n, Seq(E))
    <2>1. r.s \in Streams(n) /\ r.v \in Seq(E)
      BY DEF Results
    <2> DEFINE e == GetFile(r.s, fresh)
    <2>2. e \in Results(n, E)
      BY <2>1, GetFileResult
    <2>3. AddFile(fresh, 0, r, i) = [s |-> e.s, v |-> Append(r.v, e.v)]
      BY DEF AddFile
    <2> HIDE DEF e, E
    <2>4. e.s \in Streams(n) /\ e.v \in E
      BY <2>2 DEF Results
    <2> DEFINE grown == Append(r.v, e.v)
    <2>5. grown \in Seq(E)
      BY <2>1, <2>4
    <2> HIDE DEF grown
    <2>6. [s |-> e.s, v |-> grown] \in Results(n, Seq(E))
      BY <2>4, <2>5 DEF Results
    <2>7. QED
      BY <2>3, <2>6 DEF grown
  <1>2. [s |-> s, v |-> old] \in Results(n, Seq(E))
    BY DEF Results
  <1>3. steps \in Seq(Nat)
    OBVIOUS
  <1>4. EF!Fold(fresh, 0, [s |-> s, v |-> old], steps) \in Results(n, Seq(E))
    <2> HIDE DEF E, steps
    <2> QED
      BY <1>1, <1>2, <1>3, EF!FoldType
  <1>5. QED
    BY <1>4 DEF GetElements, AddFile, EF!Fold, FoldLeft, MapThenFoldSet, Max

AddCalc(fresh, unused, r, i) ==
    LET e == GetCalc(r.s, fresh) IN [s |-> e.s, v |-> Append(r.v, e.v)]
EC == INSTANCE FoldInduction WITH Step <- AddCalc

\* Reading the elements of a vector of statistics, however many are announced.
LEMMA CalcElements ==
    ASSUME NEW n \in Nat, NEW s \in Streams(n), NEW count \in Nat,
           NEW fresh \in Structs(TypeCalc), NEW old \in Seq(Structs(TypeCalc))
    PROVE  GetElements(GetCalc, s, count, fresh, old) \in Results(n, Seq(Structs(TypeCalc)))
  <1> DEFINE E == Structs(TypeCalc)
             steps == [i \in 1 .. count |-> i]
  <1>1. ASSUME NEW r \in Results(n, Seq(E)), NEW i \in Nat
        PROVE  AddCalc(fresh, 0, r, i) \in Results(n, Seq(E))
    <2>1. r.s \in Streams(n) /\ r.v \in Seq(E)
      BY DEF Results
    <2> DEFINE e == GetCalc(r.s, fresh)
    <2>2. e \in Results(n, E)
      BY <2>1, CalcPlain, GetPlainResult DEF GetCalc
    <2>3. AddCalc(fresh, 0, r, i) = [s |-> e.s, v |-> Append(r.v, e.v)]
      BY DEF AddCalc
    <2> HIDE DEF e, E
    <2>4. e.s \in Streams(n) /\ e.v \in E
      BY <2>2 DEF Results
    <2> DEFINE grown == Append(r.v, e.v)
    <2>5. grown \in Seq(E)
      BY <2>1, <2>4
    <2> HIDE DEF grown
    <2>6. [s |-> e.s, v |-> grown] \in Results(n, Seq(E))
      BY <2>4, <2>5 DEF Results
    <2>7. QED
      BY <2>3, <2>6 DEF grown
  <1>2. [s |-> s, v |-> old] \in Results(n, Seq(E))
    BY DEF Results
  <1>3. steps \in Seq(Nat)
    OBVIOUS
  <1>4. EC!Fold(fresh, 0, [s |-> s, v |-> old], steps) \in Results(n, Seq(E))
    <2> HIDE DEF E, steps
    <2> QED
      BY <1>1, <1>2, <1>3, EC!FoldType
  <1>5. QED
    BY <1>4 DEF GetElements, AddCalc, EC!Fold, FoldLeft, MapThenFoldSet, Max

\* operator>> for vectors of statistics.
LEMMA GetCalcsResult ==
    ASSUME NEW n \in Nat, NEW s \in Streams(n), NEW fresh \in Structs(TypeCalc), NEW old \in Seq(Structs(TypeCalc))
    PROVE  GetVector(GetCalc, s, fresh, old) \in Results(n, Seq(Structs(TypeCalc)))
  <1> DEFINE m == GetInt(s, UInt32, 0)
  <1>1. m \in Results(n, Nat)
    BY GetIntResult DEF UInt32
  <1>2. GetVector(GetCalc, s, fresh, old) = GetElements(GetCalc, m.s, m.v, fresh, old)
    BY DEF GetVector
  <1> HIDE DEF m
  <1>3. m.s \in Streams(n) /\ m.v \in Nat
    BY <1>1 DEF Results
  <1>4. QED
    BY <1>2, <1>3, CalcElements

AddWord(fresh, unused, r, i) ==
    LET e == GetString(r.s, fresh) IN [s |-> e.s, v |-> Append(r.v, e.v)]
EW == INSTANCE FoldInduction WITH Step <- AddWord

\* Reading the elements of a vector of strings, however many are announced.
LEMMA WordElements ==
    ASSUME NEW n \in Nat, NEW s \in Streams(n), NEW count \in Nat,
           NEW fresh \in Seq(Nat), NEW old \in Seq(Seq(Nat))
    PROVE  GetElements(GetString, s, count, fresh, old) \in Results(n, Seq(Seq(Nat)))
  <1> DEFINE E == Seq(Nat)
             steps == [i \in 1 .. count |-> i]
  <1>1. ASSUME NEW r \in Results(n, Seq(E)), NEW i \in Nat
        PROVE  AddWord(fresh, 0, r, i) \in Results(n, Seq(E))
    <2>1. r.s \in Streams(n) /\ r.v \in Seq(E)
      BY DEF Results
    <2> DEFINE e == GetString(r.s, fresh)
    <2>2. e \in Results(n, E)
      BY <2>1, GetStringResult
    <2>3. AddWord(fresh, 0, r, i) = [s |-> e.s, v |-> Append(r.v, e.v)]
      BY DEF AddWord
    <2> HIDE DEF e, E
    <2>4. e.s \in Streams(n) /\ e.v \in E
      BY <2>2 DEF Results
    <2> DEFINE grown == Append(r.v, e.v)
    <2>5. grown \in Seq(E)
      BY <2>1, <2>4
    <2> HIDE DEF grown
    <2>6. [s |-> e.s, v |-> grown] \in Results(n, Seq(E))
      BY <2>4, <2>5 DEF Results
    <2>7. QED
      BY <2>3, <2>6 DEF grown
  <1>2. [s |-> s, v |-> old] \in Results(n, Seq(E))
    BY DEF Results
  <1>3. steps \in Seq(Nat)
    OBVIOUS
  <1>4. EW!Fold(fresh, 0, [s |-> s, v |-> old], steps) \in Results(n, Seq(E))
    <2> HIDE DEF E, steps
    <2> QED
      BY <1>1, <1>2, <1>3, EW!FoldType
  <1>5. QED
    BY <1>4 DEF GetElements, AddWord, EW!Fold, FoldLeft, MapThenFoldSet, Max

\* operator>> for vectors of strings.
LEMMA GetWordsResult ==
    ASSUME NEW n \in Nat, NEW s \in Streams(n), NEW fresh \in Seq(Nat), NEW old \in Seq(Seq(Nat))
    PROVE  GetVector(GetString, s, fresh, old) \in Results(n, Seq(Seq(Nat)))
  <1> DEFINE m == GetInt(s, UInt32, 0)
  <1>1. m \in Results(n, Nat)
    BY GetIntResult DEF UInt32
  <1>2. GetVector(GetString, s, fresh, old) = GetElements(GetString, m.s, m.v, fresh, old)
    BY DEF GetVector
  <1> HIDE DEF m
  <1>3. m.s \in Streams(n) /\ m.v \in Nat
    BY <1>1 DEF Results
  <1>4. QED
    BY <1>2, <1>3, WordElements

AddStrings(fresh, unused, r, i) ==
    LET e == GetStrings(r.s, fresh) IN [s |-> e.s, v |-> Append(r.v, e.v)]
ES == INSTANCE FoldInduction WITH Step <- AddStrings

\* Reading the elements of a vector of vectors of strings.
LEMMA StringsElements ==
    ASSUME NEW n \in Nat, NEW s \in Streams(n), NEW count \in Nat,
           NEW fresh \in Seq(Seq(Nat)), NEW old \in Seq(Seq(Seq(Nat)))
    PROVE  GetElements(GetStrings, s, count, fresh, old) \in Results(n, Seq(Seq(Seq(Nat))))
  <1> DEFINE E == Seq(Seq(Nat))
             steps == [i \in 1 .. count |-> i]
  <1>1. ASSUME NEW r \in Results(n, Seq(E)), NEW i \in Nat
        PROVE  AddStrings(fresh, 0, r, i) \in Results(n, Seq(E))
    <2>1. r.s \in Streams(n) /\ r.v \in Seq(E)
      BY DEF Results
    <2> DEFINE e == GetStrings(r.s, fresh)
    <2>2. e \in Results(n, E)
      BY <2>1, EmptyWord, GetWordsResult DEF GetStrings
    <2>3. AddStrings(fresh, 0, r, i) = [s |-> e.s, v |-> Append(r.v, e.v)]
      BY DEF AddStrings
    <2> HIDE DEF e, E
    <2>4. e.s \in Streams(n) /\ e.v \in E
      BY <2>2 DEF Results
    <2> DEFINE grown == Append(r.v, e.v)
    <2>5. grown \in Seq(E)
      BY <2>1, <2>4
    <2> HIDE DEF grown
    <2>6. [s |-> e.s, v |-> grown] \in Results(n, Seq(E))
      BY <2>4, <2>5 DEF Results
    <2>7. QED
      BY <2>3, <2>6 DEF grown
  <1>2. [s |-> s, v |-> old] \in Results(n, Seq(E))
    BY DEF Results
  <1>3. steps \in Seq(Nat)
    OBVIOUS
  <1>4. ES!Fold(fresh, 0, [s |-> s, v |-> old], steps) \in Results(n, Seq(E))
    <2> HIDE DEF E, steps
    <2> QED
      BY <1>1, <1>2, <1>3, ES!FoldType
  <1>5. QED
    BY <1>4 DEF GetElements, AddStrings, ES!Fold, FoldLeft, MapThenFoldSet, Max

\* operator>> for vectors of vectors of strings.
LEMMA GetStringssResult ==
    ASSUME NEW n \in Nat, NEW s \in Streams(n), NEW fresh \in Seq(Seq(Nat)), NEW old \in Seq(Seq(Seq(Nat)))
    PROVE  GetVector(GetStrings, s, fresh, old) \in Results(n, Seq(Seq(Seq(Nat))))
  <1> DEFINE m == GetInt(s, UInt32, 0)
  <1>1. m \in Results(n, Nat)
    BY GetIntResult DEF UInt32
  <1>2. GetVector(GetStrings, s, fresh, old) = GetElements(GetStrings, m.s, m.v, fresh, old)
    BY DEF GetVector
  <1> HIDE DEF m
  <1>3. m.s \in Streams(n) /\ m.v \in Nat
    BY <1>1 DEF Results
  <1>4. QED
    BY <1>2, <1>3, StringsElements

-----------------------------------------------------------------------------
(* Fields of any type. *)

ValuesOf(type) ==
    CASE type = "UInt32s" -> Seq(Int)
      [] type = "FileStructs" -> Seq(Structs(FileStruct))
      [] type = "TypeCalcs" -> Seq(Structs(TypeCalc))
      [] type = "Stringss" -> Seq(Seq(Seq(Nat)))
      [] OTHER -> BasicOf(type)

\* The values of a basic type.
LEMMA BasicValues ==
    ASSUME NEW type \in Basics
    PROVE  ValuesOf(type) = BasicOf(type)
  BY DEF Basics, ValuesOf

\* operator<< for every type of a field.
LEMMA PutStream ==
    ASSUME NEW n \in Nat, NEW s \in Streams(n), NEW type \in Types, NEW v \in ValuesOf(type)
    PROVE  Put(s, type, v) \in Streams(n)
  <1>1. CASE type = "UInt32s"
    <2>1. v \in Seq(Int)
      BY <1>1 DEF ValuesOf
    <2>2. Put(s, type, v) = PutVector(PutUInt32, s, v)
      BY <1>1 DEF Put
    <2>3. QED
      BY <2>1, <2>2, PutNumbersStream
  <1>2. CASE type = "FileStructs"
    <2>1. v \in Seq(Structs(FileStruct))
      BY <1>2 DEF ValuesOf
    <2>2. Put(s, type, v) = PutVector(PutFile, s, v)
      BY <1>2 DEF Put
    <2>3. QED
      BY <2>1, <2>2, PutFilesStream
  <1>3. CASE type = "TypeCalcs"
    <2>1. v \in Seq(Structs(TypeCalc))
      BY <1>3 DEF ValuesOf
    <2>2. Put(s, type, v) = PutVector(PutCalc, s, v)
      BY <1>3 DEF Put
    <2>3. QED
      BY <2>1, <2>2, PutCalcsStream
  <1>4. CASE type = "Stringss"
    <2>1. v \in Seq(Seq(Seq(Nat)))
      BY <1>4 DEF ValuesOf
    <2>2. Put(s, type, v) = PutVector(PutStrings, s, v)
      BY <1>4 DEF Put
    <2>3. QED
      BY <2>1, <2>2, PutStringssStream
  <1>5. CASE type \in Basics
    <2>1. v \in BasicOf(type)
      BY <1>5, BasicValues
    <2>2. Put(s, type, v) = PutBasic(s, type, v)
      BY <1>5 DEF Put, Basics
    <2>3. QED
      BY <1>5, <2>1, <2>2, PutBasicStream
  <1>6. QED
    BY <1>1, <1>2, <1>3, <1>4, <1>5 DEF Types

\* Reading an array of files stays in the buffer even if its number is junk.
LEMMA GetFilesResult ==
    ASSUME NEW n \in Nat, NEW s \in Streams(n), NEW old \in Seq(Structs(FileStruct))
    PROVE  GetFiles(s, old) \in Results(n, Seq(Structs(FileStruct)))
  <1> DEFINE m == GetInt(s, UInt32, s.junk)
             fresh == Fresh(FileStruct, s.junk)
  <1>1. s.junk \in Nat
    BY StreamParts
  <1>2. m \in Results(n, Nat)
    BY <1>1, GetIntResult DEF UInt32
  <1>3. fresh \in Structs(FileStruct)
    BY <1>1, FilePlain, FreshStruct DEF Plain
  <1>4. GetFiles(s, old) = GetElements(GetFile, m.s, m.v, fresh, old)
    BY DEF GetFiles
  <1> HIDE DEF m, fresh
  <1>5. m.s \in Streams(n) /\ m.v \in Nat
    BY <1>2 DEF Results
  <1>6. QED
    BY <1>3, <1>4, <1>5, FileElements

\* operator>> for every type of a field.
LEMMA GetResult ==
    ASSUME NEW n \in Nat, NEW s \in Streams(n), NEW type \in Types, NEW old \in ValuesOf(type)
    PROVE  Get(s, type, old) \in Results(n, ValuesOf(type))
  <1>1. CASE type = "UInt32s"
    <2>1. ValuesOf(type) = Seq(Int)
      BY <1>1 DEF ValuesOf
    <2>2. Get(s, type, old) = GetVector(GetUInt32, s, s.junk, old)
      BY <1>1 DEF Get
    <2>3. s.junk \in Int
      BY StreamParts
    <2>4. QED
      BY <2>1, <2>2, <2>3, GetNumbersResult
  <1>2. CASE type = "FileStructs"
    <2>1. ValuesOf(type) = Seq(Structs(FileStruct))
      BY <1>2 DEF ValuesOf
    <2>2. Get(s, type, old) = GetFiles(s, old)
      BY <1>2 DEF Get
    <2>3. QED
      BY <2>1, <2>2, GetFilesResult
  <1>3. CASE type = "TypeCalcs"
    <2>1. ValuesOf(type) = Seq(Structs(TypeCalc))
      BY <1>3 DEF ValuesOf
    <2>2. Get(s, type, old) = GetVector(GetCalc, s, Fresh(TypeCalc, s.junk), old)
      BY <1>3 DEF Get
    <2>3. Fresh(TypeCalc, s.junk) \in Structs(TypeCalc)
      BY StreamParts, CalcPlain, FreshStruct DEF Plain
    <2>4. QED
      BY <2>1, <2>2, <2>3, GetCalcsResult
  <1>4. CASE type = "Stringss"
    <2>1. ValuesOf(type) = Seq(Seq(Seq(Nat)))
      BY <1>4 DEF ValuesOf
    <2>2. Get(s, type, old) = GetVector(GetStrings, s, <<>>, old)
      BY <1>4 DEF Get
    <2>3. <<>> \in Seq(Seq(Nat))
      OBVIOUS
    <2>4. QED
      BY <2>1, <2>2, <2>3, GetStringssResult
  <1>5. CASE type \in Basics
    <2>1. ValuesOf(type) = BasicOf(type)
      BY <1>5, BasicValues
    <2>2. Get(s, type, old) = GetBasic(s, type, old)
      BY <1>5 DEF Get, Basics
    <2>3. QED
      BY <1>5, <2>1, <2>2, GetBasicResult
  <1>6. QED
    BY <1>1, <1>2, <1>3, <1>4, <1>5 DEF Types

CountFile(unused, same, a, e) == a + LengthFile(e)
SF == INSTANCE FoldInduction WITH Step <- CountFile

\* The length of an array of files.
LEMMA LengthFiles ==
    ASSUME NEW vec \in Seq(Structs(FileStruct))
    PROVE  SumLengths(LengthFile, vec) \in Nat
  <1>1. ASSUME NEW a \in Nat, NEW e \in Structs(FileStruct)
        PROVE  CountFile(0, 0, a, e) \in Nat
    <2>1. LengthFile(e) \in Nat
      BY FilePlain, LengthPlainNat DEF LengthFile
    <2>2. QED
      BY <2>1 DEF CountFile
  <1>2. SF!Fold(0, 0, SizeT, vec) \in Nat
    BY <1>1, CommandsAssumption, SF!FoldType
  <1>3. QED
    BY <1>2 DEF SumLengths, CountFile, SF!Fold, FoldLeft, MapThenFoldSet, Max

CountCalc(unused, same, a, e) == a + LengthCalc(e)
SC == INSTANCE FoldInduction WITH Step <- CountCalc

\* The length of an array of statistics.
LEMMA LengthCalcs ==
    ASSUME NEW vec \in Seq(Structs(TypeCalc))
    PROVE  SumLengths(LengthCalc, vec) \in Nat
  <1>1. ASSUME NEW a \in Nat, NEW e \in Structs(TypeCalc)
        PROVE  CountCalc(0, 0, a, e) \in Nat
    <2>1. LengthCalc(e) \in Nat
      BY CalcPlain, LengthPlainNat DEF LengthCalc
    <2>2. QED
      BY <2>1 DEF CountCalc
  <1>2. SC!Fold(0, 0, SizeT, vec) \in Nat
    BY <1>1, CommandsAssumption, SC!FoldType
  <1>3. QED
    BY <1>2 DEF SumLengths, CountCalc, SC!Fold, FoldLeft, MapThenFoldSet, Max

CountWord(unused, same, a, e) == a + LengthBasic("String", e)
SW == INSTANCE FoldInduction WITH Step <- CountWord

\* The length of an array of strings.
LEMMA LengthWords ==
    ASSUME NEW vec \in Seq(Seq(Nat))
    PROVE  SumLengths(LAMBDA str : LengthBasic("String", str), vec) \in Nat
  <1>1. ASSUME NEW a \in Nat, NEW e \in Seq(Nat)
        PROVE  CountWord(0, 0, a, e) \in Nat
    BY CommandsAssumption DEF CountWord, LengthBasic
  <1>2. SW!Fold(0, 0, SizeT, vec) \in Nat
    BY <1>1, CommandsAssumption, SW!FoldType
  <1>3. QED
    BY <1>2 DEF SumLengths, CountWord, SW!Fold, FoldLeft, MapThenFoldSet, Max

CountWords(unused, same, a, e) == a + SumLengths(LAMBDA str : LengthBasic("String", str), e)
SS == INSTANCE FoldInduction WITH Step <- CountWords

\* The length of an array of arrays of strings.
LEMMA LengthStringss ==
    ASSUME NEW vec \in Seq(Seq(Seq(Nat)))
    PROVE  SumLengths(LAMBDA strings :
                      SumLengths(LAMBDA str : LengthBasic("String", str), strings), vec) \in Nat
  <1>1. ASSUME NEW a \in Nat, NEW e \in Seq(Seq(Nat))
        PROVE  CountWords(0, 0, a, e) \in Nat
    <2>1. SumLengths(LAMBDA str : LengthBasic("String", str), e) \in Nat
      BY LengthWords
    <2>2. QED
      BY <2>1 DEF CountWords
  <1>2. SS!Fold(0, 0, SizeT, vec) \in Nat
    BY <1>1, CommandsAssumption, SS!FoldType
  <1>3. QED
    BY <1>2 DEF SumLengths, CountWords, SS!Fold, FoldLeft, MapThenFoldSet, Max

\* The length of any field is a number of bytes.
LEMMA LengthTypeNat ==
    ASSUME NEW type \in Types, NEW v \in ValuesOf(type)
    PROVE  LengthType(type, v) \in Nat
  <1>1. CASE type = "UInt32s"
    <2>1. Len(v) \in Nat
      BY <1>1 DEF ValuesOf
    <2>2. LengthType(type, v) = SizeT + UInt32 * Len(v)
      BY <1>1 DEF LengthType
    <2>3. QED
      BY <2>1, <2>2, CommandsAssumption DEF UInt32
  <1>2. CASE type = "FileStructs"
    <2>1. v \in Seq(Structs(FileStruct))
      BY <1>2 DEF ValuesOf
    <2>2. LengthType(type, v) = SumLengths(LengthFile, v)
      BY <1>2 DEF LengthType
    <2>3. QED
      BY <2>1, <2>2, LengthFiles
  <1>3. CASE type = "TypeCalcs"
    <2>1. v \in Seq(Structs(TypeCalc))
      BY <1>3 DEF ValuesOf
    <2>2. LengthType(type, v) = SumLengths(LengthCalc, v)
      BY <1>3 DEF LengthType
    <2>3. QED
      BY <2>1, <2>2, LengthCalcs
  <1>4. CASE type = "Stringss"
    <2>1. v \in Seq(Seq(Seq(Nat)))
      BY <1>4 DEF ValuesOf
    <2>2. LengthType(type, v)
            = SumLengths(LAMBDA strings :
                           SumLengths(LAMBDA str : LengthBasic("String", str), strings), v)
      BY <1>4 DEF LengthType
    <2>3. QED
      BY <2>1, <2>2, LengthStringss
  <1>5. CASE type \in Basics
    <2>1. v \in BasicOf(type)
      BY <1>5, BasicValues
    <2>2. LengthType(type, v) = LengthBasic(type, v)
      BY <1>5 DEF LengthType, Basics
    <2>3. QED
      BY <1>5, <2>1, <2>2, LengthBasicNat
  <1>6. QED
    BY <1>1, <1>2, <1>3, <1>4, <1>5 DEF Types

PutAnyField(fields, obj, t, m) == Put(t, TypeIn(fields, m), obj[m])
PA == INSTANCE FoldInduction WITH Step <- PutAnyField

\* Writing the fields of a command, in any order.
LEMMA PutAllStream ==
    ASSUME NEW n \in Nat, NEW s \in Streams(n), NEW F, NEW order \in Seq(F), NEW fields, NEW obj,
           \A m \in F : TypeIn(fields, m) \in Types /\ obj[m] \in ValuesOf(TypeIn(fields, m))
    PROVE  PutAll(s, fields, order, obj) \in Streams(n)
  <1>1. ASSUME NEW t \in Streams(n), NEW m \in F
        PROVE  PutAnyField(fields, obj, t, m) \in Streams(n)
    BY PutStream DEF PutAnyField
  <1>2. PA!Fold(fields, obj, s, order) \in Streams(n)
    BY <1>1, PA!FoldType
  <1>3. QED
    BY <1>2 DEF PutAll, PutAnyField, PA!Fold, FoldLeft, MapThenFoldSet, Max

GetAnyField(fields, unused, r, m) ==
    LET g == Get(r.s, TypeIn(fields, m), r.v[m])
    IN  [s |-> g.s, v |-> [r.v EXCEPT ![m] = g.v]]
GA == INSTANCE FoldInduction WITH Step <- GetAnyField

\* Reading the fields of a command, in any order and from any object.
LEMMA GetAllResult ==
    ASSUME NEW n \in Nat, NEW s \in Streams(n), NEW F, NEW order \in Seq(F), NEW fields,
           NEW X, NEW obj \in X,
           \A m \in F : TypeIn(fields, m) \in Types,
           \A o \in X, m \in F : o[m] \in ValuesOf(TypeIn(fields, m)),
           \A o \in X, m \in F : \A v \in ValuesOf(TypeIn(fields, m)) : [o EXCEPT ![m] = v] \in X
    PROVE  GetAll(s, fields, order, obj) \in Results(n, X)
  <1>1. ASSUME NEW r \in Results(n, X), NEW m \in F
        PROVE  GetAnyField(fields, 0, r, m) \in Results(n, X)
    <2> DEFINE type == TypeIn(fields, m)
               g == Get(r.s, type, r.v[m])
    <2>1. r.s \in Streams(n) /\ r.v \in X
      BY DEF Results
    <2>2. type \in Types /\ r.v[m] \in ValuesOf(type)
      BY <2>1
    <2>3. g \in Results(n, ValuesOf(type))
      <3> HIDE DEF type
      <3> QED
        BY <2>1, <2>2, GetResult
    <2>4. g.s \in Streams(n) /\ g.v \in ValuesOf(type)
      BY <2>3 DEF Results
    <2>5. GetAnyField(fields, 0, r, m) = [s |-> g.s, v |-> [r.v EXCEPT ![m] = g.v]]
      BY DEF GetAnyField
    <2> HIDE DEF g
    <2>6. [r.v EXCEPT ![m] = g.v] \in X
      BY <2>1, <2>4
    <2>7. QED
      BY <2>4, <2>5, <2>6 DEF Results
  <1>2. [s |-> s, v |-> obj] \in Results(n, X)
    BY DEF Results
  <1>3. GA!Fold(fields, 0, [s |-> s, v |-> obj], order) \in Results(n, X)
    BY <1>1, <1>2, GA!FoldType
  <1>4. QED
    BY <1>3 DEF GetAll, GetAnyField, GA!Fold, FoldLeft, MapThenFoldSet, Max

CountAnyField(fields, obj, a, m) == LengthType(TypeIn(fields, m), obj[m]) + a
CA == INSTANCE FoldInduction WITH Step <- CountAnyField

\* Length() of a command is at least that of its base class.
LEMMA LengthNat ==
    ASSUME NEW base \in Nat, NEW fields, FieldsOf(fields, Types), NEW codec,
           codec.counts \subseteq Names(fields), codec.sizeofs \in Nat, NEW obj,
           \A m \in Names(fields) : obj[m] \in ValuesOf(TypeIn(fields, m))
    PROVE  Length(base, fields, codec, obj) \in Nat /\ Length(base, fields, codec, obj) >= base
  <1>1. IsFiniteSet(codec.counts)
    BY NamesFinite, FS_Subset
  <1>2. ASSUME NEW a \in Nat, NEW m \in codec.counts
        PROVE  CountAnyField(fields, obj, a, m) \in Nat
    <2>1. TypeIn(fields, m) \in Types /\ obj[m] \in ValuesOf(TypeIn(fields, m))
      BY TypeInFields
    <2>2. LengthType(TypeIn(fields, m), obj[m]) \in Nat
      BY <2>1, LengthTypeNat
    <2>3. QED
      BY <2>2 DEF CountAnyField
  <1> DEFINE C == codec.counts
             sum == MapThenSumSet(LAMBDA m : LengthType(TypeIn(fields, m), obj[m]), C)
  <1>3. CA!FoldOverSet(fields, obj, 0, C) \in Nat
    <2>1. \A a \in Nat, m \in C : CountAnyField(fields, obj, a, m) \in Nat
      BY <1>2
    <2>2. CA!IsFiniteSet(C) /\ 0 \in Nat
      BY <1>1 DEF IsFiniteSet, CA!IsFiniteSet
    <2> HIDE DEF C
    <2>3. QED
      BY <2>1, <2>2, CA!FoldOverSetType
  <1>4. sum \in Nat
    BY <1>3 DEF CountAnyField, CA!FoldOverSet, MapThenSumSet, MapThenFoldSet
  <1>5. Length(base, fields, codec, obj) = base + codec.sizeofs * SizeofString + sum
    BY DEF Length
  <1>6. codec.sizeofs * SizeofString \in Nat
    BY CommandsAssumption
  <1> HIDE DEF sum
  <1>7. QED
    BY <1>4, <1>5, <1>6

-----------------------------------------------------------------------------
(* The objects: what a command declares and its header. *)

Values ==
    Int \cup Seq(Nat) \cup Seq(Int) \cup Seq(Structs(FileStruct)) \cup Seq(Structs(TypeCalc))
      \cup Seq(Seq(Seq(Nat)))
Objects(fields, D) ==
    {o \in [D -> Values] : \A m \in D : o[m] \in ValuesOf(TypeIn(fields, m))}

RequestHeader ==
    {"m_protocol_version", "m_sequence", "m_command_length", "m_command_name",
     "m_command_flag", "m_priority_level"}
ResponseHeader ==
    {"m_protocol_version", "m_sequence", "m_command_length", "m_command_name",
     "m_command_flag", "m_result"}

RequestFields(c) == Declared[c].request.fields
ResponseFields(c) == Declared[c].response.fields
RequestObjects(c) == Objects(RequestFields(c), Names(RequestFields(c)) \cup RequestHeader)
ResponseObjects(c) == Objects(ResponseFields(c), Names(ResponseFields(c)) \cup ResponseHeader)

\* Every field has one of the types, also those that no struct declares.
LEMMA TypeInTypes ==
    ASSUME NEW fields, FieldsOf(fields, Types), NEW m
    PROVE  TypeIn(fields, m) \in Types
  <1>1. CASE m \in Names(fields)
    BY <1>1, TypeInFields
  <1>2. CASE m \notin Names(fields)
    BY <1>2 DEF TypeIn, Types, Basics
  <1>3. QED
    BY <1>1, <1>2

\* The values of any type.
LEMMA ValuesOfTypes ==
    ASSUME NEW type \in Types
    PROVE  ValuesOf(type) \subseteq Values
  <1>1. CASE type \in Basics
    BY <1>1, BasicValues DEF BasicOf, Values
  <1>2. CASE type \in {"UInt32s", "FileStructs", "TypeCalcs", "Stringss"}
    BY <1>2 DEF ValuesOf, Values
  <1>3. QED
    BY <1>1, <1>2 DEF Types

\* A field may be assigned any value of its type.
LEMMA AssignField ==
    ASSUME NEW fields, FieldsOf(fields, Types), NEW D, NEW o \in Objects(fields, D), NEW m \in D,
           NEW v \in ValuesOf(TypeIn(fields, m))
    PROVE  [o EXCEPT ![m] = v] \in Objects(fields, D)
  <1>1. v \in Values
    BY TypeInTypes, ValuesOfTypes
  <1>2. QED
    BY <1>1 DEF Objects

\* What is no field of the command is a number of the header.
LEMMA HeaderField ==
    ASSUME NEW fields, NEW m, m \notin Names(fields)
    PROVE  TypeIn(fields, m) = "UInt32" /\ ValuesOf(TypeIn(fields, m)) = Int
  BY DEF TypeIn, ValuesOf, BasicOf

\* The fields of the header are words.
LEMMA NoFields == \A m : TypeIn(<<>>, m) = "UInt32"
  BY DEF TypeIn, Names

\* The header is written within the buffer.
LEMMA PutHeader ==
    ASSUME NEW n \in Nat, NEW s \in Streams(n), NEW H, NEW order \in Seq(H), NEW obj,
           \A m \in H : obj[m] \in Int
    PROVE  PutStruct(s, <<>>, order, obj) \in Streams(n)
  <1>1. \A m \in H : TypeIn(<<>>, m) \in Basics /\ obj[m] \in BasicOf(TypeIn(<<>>, m))
    BY NoFields DEF Basics, BasicOf
  <1>2. QED
    BY <1>1, PutStructStream

\* The header is read within the buffer, and the object stays one.
LEMMA GetHeader ==
    ASSUME NEW n \in Nat, NEW s \in Streams(n), NEW fields, FieldsOf(fields, Types),
           NEW D, NEW H, H \subseteq D, H \cap Names(fields) = {}, NEW order \in Seq(H),
           NEW obj \in Objects(fields, D)
    PROVE  GetStruct(s, <<>>, order, obj) \in Results(n, Objects(fields, D))
  <1> DEFINE X == Objects(fields, D)
  <1>1. \A m \in H : TypeIn(<<>>, m) \in Basics
    BY NoFields DEF Basics
  <1>2. \A m \in H : BasicOf(TypeIn(<<>>, m)) = Int
    BY NoFields DEF BasicOf
  <1>3. \A m \in H : ValuesOf(TypeIn(fields, m)) = Int
    BY HeaderField
  <1>4. \A o \in X, m \in H : o[m] \in BasicOf(TypeIn(<<>>, m))
    BY <1>2, <1>3 DEF Objects
  <1>5. \A o \in X, m \in H : \A v \in BasicOf(TypeIn(<<>>, m)) : [o EXCEPT ![m] = v] \in X
    BY <1>2, <1>3, AssignField
  <1> HIDE DEF X
  <1>6. obj \in X
    BY DEF X
  <1>7. GetStruct(s, <<>>, order, obj) \in Results(n, X)
    BY <1>1, <1>4, <1>5, <1>6, GetStructResult
  <1>8. QED
    BY <1>7 DEF X

\* The fields of a command are written within the buffer.
LEMMA PutFields ==
    ASSUME NEW n \in Nat, NEW s \in Streams(n), NEW fields, FieldsOf(fields, Types),
           NEW D, Names(fields) \subseteq D, NEW order \in Seq(Names(fields)),
           NEW obj \in Objects(fields, D)
    PROVE  PutAll(s, fields, order, obj) \in Streams(n)
  <1>1. \A m \in Names(fields) : /\ TypeIn(fields, m) \in Types
                                 /\ obj[m] \in ValuesOf(TypeIn(fields, m))
    BY TypeInTypes DEF Objects
  <1>2. QED
    BY <1>1, PutAllStream

\* The fields of a command are read within the buffer, and the object stays one.
LEMMA GetFields ==
    ASSUME NEW n \in Nat, NEW s \in Streams(n), NEW fields, FieldsOf(fields, Types),
           NEW D, Names(fields) \subseteq D, NEW order \in Seq(Names(fields)),
           NEW obj \in Objects(fields, D)
    PROVE  GetAll(s, fields, order, obj) \in Results(n, Objects(fields, D))
  <1> DEFINE X == Objects(fields, D)
             F == Names(fields)
  <1>1. \A m \in F : TypeIn(fields, m) \in Types
    BY TypeInTypes
  <1>2. \A o \in X, m \in F : o[m] \in ValuesOf(TypeIn(fields, m))
    BY DEF Objects
  <1>3. \A o \in X, m \in F : \A v \in ValuesOf(TypeIn(fields, m)) : [o EXCEPT ![m] = v] \in X
    BY AssignField
  <1>4. obj \in X /\ order \in Seq(F)
    OBVIOUS
  <1> HIDE DEF X, F
  <1>5. GetAll(s, fields, order, obj) \in Results(n, X)
    BY <1>1, <1>2, <1>3, <1>4, GetAllResult
  <1>6. QED
    BY <1>5 DEF X

-----------------------------------------------------------------------------
(* The codecs of a command. *)

\* The headers of requests and responses are made of their fields.
LEMMA HeaderOrders ==
    /\ CommandBase \in Seq(RequestHeader) /\ CommandBase \in Seq(ResponseHeader)
    /\ RequestBase \in Seq(RequestHeader) /\ ResponseBase \in Seq(ResponseHeader)
    /\ CommandBase \o ResponseBase \in Seq(ResponseHeader)
  <1>1. /\ CommandBase \in Seq(RequestHeader) /\ CommandBase \in Seq(ResponseHeader)
        /\ RequestBase \in Seq(RequestHeader) /\ ResponseBase \in Seq(ResponseHeader)
    BY DEF CommandBase, RequestBase, ResponseBase, RequestHeader, ResponseHeader
  <1>2. QED
    BY <1>1, ConcatProperties

\* What is known of the fields of a request.
LEMMA RequestFacts ==
    ASSUME NEW c \in Requests
    PROVE  /\ Listed(RequestFields(c), Codecs[c].request)
           /\ FieldsOf(RequestFields(c), Types)
           /\ RequestHeader \cap Names(RequestFields(c)) = {}
  BY RequestsListed DEF Listed, RequestFields, HeaderNames, RequestHeader

\* What is known of the fields of a response.
LEMMA ResponseFacts ==
    ASSUME NEW c \in DOMAIN Declared
    PROVE  /\ Listed(ResponseFields(c), Codecs[c].response)
           /\ FieldsOf(ResponseFields(c), Types)
           /\ ResponseHeader \cap Names(ResponseFields(c)) = {}
  BY ResponsesListed DEF Listed, ResponseFields, HeaderNames, ResponseHeader

\* TransByteOrderAndWrite of any request stays in the buffer.
LEMMA WriteRequestResult ==
    ASSUME NEW n \in Nat, NEW s \in Streams(n), NEW c \in Requests, NEW obj \in RequestObjects(c)
    PROVE  WriteRequest(c, s, obj) \in Results(n, RequestObjects(c))
  <1> DEFINE fields == RequestFields(c)
             codec == Codecs[c].request
             D == Names(fields) \cup RequestHeader
             base == WriteBase(s, obj)
             header == WriteRequestBase(s, obj)
             w == PutAll(Nested(header), fields, codec.moves, obj)
  <1>1. /\ FieldsOf(fields, Types) /\ RequestHeader \cap Names(fields) = {}
        /\ codec.moves \in Seq(Names(fields)) /\ codec.against \in Seq(Names(fields))
    BY RequestFacts DEF Listed
  <1>2. obj \in Objects(fields, D)
    BY DEF RequestObjects
  <1>3. \A m \in RequestHeader : obj[m] \in Int
    BY <1>1, <1>2, HeaderField DEF Objects
  <1>4. base \in Streams(n)
    BY <1>3, HeaderOrders, PutHeader DEF WriteBase
  <1>5. Nested(base) \in Streams(n)
    <2> HIDE DEF base
    <2> QED
      BY <1>4, NestedStream
  <1>6. header \in Streams(n)
    <2>1. header = PutStruct(Nested(base), <<>>, RequestBase, obj)
      BY DEF WriteRequestBase
    <2> HIDE DEF base, header
    <2>2. QED
      BY <1>3, <1>5, <2>1, HeaderOrders, PutHeader
  <1>7. WriteRequest(c, s, obj) = GetAll(w, fields, codec.against, obj)
    BY DEF WriteRequest, RequestFields
  <1> HIDE DEF header, base, fields, codec
  <1>8. Names(fields) \subseteq D
    OBVIOUS
  <1>9. Nested(header) \in Streams(n)
    BY <1>6, NestedStream
  <1> HIDE DEF D
  <1>10. w \in Streams(n)
    BY <1>1, <1>2, <1>8, <1>9, PutFields
  <1> HIDE DEF w
  <1>11. GetAll(w, fields, codec.against, obj) \in Results(n, Objects(fields, D))
    BY <1>1, <1>2, <1>8, <1>10, GetFields
  <1>12. QED
    BY <1>7, <1>11 DEF RequestObjects, fields, D

\* TransByteOrderAndRead of any response stays in the buffer.
LEMMA ReadResponseResult ==
    ASSUME NEW n \in Nat, NEW s \in Streams(n), NEW c \in DOMAIN Declared,
           NEW obj \in ResponseObjects(c)
    PROVE  ReadResponse(c, s, obj) \in Results(n, ResponseObjects(c))
  <1> DEFINE fields == ResponseFields(c)
             codec == Codecs[c].response
             D == Names(fields) \cup ResponseHeader
             X == Objects(fields, D)
             base == ReadBase(s, obj)
             header == ReadResponseBase(s, obj)
  <1>1. /\ FieldsOf(fields, Types) /\ ResponseHeader \cap Names(fields) = {}
        /\ codec.moves \in Seq(Names(fields))
    BY ResponseFacts DEF Listed
  <1>2. obj \in X
    BY DEF ResponseObjects
  <1>3. base = GetStruct(s, <<>>, CommandBase, obj)
    BY DEF ReadBase
  <1>4. header = GetStruct(Nested(base.s), <<>>, ResponseBase, base.v)
    BY DEF ReadResponseBase
  <1>5. ReadResponse(c, s, obj) = GetAll(Nested(header.s), fields, codec.moves, header.v)
    BY DEF ReadResponse, ResponseFields
  <1>6. X = ResponseObjects(c)
    BY DEF ResponseObjects
  <1>7. Names(fields) \subseteq D /\ ResponseHeader \subseteq D
    OBVIOUS
  <1> HIDE DEF header, base, fields, codec, D
  <1>8. base \in Results(n, X)
    BY <1>1, <1>2, <1>3, <1>7, HeaderOrders, GetHeader
  <1>9. Nested(base.s) \in Streams(n) /\ base.v \in X
    BY <1>8, NestedStream DEF Results
  <1>10. header \in Results(n, X)
    BY <1>1, <1>4, <1>7, <1>9, HeaderOrders, GetHeader
  <1>11. Nested(header.s) \in Streams(n) /\ header.v \in X
    BY <1>10, NestedStream DEF Results
  <1>12. GetAll(Nested(header.s), fields, codec.moves, header.v) \in Results(n, X)
    BY <1>1, <1>7, <1>11, GetFields
  <1>13. QED
    BY <1>5, <1>6, <1>12

-----------------------------------------------------------------------------
(* Values the callers and the phone fill in. *)

\* Memory that nobody has written is a memory.
LEMMA MemoryType ==
    ASSUME NEW n \in Nat, NEW junk \in Nat
    PROVE  Memory(n, junk) \in Seq(Nat) /\ Len(Memory(n, junk)) = n
  BY DEF Memory

\* The place of a field among the others.
LEMMA IndexNat ==
    ASSUME NEW T, NEW fields, FieldsOf(fields, T), NEW m \in Names(fields)
    PROVE  Index(fields, m) \in Nat
  <1>1. \E i \in DOMAIN fields : fields[i][1] = m
    BY DEF Names
  <1>2. Index(fields, m) \in DOMAIN fields
    BY <1>1 DEF Index
  <1>3. QED
    BY <1>2 DEF FieldsOf

\* What the caller fills in is of the type of its field: basic types, ...
LEMMA BasicValue ==
    ASSUME NEW type \in Basics, NEW i \in Nat
    PROVE  Basic(type, i) \in BasicOf(type)
  <1> DEFINE str == [k \in 1 .. 1 + (i % 2) |-> i % Byte]
  <1>1. i % Byte \in Nat /\ 1 + (i % 2) \in Nat
    BY ByteAssumption
  <1>2. str \in Seq(Nat)
    BY <1>1
  <1>3. Basic(type, i) = IF type = "String" THEN str ELSE i
    BY DEF Basic
  <1> HIDE DEF str
  <1>4. QED
    BY <1>2, <1>3 DEF BasicOf

\* ... structs of them, ...
LEMMA FilledStruct ==
    ASSUME NEW fields, FieldsOf(fields, Basics), NEW i \in Nat
    PROVE  Filled(fields, i) \in Structs(fields)
  <1>1. ASSUME NEW m \in Names(fields)
        PROVE  /\ Basic(TypeIn(fields, m), i + Index(fields, m)) \in BasicOf(TypeIn(fields, m))
               /\ BasicOf(TypeIn(fields, m)) \subseteq Int \cup Seq(Nat)
    <2>1. TypeIn(fields, m) \in Basics /\ i + Index(fields, m) \in Nat
      BY TypeInFields, IndexNat
    <2>2. QED
      BY <2>1, BasicValue DEF BasicOf
  <1>2. QED
    BY <1>1 DEF Filled, Structs

\* ... files, ...
LEMMA FilledFileStruct ==
    ASSUME NEW i \in Nat
    PROVE  FilledFile(i) \in Structs(FileStruct)
  <1> DEFINE file == Filled(FileStruct, i)
             m == "m_struct_length"
  <1>1. file \in Structs(FileStruct)
    BY FilePlain, FilledStruct DEF Plain
  <1>2. LengthFile(file) - UInt32 \in Int
    <2>1. LengthFile(file) \in Nat
      BY <1>1, FilePlain, LengthPlainNat DEF LengthFile
    <2>2. QED
      BY <2>1 DEF UInt32
  <1>3. TypeIn(FileStruct, m) = "UInt32"
    BY DEF TypeIn, Names, Index, FileStruct, U, L, S
  <1>4. FilledFile(i) = [file EXCEPT ![m] = LengthFile(file) - UInt32]
    BY DEF FilledFile
  <1> HIDE DEF file, m
  <1>5. QED
    BY <1>1, <1>2, <1>3, <1>4 DEF Structs, BasicOf

\* ... fields of any type, ...
LEMMA FilledType ==
    ASSUME NEW type \in Types, NEW i \in Nat, NEW fill \in Nat
    PROVE  FillType(type, i, fill) \in ValuesOf(type)
  <1>1. CASE fill = 0
    <2>1. CASE type \in {"UInt32", "UInt64"}
      BY <1>1, <2>1 DEF FillType, ValuesOf, BasicOf
    <2>2. CASE type \notin {"UInt32", "UInt64"}
      <3>1. FillType(type, i, fill) = <<>>
        BY <1>1, <2>2 DEF FillType
      <3>2. <<>> \in ValuesOf(type)
        <4>1. /\ <<>> \in Seq(Int) /\ <<>> \in Seq(Structs(FileStruct))
              /\ <<>> \in Seq(Structs(TypeCalc)) /\ <<>> \in Seq(Seq(Seq(Nat)))
              /\ <<>> \in Seq(Nat)
          OBVIOUS
        <4>2. QED
          BY <2>2, <4>1 DEF ValuesOf, BasicOf, Types, Basics
      <3>3. QED
        BY <3>1, <3>2
    <2>3. QED
      BY <2>1, <2>2
  <1>2. CASE fill # 0
    <2>1. CASE type = "UInt32s"
      <3>1. FillType(type, i, fill) = <<i, i + 1>>
        BY <1>2, <2>1 DEF FillType
      <3>2. <<i, i + 1>> \in Seq(Int)
        OBVIOUS
      <3>3. ValuesOf(type) = Seq(Int)
        BY <2>1 DEF ValuesOf
      <3>4. QED
        BY <3>1, <3>2, <3>3
    <2>2. CASE type = "FileStructs"
      <3>1. FillType(type, i, fill) = <<FilledFile(fill), FilledFile(fill + 1)>>
        BY <1>2, <2>2 DEF FillType
      <3>2. FilledFile(fill) \in Structs(FileStruct) /\ FilledFile(fill + 1) \in Structs(FileStruct)
        BY FilledFileStruct
      <3>3. <<FilledFile(fill), FilledFile(fill + 1)>> \in Seq(Structs(FileStruct))
        BY <3>2
      <3>4. ValuesOf(type) = Seq(Structs(FileStruct))
        BY <2>2 DEF ValuesOf
      <3>5. QED
        BY <3>1, <3>3, <3>4
    <2>3. CASE type = "TypeCalcs"
      <3>1. FillType(type, i, fill) = <<Filled(TypeCalc, fill), Filled(TypeCalc, fill + 1)>>
        BY <1>2, <2>3 DEF FillType
      <3>2. Filled(TypeCalc, fill) \in Structs(TypeCalc) /\ Filled(TypeCalc, fill + 1) \in Structs(TypeCalc)
        BY CalcPlain, FilledStruct DEF Plain
      <3>3. <<Filled(TypeCalc, fill), Filled(TypeCalc, fill + 1)>> \in Seq(Structs(TypeCalc))
        BY <3>2
      <3>4. ValuesOf(type) = Seq(Structs(TypeCalc))
        BY <2>3 DEF ValuesOf
      <3>5. QED
        BY <3>1, <3>3, <3>4
    <2>4. CASE type = "Stringss"
      <3>1. FillType(type, i, fill) = <<<<<<1>>, <<2, 3>>>>, <<>>, <<<<fill>>>>>>
        BY <1>2, <2>4 DEF FillType
      <3>2. <<1>> \in Seq(Nat) /\ <<2, 3>> \in Seq(Nat) /\ <<fill>> \in Seq(Nat)
        OBVIOUS
      <3>3. \A x, y \in Seq(Nat) : <<x, y>> \in Seq(Seq(Nat)) /\ <<x>> \in Seq(Seq(Nat))
        OBVIOUS
      <3>4. \A x, y \in Seq(Seq(Nat)) : <<x, <<>>, y>> \in Seq(Seq(Seq(Nat)))
        OBVIOUS
      <3>5. <<<<1>>, <<2, 3>>>> \in Seq(Seq(Nat)) /\ <<<<fill>>>> \in Seq(Seq(Nat))
        BY <3>2, <3>3
      <3>6. <<<<<<1>>, <<2, 3>>>>, <<>>, <<<<fill>>>>>> \in Seq(Seq(Seq(Nat)))
        BY <3>4, <3>5
      <3>7. QED
        BY <2>4, <3>1, <3>6 DEF ValuesOf
    <2>5. CASE type \in Basics
      <3>1. FillType(type, i, fill) = Basic(type, i + fill)
        BY <1>2, <2>5 DEF FillType, Basics
      <3>2. i + fill \in Nat
        OBVIOUS
      <3>3. QED
        BY <2>5, <3>1, <3>2, BasicValue, BasicValues
    <2>6. QED
      BY <2>1, <2>2, <2>3, <2>4, <2>5 DEF Types
  <1>3. QED
    BY <1>1, <1>2

\* An object: its fields, and a header of numbers behind them.
LEMMA ObjectMade ==
    ASSUME NEW fields, FieldsOf(fields, Types), NEW H, H \cap Names(fields) = {}, NEW f, NEW h,
           DOMAIN f = Names(fields), DOMAIN h = H,
           \A m \in Names(fields) : f[m] \in ValuesOf(TypeIn(fields, m)),
           \A m \in H : h[m] \in Int
    PROVE  WithBase(f, h) \in Objects(fields, Names(fields) \cup H)
  <1> DEFINE o == WithBase(f, h)
             D == Names(fields) \cup H
  <1>1. o = [m \in D |-> IF m \in Names(fields) THEN f[m] ELSE h[m]]
    BY DEF WithBase
  <1>2. ASSUME NEW m \in D
        PROVE  o[m] \in ValuesOf(TypeIn(fields, m)) /\ o[m] \in Values
    <2>1. CASE m \in Names(fields)
      <3>1. o[m] = f[m]
        BY <1>1, <2>1
      <3>2. QED
        BY <2>1, <3>1, TypeInTypes, ValuesOfTypes
    <2>2. CASE m \notin Names(fields)
      <3>1. o[m] = h[m] /\ h[m] \in Int
        BY <1>1, <2>2
      <3>2. QED
        BY <2>2, <3>1, HeaderField DEF Values
    <2>3. QED
      BY <2>1, <2>2
  <1> HIDE DEF o, D
  <1>3. o \in [D -> Values]
    BY <1>1, <1>2
  <1>4. o \in Objects(fields, D)
    BY <1>2, <1>3 DEF Objects
  <1>5. QED
    BY <1>4 DEF o, D

\* ... and all the fields of a command.
LEMMA FilledFields ==
    ASSUME NEW fields, FieldsOf(fields, Types), NEW fill \in Nat
    PROVE  /\ DOMAIN FillFields(fields, fill) = Names(fields)
           /\ \A m \in Names(fields) : FillFields(fields, fill)[m] \in ValuesOf(TypeIn(fields, m))
  <1>1. ASSUME NEW m \in Names(fields)
        PROVE  FillType(TypeIn(fields, m), Index(fields, m), fill) \in ValuesOf(TypeIn(fields, m))
    BY TypeInTypes, IndexNat, FilledType
  <1>2. QED
    BY <1>1 DEF FillFields

\* The name of a command is a number.
LEMMA NameNat ==
    /\ \A c \in Requests : Declared[c].request.name \in Nat
    /\ \A c \in DOMAIN Declared : Declared[c].response.name \in Nat
  <1>1. Error.response.name \in Nat
    BY DEF Error, Declare
  <1>2. LogWifi.request.name \in Nat /\ LogWifi.response.name \in Nat
    BY DEF LogWifi, Declare
  <1>3. TimeTick.request.name \in Nat /\ TimeTick.response.name \in Nat
    BY DEF TimeTick, Declare
  <1>4. ListPartition.request.name \in Nat /\ ListPartition.response.name \in Nat
    BY DEF ListPartition, Declare
  <1>5. GetPartitionInfo.request.name \in Nat /\ GetPartitionInfo.response.name \in Nat
    BY DEF GetPartitionInfo, Declare
  <1>6. ListPath.request.name \in Nat /\ ListPath.response.name \in Nat
    BY DEF ListPath, Declare
  <1>7. DeleteFile.request.name \in Nat /\ DeleteFile.response.name \in Nat
    BY DEF DeleteFile, Declare
  <1>8. RenameFile.request.name \in Nat /\ RenameFile.response.name \in Nat
    BY DEF RenameFile, Declare
  <1>9. IsExistFile.request.name \in Nat /\ IsExistFile.response.name \in Nat
    BY DEF IsExistFile, Declare
  <1>10. GetMediaInfo.request.name \in Nat /\ GetMediaInfo.response.name \in Nat
    BY DEF GetMediaInfo, Declare
  <1>11. CaptureFromVedio.request.name \in Nat /\ CaptureFromVedio.response.name \in Nat
    BY DEF CaptureFromVedio, Declare
  <1>12. CaptureFromImage.request.name \in Nat /\ CaptureFromImage.response.name \in Nat
    BY DEF CaptureFromImage, Declare
  <1>13. FindFile.request.name \in Nat /\ FindFile.response.name \in Nat
    BY DEF FindFile, Declare
  <1>14. GetMP3Info.request.name \in Nat /\ GetMP3Info.response.name \in Nat
    BY DEF GetMP3Info, Declare
  <1>15. SendFile.request.name \in Nat /\ SendFile.response.name \in Nat
    BY DEF SendFile, Declare
  <1>16. RecvFile.request.name \in Nat /\ RecvFile.response.name \in Nat
    BY DEF RecvFile, Declare
  <1>17. GetFileSize.request.name \in Nat /\ GetFileSize.response.name \in Nat
    BY DEF GetFileSize, Declare
  <1>18. QED
    BY <1>1, <1>2, <1>3, <1>4, <1>5, <1>6, <1>7, <1>8, <1>9, <1>10, <1>11, <1>12,
       <1>13, <1>14, <1>15, <1>16, <1>17
       DEF Requests, Declared

\* A new request is an object of its class.
LEMMA NewRequestObject ==
    ASSUME NEW c \in Requests, NEW fill \in Nat, NEW junk \in Nat
    PROVE  NewRequest(c, fill, junk) \in RequestObjects(c)
  <1> DEFINE fields == RequestFields(c)
             f == FillFields(fields, fill)
             h == [m_protocol_version |-> fill, m_sequence |-> fill + 1, m_command_length |-> junk,
                   m_command_name |-> Declared[c].request.name, m_command_flag |-> 0,
                   m_priority_level |-> junk]
  <1>1. FieldsOf(fields, Types) /\ RequestHeader \cap Names(fields) = {}
    BY RequestFacts
  <1>2. DOMAIN h = RequestHeader /\ \A m \in RequestHeader : h[m] \in Int
    <2>1. Declared[c].request.name \in Int
      BY NameNat
    <2>2. QED
      BY <2>1 DEF RequestHeader
  <1>3. NewRequest(c, fill, junk) = WithBase(f, h)
    BY DEF NewRequest, RequestFields
  <1> HIDE DEF h, fields
  <1>4. /\ DOMAIN f = Names(fields)
        /\ \A m \in Names(fields) : f[m] \in ValuesOf(TypeIn(fields, m))
    BY <1>1, FilledFields
  <1> HIDE DEF f
  <1>5. WithBase(f, h) \in Objects(fields, Names(fields) \cup RequestHeader)
    BY <1>1, <1>2, <1>4, ObjectMade
  <1>6. QED
    BY <1>3, <1>5 DEF RequestObjects, fields

\* A new response is an object of its class.
LEMMA NewResponseObject ==
    ASSUME NEW c \in DOMAIN Declared, NEW junk \in Nat
    PROVE  NewResponse(c, junk) \in ResponseObjects(c)
  <1> DEFINE fields == ResponseFields(c)
             f == [m \in Names(fields) |->
                     IF TypeIn(fields, m) \in {"UInt32", "UInt64"} THEN junk ELSE <<>>]
             h == [m_protocol_version |-> junk, m_sequence |-> junk, m_command_length |-> junk,
                   m_command_name |-> Declared[c].response.name, m_command_flag |-> 0,
                   m_result |-> junk]
  <1>1. FieldsOf(fields, Types) /\ ResponseHeader \cap Names(fields) = {}
    BY ResponseFacts
  <1>2. DOMAIN h = ResponseHeader /\ \A m \in ResponseHeader : h[m] \in Int
    <2>1. Declared[c].response.name \in Int
      BY NameNat
    <2>2. QED
      BY <2>1 DEF ResponseHeader
  <1>3. NewResponse(c, junk) = WithBase(f, h)
    BY DEF NewResponse, ResponseFields
  <1> HIDE DEF h, fields
  <1>4. ASSUME NEW m \in Names(fields)
        PROVE  f[m] \in ValuesOf(TypeIn(fields, m))
    <2>1. TypeIn(fields, m) \in Types
      BY <1>1, TypeInTypes
    <2>2. CASE TypeIn(fields, m) \in {"UInt32", "UInt64"}
      BY <2>2 DEF ValuesOf, BasicOf
    <2>3. CASE TypeIn(fields, m) \notin {"UInt32", "UInt64"}
      <3>1. f[m] = <<>>
        BY <2>3
      <3>2. /\ <<>> \in Seq(Int) /\ <<>> \in Seq(Structs(FileStruct))
            /\ <<>> \in Seq(Structs(TypeCalc)) /\ <<>> \in Seq(Seq(Seq(Nat)))
            /\ <<>> \in Seq(Nat)
        OBVIOUS
      <3> HIDE DEF f
      <3>3. QED
        BY <2>1, <2>3, <3>1, <3>2 DEF ValuesOf, BasicOf, Types, Basics
    <2>4. QED
      BY <2>2, <2>3
  <1>5. DOMAIN f = Names(fields)
    OBVIOUS
  <1> HIDE DEF f
  <1>6. WithBase(f, h) \in Objects(fields, Names(fields) \cup ResponseHeader)
    BY <1>1, <1>2, <1>4, <1>5, ObjectMade
  <1>7. QED
    BY <1>3, <1>6 DEF ResponseObjects, fields

\* Assigning the length of the message to an object.
LEMMA AssignLength ==
    ASSUME NEW value \in Int
    PROVE  /\ \A c \in Requests : \A o \in RequestObjects(c) :
                 [o EXCEPT !["m_command_length"] = value] \in RequestObjects(c)
           /\ \A c \in DOMAIN Declared : \A o \in ResponseObjects(c) :
                 [o EXCEPT !["m_command_length"] = value] \in ResponseObjects(c)
  <1> DEFINE m == "m_command_length"
  <1>1. ASSUME NEW c \in Requests, NEW o \in RequestObjects(c)
        PROVE  [o EXCEPT ![m] = value] \in RequestObjects(c)
    <2> DEFINE fields == RequestFields(c)
               D == Names(fields) \cup RequestHeader
    <2>1. m \in RequestHeader
      BY DEF RequestHeader
    <2> HIDE DEF m
    <2>2. FieldsOf(fields, Types) /\ m \notin Names(fields) /\ m \in D
      BY <2>1, RequestFacts
    <2>3. value \in ValuesOf(TypeIn(fields, m)) /\ o \in Objects(fields, D)
      BY <2>2, HeaderField DEF RequestObjects
    <2> HIDE DEF D, fields
    <2>4. [o EXCEPT ![m] = value] \in Objects(fields, D)
      BY <2>2, <2>3, AssignField
    <2>5. QED
      BY <2>4 DEF RequestObjects, D, fields
  <1>2. ASSUME NEW c \in DOMAIN Declared, NEW o \in ResponseObjects(c)
        PROVE  [o EXCEPT ![m] = value] \in ResponseObjects(c)
    <2> DEFINE fields == ResponseFields(c)
               D == Names(fields) \cup ResponseHeader
    <2>1. m \in ResponseHeader
      BY DEF ResponseHeader
    <2> HIDE DEF m
    <2>2. FieldsOf(fields, Types) /\ m \notin Names(fields) /\ m \in D
      BY <2>1, ResponseFacts
    <2>3. value \in ValuesOf(TypeIn(fields, m)) /\ o \in Objects(fields, D)
      BY <2>2, HeaderField DEF ResponseObjects
    <2> HIDE DEF D, fields
    <2>4. [o EXCEPT ![m] = value] \in Objects(fields, D)
      BY <2>2, <2>3, AssignField
    <2>5. QED
      BY <2>4 DEF ResponseObjects, D, fields
  <1>3. QED
    BY <1>1, <1>2

\* What a stream has written is a sequence of bytes.
LEMMA BytesType ==
    ASSUME NEW n \in Nat, NEW s \in Streams(n)
    PROVE  Bytes(s) \in Seq(Nat)
  <1>1. s.mem \in Seq(Nat) /\ s.ptr \in Nat /\ s.ptr <= Len(s.mem)
    BY StreamParts
  <1> DEFINE mem == s.mem
             p == s.ptr
  <1> HIDE DEF mem, p
  <1>2. mem \in Seq(Nat) /\ p \in Nat /\ p <= Len(mem)
    BY <1>1 DEF mem, p
  <1>3. \A i \in 1 .. p : mem[i] \in Nat
    BY <1>2
  <1>4. SubSeq(mem, 1, p) \in Seq(Nat)
    BY <1>2, <1>3, SubSeqProperties
  <1>5. QED
    BY <1>4 DEF Bytes, mem, p

\* The order in which a struct declares its fields is one of its fields.
LEMMA OrderType ==
    ASSUME NEW T, NEW fields, FieldsOf(fields, T)
    PROVE  Order(fields) \in Seq(Names(fields))
  <1>1. \A i \in DOMAIN fields : fields[i][1] \in Names(fields)
    BY DEF Names
  <1>2. QED
    BY <1>1 DEF Order, FieldsOf

\* What the phone writes is a sequence of bytes.
LEMMA PhoneWritesType ==
    ASSUME NEW c \in DOMAIN Declared, NEW obj \in ResponseObjects(c)
    PROVE  PhoneWrites(c, obj) \in Seq(Nat)
  <1> DEFINE fields == ResponseFields(c)
             D == Names(fields) \cup ResponseHeader
             n == Power[UInt32]
             s == PutStruct(Room, <<>>, CommandBase \o ResponseBase, obj)
             all == PutAll(s, fields, Order(fields), obj)
  <1>1. FieldsOf(fields, Types) /\ ResponseHeader \cap Names(fields) = {}
    BY ResponseFacts
  <1>2. obj \in Objects(fields, D)
    BY DEF ResponseObjects
  <1>3. \A m \in ResponseHeader : obj[m] \in Int
    BY <1>1, <1>2, HeaderField DEF Objects
  <1>4. n \in Nat /\ Room \in Streams(n)
    <2>1. n \in Nat
      BY PowerPositive DEF UInt32
    <2>2. Room = Stream(Memory(n, 0), n, 0)
      BY DEF Room
    <2> HIDE DEF n
    <2>3. Memory(n, 0) \in Seq(Nat) /\ Len(Memory(n, 0)) = n
      BY <2>1, MemoryType
    <2>4. QED
      BY <2>1, <2>2, <2>3, StreamMade
  <1> HIDE DEF n
  <1>5. s \in Streams(n)
    BY <1>3, <1>4, HeaderOrders, PutHeader
  <1>6. PhoneWrites(c, obj) = Bytes(all)
    BY DEF PhoneWrites, ResponseFields
  <1> HIDE DEF s, fields
  <1>7. Order(fields) \in Seq(Names(fields)) /\ Names(fields) \subseteq D
    BY <1>1, OrderType
  <1> HIDE DEF D
  <1>8. all \in Streams(n)
    BY <1>1, <1>2, <1>4, <1>5, <1>7, PutFields
  <1> HIDE DEF all
  <1>9. QED
    BY <1>4, <1>6, <1>8, BytesType

\* The phone's answer is an object of the response's class.
LEMMA PhoneAnswerObject ==
    ASSUME NEW c \in DOMAIN Declared, NEW fill \in Nat
    PROVE  PhoneAnswer(c, fill) \in ResponseObjects(c)
  <1> DEFINE fields == ResponseFields(c)
             f == FillFields(fields, fill)
             h == [m_protocol_version |-> 1, m_sequence |-> fill + 1, m_command_length |-> 0,
                   m_command_name |-> Declared[c].response.name, m_command_flag |-> fill,
                   m_result |-> 1]
             obj == WithBase(f, h)
             length == Len(PhoneWrites(c, obj)) - 3 * UInt32
  <1>1. FieldsOf(fields, Types) /\ ResponseHeader \cap Names(fields) = {}
    BY ResponseFacts
  <1>2. DOMAIN h = ResponseHeader /\ \A m \in ResponseHeader : h[m] \in Int
    <2>1. Declared[c].response.name \in Int
      BY NameNat
    <2>2. QED
      BY <2>1 DEF ResponseHeader
  <1>3. PhoneAnswer(c, fill) = [obj EXCEPT !["m_command_length"] = length]
    BY DEF PhoneAnswer, ResponseFields
  <1> HIDE DEF h, fields
  <1>4. /\ DOMAIN f = Names(fields)
        /\ \A m \in Names(fields) : f[m] \in ValuesOf(TypeIn(fields, m))
    BY <1>1, FilledFields
  <1> HIDE DEF f
  <1>5. obj \in Objects(fields, Names(fields) \cup ResponseHeader)
    BY <1>1, <1>2, <1>4, ObjectMade
  <1> HIDE DEF obj
  <1>6. obj \in ResponseObjects(c)
    BY <1>5 DEF ResponseObjects, fields
  <1>7. Len(PhoneWrites(c, obj)) \in Nat
    BY <1>6, PhoneWritesType
  <1>8. length \in Int
    BY <1>7 DEF UInt32
  <1> HIDE DEF length
  <1>9. QED
    BY <1>3, <1>6, <1>8, AssignLength

-----------------------------------------------------------------------------
(* The exchange. *)

\* What every state satisfies: the objects under way have values of the types
\* their structs declare, what is under way are bytes, and the stream of the
\* last handler is one on the buffer it was told.
IInv ==
    /\ cmd \in DOMAIN Declared /\ decodes \in Nat /\ wire \in Seq(Nat)
    /\ phase \in {"idle", "made", "set", "encoded", "answered", "decoded"}
    /\ phase \in {"made", "set"} => cmd \in Requests /\ request \in RequestObjects(cmd)
    /\ phase = "idle" => decodes = 0
    /\ decodes > 0 => response \in ResponseObjects(cmd)
    /\ last.length \in Nat /\ last.s \in Streams(last.length)

\* Before the first call there is no stream.
LEMMA NothingYet == None.length = 0 /\ None.s \in Streams(0)
  <1>1. None = [s |-> Stream(<<>>, 0, 0), length |-> 0]
    BY DEF None
  <1>2. Stream(<<>>, 0, 0) \in Streams(0)
    BY DEF Stream, Streams
  <1>3. QED
    BY <1>1, <1>2

\* The invariant holds at first.
LEMMA InitIInv == Init => IInv
  <1> SUFFICES ASSUME Init
               PROVE  IInv
    OBVIOUS
  <1>1. cmd \in DOMAIN Declared
    BY DEF Init, Declared
  <1>2. last.length = 0 /\ last.s \in Streams(0)
    BY NothingYet DEF Init
  <1>3. decodes = 0 /\ wire = <<>> /\ phase = "idle"
    BY DEF Init
  <1>4. QED
    BY <1>1, <1>2, <1>3 DEF IInv

\* What uninitialised memory holds is a number.
LEMMA JunkNat == Junk \subseteq Nat /\ Fills \subseteq Nat
  BY CommandsAssumption, ByteAssumption

\* A new request keeps the invariant.
LEMMA NewIInv ==
    ASSUME IInv, NEW c \in Requests, NEW fill \in Nat, NEW junk \in Nat, New(c, fill, junk)
    PROVE  IInv'
  <1>1. request' \in RequestObjects(c)
    BY NewRequestObject DEF New
  <1>2. c \in DOMAIN Declared
    BY DEF Requests
  <1>3. /\ phase' = "made" /\ cmd' = c /\ decodes' = decodes /\ wire' = wire
        /\ response' = response /\ last' = last
    BY DEF New
  <1>4. decodes = 0
    BY DEF New, IInv
  <1>5. QED
    BY <1>1, <1>2, <1>3, <1>4 DEF IInv

\* SetPriority() keeps the invariant.
LEMMA SetPriorityIInv ==
    ASSUME IInv, NEW priority \in Int, SetPriority(priority)
    PROVE  IInv'
  <1> DEFINE m == "m_priority_level"
             fields == RequestFields(cmd)
             D == Names(fields) \cup RequestHeader
  <1>1. /\ phase \in {"made", "set"} /\ cmd \in Requests /\ request \in RequestObjects(cmd)
        /\ request' \in {request, [request EXCEPT ![m] = priority]}
        /\ UNCHANGED <<phase, cmd, response, decodes, wire, last>>
    BY DEF IInv, SetPriority
  <1>2. [request EXCEPT ![m] = priority] \in RequestObjects(cmd)
    <2>1. m \in RequestHeader
      BY DEF RequestHeader
    <2> HIDE DEF m
    <2>2. FieldsOf(fields, Types) /\ m \notin Names(fields) /\ m \in D
      BY <1>1, <2>1, RequestFacts
    <2>3. priority \in ValuesOf(TypeIn(fields, m)) /\ request \in Objects(fields, D)
      BY <1>1, <2>2, HeaderField DEF RequestObjects
    <2> HIDE DEF D, fields
    <2>4. [request EXCEPT ![m] = priority] \in Objects(fields, D)
      BY <2>2, <2>3, AssignField
    <2>5. QED
      BY <2>4 DEF RequestObjects, D, fields
  <1>3. request' \in RequestObjects(cmd)
    BY <1>1, <1>2
  <1>4. QED
    BY <1>1, <1>3 DEF IInv

\* SetData() keeps the invariant.
LEMMA SetDataIInv ==
    ASSUME IInv, SetData
    PROVE  IInv'
  BY DEF IInv, SetData

\* m_command_length of a request is a number.
LEMMA LengthRequest ==
    ASSUME NEW c \in Requests, NEW obj \in RequestObjects(c), NEW codec,
           codec.counts \subseteq Names(RequestFields(c)), codec.sizeofs \in Nat
    PROVE  Length(LengthRequestBase, RequestFields(c), codec, obj) \in Nat
  <1>1. LengthRequestBase \in Nat
    BY DEF LengthRequestBase, LengthBase, UInt32
  <1>2. FieldsOf(RequestFields(c), Types)
    BY RequestFacts
  <1>3. \A m \in Names(RequestFields(c)) : obj[m] \in ValuesOf(TypeIn(RequestFields(c), m))
    BY DEF RequestObjects, Objects
  <1>4. QED
    BY <1>1, <1>2, <1>3, LengthNat

\* m_command_length of a response is a number.
LEMMA LengthResponse ==
    ASSUME NEW c \in DOMAIN Declared, NEW obj \in ResponseObjects(c)
    PROVE  Length(LengthResponseBase, ResponseFields(c), Codecs[c].response, obj) \in Nat
  <1> DEFINE codec == Codecs[c].response
  <1>1. LengthResponseBase \in Nat
    BY DEF LengthResponseBase, LengthBase, UInt32
  <1>2. /\ FieldsOf(ResponseFields(c), Types)
        /\ codec.counts \subseteq Names(ResponseFields(c)) /\ codec.sizeofs \in Nat
    BY ResponseFacts DEF Listed
  <1>3. \A m \in Names(ResponseFields(c)) : obj[m] \in ValuesOf(TypeIn(ResponseFields(c), m))
    BY DEF ResponseObjects, Objects
  <1> HIDE DEF codec
  <1>4. Length(LengthResponseBase, ResponseFields(c), codec, obj) \in Nat
    BY <1>1, <1>2, <1>3, LengthNat
  <1>5. QED
    BY <1>4 DEF codec

\* The lengths that are tried are lengths.
LEMMA NeededNat ==
    ASSUME IInv, phase = "set"
    PROVE  Needed \in Nat /\ Needed - 1 \in Nat
  <1> DEFINE codec == Codec(<<>>, Names(RequestFields(cmd)))
             length == Length(LengthRequestBase, RequestFields(cmd), codec, request)
  <1>1. cmd \in Requests /\ request \in RequestObjects(cmd)
    BY DEF IInv
  <1>2. codec.counts = Names(RequestFields(cmd)) /\ codec.sizeofs = 0
    BY DEF Codec
  <1>3. Needed = 3 * UInt32 + length
    BY DEF Needed, RequestFields
  <1> HIDE DEF codec
  <1>4. length \in Nat
    BY <1>1, <1>2, LengthRequest
  <1> HIDE DEF length
  <1>5. QED
    BY <1>3, <1>4 DEF UInt32

\* Encode() keeps the invariant, for every length of the buffer.
LEMMA EncodeIInv ==
    ASSUME IInv, NEW length \in Nat, NEW junk \in Nat, Encode(length, junk)
    PROVE  IInv'
  <1> DEFINE mem == Memory(length, junk)
             obj == [request EXCEPT !["m_command_length"] = RequestLength]
             w == WriteRequest(cmd, Stream(mem, length, junk), obj)
  <1>1. /\ phase = "set" /\ cmd \in Requests /\ request \in RequestObjects(cmd)
        /\ cmd \in DOMAIN Declared /\ decodes \in Nat
        /\ decodes > 0 => response \in ResponseObjects(cmd)
    BY DEF IInv, Encode
  <1>2. RequestLength \in Int
    <2> DEFINE codec == Codecs[cmd].request
    <2>1. codec.counts \subseteq Names(RequestFields(cmd)) /\ codec.sizeofs \in Nat
      BY <1>1, RequestFacts DEF Listed
    <2>2. RequestLength = Length(LengthRequestBase, RequestFields(cmd), codec, request)
      BY DEF RequestLength, RequestFields
    <2> HIDE DEF codec
    <2>3. QED
      BY <1>1, <2>1, <2>2, LengthRequest
  <1>3. obj \in RequestObjects(cmd)
    BY <1>1, <1>2, AssignLength
  <1>4. Stream(mem, length, junk) \in Streams(length)
    <2>1. mem \in Seq(Nat) /\ Len(mem) = length
      BY MemoryType
    <2> HIDE DEF mem
    <2>2. QED
      BY <2>1, StreamMade
  <1> HIDE DEF obj, mem
  <1>5. w \in Results(length, RequestObjects(cmd))
    BY <1>1, <1>3, <1>4, WriteRequestResult
  <1>6. /\ phase' = "encoded" /\ cmd' = cmd /\ response' = response /\ decodes' = decodes
        /\ wire' = Bytes(w.s) /\ last' = [s |-> w.s, length |-> length]
    BY DEF Encode, obj, mem
  <1> HIDE DEF w
  <1>7. w.s \in Streams(length)
    BY <1>5 DEF Results
  <1>8. wire' \in Seq(Nat)
    BY <1>6, <1>7, BytesType
  <1>9. last'.length = length /\ last'.s = w.s
    BY <1>6
  <1>10. QED
    BY <1>1, <1>6, <1>7, <1>8, <1>9 DEF IInv

\* The phone's answer keeps the invariant.
LEMMA AnswerIInv ==
    ASSUME IInv, NEW c, NEW fill \in Nat, NEW arrived, Answer(c, fill, arrived)
    PROVE  IInv'
  <1> DEFINE message == PhoneWrites(c, PhoneAnswer(c, fill))
  <1>1. /\ c \in {cmd, "Error"} /\ cmd \in DOMAIN Declared /\ decodes \in Nat
        /\ decodes > 0 => c = cmd /\ response \in ResponseObjects(cmd)
    BY DEF Answer, IInv
  <1>2. c \in DOMAIN Declared
    BY <1>1 DEF Declared
  <1>3. message \in Seq(Nat)
    BY <1>2, PhoneAnswerObject, PhoneWritesType
  <1>4. /\ phase' = "answered" /\ cmd' = c /\ response' = response /\ decodes' = decodes
        /\ wire' = SubSeq(message, 1, arrived) /\ arrived \in 0 .. Len(message) /\ last' = None
    BY DEF Answer
  <1> HIDE DEF message
  <1>5. SubSeq(message, 1, arrived) \in Seq(Nat)
    <2>1. arrived \in Int /\ \A i \in 1 .. arrived : message[i] \in Nat
      BY <1>3, <1>4
    <2>2. QED
      BY <2>1, SubSeqProperties
  <1>6. last'.length = 0 /\ last'.s \in Streams(0)
    BY <1>4, NothingYet
  <1>7. QED
    BY <1>1, <1>2, <1>4, <1>5, <1>6 DEF IInv

\* Decode() keeps the invariant, for every answer and every part of it.
LEMMA DecodeIInv ==
    ASSUME IInv, NEW fresh \in BOOLEAN, NEW spare \in Nat, NEW junk \in Nat,
           Decode(fresh, spare, junk)
    PROVE  IInv'
  <1> DEFINE length == Len(wire) + spare
             mem == wire \o Memory(spare, junk)
             old == IF fresh \/ decodes = 0 THEN NewResponse(cmd, junk) ELSE response
             r == ReadResponse(cmd, Stream(mem, length, junk), old)
             total == Length(LengthResponseBase, ResponseFields(cmd), Codecs[cmd].response, r.v)
  <1>1. /\ cmd \in DOMAIN Declared /\ decodes \in Nat /\ wire \in Seq(Nat)
        /\ decodes > 0 => response \in ResponseObjects(cmd)
    BY DEF IInv
  <1>2. old \in ResponseObjects(cmd)
    BY <1>1, NewResponseObject
  <1>3. length \in Nat /\ Stream(mem, length, junk) \in Streams(length)
    <2>1. Memory(spare, junk) \in Seq(Nat) /\ Len(Memory(spare, junk)) = spare
      BY MemoryType
    <2>2. mem \in Seq(Nat) /\ Len(mem) = Len(wire) + Len(Memory(spare, junk))
      BY <1>1, <2>1, ConcatProperties
    <2>3. length \in Nat
      BY <1>1
    <2>4. Len(mem) = length
      BY <2>1, <2>2
    <2> HIDE DEF mem, length
    <2>5. QED
      BY <2>2, <2>3, <2>4, StreamMade
  <1>4. /\ phase' = "decoded" /\ cmd' = cmd /\ wire' = wire
        /\ response' = [r.v EXCEPT !["m_command_length"] = total]
        /\ decodes' = IF fresh THEN 1 ELSE decodes + 1
        /\ last' = [s |-> r.s, length |-> length]
    BY DEF Decode, ResponseFields
  <1> HIDE DEF old, mem, length
  <1>5. r \in Results(length, ResponseObjects(cmd))
    BY <1>1, <1>2, <1>3, ReadResponseResult
  <1> HIDE DEF r
  <1>6. r.s \in Streams(length) /\ r.v \in ResponseObjects(cmd)
    BY <1>5 DEF Results
  <1>7. total \in Int
    <2>1. total \in Nat
      BY <1>1, <1>6, LengthResponse
    <2> HIDE DEF total
    <2>2. QED
      BY <2>1
  <1> HIDE DEF total
  <1>8. response' \in ResponseObjects(cmd)
    BY <1>1, <1>4, <1>6, <1>7, AssignLength
  <1>9. last'.length = length /\ last'.s = r.s
    BY <1>4
  <1>10. decodes' \in Nat
    BY <1>1, <1>4
  <1>11. QED
    BY <1>1, <1>3, <1>4, <1>6, <1>8, <1>9, <1>10 DEF IInv

\* Every step keeps the invariant.
LEMMA NextIInv == IInv /\ [Next]_vars => IInv'
  <1> SUFFICES ASSUME IInv, [Next]_vars
               PROVE  IInv'
    OBVIOUS
  <1>1. ASSUME NEW c \in Requests, NEW fill \in Fills, NEW junk \in Junk, New(c, fill, junk)
        PROVE  IInv'
    BY <1>1, JunkNat, NewIInv
  <1>2. ASSUME NEW priority \in {0, 9, 10}, SetPriority(priority)
        PROVE  IInv'
    BY <1>2, SetPriorityIInv
  <1>3. CASE SetData
    BY <1>3, SetDataIInv
  <1>4. ASSUME phase = "set", NEW length \in {6, 22, Needed - 1, Needed, Needed + 5},
               NEW junk \in Junk, Encode(length, junk)
        PROVE  IInv'
    <2>1. length \in Nat
      BY <1>4, NeededNat
    <2>2. QED
      BY <1>4, <2>1, JunkNat, EncodeIInv
  <1>5. ASSUME NEW c, NEW fill \in Fills, NEW arrived, Answer(c, fill, arrived)
        PROVE  IInv'
    BY <1>5, JunkNat, AnswerIInv
  <1>6. ASSUME NEW fresh \in BOOLEAN, NEW spare \in {0, 7}, NEW junk \in Junk,
               Decode(fresh, spare, junk)
        PROVE  IInv'
    BY <1>6, JunkNat, DecodeIInv
  <1>7. CASE UNCHANGED vars
    BY <1>7 DEF IInv, vars
  <1>8. QED
    BY <1>1, <1>2, <1>3, <1>4, <1>5, <1>6, <1>7 DEF Next

\* The invariant implies the property.
LEMMA IInvImplies == IInv => StreamInBuffer
  <1> SUFFICES ASSUME IInv
               PROVE  StreamInBuffer
    OBVIOUS
  <1>1. last.length \in Nat /\ last.s \in Streams(last.length)
    BY DEF IInv
  <1>2. QED
    BY <1>1, StreamParts DEF StreamInBuffer

\* No encoding and no decoding leaves the buffer it was told, for every size of
\* a byte and of the C++ types, whatever is filled in, whatever memory holds,
\* whatever arrives and however much of it is missing (MobileCommands.h:834, 864).
THEOREM BufferKept == Spec => []StreamInBuffer
  <1>1. Init => IInv
    BY InitIInv
  <1>2. IInv /\ [Next]_vars => IInv'
    BY NextIInv
  <1>3. IInv => StreamInBuffer
    BY IInvImplies
  <1>4. QED
    BY <1>1, <1>2, <1>3, PTL DEF Spec

-----------------------------------------------------------------------------
(* How much is written. *)

\* Unless an assertion is met, the cursor of t is k bytes behind that of s.
Wrote(s, t, k) == ~t.asserts => ~s.asserts /\ t.ptr = s.ptr + k

\* What is written piece by piece adds up.
LEMMA WroteBoth ==
    ASSUME NEW n \in Nat, NEW s \in Streams(n), NEW t \in Streams(n), NEW u \in Streams(n),
           NEW k \in Nat, NEW l \in Nat, Wrote(s, t, k), Wrote(t, u, l)
    PROVE  Wrote(s, u, k + l)
  BY StreamParts DEF Wrote

\* The stream of a derived class goes on where that of its base has stopped.
LEMMA NestedWrote ==
    ASSUME NEW n \in Nat, NEW s \in Streams(n)
    PROVE  Wrote(s, Nested(s), 0)
  BY DEF Wrote, Nested, Streams

\* memcpy to the cursor moves it by what is copied, or fails.
LEMMA PutBytesWrote ==
    ASSUME NEW n \in Nat, NEW s \in Streams(n), NEW bytes \in Seq(Nat)
    PROVE  Wrote(s, PutBytes(s, bytes), Len(bytes))
  <1> DEFINE k == Len(bytes)
             mem == Over(s.mem, s.ptr, bytes)
             t == PutBytes(s, bytes)
  <1>1. CASE ~Fits(s, k)
    <2>1. t = [s EXCEPT !.asserts = TRUE]
      BY <1>1 DEF PutBytes, Fail
    <2>2. t.asserts
      BY <2>1 DEF Streams
    <2> HIDE DEF t
    <2>3. QED
      BY <2>2 DEF Wrote, t
  <1>2. CASE Fits(s, k)
    <2>1. t = [s EXCEPT !.ptr = s.ptr + k, !.len = s.len - k,
                        !.written = s.written + k, !.mem = mem]
      BY <1>2 DEF PutBytes, Advance, Streams, Over
    <2> HIDE DEF mem, k
    <2>2. t.ptr = s.ptr + k /\ t.asserts = s.asserts
      BY <2>1 DEF Streams
    <2> HIDE DEF t
    <2>3. QED
      BY <2>2 DEF Wrote, t, k
  <1>3. QED
    BY <1>1, <1>2

\* operator<< for integers writes as many bytes as the type has.
LEMMA PutIntWrote ==
    ASSUME NEW n \in Nat, NEW s \in Streams(n), NEW w \in {1, 2, 4, 8}, NEW m \in Int
    PROVE  Wrote(s, PutInt(s, w, m), w)
  <1>1. Hton(w, m) \in Seq(Nat) /\ Len(Hton(w, m)) = w
    BY HtonType
  <1>2. Wrote(s, PutBytes(s, Hton(w, m)), Len(Hton(w, m)))
    BY <1>1, PutBytesWrote
  <1>3. QED
    BY <1>1, <1>2 DEF PutInt

\* operator<< for strings writes the length and the characters.
LEMMA PutStringWrote ==
    ASSUME NEW n \in Nat, NEW s \in Streams(n), NEW str \in Seq(Nat)
    PROVE  Wrote(s, PutString(s, str), UInt32 + Len(str))
  <1> DEFINE t == PutInt(s, UInt32, Len(str))
  <1>1. t \in Streams(n) /\ Wrote(s, t, UInt32)
    BY PutIntStream, PutIntWrote DEF UInt32
  <1>2. PutString(s, str) = PutBytes(t, str)
    BY DEF PutString
  <1> HIDE DEF t
  <1>3. PutBytes(t, str) \in Streams(n) /\ Wrote(t, PutBytes(t, str), Len(str))
    BY <1>1, PutBytesStream, PutBytesWrote
  <1>4. UInt32 \in Nat /\ Len(str) \in Nat
    BY DEF UInt32
  <1>5. QED
    BY <1>1, <1>2, <1>3, <1>4, WroteBoth

\* Where size_t is as long as the length of a string, Length() of a field of a
\* basic type is what operator<< writes of it.
LEMMA PutBasicWrote ==
    ASSUME SizeT = UInt32,
           NEW n \in Nat, NEW s \in Streams(n), NEW type \in Basics, NEW v \in BasicOf(type)
    PROVE  Wrote(s, PutBasic(s, type, v), LengthBasic(type, v))
  <1>1. CASE type = "UInt32"
    <2>1. v \in Int
      BY <1>1 DEF BasicOf
    <2>2. Wrote(s, PutInt(s, UInt32, v), UInt32)
      BY <2>1, PutIntWrote DEF UInt32
    <2>3. QED
      BY <1>1, <2>2 DEF PutBasic, LengthBasic
  <1>2. CASE type = "UInt64"
    <2>1. v \in Int
      BY <1>2 DEF BasicOf
    <2>2. Wrote(s, PutInt(s, UInt64, v), UInt64)
      BY <2>1, PutIntWrote DEF UInt64
    <2>3. QED
      BY <1>2, <2>2 DEF PutBasic, LengthBasic
  <1>3. CASE type = "String"
    <2>1. v \in Seq(Nat)
      BY <1>3 DEF BasicOf
    <2>2. Wrote(s, PutString(s, v), UInt32 + Len(v))
      BY <2>1, PutStringWrote
    <2>3. QED
      BY <1>3, <2>2 DEF PutBasic, LengthBasic
  <1>4. QED
    BY <1>1, <1>2, <1>3 DEF Basics

\* So it is of a vector of strings: the number of strings, and each of them.
LEMMA PutWordsWrote ==
    ASSUME SizeT = UInt32,
           NEW n \in Nat, NEW s \in Streams(n), NEW vec \in Seq(Seq(Nat))
    PROVE  Wrote(s, PutVector(PutString, s, vec),
                 SumLengths(LAMBDA str : LengthBasic("String", str), vec))
  <1> DEFINE head == PutInt(s, UInt32, Len(vec))
             length == SumLengths(LAMBDA str : LengthBasic("String", str), vec)
  <1>1. PICK P : SW!Prefixes(0, 0, SizeT, vec, P)
    BY SW!FoldPrefixes
  <1>2. /\ P[0] = SizeT
        /\ \A i \in 1 .. Len(vec) : P[i] = CountWord(0, 0, P[i - 1], vec[i])
        /\ SW!Fold(0, 0, SizeT, vec) = P[Len(vec)]
    BY <1>1 DEF SW!Prefixes
  <1>3. length = P[Len(vec)]
    BY <1>2 DEF SumLengths, CountWord, SW!Fold, FoldLeft, MapThenFoldSet, Max
  <1> DEFINE Inv == [i \in 0 .. Len(vec) |-> {t \in Streams(n) : P[i] \in Nat /\ Wrote(s, t, P[i])}]
  <1>4. head \in Inv[0]
    <2>1. Len(vec) \in Int /\ SizeT \in Nat /\ 0 \in 0 .. Len(vec)
      BY CommandsAssumption
    <2>2. head \in Streams(n) /\ Wrote(s, head, SizeT)
      BY <2>1, PutIntStream, PutIntWrote DEF UInt32
    <2> HIDE DEF head
    <2>3. QED
      BY <1>2, <2>1, <2>2
  <1>5. ASSUME NEW i \in 1 .. Len(vec), NEW t \in Inv[i - 1]
        PROVE  NextWord(0, 0, t, vec[i]) \in Inv[i]
    <2>1. /\ i - 1 \in 0 .. Len(vec) /\ i \in 0 .. Len(vec) /\ vec[i] \in Seq(Nat)
      OBVIOUS
    <2>2. t \in Streams(n) /\ P[i - 1] \in Nat /\ Wrote(s, t, P[i - 1])
      BY <2>1
    <2> HIDE DEF Inv
    <2> DEFINE u == PutString(t, vec[i])
               k == UInt32 + Len(vec[i])
    <2>3. u \in Streams(n) /\ Wrote(t, u, k)
      BY <2>1, <2>2, PutStringStream, PutStringWrote
    <2>4. k \in Nat
      BY <2>1 DEF UInt32
    <2>5. P[i] = P[i - 1] + k
      BY <1>2 DEF CountWord, LengthBasic
    <2>6. NextWord(0, 0, t, vec[i]) = u
      BY DEF NextWord
    <2> HIDE DEF u, k
    <2>7. Wrote(s, u, P[i - 1] + k)
      BY <2>2, <2>3, <2>4, WroteBoth
    <2>8. QED
      BY <2>1, <2>2, <2>3, <2>4, <2>5, <2>6, <2>7 DEF Inv
  <1> HIDE DEF Inv, head, length
  <1>6. VW!Fold(0, 0, head, vec) \in Inv[Len(vec)]
    BY <1>4, <1>5, VW!FoldInvariant
  <1>7. PutVector(PutString, s, vec) = VW!Fold(0, 0, head, vec)
    BY DEF head, PutVector, NextWord, VW!Fold, FoldLeft, MapThenFoldSet, Max
  <1>8. Wrote(s, VW!Fold(0, 0, head, vec), P[Len(vec)])
    BY <1>6 DEF Inv
  <1>9. QED
    BY <1>3, <1>7, <1>8 DEF length

\* And of a vector of such vectors.
LEMMA PutStringssWrote ==
    ASSUME SizeT = UInt32,
           NEW n \in Nat, NEW s \in Streams(n), NEW vec \in Seq(Seq(Seq(Nat)))
    PROVE  Wrote(s, PutVector(PutStrings, s, vec),
                 SumLengths(LAMBDA strings :
                              SumLengths(LAMBDA str : LengthBasic("String", str), strings), vec))
  <1> DEFINE head == PutInt(s, UInt32, Len(vec))
             length == SumLengths(LAMBDA strings :
                                    SumLengths(LAMBDA str : LengthBasic("String", str), strings),
                                  vec)
  <1>1. PICK P : SS!Prefixes(0, 0, SizeT, vec, P)
    BY SS!FoldPrefixes
  <1>2. /\ P[0] = SizeT
        /\ \A i \in 1 .. Len(vec) : P[i] = CountWords(0, 0, P[i - 1], vec[i])
        /\ SS!Fold(0, 0, SizeT, vec) = P[Len(vec)]
    BY <1>1 DEF SS!Prefixes
  <1>3. length = P[Len(vec)]
    BY <1>2 DEF SumLengths, CountWords, SS!Fold, FoldLeft, MapThenFoldSet, Max
  <1> DEFINE Inv == [i \in 0 .. Len(vec) |-> {t \in Streams(n) : P[i] \in Nat /\ Wrote(s, t, P[i])}]
  <1>4. head \in Inv[0]
    <2>1. Len(vec) \in Int /\ SizeT \in Nat /\ 0 \in 0 .. Len(vec)
      BY CommandsAssumption
    <2>2. head \in Streams(n) /\ Wrote(s, head, SizeT)
      BY <2>1, PutIntStream, PutIntWrote DEF UInt32
    <2> HIDE DEF head
    <2>3. QED
      BY <1>2, <2>1, <2>2
  <1>5. ASSUME NEW i \in 1 .. Len(vec), NEW t \in Inv[i - 1]
        PROVE  NextStrings(0, 0, t, vec[i]) \in Inv[i]
    <2>1. /\ i - 1 \in 0 .. Len(vec) /\ i \in 0 .. Len(vec) /\ vec[i] \in Seq(Seq(Nat))
      OBVIOUS
    <2>2. t \in Streams(n) /\ P[i - 1] \in Nat /\ Wrote(s, t, P[i - 1])
      BY <2>1
    <2> HIDE DEF Inv
    <2> DEFINE u == PutStrings(t, vec[i])
               k == SumLengths(LAMBDA str : LengthBasic("String", str), vec[i])
    <2>3. u \in Streams(n)
      BY <2>1, <2>2, PutWordsStream DEF PutStrings
    <2>4. Wrote(t, u, k)
      BY <2>1, <2>2, PutWordsWrote DEF PutStrings
    <2>5. k \in Nat
      BY <2>1, LengthWords
    <2>6. P[i] = P[i - 1] + k
      BY <1>2 DEF CountWords
    <2>7. NextStrings(0, 0, t, vec[i]) = u
      BY DEF NextStrings
    <2> HIDE DEF u, k
    <2>8. Wrote(s, u, P[i - 1] + k)
      BY <2>2, <2>3, <2>4, <2>5, WroteBoth
    <2>9. QED
      BY <2>1, <2>2, <2>3, <2>5, <2>6, <2>7, <2>8 DEF Inv
  <1> HIDE DEF Inv, head, length
  <1>6. VS!Fold(0, 0, head, vec) \in Inv[Len(vec)]
    BY <1>4, <1>5, VS!FoldInvariant
  <1>7. PutVector(PutStrings, s, vec) = VS!Fold(0, 0, head, vec)
    BY DEF head, PutVector, NextStrings, VS!Fold, FoldLeft, MapThenFoldSet, Max
  <1>8. Wrote(s, VS!Fold(0, 0, head, vec), P[Len(vec)])
    BY <1>6 DEF Inv
  <1>9. QED
    BY <1>3, <1>7, <1>8 DEF length

\* The types of the fields of requests.
RequestTypes == Basics \cup {"Stringss"}

\* Length() of a field of a request is what operator<< writes of it.
LEMMA PutWrote ==
    ASSUME SizeT = UInt32,
           NEW n \in Nat, NEW s \in Streams(n), NEW type \in RequestTypes, NEW v \in ValuesOf(type)
    PROVE  Wrote(s, Put(s, type, v), LengthType(type, v))
  <1>1. CASE type \in Basics
    <2>1. v \in BasicOf(type)
      BY <1>1, BasicValues
    <2>2. Put(s, type, v) = PutBasic(s, type, v) /\ LengthType(type, v) = LengthBasic(type, v)
      BY <1>1 DEF Put, LengthType, Basics
    <2>3. QED
      BY <1>1, <2>1, <2>2, PutBasicWrote
  <1>2. CASE type = "Stringss"
    <2> DEFINE length == SumLengths(LAMBDA strings :
                           SumLengths(LAMBDA str : LengthBasic("String", str), strings), v)
    <2>1. v \in Seq(Seq(Seq(Nat)))
      BY <1>2 DEF ValuesOf
    <2>2. Put(s, type, v) = PutVector(PutStrings, s, v)
      BY <1>2 DEF Put
    <2>3. LengthType(type, v) = length
      BY <1>2 DEF LengthType
    <2>4. Wrote(s, PutVector(PutStrings, s, v), length)
      BY <2>1, PutStringssWrote
    <2> HIDE DEF length
    <2>5. QED
      BY <2>2, <2>3, <2>4
  <1>3. QED
    BY <1>1, <1>2 DEF RequestTypes

\* Each field of a list stands in it once.
Once(order) == \A i, j \in 1 .. Len(order) : order[i] = order[j] => i = j
Among(order, i) == {order[j] : j \in 1 .. i}

\* The lengths of the fields in a set of them, as Length() adds them up.
Sum(fields, obj, C) == MapThenSumSet(LAMBDA m : LengthType(TypeIn(fields, m), obj[m]), C)

\* The sum is a number, and one more field adds its length to it.
LEMMA SumAdds ==
    ASSUME NEW fields, FieldsOf(fields, Types), NEW obj,
           \A m \in Names(fields) : obj[m] \in ValuesOf(TypeIn(fields, m))
    PROVE  /\ Sum(fields, obj, {}) = 0
           /\ \A C \in SUBSET Names(fields) : Sum(fields, obj, C) \in Nat
           /\ \A m \in Names(fields) : LengthType(TypeIn(fields, m), obj[m]) \in Nat
           /\ \A C \in SUBSET Names(fields) : \A m \in Names(fields) \ C :
                Sum(fields, obj, C \cup {m})
                  = Sum(fields, obj, C) + LengthType(TypeIn(fields, m), obj[m])
  <1> DEFINE F == Names(fields)
             length(m) == LengthType(TypeIn(fields, m), obj[m])
             Total(C) == CA!FoldOverSet(fields, obj, 0, C)
  <1>1. \A C : Sum(fields, obj, C) = Total(C)
    BY DEF Sum, CountAnyField, CA!FoldOverSet, MapThenSumSet, MapThenFoldSet
  <1>2. ASSUME NEW m \in F
        PROVE  length(m) \in Nat
    BY TypeInTypes, LengthTypeNat
  <1>3. ASSUME NEW a \in Nat, NEW m \in F
        PROVE  CountAnyField(fields, obj, a, m) = length(m) + a
    BY DEF CountAnyField
  <1>4. \A C \in SUBSET F : CA!IsFiniteSet(C)
    <2>1. IsFiniteSet(F)
      BY NamesFinite
    <2> HIDE DEF F
    <2>2. \A C \in SUBSET F : IsFiniteSet(C)
      BY <2>1, FS_Subset
    <2>3. QED
      BY <2>2 DEF IsFiniteSet, CA!IsFiniteSet
  <1> HIDE DEF F, length
  <1>5. ASSUME NEW a \in Nat, NEW m \in F
        PROVE  CountAnyField(fields, obj, a, m) \in Nat
    BY <1>2, <1>3
  <1>6. ASSUME NEW a \in Nat, NEW m1 \in F, NEW m2 \in F
        PROVE  CountAnyField(fields, obj, CountAnyField(fields, obj, a, m1), m2)
                 = CountAnyField(fields, obj, CountAnyField(fields, obj, a, m2), m1)
    BY <1>2, <1>3, <1>5
  <1>7. Total({}) = 0
    BY CA!FoldOverNothing
  <1>8. ASSUME NEW C \in SUBSET F
        PROVE  Total(C) \in Nat
    <2>1. \A a \in Nat, m \in C : CountAnyField(fields, obj, a, m) \in Nat
      BY <1>5
    <2>2. CA!IsFiniteSet(C) /\ 0 \in Nat
      BY <1>4
    <2>3. QED
      BY <2>1, <2>2, CA!FoldOverSetType
  <1>9. ASSUME NEW C \in SUBSET F, NEW m \in F \ C
        PROVE  Total(C \cup {m}) = Total(C) + length(m)
    <2>1. CA!IsFiniteSet(F) /\ 0 \in Nat /\ C \in SUBSET F /\ m \in F /\ m \notin C
      BY <1>4
    <2>2. CA!Commutes(Nat, fields, obj, F)
      BY <1>5, <1>6 DEF CA!Commutes
    <2>3. Total(C \cup {m}) = CountAnyField(fields, obj, Total(C), m)
      BY <2>1, <2>2, CA!FoldOverSetAdd
    <2> HIDE DEF Total
    <2>4. QED
      BY <1>2, <1>3, <1>8, <2>1, <2>3
  <1> HIDE DEF Total
  <1>10. QED
    BY <1>1, <1>2, <1>7, <1>8, <1>9 DEF F, length

\* Fields written one after the other, each once, are as long as they add up
\* to; src has the same fields as the object that is written.
LEMMA PutAllWrote ==
    ASSUME SizeT = UInt32,
           NEW n \in Nat, NEW s \in Streams(n), NEW fields, FieldsOf(fields, RequestTypes),
           NEW order \in Seq(Names(fields)), Once(order), NEW obj, NEW src,
           \A m \in Names(fields) : obj[m] \in ValuesOf(TypeIn(fields, m)) /\ src[m] = obj[m]
    PROVE  Wrote(s, PutAll(s, fields, order, obj), Sum(fields, src, Among(order, Len(order))))
  <1> DEFINE All == Names(fields)
             l == Len(order)
             P(i) == Sum(fields, src, Among(order, i))
             Inv == [i \in 0 .. l |-> {t \in Streams(n) : Wrote(s, t, P(i))}]
  <1>1. FieldsOf(fields, Types) /\ \A m \in All : TypeIn(fields, m) \in RequestTypes
    BY TypeInFields DEF FieldsOf, RequestTypes, Types
  <1>2. l \in Nat /\ \A i \in 1 .. l : order[i] \in All
    OBVIOUS
  <1>3. /\ P(0) = 0
        /\ \A i \in 1 .. l :
             /\ P(i - 1) \in Nat
             /\ LengthType(TypeIn(fields, order[i]), src[order[i]]) \in Nat
             /\ P(i) = P(i - 1) + LengthType(TypeIn(fields, order[i]), src[order[i]])
    <2>1. /\ Sum(fields, src, {}) = 0
          /\ \A C \in SUBSET All : Sum(fields, src, C) \in Nat
          /\ \A m \in All : LengthType(TypeIn(fields, m), src[m]) \in Nat
          /\ \A C \in SUBSET All : \A m \in All \ C :
               Sum(fields, src, C \cup {m})
                 = Sum(fields, src, C) + LengthType(TypeIn(fields, m), src[m])
      <3>1. \A m \in All : src[m] \in ValuesOf(TypeIn(fields, m))
        OBVIOUS
      <3>2. QED
        BY <1>1, <3>1, SumAdds
    <2>2. Among(order, 0) = {}
      BY DEF Among
    <2>3. ASSUME NEW i \in 1 .. l
          PROVE  /\ Among(order, i - 1) \in SUBSET All
                 /\ order[i] \in All \ Among(order, i - 1)
                 /\ Among(order, i) = Among(order, i - 1) \cup {order[i]}
      <3>1. /\ 1 .. i = (1 .. i - 1) \cup {i} /\ i \notin 1 .. i - 1
            /\ 1 .. i - 1 \subseteq 1 .. l
        BY <1>2
      <3>2. QED
        BY <1>2, <3>1 DEF Among, Once
    <2> HIDE DEF All
    <2>4. P(0) = 0
      BY <2>1, <2>2
    <2>5. ASSUME NEW i \in 1 .. l
          PROVE  /\ P(i - 1) \in Nat
                 /\ LengthType(TypeIn(fields, order[i]), src[order[i]]) \in Nat
                 /\ P(i) = P(i - 1) + LengthType(TypeIn(fields, order[i]), src[order[i]])
      <3> DEFINE C == Among(order, i - 1)
                 m == order[i]
      <3>1. C \in SUBSET All /\ m \in All \ C /\ Among(order, i) = C \cup {m}
        BY <2>3
      <3> HIDE DEF C, m
      <3>2. /\ Sum(fields, src, C) \in Nat
            /\ LengthType(TypeIn(fields, m), src[m]) \in Nat
            /\ Sum(fields, src, C \cup {m})
                 = Sum(fields, src, C) + LengthType(TypeIn(fields, m), src[m])
        BY <2>1, <3>1
      <3>3. QED
        BY <3>1, <3>2 DEF C, m
    <2> HIDE DEF P
    <2>6. QED
      BY <2>4, <2>5
  <1>4. s \in Inv[0]
    <2>1. Wrote(s, s, 0)
      BY StreamParts DEF Wrote
    <2>2. QED
      BY <1>2, <1>3, <2>1
  <1>5. ASSUME NEW i \in 1 .. l, NEW t \in Inv[i - 1]
        PROVE  PutAnyField(fields, obj, t, order[i]) \in Inv[i]
    <2> DEFINE m == order[i]
               type == TypeIn(fields, m)
               u == Put(t, type, obj[m])
               k == LengthType(type, obj[m])
    <2>1. i - 1 \in 0 .. l /\ i \in 0 .. l /\ m \in All
      BY <1>2
    <2>2. t \in Streams(n) /\ Wrote(s, t, P(i - 1))
      BY <2>1
    <2>3. type \in RequestTypes /\ obj[m] \in ValuesOf(type) /\ src[m] = obj[m]
      BY <1>1, <2>1
    <2>4. k \in Nat /\ P(i - 1) \in Nat /\ P(i) = P(i - 1) + k
      BY <1>3, <2>3
    <2>5. PutAnyField(fields, obj, t, order[i]) = u
      BY DEF PutAnyField
    <2> HIDE DEF Inv, P, m, type
    <2>6. u \in Streams(n) /\ Wrote(t, u, k)
      <3>1. type \in Types
        BY <2>3 DEF RequestTypes, Types
      <3>2. u \in Streams(n)
        BY <2>2, <2>3, <3>1, PutStream
      <3>3. Wrote(t, u, k)
        BY <2>2, <2>3, PutWrote
      <3>4. QED
        BY <3>2, <3>3
    <2> HIDE DEF u, k
    <2>7. Wrote(s, u, P(i - 1) + k)
      BY <2>2, <2>4, <2>6, WroteBoth
    <2>8. QED
      BY <2>1, <2>4, <2>5, <2>6, <2>7 DEF Inv
  <1>6. PA!Fold(fields, obj, s, order) \in Inv[l]
    <2> HIDE DEF Inv
    <2> QED
      BY <1>4, <1>5, PA!FoldInvariant
  <1>7. PutAll(s, fields, order, obj) = PA!Fold(fields, obj, s, order)
    BY DEF PutAll, PutAnyField, PA!Fold, FoldLeft, MapThenFoldSet, Max
  <1>8. Wrote(s, PA!Fold(fields, obj, s, order), P(l))
    BY <1>2, <1>6
  <1>9. QED
    BY <1>7, <1>8

\* The header is written in words.
LEMMA PutHeaderWrote ==
    ASSUME NEW n \in Nat, NEW s \in Streams(n), NEW H, NEW order \in Seq(H), NEW obj,
           \A m \in H : obj[m] \in Int
    PROVE  Wrote(s, PutStruct(s, <<>>, order, obj), UInt32 * Len(order))
  <1> DEFINE l == Len(order)
             Inv == [i \in 0 .. l |-> {t \in Streams(n) : Wrote(s, t, UInt32 * i)}]
  <1>1. l \in Nat /\ \A i \in 1 .. l : order[i] \in H
    OBVIOUS
  <1>2. s \in Inv[0]
    <2>1. Wrote(s, s, UInt32 * 0)
      BY StreamParts DEF Wrote, UInt32
    <2>2. QED
      BY <1>1, <2>1
  <1>3. ASSUME NEW i \in 1 .. l, NEW t \in Inv[i - 1]
        PROVE  PutField(<<>>, obj, t, order[i]) \in Inv[i]
    <2> DEFINE v == obj[order[i]]
               u == PutInt(t, UInt32, v)
    <2>1. i - 1 \in 0 .. l /\ i \in 0 .. l /\ i \in Nat /\ v \in Int
      BY <1>1
    <2>2. t \in Streams(n) /\ Wrote(s, t, UInt32 * (i - 1))
      BY <2>1
    <2>3. PutField(<<>>, obj, t, order[i]) = u
      BY NoFields DEF PutField, PutBasic
    <2> HIDE DEF v, Inv
    <2>4. u \in Streams(n) /\ Wrote(t, u, UInt32)
      BY <2>1, <2>2, PutIntStream, PutIntWrote DEF UInt32
    <2> HIDE DEF u
    <2>5. /\ UInt32 * (i - 1) \in Nat /\ UInt32 \in Nat
          /\ UInt32 * (i - 1) + UInt32 = UInt32 * i
      BY <2>1 DEF UInt32
    <2>6. Wrote(s, u, UInt32 * i)
      <3>1. Wrote(s, u, UInt32 * (i - 1) + UInt32)
        BY <2>2, <2>4, <2>5, WroteBoth
      <3>2. QED
        BY <2>5, <3>1
    <2>7. QED
      BY <2>1, <2>3, <2>4, <2>6 DEF Inv
  <1>4. PF!Fold(<<>>, obj, s, order) \in Inv[l]
    <2> HIDE DEF Inv
    <2> QED
      BY <1>2, <1>3, PF!FoldInvariant
  <1>5. PutStruct(s, <<>>, order, obj) = PF!Fold(<<>>, obj, s, order)
    BY DEF PutStruct, PutField, PF!Fold, FoldLeft, MapThenFoldSet, Max
  <1>6. Wrote(s, PF!Fold(<<>>, obj, s, order), UInt32 * l)
    BY <1>1, <1>4
  <1>7. QED
    BY <1>5, <1>6

\* The codecs of requests that count just what they move ...
Exact(fields, codec) ==
    /\ FieldsOf(fields, RequestTypes) /\ Once(codec.moves) /\ codec.against = <<>>
    /\ Among(codec.moves, Len(codec.moves)) = codec.counts /\ codec.sizeofs = 0

\* ... and those that count a std::string object for the partition's index.
Captures(fields, codec) ==
    /\ FieldsOf(fields, RequestTypes) /\ Once(codec.moves) /\ codec.against = <<>>
    /\ Among(codec.moves, Len(codec.moves)) = codec.counts \cup {"m_partition_index"}
    /\ "m_partition_index" \in Names(fields) \ codec.counts
    /\ TypeIn(fields, "m_partition_index") = "UInt32" /\ codec.sizeofs = 1

CaptureCommands == {"CaptureFromVedio", "CaptureFromImage"}

\* All requests but that of LogWifi, which moves its field the other way, are
\* one or the other.
LEMMA RequestsCount ==
    /\ \A c \in Requests \ ({"LogWifi"} \cup CaptureCommands) :
         Exact(RequestFields(c), Codecs[c].request)
    /\ \A c \in CaptureCommands : Captures(RequestFields(c), Codecs[c].request)
  <1>1. Exact(TimeTick.request.fields, TimeTickCodec.request)
    <2> DEFINE fields == TimeTick.request.fields
               codec == TimeTickCodec.request
    <2>1. fields = <<>>
      BY DEF TimeTick, Declare
    <2>2. /\ codec.moves = <<>>
          /\ codec.counts = {}
          /\ codec.against = <<>> /\ codec.sizeofs = 0
      BY DEF TimeTickCodec, Codec, Nothing
    <2> HIDE DEF fields, codec
    <2>3. FieldsOf(fields, RequestTypes)
      BY <2>1 DEF FieldsOf, RequestTypes, Basics, U, L, S
    <2>4. Once(codec.moves)
      BY <2>2 DEF Once
    <2>5. Among(codec.moves, Len(codec.moves)) = codec.counts
      BY <2>2 DEF Among
    <2>6. QED
      BY <2>2, <2>3, <2>4, <2>5 DEF Exact, fields, codec
  <1>2. Exact(ListPartition.request.fields, ListPartitionCodec.request)
    <2> DEFINE fields == ListPartition.request.fields
               codec == ListPartitionCodec.request
    <2>1. fields = <<>>
      BY DEF ListPartition, Declare
    <2>2. /\ codec.moves = <<>>
          /\ codec.counts = {}
          /\ codec.against = <<>> /\ codec.sizeofs = 0
      BY DEF ListPartitionCodec, Codec, Nothing
    <2> HIDE DEF fields, codec
    <2>3. FieldsOf(fields, RequestTypes)
      BY <2>1 DEF FieldsOf, RequestTypes, Basics, U, L, S
    <2>4. Once(codec.moves)
      BY <2>2 DEF Once
    <2>5. Among(codec.moves, Len(codec.moves)) = codec.counts
      BY <2>2 DEF Among
    <2>6. QED
      BY <2>2, <2>3, <2>4, <2>5 DEF Exact, fields, codec
  <1>3. Exact(GetPartitionInfo.request.fields, GetPartitionInfoCodec.request)
    <2> DEFINE fields == GetPartitionInfo.request.fields
               codec == GetPartitionInfoCodec.request
    <2>1. fields = <<U("m_partition_index")>>
      BY DEF GetPartitionInfo, Declare
    <2>2. /\ codec.moves = <<"m_partition_index">>
          /\ codec.counts = {"m_partition_index"}
          /\ codec.against = <<>> /\ codec.sizeofs = 0
      BY DEF GetPartitionInfoCodec, Codec, Nothing
    <2> HIDE DEF fields, codec
    <2>3. FieldsOf(fields, RequestTypes)
      BY <2>1 DEF FieldsOf, RequestTypes, Basics, U, L, S
    <2>4. Once(codec.moves)
      BY <2>2 DEF Once
    <2>5. Among(codec.moves, Len(codec.moves)) = codec.counts
      BY <2>2 DEF Among
    <2>6. QED
      BY <2>2, <2>3, <2>4, <2>5 DEF Exact, fields, codec
  <1>4. Exact(ListPath.request.fields, ListPathCodec.request)
    <2> DEFINE fields == ListPath.request.fields
               codec == ListPathCodec.request
    <2>1. fields = <<U("m_partition_index"), S("m_path_name"), U("m_file_mask")>>
      BY DEF ListPath, Declare
    <2>2. /\ codec.moves = <<"m_partition_index", "m_path_name", "m_file_mask">>
          /\ codec.counts = {"m_partition_index", "m_path_name", "m_file_mask"}
          /\ codec.against = <<>> /\ codec.sizeofs = 0
      BY DEF ListPathCodec, Codec, Nothing
    <2> HIDE DEF fields, codec
    <2>3. FieldsOf(fields, RequestTypes)
      BY <2>1 DEF FieldsOf, RequestTypes, Basics, U, L, S
    <2>4. Once(codec.moves)
      BY <2>2 DEF Once
    <2>5. Among(codec.moves, Len(codec.moves)) = codec.counts
      BY <2>2 DEF Among
    <2>6. QED
      BY <2>2, <2>3, <2>4, <2>5 DEF Exact, fields, codec
  <1>5. Exact(DeleteFile.request.fields, DeleteFileCodec.request)
    <2> DEFINE fields == DeleteFile.request.fields
               codec == DeleteFileCodec.request
    <2>1. fields = <<U("m_partition_index"), S("m_full_filename")>>
      BY DEF DeleteFile, Declare
    <2>2. /\ codec.moves = <<"m_partition_index", "m_full_filename">>
          /\ codec.counts = {"m_partition_index", "m_full_filename"}
          /\ codec.against = <<>> /\ codec.sizeofs = 0
      BY DEF DeleteFileCodec, Codec, Nothing
    <2> HIDE DEF fields, codec
    <2>3. FieldsOf(fields, RequestTypes)
      BY <2>1 DEF FieldsOf, RequestTypes, Basics, U, L, S
    <2>4. Once(codec.moves)
      BY <2>2 DEF Once
    <2>5. Among(codec.moves, Len(codec.moves)) = codec.counts
      BY <2>2 DEF Among
    <2>6. QED
      BY <2>2, <2>3, <2>4, <2>5 DEF Exact, fields, codec
  <1>6. Exact(RenameFile.request.fields, RenameFileCodec.request)
    <2> DEFINE fields == RenameFile.request.fields
               codec == RenameFileCodec.request
    <2>1. fields = <<U("m_partition_index"), S("m_old_filename"), S("m_new_filename")>>
      BY DEF RenameFile, Declare
    <2>2. /\ codec.moves = <<"m_partition_index", "m_old_filename", "m_new_filename">>
          /\ codec.counts = {"m_partition_index", "m_old_filename", "m_new_filename"}
          /\ codec.against = <<>> /\ codec.sizeofs = 0
      BY DEF RenameFileCodec, Codec, Nothing
    <2> HIDE DEF fields, codec
    <2>3. FieldsOf(fields, RequestTypes)
      BY <2>1 DEF FieldsOf, RequestTypes, Basics, U, L, S
    <2>4. Once(codec.moves)
      BY <2>2 DEF Once
    <2>5. Among(codec.moves, Len(codec.moves)) = codec.counts
      BY <2>2 DEF Among
    <2>6. QED
      BY <2>2, <2>3, <2>4, <2>5 DEF Exact, fields, codec
  <1>7. Exact(IsExistFile.request.fields, IsExistFileCodec.request)
    <2> DEFINE fields == IsExistFile.request.fields
               codec == IsExistFileCodec.request
    <2>1. fields = <<U("m_partition_index"), S("m_full_filename"), U("m_is_file")>>
      BY DEF IsExistFile, Declare
    <2>2. /\ codec.moves = <<"m_partition_index", "m_full_filename", "m_is_file">>
          /\ codec.counts = {"m_partition_index", "m_full_filename", "m_is_file"}
          /\ codec.against = <<>> /\ codec.sizeofs = 0
      BY DEF IsExistFileCodec, Codec, Nothing
    <2> HIDE DEF fields, codec
    <2>3. FieldsOf(fields, RequestTypes)
      BY <2>1 DEF FieldsOf, RequestTypes, Basics, U, L, S
    <2>4. Once(codec.moves)
      BY <2>2 DEF Once
    <2>5. Among(codec.moves, Len(codec.moves)) = codec.counts
      BY <2>2 DEF Among
    <2>6. QED
      BY <2>2, <2>3, <2>4, <2>5 DEF Exact, fields, codec
  <1>8. Exact(GetMediaInfo.request.fields, GetMediaInfoCodec.request)
    <2> DEFINE fields == GetMediaInfo.request.fields
               codec == GetMediaInfoCodec.request
    <2>1. fields = <<U("m_partition_index"), S("m_full_filename"), U("m_is_audio")>>
      BY DEF GetMediaInfo, Declare
    <2>2. /\ codec.moves = <<"m_partition_index", "m_full_filename", "m_is_audio">>
          /\ codec.counts = {"m_partition_index", "m_full_filename", "m_is_audio"}
          /\ codec.against = <<>> /\ codec.sizeofs = 0
      BY DEF GetMediaInfoCodec, Codec, Nothing
    <2> HIDE DEF fields, codec
    <2>3. FieldsOf(fields, RequestTypes)
      BY <2>1 DEF FieldsOf, RequestTypes, Basics, U, L, S
    <2>4. Once(codec.moves)
      BY <2>2 DEF Once
    <2>5. Among(codec.moves, Len(codec.moves)) = codec.counts
      BY <2>2 DEF Among
    <2>6. QED
      BY <2>2, <2>3, <2>4, <2>5 DEF Exact, fields, codec
  <1>9. Captures(CaptureFromVedio.request.fields, CaptureFromVedioCodec.request)
    <2> DEFINE fields == CaptureFromVedio.request.fields
               codec == CaptureFromVedioCodec.request
    <2>1. fields = <<U("m_partition_index"), S("m_src_filename"), S("m_picture_format"),
                        U("m_width"), U("m_height"), U("m_begin_second"), U("m_keep_ratio"),
                        U("m_backgroud")>>
      BY DEF CaptureFromVedio, Declare
    <2>2. /\ codec.moves = <<"m_partition_index", "m_src_filename", "m_picture_format",
               "m_width", "m_height", "m_begin_second", "m_keep_ratio", "m_backgroud">>
          /\ codec.counts = {"m_src_filename", "m_picture_format", "m_width", "m_height",
               "m_begin_second", "m_keep_ratio", "m_backgroud"}
          /\ codec.against = <<>> /\ codec.sizeofs = 1
      BY DEF CaptureFromVedioCodec, Codec, Nothing
    <2> HIDE DEF fields, codec
    <2>3. FieldsOf(fields, RequestTypes)
      BY <2>1 DEF FieldsOf, RequestTypes, Basics, U, L, S
    <2>4. Once(codec.moves)
      BY <2>2 DEF Once
    <2>5. Among(codec.moves, Len(codec.moves)) = codec.counts \cup {"m_partition_index"}
      BY <2>2 DEF Among
    <2>6. "m_partition_index" \in Names(fields) /\ TypeIn(fields, "m_partition_index") = "UInt32"
      BY <2>1 DEF Names, TypeIn, Index, U, L, S
    <2>7. QED
      BY <2>2, <2>3, <2>4, <2>5, <2>6 DEF Captures, fields, codec
  <1>10. Captures(CaptureFromImage.request.fields, CaptureFromImageCodec.request)
    <2> DEFINE fields == CaptureFromImage.request.fields
               codec == CaptureFromImageCodec.request
    <2>1. fields = <<U("m_partition_index"), S("m_src_filename"), S("m_picture_format"),
                        U("m_width"), U("m_height"), U("m_keep_ratio"), U("m_backgroud")>>
      BY DEF CaptureFromImage, Declare
    <2>2. /\ codec.moves = <<"m_partition_index", "m_src_filename", "m_picture_format",
               "m_width", "m_height", "m_keep_ratio", "m_backgroud">>
          /\ codec.counts = {"m_src_filename", "m_picture_format", "m_width", "m_height",
               "m_keep_ratio", "m_backgroud"}
          /\ codec.against = <<>> /\ codec.sizeofs = 1
      BY DEF CaptureFromImageCodec, Codec, Nothing
    <2> HIDE DEF fields, codec
    <2>3. FieldsOf(fields, RequestTypes)
      BY <2>1 DEF FieldsOf, RequestTypes, Basics, U, L, S
    <2>4. Once(codec.moves)
      BY <2>2 DEF Once
    <2>5. Among(codec.moves, Len(codec.moves)) = codec.counts \cup {"m_partition_index"}
      BY <2>2 DEF Among
    <2>6. "m_partition_index" \in Names(fields) /\ TypeIn(fields, "m_partition_index") = "UInt32"
      BY <2>1 DEF Names, TypeIn, Index, U, L, S
    <2>7. QED
      BY <2>2, <2>3, <2>4, <2>5, <2>6 DEF Captures, fields, codec
  <1>11. Exact(FindFile.request.fields, FindFileCodec.request)
    <2> DEFINE fields == FindFile.request.fields
               codec == FindFileCodec.request
    <2>1. fields = <<U("m_partition_index"), S("m_path_name"), U("m_need_recursion"),
                        <<"m_type_array", "Stringss">>>>
      BY DEF FindFile, Declare
    <2>2. /\ codec.moves = <<"m_partition_index", "m_path_name", "m_need_recursion",
               "m_type_array">>
          /\ codec.counts = {"m_partition_index", "m_path_name", "m_need_recursion",
               "m_type_array"}
          /\ codec.against = <<>> /\ codec.sizeofs = 0
      BY DEF FindFileCodec, Codec, Nothing
    <2> HIDE DEF fields, codec
    <2>3. FieldsOf(fields, RequestTypes)
      BY <2>1 DEF FieldsOf, RequestTypes, Basics, U, L, S
    <2>4. Once(codec.moves)
      BY <2>2 DEF Once
    <2>5. Among(codec.moves, Len(codec.moves)) = codec.counts
      BY <2>2 DEF Among
    <2>6. QED
      BY <2>2, <2>3, <2>4, <2>5 DEF Exact, fields, codec
  <1>12. Exact(GetMP3Info.request.fields, GetMP3InfoCodec.request)
    <2> DEFINE fields == GetMP3Info.request.fields
               codec == GetMP3InfoCodec.request
    <2>1. fields = <<U("m_partition_index"), S("m_full_filename")>>
      BY DEF GetMP3Info, Declare
    <2>2. /\ codec.moves = <<"m_partition_index", "m_full_filename">>
          /\ codec.counts = {"m_partition_index", "m_full_filename"}
          /\ codec.against = <<>> /\ codec.sizeofs = 0
      BY DEF GetMP3InfoCodec, Codec, Nothing
    <2> HIDE DEF fields, codec
    <2>3. FieldsOf(fields, RequestTypes)
      BY <2>1 DEF FieldsOf, RequestTypes, Basics, U, L, S
    <2>4. Once(codec.moves)
      BY <2>2 DEF Once
    <2>5. Among(codec.moves, Len(codec.moves)) = codec.counts
      BY <2>2 DEF Among
    <2>6. QED
      BY <2>2, <2>3, <2>4, <2>5 DEF Exact, fields, codec
  <1>13. Exact(SendFile.request.fields, SendFileCodec.request)
    <2> DEFINE fields == SendFile.request.fields
               codec == SendFileCodec.request
    <2>1. fields = <<U("m_partition_index"), S("m_dst_filename"), L("m_file_size"),
                        L("m_offset"), S("m_file_content")>>
      BY DEF SendFile, Declare
    <2>2. /\ codec.moves = <<"m_partition_index", "m_dst_filename", "m_file_size", "m_offset",
               "m_file_content">>
          /\ codec.counts = {"m_partition_index", "m_dst_filename", "m_file_size", "m_offset",
               "m_file_content"}
          /\ codec.against = <<>> /\ codec.sizeofs = 0
      BY DEF SendFileCodec, Codec, Nothing
    <2> HIDE DEF fields, codec
    <2>3. FieldsOf(fields, RequestTypes)
      BY <2>1 DEF FieldsOf, RequestTypes, Basics, U, L, S
    <2>4. Once(codec.moves)
      BY <2>2 DEF Once
    <2>5. Among(codec.moves, Len(codec.moves)) = codec.counts
      BY <2>2 DEF Among
    <2>6. QED
      BY <2>2, <2>3, <2>4, <2>5 DEF Exact, fields, codec
  <1>14. Exact(RecvFile.request.fields, RecvFileCodec.request)
    <2> DEFINE fields == RecvFile.request.fields
               codec == RecvFileCodec.request
    <2>1. fields = <<U("m_partition_index"), S("m_src_filename")>>
      BY DEF RecvFile, Declare
    <2>2. /\ codec.moves = <<"m_partition_index", "m_src_filename">>
          /\ codec.counts = {"m_partition_index", "m_src_filename"}
          /\ codec.against = <<>> /\ codec.sizeofs = 0
      BY DEF RecvFileCodec, Codec, Nothing
    <2> HIDE DEF fields, codec
    <2>3. FieldsOf(fields, RequestTypes)
      BY <2>1 DEF FieldsOf, RequestTypes, Basics, U, L, S
    <2>4. Once(codec.moves)
      BY <2>2 DEF Once
    <2>5. Among(codec.moves, Len(codec.moves)) = codec.counts
      BY <2>2 DEF Among
    <2>6. QED
      BY <2>2, <2>3, <2>4, <2>5 DEF Exact, fields, codec
  <1>15. Exact(GetFileSize.request.fields, GetFileSizeCodec.request)
    <2> DEFINE fields == GetFileSize.request.fields
               codec == GetFileSizeCodec.request
    <2>1. fields = <<U("m_partition_index"), S("m_full_filename")>>
      BY DEF GetFileSize, Declare
    <2>2. /\ codec.moves = <<"m_partition_index", "m_full_filename">>
          /\ codec.counts = {"m_partition_index", "m_full_filename"}
          /\ codec.against = <<>> /\ codec.sizeofs = 0
      BY DEF GetFileSizeCodec, Codec, Nothing
    <2> HIDE DEF fields, codec
    <2>3. FieldsOf(fields, RequestTypes)
      BY <2>1 DEF FieldsOf, RequestTypes, Basics, U, L, S
    <2>4. Once(codec.moves)
      BY <2>2 DEF Once
    <2>5. Among(codec.moves, Len(codec.moves)) = codec.counts
      BY <2>2 DEF Among
    <2>6. QED
      BY <2>2, <2>3, <2>4, <2>5 DEF Exact, fields, codec
  <1>16. QED
    BY <1>1, <1>2, <1>3, <1>4, <1>5, <1>6, <1>7, <1>8, <1>9, <1>10, <1>11, <1>12,
       <1>13, <1>14, <1>15
       DEF Requests, Declared, Codecs, RequestFields, CaptureCommands

\* A request that reads none of its fields leaves the stream and the object.
LEMMA GetNothing ==
    ASSUME NEW s, NEW fields, NEW obj
    PROVE  GetAll(s, fields, <<>>, obj) = [s |-> s, v |-> obj]
  <1>1. <<>> \in Seq({})
    OBVIOUS
  <1>2. PICK P : GA!Prefixes(fields, 0, [s |-> s, v |-> obj], <<>>, P)
    BY <1>1, GA!FoldPrefixes
  <1>3. GA!Fold(fields, 0, [s |-> s, v |-> obj], <<>>) = [s |-> s, v |-> obj]
    BY <1>2 DEF GA!Prefixes
  <1>4. QED
    BY <1>3 DEF GetAll, GetAnyField, GA!Fold, FoldLeft, MapThenFoldSet, Max

\* TransByteOrderAndWrite writes the six words of the header and the fields.
LEMMA WriteRequestWrote ==
    ASSUME SizeT = UInt32,
           NEW n \in Nat, NEW s \in Streams(n), NEW c \in Requests, NEW obj \in RequestObjects(c),
           NEW fields, NEW codec, fields = RequestFields(c), codec = Codecs[c].request,
           FieldsOf(fields, RequestTypes), Once(codec.moves), codec.against = <<>>,
           NEW src, \A m \in Names(fields) : src[m] = obj[m]
    PROVE  /\ WriteRequest(c, s, obj).v = obj
           /\ Wrote(s, WriteRequest(c, s, obj).s,
                    6 * UInt32 + Sum(fields, src, Among(codec.moves, Len(codec.moves))))
  <1> DEFINE D == Names(fields) \cup RequestHeader
             base == WriteBase(s, obj)
             header == WriteRequestBase(s, obj)
             w == PutAll(Nested(header), fields, codec.moves, obj)
             sum == Sum(fields, src, Among(codec.moves, Len(codec.moves)))
  <1>1. /\ FieldsOf(fields, Types) /\ RequestHeader \cap Names(fields) = {}
        /\ codec.moves \in Seq(Names(fields))
    BY RequestFacts DEF Listed
  <1>2. obj \in Objects(fields, D)
    BY DEF RequestObjects
  <1>3. \A m \in RequestHeader : obj[m] \in Int
    BY <1>1, <1>2, HeaderField DEF Objects
  <1>4. \A m \in Names(fields) : obj[m] \in ValuesOf(TypeIn(fields, m))
    BY <1>2 DEF Objects
  <1>5. base = PutStruct(s, <<>>, CommandBase, obj) /\ Len(CommandBase) = 3
    BY DEF WriteBase, CommandBase
  <1>6. header = PutStruct(Nested(base), <<>>, RequestBase, obj) /\ Len(RequestBase) = 3
    BY DEF WriteRequestBase, RequestBase
  <1>7. WriteRequest(c, s, obj) = [s |-> w, v |-> obj]
    <2>1. WriteRequest(c, s, obj) = GetAll(w, fields, codec.against, obj)
      BY DEF WriteRequest, RequestFields
    <2> HIDE DEF w
    <2>2. QED
      BY <2>1, GetNothing
  <1> HIDE DEF header, base, D
  <1>8. base \in Streams(n) /\ Wrote(s, base, UInt32 * 3)
    <2>1. base \in Streams(n)
      BY <1>3, <1>5, HeaderOrders, PutHeader
    <2>2. Wrote(s, PutStruct(s, <<>>, CommandBase, obj), UInt32 * Len(CommandBase))
      BY <1>3, HeaderOrders, PutHeaderWrote
    <2>3. QED
      BY <1>5, <2>1, <2>2
  <1> DEFINE b == Nested(base)
  <1>9. b \in Streams(n) /\ Wrote(base, b, 0)
    BY <1>8, NestedStream, NestedWrote
  <1>10. header = PutStruct(b, <<>>, RequestBase, obj)
    BY <1>6
  <1> HIDE DEF b
  <1>11. header \in Streams(n) /\ Wrote(b, header, UInt32 * 3)
    <2>1. header \in Streams(n)
      BY <1>3, <1>9, <1>10, HeaderOrders, PutHeader
    <2>2. Wrote(b, PutStruct(b, <<>>, RequestBase, obj), UInt32 * Len(RequestBase))
      BY <1>3, <1>9, HeaderOrders, PutHeaderWrote
    <2>3. QED
      BY <1>6, <1>10, <2>1, <2>2
  <1> DEFINE h == Nested(header)
  <1>12. h \in Streams(n) /\ Wrote(header, h, 0)
    BY <1>11, NestedStream, NestedWrote
  <1>13. w = PutAll(h, fields, codec.moves, obj)
    OBVIOUS
  <1> HIDE DEF h, w
  <1>14. w \in Streams(n) /\ Wrote(h, w, sum)
    <2>1. w \in Streams(n)
      BY <1>1, <1>4, <1>12, <1>13, TypeInTypes, PutAllStream
    <2>2. Wrote(h, PutAll(h, fields, codec.moves, obj), sum)
      BY <1>1, <1>4, <1>12, PutAllWrote
    <2>3. QED
      BY <1>13, <2>1, <2>2
  <1>15. sum \in Nat
    <2>1. Among(codec.moves, Len(codec.moves)) \in SUBSET Names(fields)
      BY <1>1 DEF Among
    <2>2. \A m \in Names(fields) : src[m] \in ValuesOf(TypeIn(fields, m))
      BY <1>4
    <2>3. QED
      BY <1>1, <2>1, <2>2, SumAdds
  <1> HIDE DEF sum
  <1>16. Wrote(s, w, 6 * UInt32 + sum)
    <2>1. UInt32 * 3 \in Nat /\ UInt32 * 3 + 0 = 12 /\ 12 + UInt32 * 3 = 24 /\ 6 * UInt32 = 24
      BY DEF UInt32
    <2>2. Wrote(s, b, 12)
      BY <1>8, <1>9, <2>1, WroteBoth
    <2>3. Wrote(s, header, 24)
      BY <1>9, <1>11, <2>1, <2>2, WroteBoth
    <2>4. Wrote(s, h, 24 + 0)
      BY <1>11, <1>12, <2>3, WroteBoth
    <2>5. Wrote(s, w, 24 + sum)
      BY <1>12, <1>14, <1>15, <2>4, WroteBoth
    <2>6. QED
      BY <2>1, <2>5
  <1>17. QED
    BY <1>7, <1>16 DEF sum

\* Encode() counts what it writes, but for the two capture requests.
LEMMA EncodeCounts ==
    ASSUME SizeT = UInt32, SizeofString # UInt32,
           IInv, NEW length \in Nat, NEW junk \in Nat, Encode(length, junk)
    PROVE  LengthIsExact'
  <1> SUFFICES ASSUME ~last'.s.asserts, cmd' # "LogWifi"
               PROVE  sent'["m_command_length"] = Len(wire') - 3 * UInt32
                        <=> cmd' \notin CaptureCommands
    BY DEF LengthIsExact, CaptureCommands
  <1> DEFINE mem == Memory(length, junk)
             s == Stream(mem, length, junk)
             obj == [request EXCEPT !["m_command_length"] = RequestLength]
             w == WriteRequest(cmd, s, obj)
             fields == RequestFields(cmd)
             codec == Codecs[cmd].request
             counted == Sum(fields, request, codec.counts)
             moved == Among(codec.moves, Len(codec.moves))
  <1>1. cmd \in Requests /\ request \in RequestObjects(cmd)
    BY DEF IInv, Encode
  <1>2. /\ cmd' = cmd /\ wire' = Bytes(w.s) /\ sent' = w.v /\ last'.s = w.s
    BY DEF Encode
  <1>3. /\ FieldsOf(fields, Types) /\ codec.counts \subseteq Names(fields)
        /\ codec.moves \in Seq(Names(fields)) /\ codec.sizeofs \in Nat
        /\ RequestHeader \cap Names(fields) = {}
    BY <1>1, RequestFacts DEF Listed
  <1>4. RequestLength = 12 + codec.sizeofs * SizeofString + counted
    BY DEF RequestLength, RequestFields, Length, Sum, LengthRequestBase, LengthBase, UInt32
  <1>5. RequestLength \in Int
    <2>1. RequestLength = Length(LengthRequestBase, RequestFields(cmd), codec, request)
      BY DEF RequestLength, RequestFields
    <2> HIDE DEF codec
    <2>2. QED
      BY <1>1, <1>3, <2>1, LengthRequest
  <1>6. obj \in RequestObjects(cmd)
    BY <1>1, <1>5, AssignLength
  <1>7. /\ obj["m_command_length"] = RequestLength
        /\ \A m \in Names(fields) : request[m] = obj[m]
    <2>1. "m_command_length" \in RequestHeader /\ "m_command_length" \in DOMAIN request
      BY <1>1 DEF RequestHeader, RequestObjects, Objects
    <2>2. \A m \in Names(fields) : m # "m_command_length"
      BY <1>3, <2>1
    <2> HIDE DEF fields
    <2>3. QED
      BY <2>1, <2>2
  <1>8. s \in Streams(length) /\ ~s.asserts /\ s.ptr = 0
    <2>1. mem \in Seq(Nat) /\ Len(mem) = length
      BY MemoryType
    <2> HIDE DEF mem
    <2>2. s \in Streams(length)
      BY <2>1, StreamMade
    <2>3. QED
      BY <2>2 DEF Stream
  <1> HIDE DEF mem, s, obj, w, fields, codec
  <1>9. /\ Sum(fields, request, {}) = 0
        /\ \A C \in SUBSET Names(fields) : Sum(fields, request, C) \in Nat
        /\ \A m \in Names(fields) : LengthType(TypeIn(fields, m), request[m]) \in Nat
        /\ \A C \in SUBSET Names(fields) : \A m \in Names(fields) \ C :
             Sum(fields, request, C \cup {m})
               = Sum(fields, request, C) + LengthType(TypeIn(fields, m), request[m])
    <2>1. \A m \in Names(fields) : request[m] \in ValuesOf(TypeIn(fields, m))
      BY <1>1 DEF RequestObjects, Objects, fields
    <2>2. QED
      BY <1>3, <2>1, SumAdds
  <1>10. counted \in Nat /\ moved \in SUBSET Names(fields) /\ Sum(fields, request, moved) \in Nat
    <2>1. moved \in SUBSET Names(fields)
      BY <1>3 DEF Among
    <2> HIDE DEF moved
    <2>2. QED
      BY <1>3, <1>9, <2>1
  <1>11. ASSUME FieldsOf(fields, RequestTypes), Once(codec.moves), codec.against = <<>>
         PROVE  /\ sent'["m_command_length"] = RequestLength
                /\ Len(wire') = 24 + Sum(fields, request, moved)
    <2> DEFINE k == 6 * UInt32 + Sum(fields, request, moved)
    <2>1. w.v = obj /\ Wrote(s, w.s, k)
      BY <1>1, <1>6, <1>7, <1>8, <1>11, WriteRequestWrote DEF w, fields, codec
    <2>2. k = 24 + Sum(fields, request, moved) /\ k \in Nat
      BY <1>10 DEF UInt32
    <2> HIDE DEF k
    <2>3. w.s.ptr = k
      BY <1>2, <1>8, <2>1, <2>2 DEF Wrote
    <2>4. w.s \in Streams(length)
      BY <1>1, <1>6, <1>8, WriteRequestResult DEF Results, w
    <2>5. Len(Bytes(w.s)) = w.s.ptr
      BY <2>4, StreamParts, SubSeqProperties DEF Bytes
    <2>6. QED
      BY <1>2, <1>7, <2>1, <2>2, <2>3, <2>5
  <1>12. CASE cmd \in CaptureCommands
    <2>1. Captures(fields, codec)
      BY <1>12, RequestsCount DEF fields, codec
    <2> DEFINE m == "m_partition_index"
    <2>2. /\ moved = codec.counts \cup {m} /\ m \in Names(fields) \ codec.counts
          /\ TypeIn(fields, m) = "UInt32" /\ codec.sizeofs = 1
      BY <2>1 DEF Captures
    <2> HIDE DEF m
    <2>3. LengthType(TypeIn(fields, m), request[m]) = 4
      BY <2>2 DEF LengthType, LengthBasic, UInt32
    <2>4. Sum(fields, request, moved) = counted + 4
      <3> DEFINE C == codec.counts
      <3>1. C \in SUBSET Names(fields) /\ moved = C \cup {m} /\ m \in Names(fields) \ C
        BY <1>3, <2>2
      <3> HIDE DEF C, moved
      <3>2. Sum(fields, request, C \cup {m}) = Sum(fields, request, C) + 4
        BY <1>9, <2>3, <3>1
      <3>3. QED
        BY <3>1, <3>2 DEF C
    <2>5. /\ sent'["m_command_length"] = RequestLength
          /\ Len(wire') = 24 + Sum(fields, request, moved)
      BY <1>11, <2>1 DEF Captures
    <2>6. RequestLength = 12 + SizeofString + counted
      BY <1>4, <2>2, CommandsAssumption
    <2> HIDE DEF counted, moved
    <2>7. sent'["m_command_length"] # Len(wire') - 3 * UInt32
      BY <1>10, <2>4, <2>5, <2>6, CommandsAssumption DEF UInt32
    <2>8. QED
      BY <1>2, <1>12, <2>7
  <1>13. CASE cmd \notin CaptureCommands
    <2>1. Exact(fields, codec)
      BY <1>1, <1>2, <1>13, RequestsCount DEF fields, codec
    <2>2. moved = codec.counts /\ codec.sizeofs = 0
      BY <2>1 DEF Exact
    <2>3. /\ sent'["m_command_length"] = RequestLength
          /\ Len(wire') = 24 + Sum(fields, request, moved)
      BY <1>11, <2>1 DEF Exact
    <2>4. RequestLength = 12 + counted
      BY <1>4, <1>10, <2>2, CommandsAssumption
    <2>5. Sum(fields, request, moved) = counted
      BY <2>2
    <2> HIDE DEF counted, moved
    <2>6. sent'["m_command_length"] = Len(wire') - 3 * UInt32
      BY <1>10, <2>3, <2>4, <2>5 DEF UInt32
    <2>7. QED
      BY <1>2, <1>13, <2>6
  <1>14. QED
    BY <1>12, <1>13

\* No other step makes or changes an encoded request.
LEMMA LengthsStay ==
    ASSUME SizeT = UInt32, SizeofString # UInt32, IInv, LengthIsExact, [Next]_vars
    PROVE  LengthIsExact'
  <1>1. ASSUME phase = "set", NEW length \in {6, 22, Needed - 1, Needed, Needed + 5},
               NEW junk \in Junk, Encode(length, junk)
        PROVE  LengthIsExact'
    <2>1. length \in Nat
      BY <1>1, NeededNat
    <2>2. QED
      BY <1>1, <2>1, JunkNat, EncodeCounts
  <1>2. CASE phase' # "encoded"
    BY <1>2 DEF LengthIsExact
  <1>3. CASE UNCHANGED vars
    BY <1>3 DEF LengthIsExact, vars
  <1>4. \/ phase' # "encoded"
        \/ UNCHANGED vars
        \/ /\ phase = "set"
           /\ \E length \in {6, 22, Needed - 1, Needed, Needed + 5}, junk \in Junk :
                Encode(length, junk)
    BY DEF Next, New, SetPriority, SetData, Answer, Decode
  <1>5. QED
    BY <1>1, <1>2, <1>3, <1>4

\* Where size_t has the four bytes of a string's length, as in the Win32 build,
\* m_command_length is the number of bytes behind it in every request that is
\* written whole, however it is filled in; it is not in the two that count a
\* std::string object, unless that object happens to have four bytes too
\* (CCommandBase::Length() and the comment on it).
THEOREM MessageLengths ==
    SizeT = UInt32 /\ SizeofString # UInt32 => (Spec => []LengthIsExact)
  <1> SUFFICES ASSUME SizeT = UInt32, SizeofString # UInt32
               PROVE  Spec => []LengthIsExact
    OBVIOUS
  <1>1. Init => IInv /\ LengthIsExact
    BY InitIInv DEF Init, LengthIsExact
  <1>2. IInv /\ LengthIsExact /\ [Next]_vars => IInv' /\ LengthIsExact'
    BY NextIInv, LengthsStay
  <1>3. QED
    BY <1>1, <1>2, PTL DEF Spec

=============================================================================
