---------------------------- MODULE CommandTable ----------------------------
(***************************************************************************)
(* The commands of src/MobileCommands.h and .cpp, three views of each: the *)
(* fields its struct declares, in order (header); the fields that its      *)
(* TransByteOrderAndWrite or TransByteOrderAndRead moves, in order; and    *)
(* the fields that its Length() adds up (both in the .cpp).  The three are *)
(* written by hand in three places, and nothing keeps them in step.        *)
(***************************************************************************)
EXTENDS Naturals, Sequences

(* A field and its type; the code's Bool is a UInt32.                      *)
U(name) == <<name, "UInt32">>
L(name) == <<name, "UInt64">>
S(name) == <<name, "String">>

Declare(name, fields) == [name |-> name, fields |-> fields]

(* moves: the fields moved with << (a request) or >> (a response); counts: *)
(* the fields Length() adds; sizeofs: how often Length() adds the size of  *)
(* the C++ object std::string itself; against: fields that a request moves *)
(* with >>, that is, reads from the buffer it should write.                *)
Codec(moves, counts) ==
    [moves |-> moves, counts |-> counts, sizeofs |-> 0, against |-> <<>>]
Nothing == Codec(<<>>, {})

(* The three fields of every command, and the three of a request and of a  *)
(* response.  command_length does not count the first three.               *)
CommandBase == <<"m_protocol_version", "m_sequence", "m_command_length">>
RequestBase == <<"m_command_name", "m_command_flag", "m_priority_level">>
ResponseBase == <<"m_command_name", "m_command_flag", "m_result">>

Error == [response |-> Declare(100, <<U("m_error_code")>>)]
ErrorCodec == [response |-> Codec(<<"m_error_code">>, {"m_error_code"})]

LogWifi == [request |-> Declare(97, <<S("m_password")>>),
            response |-> Declare(98, <<S("m_phone_id")>>)]
LogWifiCodec ==
    [request |-> [Codec(<<>>, {"m_password"}) EXCEPT !.against = <<"m_password">>],
     response |-> Codec(<<"m_phone_id">>, {"m_phone_id"})]

TimeTick == [request |-> Declare(101, <<>>), response |-> Declare(102, <<>>)]
TimeTickCodec == [request |-> Nothing, response |-> Nothing]

ListPartition == [request |-> Declare(103, <<>>),
                  response |-> Declare(104, <<<<"m_partitions", "UInt32s">>>>)]
ListPartitionCodec == [request |-> Nothing,
                       response |-> Codec(<<"m_partitions">>, {"m_partitions"})]

GetPartitionInfo ==
    [request |-> Declare(105, <<U("m_partition_index")>>),
     response |-> Declare(106, <<L("m_patition_total_size"), L("m_partition_remain_size")>>)]
GetPartitionInfoCodec ==
    [request |-> Codec(<<"m_partition_index">>, {"m_partition_index"}),
     response |-> Codec(<<"m_patition_total_size", "m_partition_remain_size">>,
                        {"m_patition_total_size", "m_partition_remain_size"})]

FileStruct ==
    <<U("m_struct_length"), S("m_file_name"), L("m_file_size"), U("m_is_folder"),
      U("m_is_visible"), U("m_is_writable"), S("m_file_type"), S("m_modify_time"),
      S("m_create_time")>>
FileStructCodec ==
    Codec(<<"m_struct_length", "m_file_name", "m_file_size", "m_is_folder", "m_is_visible",
            "m_is_writable", "m_file_type", "m_modify_time", "m_create_time">>,
          {"m_struct_length", "m_file_name", "m_file_size", "m_is_folder", "m_is_visible",
           "m_is_writable", "m_file_type", "m_modify_time", "m_create_time"})

ListPath ==
    [request |-> Declare(107, <<U("m_partition_index"), S("m_path_name"), U("m_file_mask")>>),
     response |-> Declare(108, <<<<"m_file_array", "FileStructs">>>>)]
ListPathCodec ==
    [request |-> Codec(<<"m_partition_index", "m_path_name", "m_file_mask">>,
                       {"m_partition_index", "m_path_name", "m_file_mask"}),
     response |-> Codec(<<"m_file_array">>, {"m_file_array"})]

DeleteFile == [request |-> Declare(109, <<U("m_partition_index"), S("m_full_filename")>>),
               response |-> Declare(110, <<>>)]
DeleteFileCodec ==
    [request |-> Codec(<<"m_partition_index", "m_full_filename">>,
                       {"m_partition_index", "m_full_filename"}),
     response |-> Nothing]

RenameFile ==
    [request |-> Declare(111, <<U("m_partition_index"), S("m_old_filename"), S("m_new_filename")>>),
     response |-> Declare(112, <<>>)]
RenameFileCodecSwapped ==
    [request |-> Codec(<<"m_partition_index", "m_new_filename", "m_old_filename">>,
                       {"m_partition_index", "m_old_filename", "m_new_filename"}),
     response |-> Nothing]
RenameFileCodec ==
    [request |-> Codec(<<"m_partition_index", "m_old_filename", "m_new_filename">>,
                       {"m_partition_index", "m_old_filename", "m_new_filename"}),
     response |-> Nothing]

IsExistFile ==
    [request |-> Declare(113, <<U("m_partition_index"), S("m_full_filename"), U("m_is_file")>>),
     response |-> Declare(114, <<U("m_is_exist")>>)]
IsExistFileCodec ==
    [request |-> Codec(<<"m_partition_index", "m_full_filename", "m_is_file">>,
                       {"m_partition_index", "m_full_filename", "m_is_file"}),
     response |-> Codec(<<"m_is_exist">>, {"m_is_exist"})]

(* What both media commands tell of a film.                                *)
MediaFields ==
    <<S("m_duration"), S("m_audio_format"), S("m_vedio_format"), S("m_vedio_width_height"),
      U("m_tatol_bitrate"), U("m_audio_frequence"), U("m_audio_bitrate"), U("m_frames_per")>>
MediaMoves ==
    <<"m_duration", "m_audio_format", "m_vedio_format", "m_vedio_width_height",
      "m_tatol_bitrate", "m_audio_frequence", "m_audio_bitrate", "m_frames_per">>
MediaCounts ==
    {"m_duration", "m_audio_format", "m_vedio_format", "m_vedio_width_height",
     "m_tatol_bitrate", "m_audio_frequence", "m_audio_bitrate", "m_frames_per"}

GetMediaInfo ==
    [request |-> Declare(115, <<U("m_partition_index"), S("m_full_filename"), U("m_is_audio")>>),
     response |-> Declare(116, MediaFields)]
GetMediaInfoCodec ==
    [request |-> Codec(<<"m_partition_index", "m_full_filename", "m_is_audio">>,
                       {"m_partition_index", "m_full_filename", "m_is_audio"}),
     response |-> Codec(MediaMoves, MediaCounts)]

(* Length() of the two capture requests adds sizeof(m_picture_format), a   *)
(* std::string, where sizeof(m_partition_index) is due.                    *)
CaptureFromVedio ==
    [request |-> Declare(117,
        <<U("m_partition_index"), S("m_src_filename"), S("m_picture_format"), U("m_width"),
          U("m_height"), U("m_begin_second"), U("m_keep_ratio"), U("m_backgroud")>>),
     response |-> Declare(118, <<S("m_dst_filename")>> \o MediaFields)]
CaptureFromVedioCodec ==
    [request |-> [Codec(
        <<"m_partition_index", "m_src_filename", "m_picture_format", "m_width",
          "m_height", "m_begin_second", "m_keep_ratio", "m_backgroud">>,
        {"m_src_filename", "m_picture_format", "m_width", "m_height",
         "m_begin_second", "m_keep_ratio", "m_backgroud"}) EXCEPT !.sizeofs = 1],
     response |-> Codec(<<"m_dst_filename">> \o MediaMoves, {"m_dst_filename"} \cup MediaCounts)]

CaptureFromImage ==
    [request |-> Declare(119,
        <<U("m_partition_index"), S("m_src_filename"), S("m_picture_format"), U("m_width"),
          U("m_height"), U("m_keep_ratio"), U("m_backgroud")>>),
     response |-> Declare(120, <<S("m_dst_filename")>>)]
CaptureFromImageCodec ==
    [request |-> [Codec(
        <<"m_partition_index", "m_src_filename", "m_picture_format", "m_width",
          "m_height", "m_keep_ratio", "m_backgroud">>,
        {"m_src_filename", "m_picture_format", "m_width", "m_height", "m_keep_ratio",
         "m_backgroud"}) EXCEPT !.sizeofs = 1],
     response |-> [Codec(<<"m_dst_filename">>, {}) EXCEPT !.sizeofs = 1]]

TypeCalc == <<U("m_length"), L("m_total_file_size"), L("m_total_file_count")>>
TypeCalcCodec == Codec(<<"m_length", "m_total_file_size", "m_total_file_count">>,
                       {"m_length", "m_total_file_size", "m_total_file_count"})

FindFile ==
    [request |-> Declare(121,
        <<U("m_partition_index"), S("m_path_name"), U("m_need_recursion"),
          <<"m_type_array", "Stringss">>>>),
     response |-> Declare(122, <<<<"m_type_collection", "TypeCalcs">>>>)]
FindFileCodec ==
    [request |-> Codec(<<"m_partition_index", "m_path_name", "m_need_recursion", "m_type_array">>,
                       {"m_partition_index", "m_path_name", "m_need_recursion", "m_type_array"}),
     response |-> Codec(<<"m_type_collection">>, {"m_type_collection"})]

GetMP3Info ==
    [request |-> Declare(123, <<U("m_partition_index"), S("m_full_filename")>>),
     response |-> Declare(124, <<S("m_duration"), S("m_artist"), S("m_album")>>)]
GetMP3InfoCodec ==
    [request |-> Codec(<<"m_partition_index", "m_full_filename">>,
                       {"m_partition_index", "m_full_filename"}),
     response |-> Codec(<<"m_duration", "m_artist", "m_album">>,
                        {"m_duration", "m_artist", "m_album"})]

(* The response declares two fields and counts them, but reads neither.    *)
SendFile ==
    [request |-> Declare(125,
        <<U("m_partition_index"), S("m_dst_filename"), L("m_file_size"), L("m_offset"),
          S("m_file_content")>>),
     response |-> Declare(126, <<L("m_success_offset"), L("m_success_length")>>)]
SendFileCodec ==
    [request |-> Codec(<<"m_partition_index", "m_dst_filename", "m_file_size", "m_offset",
                         "m_file_content">>,
                       {"m_partition_index", "m_dst_filename", "m_file_size", "m_offset",
                        "m_file_content"}),
     response |-> Codec(<<>>, {"m_success_offset", "m_success_length"})]

RecvFile ==
    [request |-> Declare(127, <<U("m_partition_index"), S("m_src_filename")>>),
     response |-> Declare(128, <<L("m_file_size"), L("m_offset"), S("m_file_content")>>)]
RecvFileCodecShort ==
    [request |-> Codec(<<"m_partition_index", "m_src_filename">>, {"m_src_filename"}),
     response |-> Codec(<<"m_file_size", "m_offset", "m_file_content">>,
                        {"m_file_size", "m_offset", "m_file_content"})]
RecvFileCodec ==
    [request |-> Codec(<<"m_partition_index", "m_src_filename">>,
                       {"m_partition_index", "m_src_filename"}),
     response |-> Codec(<<"m_file_size", "m_offset", "m_file_content">>,
                        {"m_file_size", "m_offset", "m_file_content"})]

GetFileSize ==
    [request |-> Declare(129, <<U("m_partition_index"), S("m_full_filename")>>),
     response |-> Declare(130, <<L("m_file_size")>>)]
GetFileSizeCodec ==
    [request |-> Codec(<<"m_partition_index", "m_full_filename">>,
                       {"m_partition_index", "m_full_filename"}),
     response |-> Codec(<<"m_file_size">>, {"m_file_size"})]

Declared ==
    [Error |-> Error, LogWifi |-> LogWifi, TimeTick |-> TimeTick,
     ListPartition |-> ListPartition, GetPartitionInfo |-> GetPartitionInfo,
     ListPath |-> ListPath, DeleteFile |-> DeleteFile, RenameFile |-> RenameFile,
     IsExistFile |-> IsExistFile, GetMediaInfo |-> GetMediaInfo,
     CaptureFromVedio |-> CaptureFromVedio, CaptureFromImage |-> CaptureFromImage,
     FindFile |-> FindFile, GetMP3Info |-> GetMP3Info, SendFile |-> SendFile,
     RecvFile |-> RecvFile, GetFileSize |-> GetFileSize]
Codecs ==
    [Error |-> ErrorCodec, LogWifi |-> LogWifiCodec, TimeTick |-> TimeTickCodec,
     ListPartition |-> ListPartitionCodec, GetPartitionInfo |-> GetPartitionInfoCodec,
     ListPath |-> ListPathCodec, DeleteFile |-> DeleteFileCodec, RenameFile |-> RenameFileCodec,
     IsExistFile |-> IsExistFileCodec, GetMediaInfo |-> GetMediaInfoCodec,
     CaptureFromVedio |-> CaptureFromVedioCodec, CaptureFromImage |-> CaptureFromImageCodec,
     FindFile |-> FindFileCodec, GetMP3Info |-> GetMP3InfoCodec, SendFile |-> SendFileCodec,
     RecvFile |-> RecvFileCodec, GetFileSize |-> GetFileSizeCodec]

=============================================================================
