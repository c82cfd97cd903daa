-------------------------------- MODULE Base64 --------------------------------
(***************************************************************************)
(* The two base64 coders: src/base64.cpp, which works on streams, a chunk  *)
(* at a time, with a table that keys overwrite, and src/base64_code.c,     *)
(* which works on memory.  One process encodes, another one decodes; both  *)
(* have their own table, set up at the start of the program.               *)
(*                                                                         *)
(* Q is 2 in the code: a byte has 4 * Q bits, a table index 3 * Q, and 3   *)
(* bytes are 4 indexes.  With Q = 1 there are 16 bytes and 8 indexes.      *)
(***************************************************************************)
EXTENDS Integers, Sequences, SequencesExt, Bitwise

CONSTANTS
    Q,              \* half the bits that a byte has more than an index
    Table, ToB64,   \* the characters of both coders: a sequence of bytes
    Pad,            \* the character '='
    Chunk,          \* bytes encode_stream reads at a time: 45
    DecodeChunk,    \* characters decode_stream reads at a time: 88
    Plains,         \* the data to encode
    Keys,           \* the keys that are given
    MaxCalls        \* bound: how often the encoder is called

Indexes64 == 2^(3 * Q)
ByteCount == 2^(4 * Q)

ASSUME Base64Assumption ==
    /\ Q \in Nat \ {0} /\ Pad \in 0 .. ByteCount - 1 /\ MaxCalls \in Nat
    /\ Len(Table) = Indexes64 /\ Len(ToB64) = Indexes64
    /\ Chunk % 3 = 0 /\ DecodeChunk % 4 = 0

VARIABLES
    tables,     \* g_base64_table of the process that encodes and the other's
    coded,      \* the text under way
    plain,      \* history: what it was made of
    coder,      \* history: the coder that made it
    decoded     \* what was made of it again

base64Vars == <<tables, coded, plain, coder, decoded>>

Shl(b, n) == (b * 2^n) % ByteCount
Shr(b, n) == b \div 2^n
Low(b, n) == b % 2^n

(* The key replaces the table from its beginning, for all later calls.     *)
Keyed(table, key) == [i \in DOMAIN table |-> IF i <= Len(key) /\ i <= Indexes64 THEN key[i] ELSE table[i]]

(* Three bytes or less to four characters.                                 *)
TailUnmasked(t, p) ==
    IF Len(p) = 1 THEN <<t[Shr(p[1], Q) + 1], t[1], Pad, Pad>>
    ELSE <<t[Shr(p[1], Q) + 1], t[Low(Shl(p[1], 2 * Q) | Shr(p[2], 2 * Q), 3 * Q) + 1],
           t[Low(Shl(p[2], Q), 3 * Q) + 1], Pad>>
Tail64(t, p) ==
    IF Len(p) = 1 THEN <<t[Shr(p[1], Q) + 1], t[Low(Shl(p[1], 2 * Q), 3 * Q) + 1], Pad, Pad>>
    ELSE <<t[Shr(p[1], Q) + 1], t[Low(Shl(p[1], 2 * Q) | Shr(p[2], 2 * Q), 3 * Q) + 1],
           t[Low(Shl(p[2], Q), 3 * Q) + 1], Pad>>
Group(t, p) ==
    IF Len(p) < 3 THEN Tail64(t, p)
    ELSE <<t[Low(Shr(p[1], Q), 3 * Q) + 1],
           t[Low(Shl(p[1], 2 * Q) | Shr(p[2], 2 * Q), 3 * Q) + 1],
           t[Low(Shl(p[2], Q) | Shr(p[3], 3 * Q), 3 * Q) + 1],
           t[Low(p[3], 3 * Q) + 1]>>
Cut(seq, n) == [i \in 1 .. (Len(seq) + n - 1) \div n |->
                  SubSeq(seq, (i - 1) * n + 1, IF i * n < Len(seq) THEN i * n ELSE Len(seq))]
encode_chunk(t, bytes) == FlattenSeq([i \in DOMAIN Cut(bytes, 3) |-> Group(t, Cut(bytes, 3)[i])])
encode_stream(t, bytes) ==
    FlattenSeq([i \in DOMAIN Cut(bytes, Chunk) |-> encode_chunk(t, Cut(bytes, Chunk)[i])])

Bad == ByteCount - 1
index_from_table(t, b) ==
    LET found == {i \in 1 .. Indexes64 + 1 : Append(t, Pad)[i] = b}
    IN  IF found = {} THEN Bad ELSE (CHOOSE i \in found : \A j \in found : i <= j) - 1

(* Four characters to three bytes or less; an illegal one among the first  *)
(* three ends the text with an error message (-1 here), the fourth is      *)
(* taken as it is.                                                         *)
Ungroup(t, c) ==
    LET i == [k \in 1 .. 4 |-> index_from_table(t, c[k])]
    IN  CASE Bad \in {i[1], i[2], i[3]} -> <<-1>>
          [] OTHER ->
               <<Shl(i[1], Q) | Shr(i[2], 2 * Q)>> \o
               (IF c[3] = Pad THEN <<>> ELSE
                <<Shl(i[2], 2 * Q) | Shr(i[3], Q)>> \o
                (IF c[4] = Pad THEN <<>> ELSE <<Shl(i[3], 3 * Q) | i[4]>>))

(* A last group that is cut off is completed with what was in the buffer   *)
(* before: characters of the chunk before, or what was never written.  A   *)
(* chunk is written when it is done: of one with an illegal character only *)
(* the message is.                                                         *)
decode_stream(t, chars, junk) ==
    LET stale(r, chunk) == chunk \o SubSeq(r.buf, Len(chunk) + 1, DecodeChunk)
        bytes(groups) == [i \in DOMAIN groups |-> Ungroup(t, groups[i])]
        written(out) == IF <<-1>> \in Range(out) THEN <<-1>> ELSE FlattenSeq(out)
        chunk1(r, chunk) ==
            LET buf == stale(r, chunk)
                new == written(bytes(Cut(SubSeq(buf, 1, 4 * ((Len(chunk) + 3) \div 4)), 4)))
            IN  IF r.stop THEN r
                ELSE [out |-> r.out \o new, stop |-> new = <<-1>>, buf |-> buf]
    IN  FoldLeft(chunk1, [out |-> <<>>, stop |-> FALSE, buf |-> [i \in 1 .. DecodeChunk |-> junk]],
                 Cut(chars, DecodeChunk)).out

(* base64_code.c: the same groups, with a table of its own whose search    *)
(* table also knows the NUL behind the characters.                         *)
base64_encode(bytes) == encode_chunk(ToB64, bytes)
un_b64(b) ==
    LET found == {i \in 1 .. Indexes64 + 1 : Append(ToB64, 0)[i] = b}
    IN  IF found = {} THEN Bad ELSE (CHOOSE i \in found : \A j \in found : j <= i) - 1
Null64 == <<-1>>
base64_decode(chars) ==
    LET step(r, c) ==
            LET i == [k \in 1 .. 4 |-> un_b64(c[k])]
            IN  CASE r.stop -> r
                  [] ~r.stop /\ Bad \in {i[1], i[2]} -> [out |-> Null64, stop |-> TRUE]
                  [] OTHER ->
                       LET one == r.out \o <<Shl(i[1], Q) | Shr(i[2], 2 * Q)>>
                           two == one \o <<Shl(i[2], 2 * Q) | Shr(i[3], Q)>>
                       IN  CASE c[3] = Pad -> [out |-> one, stop |-> TRUE]
                             [] c[3] # Pad /\ i[3] = Bad -> [out |-> Null64, stop |-> TRUE]
                             [] c[3] # Pad /\ i[3] # Bad /\ c[4] = Pad -> [out |-> two, stop |-> TRUE]
                             [] c[3] # Pad /\ i[3] # Bad /\ c[4] # Pad /\ i[4] = Bad ->
                                  [out |-> Null64, stop |-> TRUE]
                             [] OTHER -> [out |-> two \o <<Shl(i[3], 3 * Q) | i[4]>>, stop |-> FALSE]
    IN  IF Len(chars) % 4 # 0 THEN Null64
        ELSE FoldLeft(step, [out |-> <<>>, stop |-> FALSE], Cut(chars, 4)).out

-----------------------------------------------------------------------------
Fresh64 == [calls |-> 0, encoder |-> Table, decoder |-> Table]

Base64Init ==
    /\ tables = Fresh64
    /\ coded = <<>> /\ plain = <<>> /\ coder = "none" /\ decoded = <<>>

EncodeStream(bytes, key) ==
    LET t == Keyed(tables.encoder, key)
    IN  /\ tables.calls < MaxCalls
        /\ tables' = [tables EXCEPT !.calls = @ + 1, !.encoder = t]
        /\ coded' = encode_stream(t, bytes)
        /\ plain' = bytes /\ coder' = "stream" /\ decoded' = <<>>

DecodeStream(key, length, junk) ==
    LET t == Keyed(tables.decoder, key)
    IN  /\ coder = "stream"
        /\ tables' = [tables EXCEPT !.decoder = t]
        /\ decoded' = <<decode_stream(t, SubSeq(coded, 1, length), junk), length>>
        /\ UNCHANGED <<coded, plain, coder>>

EncodeMemory(bytes) ==
    /\ tables.calls < MaxCalls
    /\ tables' = [tables EXCEPT !.calls = @ + 1]
    /\ coded' = base64_encode(bytes)
    /\ plain' = bytes /\ coder' = "memory" /\ decoded' = <<>>

DecodeMemory(length) ==
    /\ coder = "memory"
    /\ decoded' = <<base64_decode(SubSeq(coded, 1, length)), length>>
    /\ UNCHANGED <<tables, coded, plain, coder>>

Base64Next ==
    \/ \E bytes \in Plains : (\E key \in Keys : EncodeStream(bytes, key)) \/ EncodeMemory(bytes)
    \/ \E n \in 0 .. 2 :
          /\ n <= Len(coded)
          /\ \/ \E key \in Keys, junk \in {Bad, Table[1]} : DecodeStream(key, Len(coded) - n, junk)
             \/ DecodeMemory(Len(coded) - n)

Base64Spec == Base64Init /\ [][Base64Next]_base64Vars

-----------------------------------------------------------------------------
(* A text that arrives whole decodes to the data it was made of, across    *)
(* chunks of different sizes: always with base64_code.c, and with          *)
(* base64.cpp whenever both processes have come to the same table, by      *)
(* whatever keys, and that table names no character twice and does not     *)
(* use '=' for data.  A key that is given once stays in the table, so the  *)
(* same key on both sides is neither needed nor enough.                    *)
Proper(t) == Pad \notin Range(t) /\ IsInjective(t)
RoundTrip ==
    decoded # <<>> /\ decoded[2] = Len(coded)
      /\ (coder = "stream" => tables.encoder = tables.decoder /\ Proper(tables.encoder))
        => decoded[1] = plain

=============================================================================
