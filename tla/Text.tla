--------------------------------- MODULE Text ---------------------------------
(***************************************************************************)
(* Conversions of text: src/utf8.c, src/log4cplus/stringhelper.cxx in a    *)
(* build with UNICODE (without it these two conversions are not compiled)  *)
(* and LOG4CPLUS_WORKING_LOCALE, in a UTF-8 locale, tokenize of            *)
(* stringhelper.h and trim_tstring of src/c_single_file.h.                 *)
(*                                                                         *)
(* A wide text is a sequence of numbers, a narrow one of bytes; neither    *)
(* holds a 0, which ends it in memory.  The codecvt of the locale refuses  *)
(* the wide characters in Refused.                                         *)
(***************************************************************************)
EXTENDS Integers, Sequences, SequencesExt, FiniteSetsExt

CONSTANTS
    Words,      \* the wide texts
    Narrows,    \* narrow texts that are no encoding of anything
    Refused,    \* wide characters that have no encoding: surrogates
    BufferSizes, \* the sizes callers pass
    Comma       \* the character texts are split at

ASSUME TextAssumption == BufferSizes \subseteq Nat /\ 0 \notin UNION {Range(w) : w \in Words}

VARIABLES
    word,       \* the wide text under way
    narrow,     \* the narrow text under way
    madeBy,     \* history: how narrow was made of word
    result      \* what was done last, and what came out

textVars == <<word, narrow, madeBy, result>>

(* UTF-8, with bits taken apart by division.                               *)
BytesOf(c) ==
    CASE c < 128 -> <<c>>
      [] c \in 128 .. 2047 -> <<192 + (c \div 64), 128 + (c % 64)>>
      [] OTHER -> <<224 + (c \div 4096), 128 + ((c \div 64) % 64), 128 + (c % 64)>>
Encoded(w) == FlattenSeq([i \in DOMAIN w |-> BytesOf(w[i])])
Continues(b) == b \div 64 = 2
Lead(b) == CASE b < 128 -> b
             [] b >= 128 /\ (b \div 32) % 2 = 0 -> b % 32
             [] OTHER -> b % 16

(* utf8ToWideString: the number of characters for size 0; otherwise what   *)
(* fits, with a NUL behind it.  touched is how many elements are written:  *)
(* exactly as many characters as the size make one too many.               *)
SkipContinuing(bytes) ==
    LET starts == {i \in DOMAIN bytes : ~Continues(bytes[i])}
    IN  IF starts = {} THEN <<>> ELSE SubSeq(bytes, Min(starts), Len(bytes))
Decoded(bytes) ==
    FoldLeft(LAMBDA w, b : IF Continues(b) THEN [w EXCEPT ![Len(w)] = (@ * 64 + (b % 64)) % 65536]
                           ELSE Append(w, Lead(b)),
             <<>>, bytes)
utf8ToWideString(utf8, sz) ==
    LET w == Decoded(SkipContinuing(utf8))
    IN  CASE sz = 0 -> [n |-> Len(w), text |-> <<>>, touched |-> 0]
          [] sz # 0 /\ w = <<>> -> [n |-> 0, text |-> <<>>, touched |-> 1]
          [] sz # 0 /\ Len(w) > sz -> [n |-> sz - 1, text |-> SubSeq(w, 1, sz - 1), touched |-> sz]
          [] OTHER -> [n |-> Len(w), text |-> w, touched |-> Len(w) + 1]

(* utf8FromWideString: the number of bytes for a size below 3; otherwise   *)
(* character by character, each of which is written before it is known to  *)
(* fit.                                                                    *)
FromStep(r, c, sz) ==
    LET bytes == r.bytes \o BytesOf(c)
        touched == IF Len(bytes) > r.touched THEN Len(bytes) ELSE r.touched
    IN  IF Len(bytes) >= sz THEN [r EXCEPT !.stop = TRUE, !.touched = touched]
        ELSE [r EXCEPT !.bytes = bytes, !.touched = touched]
utf8FromWideString(utf16, sz) ==
    LET r == FoldLeft(LAMBDA s, c : IF s.stop THEN s ELSE FromStep(s, c, sz),
                      [bytes |-> <<>>, touched |-> 0, stop |-> FALSE], utf16)
    IN  IF sz < 3 THEN [n |-> Len(Encoded(utf16)), text |-> <<>>, touched |-> 0]
        ELSE [n |-> Len(r.bytes), text |-> r.bytes, touched |-> Max({r.touched, Len(r.bytes) + 1})]

(* codecvt::out of from into room elements: what was converted, how many   *)
(* characters that took, and the result.  Without room it does not look at *)
(* a character, and so does not refuse one.                                *)
CodecvtOut(from, room) ==
    LET fits == {n \in 0 .. Len(from) : /\ Len(Encoded(SubSeq(from, 1, n))) <= room
                                        /\ \A i \in 1 .. n : from[i] \notin Refused}
        n == Max(fits)
        to == Encoded(SubSeq(from, 1, n))
    IN  [to |-> to, n |-> n,
         result |-> CASE n = Len(from) -> "ok"
                      [] n < Len(from) /\ from[n + 1] \in Refused /\ Len(to) < room -> "error"
                      [] OTHER -> "partial"]

(* tostring_internal: dest grows until everything is converted; a refused  *)
(* character becomes a question mark.  Growing starts over at the front of *)
(* dest with the characters from from_first on.  text is dest up to        *)
(* to_next, first the index of to_first in it.                             *)
Question == 63
OutStepGoesOn(r) ==
    LET o == CodecvtOut(r.from, r.size - r.first)
        text == SubSeq(r.text, 1, r.first) \o o.to
        from == SubSeq(r.from, o.n + 2, Len(r.from))
    IN  CASE o.result = "partial" -> [r EXCEPT !.size = 2 * @, !.first = Len(text), !.text = text]
          [] o.result = "ok" -> [r EXCEPT !.text = text, !.from = <<>>]
          [] o.result = "error" ->
               [r EXCEPT !.text = Append(text, Question), !.first = Len(text) + 1, !.from = from]
OutStep(r) ==
    LET o == CodecvtOut(r.from, r.size - r.first)
        text == SubSeq(r.text, 1, r.first) \o o.to
        from == SubSeq(r.from, o.n + 2, Len(r.from))
    IN  CASE o.result = "partial" -> [r EXCEPT !.size = 2 * @, !.first = 0, !.text = text]
          [] o.result = "ok" -> [r EXCEPT !.text = text, !.from = <<>>]
          [] o.result = "error" ->
               [r EXCEPT !.text = Append(text, Question), !.first = Len(text) + 1, !.from = from]
tostring_internal(src) ==
    FoldLeft(LAMBDA r, i : IF r.from = <<>> THEN r ELSE OutStep(r),
             [from |-> src, text |-> <<>>, size |-> Len(src), first |-> 0],
             [i \in 1 .. 3 * Len(src) |-> i]).text

(* towstring_internal: the wide text is never longer than the narrow one,  *)
(* so that dest does not grow.  codecvt::in keeps a sequence that is not   *)
(* complete at the end in its state and takes it for converted.            *)
Needed8(b) == CASE b < 128 -> 1 [] b \in 192 .. 223 -> 2 [] b \in 224 .. 239 -> 3 [] OTHER -> 0
Whole8(bytes, i) ==
    /\ Needed8(bytes[i]) > 0
    /\ \A k \in 1 .. Needed8(bytes[i]) - 1 : i + k \in DOMAIN bytes => Continues(bytes[i + k])
InStep(r, bytes) ==
    LET n == IF Whole8(bytes, r.at) THEN Needed8(bytes[r.at]) ELSE 0
    IN  CASE n > 0 /\ r.at + n - 1 <= Len(bytes) ->
               [text |-> r.text \o Decoded(SubSeq(bytes, r.at, r.at + n - 1)), at |-> r.at + n]
          [] n > 0 /\ r.at + n - 1 > Len(bytes) -> [r EXCEPT !.at = Len(bytes) + 1]
          [] OTHER -> [text |-> Append(r.text, Question), at |-> r.at + 1]
towstring_internal(src) ==
    FoldLeft(LAMBDA r, i : IF r.at > Len(src) THEN r ELSE InStep(r, src),
             [text |-> <<>>, at |-> 1], src).text

(* tokenize: a token ends at each delimiter; collapse skips the delimiters *)
(* that follow one.  What is behind the last delimiter is a token only if  *)
(* it is not empty.                                                        *)
tokenize(s, collapse) ==
    LET step(r, i) ==
            CASE s[i] = Comma /\ collapse /\ i > 1 /\ s[i - 1] = Comma -> [r EXCEPT !.first = i + 1]
              [] s[i] = Comma /\ ~(collapse /\ i > 1 /\ s[i - 1] = Comma) ->
                   [tokens |-> Append(r.tokens, SubSeq(s, r.first, i - 1)), first |-> i + 1]
              [] OTHER -> r
        r == FoldLeft(step, [tokens |-> <<>>, first |-> 1], [i \in DOMAIN s |-> i])
    IN  IF r.first <= Len(s) THEN Append(r.tokens, SubSeq(s, r.first, Len(s))) ELSE r.tokens

(* trim_tstring: the loop for the end tests the iterator of the beginning, *)
(* so that only the beginning is trimmed; of a text of nothing but blanks  *)
(* it looks at the character behind the end.                               *)
trim_tstring(s) ==
    LET kept == {i \in DOMAIN s : s[i] # Comma}
    IN  CASE s = <<>> -> [text |-> <<>>, behind |-> FALSE]
          [] s # <<>> /\ kept = {} -> [text |-> <<>>, behind |-> TRUE]
          [] OTHER -> [text |-> SubSeq(s, Min(kept), Len(s)), behind |-> FALSE]

-----------------------------------------------------------------------------
Did(what, size, out) == [what |-> what, size |-> size, out |-> out]

TextInit ==
    /\ word \in Words
    /\ narrow = <<>> /\ madeBy = "nobody"
    /\ result = Did("none", 0, <<>>)

FromWide(sz) ==
    LET r == utf8FromWideString(word, sz)
    IN  /\ narrow' = r.text /\ madeBy' = "from"
        /\ result' = Did("from", sz, r)
        /\ UNCHANGED word
ToWide(sz) ==
    /\ result' = Did("to", sz, utf8ToWideString(narrow, sz))
    /\ UNCHANGED <<word, narrow, madeBy>>
ToString8 ==
    /\ narrow' = tostring_internal(word) /\ madeBy' = "tostring"
    /\ result' = Did("tostring", 0, narrow')
    /\ UNCHANGED word
ToWString ==
    /\ result' = Did("towstring", 0, towstring_internal(narrow))
    /\ UNCHANGED <<word, narrow, madeBy>>
Other ==
    /\ narrow' \in Narrows /\ madeBy' = "nobody"
    /\ result' = Did("none", 0, <<>>)
    /\ UNCHANGED word
Tokenize(collapse) ==
    /\ result' = Did("tokens", IF collapse THEN 1 ELSE 0, tokenize(word, collapse))
    /\ UNCHANGED <<word, narrow, madeBy>>
Trim ==
    /\ result' = Did("trim", 0, trim_tstring(word))
    /\ UNCHANGED <<word, narrow, madeBy>>

TextNext ==
    \/ \E sz \in BufferSizes : FromWide(sz) \/ ToWide(sz)
    \/ ToString8
    \/ ToWString
    \/ \E collapse \in BOOLEAN : Tokenize(collapse)
    \/ Trim
    \/ Other

TextSpec == TextInit /\ [][TextNext]_textVars

-----------------------------------------------------------------------------
(* utf8.c makes of a text as many whole characters as fit with a NUL       *)
(* behind them.  It writes at most two bytes past the size it was told, or *)
(* one wide character: that exactly when there are as many characters as   *)
(* the size says.                                                          *)
Beginnings(w) == {SubSeq(w, 1, n) : n \in 0 .. Len(w)}
Utf8Fits ==
    LET r == result.out  sz == result.size
    IN  /\ result.what = "from" /\ sz >= 3 =>
             /\ \E n \in 0 .. Len(word) :
                  /\ r.text = Encoded(SubSeq(word, 1, n)) /\ Len(r.text) < sz
                  /\ n < Len(word) => Len(Encoded(SubSeq(word, 1, n + 1))) >= sz
             /\ r.touched <= sz + 2
        /\ result.what = "to" /\ sz > 0 =>
             /\ r.text \in Beginnings(Decoded(SkipContinuing(narrow)))
             /\ r.n = Len(r.text) /\ r.n <= sz
             /\ (r.touched > sz) <=> (r.n = sz)

(* A wide text that is converted and converted back is the text it was, or *)
(* as much of it as fitted in between: with utf8.c always, with tostring   *)
(* and towstring unless there is a character that has no encoding.  Such a *)
(* character becomes a question mark, but if the text has to grow after it *)
(* everything up to it is lost.                                            *)
Marked(w) == [i \in DOMAIN w |-> IF w[i] \in Refused THEN Question ELSE w[i]]
Refuses(w) == \E i \in DOMAIN w : w[i] \in Refused
WideKept ==
    LET r == result.out
    IN  /\ result.what = "to" /\ madeBy = "from" => r.text \in Beginnings(word)
        /\ result.what = "tostring" =>
             IF ~Refuses(word) THEN r = Encoded(word)
             ELSE IF Len(Encoded(Marked(word))) <= Len(word) THEN r = Encoded(Marked(word))
             ELSE \E m \in {0} \cup {i \in DOMAIN word : word[i] \in Refused} :
                    r = Encoded(Marked(SubSeq(word, m + 1, Len(word))))
        /\ result.what = "towstring" /\ madeBy = "tostring" /\ ~Refuses(word) => r = word

(* The tokens, joined again with the delimiter, are the text, but for a    *)
(* delimiter at its end; without repeated delimiters if these collapse.    *)
Joined(tokens) ==
    FoldLeft(LAMBDA s, i : s \o (IF i = 1 THEN <<>> ELSE <<Comma>>) \o tokens[i],
             <<>>, [i \in DOMAIN tokens |-> i])
Collapsed(s) ==
    FoldLeft(LAMBDA t, c : IF c = Comma /\ t # <<>> /\ Last(t) = Comma THEN t ELSE Append(t, c), <<>>, s)
TokensJoin ==
    result.what = "tokens" =>
      LET s == IF result.size = 1 THEN Collapsed(word) ELSE word
      IN  Joined(result.out) = IF s # <<>> /\ Last(s) = Comma THEN Front(s) ELSE s

(* A trimmed text is the text from its first character that is no blank,   *)
(* with every blank at its end; only a text of nothing but blanks makes    *)
(* the second loop look behind the end.                                    *)
TrimKeepsEnd ==
    result.what = "trim" =>
      LET r == result.out
      IN  /\ \E n \in 0 .. Len(word) : word = [i \in 1 .. n |-> Comma] \o r.text
          /\ r.text # <<>> => r.text[1] # Comma
          /\ r.behind <=> word # <<>> /\ r.text = <<>>

(* What a conversion makes of a text tells the text: the wide characters   *)
(* that fitted or could be encoded, the bytes within the size, the tokens, *)
(* what is left when the blanks in front are cut off.                      *)
TextKept == WideKept /\ Utf8Fits /\ TokensJoin /\ TrimKeepsEnd

=============================================================================
