---------------------------- MODULE ParaStrings ----------------------------
(***************************************************************************)
(* network/parsepara.c: lists of name/value pairs, their text form         *)
(* name=value&name=value with %XX escapes, and the file form "name value". *)
(* A string is a sequence of character codes, a list of pairs a sequence   *)
(* of records; iPairLen is the room of the array behind it.                *)
(***************************************************************************)
EXTENDS Integers, SequencesExt

CONSTANTS MAX_NAME_LEN, MAX_VALUE_LEN, \* room for a name, for a value, with their NUL
          iPairLen                     \* room for pairs in a list

Percent == 37
Amp     == 38
Equals  == 61
Blank   == 32
Slash   == 47
Sharp   == 35

shouldencode(ch) == ch \in {Equals, Amp, Percent}
isprint(ch)      == ch \in 32 .. 126
isspace(ch)      == ch \in (9 .. 13) \cup {Blank}
toupper(ch)      == IF ch \in 97 .. 122 THEN ch - 32 ELSE ch

sHexTable == [i \in 0 .. 15 |-> IF i < 10 THEN 48 + i ELSE 55 + i]

get_index(ch) ==
  IF \E i \in 0 .. 15 : sHexTable[i] = toupper(ch)
  THEN CHOOSE i \in 0 .. 15 : sHexTable[i] = toupper(ch)
  ELSE -1

Escaped(ch) == <<Percent, sHexTable[ch \div 16], sHexTable[ch % 16]>>

encode_string(s) ==
  FlattenSeq([i \in DOMAIN s |-> IF shouldencode(s[i]) THEN Escaped(s[i]) ELSE <<s[i]>>])

\* A plausible slip: the escape character itself is left as it is.
encode_hexstringPlainPercent(s) ==
  FlattenSeq([i \in DOMAIN s |-> IF ~isprint(s[i]) \/ s[i] \in {Equals, Amp}
                                 THEN Escaped(s[i]) ELSE <<s[i]>>])

encode_hexstring(s) ==
  FlattenSeq([i \in DOMAIN s |-> IF ~isprint(s[i]) \/ shouldencode(s[i])
                                 THEN Escaped(s[i]) ELSE <<s[i]>>])

BadEscape(s) == \/ Len(s) < 3
                \/ get_index(s[2]) < 0
                \/ get_index(s[3]) < 0

Cut(s, n) == SubSeq(s, 1, IF Len(s) < n THEN Len(s) ELSE n)

\* Decodes s behind out, which holds at most room characters: a bad escape is
\* an error, a full buffer just ends the loop.
RECURSIVE Decode(_, _, _)
Decode(s, out, room) ==
  IF s = <<>> THEN [ok |-> TRUE, text |-> out]
  ELSE IF s[1] = Percent /\ BadEscape(s) THEN [ok |-> FALSE, text |-> out]
  ELSE IF Len(out) >= room THEN [ok |-> TRUE, text |-> out]
  ELSE IF s[1] = Percent
       THEN Decode(SubSeq(s, 4, Len(s)),
                   Append(out, 16 * get_index(s[2]) + get_index(s[3])), room)
       ELSE Decode(Tail(s), Append(out, s[1]), room)

decode_hexstring(s)  == Decode(s, <<>>, Len(s))
decode_string(s, n)  == Decode(s, <<>>, n - 1)

----------------------------------------------------------------------------
(* Lists of pairs. *)

Pair(name, value) == [sFirst |-> name, sSecond |-> value]

SetPara(list, name, encoded) ==
  IF Len(list) >= iPairLen THEN list
  ELSE Append(list, Pair(Cut(name, MAX_NAME_LEN - 1), Cut(encoded, MAX_VALUE_LEN - 1)))

SetParaValue(list, name, value)  == SetPara(list, name, encode_string(value))
SetBinaryPara(list, name, value) == SetPara(list, name, encode_hexstring(value))

strcasecmp(a, b) == [i \in DOMAIN a |-> toupper(a[i])] = [i \in DOMAIN b |-> toupper(b[i])]
Named(list, name) == SelectSeq(list, LAMBDA p : strcasecmp(p.sFirst, name))

\* The value as it is stored: nothing decodes it.
GetParaValue(list, name, n) ==
  IF Named(list, name) = <<>> THEN <<>> ELSE Cut(Named(list, name)[1].sSecond, n - 1)

GetBinaryPara(list, name) ==
  IF Named(list, name) = <<>> THEN <<>> ELSE decode_hexstring(Named(list, name)[1].sSecond).text

ConcatPairList(p1, p2) == Cut(p1 \o p2, iPairLen)

----------------------------------------------------------------------------
(* The text form. *)

TextOf(list) ==
  FlattenSeq([i \in DOMAIN list |-> list[i].sFirst \o <<Equals>> \o list[i].sSecond \o <<Amp>>])

\* How many pairs EncodePara writes to a buffer of size room.
Fitting(list, room) ==
  CHOOSE n \in 0 .. Len(list) :
    /\ n > 0 => Len(TextOf(Cut(list, n))) < room
    /\ n < Len(list) => Len(TextOf(Cut(list, n + 1))) >= room

EncodePara(list, room) ==
  LET text == TextOf(Cut(list, Fitting(list, room)))
  IN  IF text = <<>> THEN text ELSE Front(text)

\* What is in an array element nothing was copied to yet.
Leftover == <<0>>

\* One turn of parsepara's loop: buf is sBuffer, flag chFlag, over what ends it.
Parse(st, ch) ==
  IF st.over THEN st
  ELSE IF ch = Equals
  THEN [st EXCEPT !.name = Cut(st.buf, MAX_NAME_LEN - 1), !.buf = <<>>, !.flag = TRUE]
  ELSE IF ch \notin {Amp, 0} THEN [st EXCEPT !.buf = Append(@, ch)]
  ELSE IF ~st.flag THEN [st EXCEPT !.over = TRUE]
  ELSE LET full == Len(st.pairs) + 1 >= iPairLen - 2
       IN  [pairs |-> Append(st.pairs, Pair(st.name, Cut(st.buf, MAX_VALUE_LEN - 1))),
            name |-> Leftover, buf |-> <<>>, flag |-> full, over |-> full]

\* The pairs read, or refused when a piece has no '='.
parsepara(text) ==
  LET end == FoldLeft(Parse, [pairs |-> <<>>, name |-> Leftover, buf |-> <<>>,
                              flag |-> FALSE, over |-> FALSE], text)
  IN  IF text = <<>> THEN [ok |-> TRUE, pairs |-> <<>>]
      ELSE [ok |-> end.flag, pairs |-> Append(end.pairs, Pair(end.name, end.buf))]

DecodePara(text) == parsepara(text)

----------------------------------------------------------------------------
(* The file form, one "name value" a line. *)

TrimLeft(s) ==
  LET first == SelectInSeq(s, LAMBDA ch : ~isspace(ch))
  IN  IF first = 0 THEN <<>> ELSE SubSeq(s, first, Len(s))

\* The first character stays, whatever it is.
TrimRight(s) ==
  LET last == SelectLastInSeq(s, LAMBDA ch : ~isspace(ch))
  IN  IF last = 0 THEN Cut(s, 1) ELSE Cut(s, last)

TrimString(s) == TrimRight(TrimLeft(s))

IsComment(line) == \/ line[1] = Sharp
                   \/ line[1] = Slash /\ line[2] = Slash

LoadFromFile(lines) ==
  LET Load(pairs, raw) ==
        LET line == TrimString(raw)
            at   == SelectInSeq(line, LAMBDA ch : ch = Blank)
        IN  IF IsComment(raw) \/ at = 0 THEN pairs
            ELSE Append(pairs, Pair(TrimString(Cut(line, at - 1)),
                                    TrimString(SubSeq(line, at + 1, Len(line)))))
  IN  FoldLeft(Load, <<>>, lines)

----------------------------------------------------------------------------
(* What the text forms promise: names of letters, values of any character. *)

\* A list that leaves two elements of the array free comes back from its
\* text, up to the pairs the buffer had no room for.
TextKeepsPairs(list, room) ==
  Len(list) <= iPairLen - 2
    => LET answer == DecodePara(EncodePara(list, room))
       IN  answer.ok /\ answer.pairs = Cut(list, Fitting(list, room))

\* A binary value comes back unless its escapes had to be cut.
BinaryComesBack(list, name, value) ==
  Named(list, name) = <<>> /\ Len(list) < iPairLen
    /\ Len(name) < MAX_NAME_LEN /\ Len(encode_hexstring(value)) < MAX_VALUE_LEN
    => GetBinaryPara(SetBinaryPara(list, name, value), name) = value

\* A line written as a name, blanks and a value is read as that pair.
LineIsRead(name, value) ==
  LoadFromFile(<< <<Blank>> \o name \o <<Blank, Blank>> \o value \o <<Blank, 10>> >>)
    = << Pair(name, value) >>

=============================================================================
