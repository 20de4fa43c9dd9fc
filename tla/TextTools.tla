----------------------------- MODULE TextTools -----------------------------
(***************************************************************************)
(* The small conversions of the libraries: fields of a line (util_str.c),  *)
(* blanks and base64 (common.c), signalling messages (protocol.c), the     *)
(* list of allowed file suffixes (vfs_file_filter.c), and the lines of the *)
(* result files as the plugins write and the import (da) reads them.       *)
(***************************************************************************)
EXTENDS Integers, SequencesExt, FiniteSetsExt

CONSTANTS MAX_SIG_BODY, \* bound of a message's body, 4096 in the code
          LineRoom      \* bytes fgets reads at most, 2047 in the code

From(s, i)       == SubSeq(s, i, Len(s))
At(s, Test(_))   == LET i == SelectInSeq(s, Test) IN IF i = 0 THEN Len(s) + 1 ELSE i
Before(s, Test(_)) == SubSeq(s, 1, At(s, Test) - 1)

----------------------------------------------------------------------------
(* util_str.c *)

Blanks    == {" ", "\t", "\n", "\r"}
Quotes    == {"\"", "'"}
IsBlank(ch)  == ch \in Blanks
NotBlank(ch) == ch \notin Blanks

\* The last field keeps the rest of the line but for the blanks at its end.
Rest(line) == SubSeq(line, 1, SelectLastInSeq(line, NotBlank))

\* fields are those found so far; n is the room for them.
RECURSIVE Explode(_, _, _)
Explode(raw, fields, n) ==
  LET line == From(raw, At(raw, NotBlank))
      Same(ch) == ch = line[1]
  IN  IF line = <<>> THEN fields
      ELSE IF line[1] \in Quotes
      THEN LET more == Append(fields, Before(Tail(line), Same))
               rest == From(Tail(line), At(Tail(line), Same) + 1)
           IN  IF At(Tail(line), Same) > Len(Tail(line)) \/ Len(more) >= n
               THEN more ELSE Explode(rest, more, n)
      ELSE IF Len(fields) + 1 >= n THEN Append(fields, Rest(line))
      ELSE Explode(From(line, At(line, IsBlank) + 1), Append(fields, Before(line, IsBlank)), n)

str_explode(line, n) == Explode(line, <<>>, n)

----------------------------------------------------------------------------
(* common.c *)

\* Leading blanks go, a run of blanks becomes one.
trim_in(s) ==
  LET t == From(s, At(s, LAMBDA ch : ch # " "))
  IN  FlattenSeq([i \in DOMAIN t |-> IF i > 1 /\ t[i] = " " /\ t[i - 1] = " " THEN <<>> ELSE <<t[i]>>])

\* How many addresses of a name are given back: none of too many.
get_multi_ip_by_domain(addresses) == IF Len(addresses) >= 16 THEN 0 ELSE Len(addresses)

\* The six bits of d that begin at bit 6 * i, the bits behind its end 0.
Sextet(d, i) ==
  LET byte == (6 * i) \div 8
      bit  == (6 * i) % 8
      here == d[byte + 1]
  IN  IF bit < 3 THEN (here \div 2 ^ (2 - bit)) % 64
      ELSE ((here * 2 ^ (bit - 2)) % 64)
             + (IF byte + 1 < Len(d) THEN d[byte + 2] \div 2 ^ (10 - bit) ELSE 0)

Pad == 64
\* Digits are their numbers in the alphabet.
base64_encode(d, pad) ==
  LET digits == [i \in 1 .. (8 * Len(d) + 5) \div 6 |-> Sextet(d, i - 1)]
      fill   == IF pad THEN (4 - (Len(digits) % 4)) % 4 ELSE 0
  IN  digits \o [i \in 1 .. fill |-> Pad]

----------------------------------------------------------------------------
(* util_ip.c; characters are the digits 0 .. 9 and Dot, an address is its   *)
(* four bytes.                                                              *)

Dot == 10
INADDR_NONE == <<255, 255, 255, 255>>

Decimal(c) ==
  IF c >= 100 THEN <<c \div 100, (c \div 10) % 10, c % 10>>
  ELSE IF c >= 10 THEN <<c \div 10, c % 10>> ELSE <<c>>

ip2str(ip) == Tail(FlattenSeq([i \in 1 .. 4 |-> <<Dot>> \o Decimal(ip[i])]))

\* strtoul with base 0: a number that begins with 0 is octal.
strtoul(t) ==
  LET base == IF t[1] = 0 THEN 8 ELSE 10
      digits == Before(t, LAMBDA ch : ch >= base)
  IN  [val |-> FoldLeft(LAMBDA n, d : base * n + d, 0, digits), rest |-> From(t, Len(digits) + 1)]

\* The last number fills the bytes left.  Nothing bounds the third of four:
\* what does not fit its byte is added to the fourth.
RECURSIVE Bytes(_, _, _)
Bytes(t, ip, carry) ==
  LET k == Len(ip) + 1
      n == strtoul(t)
      last == k = 4 \/ n.rest = <<>> \/ n.rest[1] # Dot
      Byte(i) == (n.val \div 256 ^ (4 - i)) % 256
  IN  IF t = <<>> \/ t[1] = Dot THEN INADDR_NONE
      ELSE IF last
      THEN IF (k > 1 /\ n.val >= 256 ^ (5 - k)) \/ (k = 1 /\ Byte(1) \notin 1 .. 223) THEN INADDR_NONE
           ELSE ip \o [i \in 1 .. 5 - k |->
                         IF k = 4 THEN (n.val + carry) % 256 ELSE Byte(i + k - 1)]
      ELSE IF (k = 1 /\ n.val \notin 1 .. 223) \/ (k = 2 /\ n.val >= 256) THEN INADDR_NONE
      ELSE Bytes(Tail(n.rest), Append(ip, n.val % 256), n.val \div 256)

str2ip(t) == Bytes(t, <<>>, 0)

----------------------------------------------------------------------------
(* protocol.c *)

SIG_HEADSIZE == 4
htons(n) == <<n \div 256, n % 256>>
ntohs(b) == 256 * b[1] + b[2]

create_sig_msg(cmdid, status, body) == htons(Len(body)) \o <<cmdid, status>> \o body

parse_sig_msg(s) ==
  LET bodylen == ntohs(s)
      Answer(ret, body) == [ret |-> ret, body |-> body]
  IN  IF Len(s) < SIG_HEADSIZE THEN Answer("E_PRO_HEAD_LEN", <<>>)
      ELSE IF bodylen >= MAX_SIG_BODY THEN Answer("E_PACKET_ERR_CLOSE", <<>>)
      ELSE IF Len(s) < SIG_HEADSIZE + bodylen THEN Answer("E_PRO_TOTAL_LEN", <<>>)
      ELSE Answer("E_PRO_OK", SubSeq(s, SIG_HEADSIZE + 1, SIG_HEADSIZE + bodylen))

----------------------------------------------------------------------------
(* vfs_file_filter.c *)

add_filter(s, mlist) == <<s>> \o mlist

\* The suffixes of one value of file_allow_suffix: an empty one, or a '*'
\* alone, ends the list, since the '|' behind it was overwritten.
RECURSIVE sub_init_filter(_, _)
sub_init_filter(s, mlist) ==
  LET item == Before(s, LAMBDA ch : ch = "|")
      word == IF item # <<>> /\ item[1] = "*" THEN Tail(item) ELSE item
      rest == From(s, Len(item) + 2)
  IN  IF word = <<>> THEN mlist
      ELSE IF Len(item) = Len(s) THEN add_filter(word, mlist)
      ELSE sub_init_filter(rest, add_filter(word, mlist))

init_file_filter(vals) == FoldLeft(LAMBDA mlist, s : sub_init_filter(s, mlist), <<>>, vals)

check_file_allow(file, allow_list) == \E i \in DOMAIN allow_list : IsSuffix(allow_list[i], file)

----------------------------------------------------------------------------
(* Result files: protocol/vfs_data_base.c and http_detect/vfs_data_base.c  *)
(* write them, da/src/cdc_db_sub.c reads them.                             *)

LineEnds == {"\n", "\r"}

\* A plausible slip: only one of the two characters is replaced.
remove_spaceCR(src) ==
  FlattenSeq([i \in DOMAIN src |-> IF src[i] = "\r" THEN <<"&", "&">> ELSE <<src[i]>>])

remove_space(src) ==
  FlattenSeq([i \in DOMAIN src |-> IF src[i] \in LineEnds THEN <<"&", "&">> ELSE <<src[i]>>])

Bracketed(text) == <<" ", "[">> \o text \o <<"]">>
PeerOf(peer)    == peer.domain \o <<" ">> \o peer.dstip \o <<" ">> \o peer.port

first_line(peer, data) == PeerOf(peer) \o Bracketed(remove_space(data)) \o <<"\n">>
http_line(peer, head)  ==
  PeerOf(peer) \o Bracketed(peer.url) \o Bracketed(remove_space(head)) \o <<"\n">>

\* Pieces of a file, as fgets cuts it.
RECURSIVE Gets(_)
Gets(file) ==
  LET n == Min({At(file, LAMBDA ch : ch = "\n"), LineRoom, Len(file)})
  IN  IF file = <<>> THEN <<>> ELSE <<SubSeq(file, 1, n)>> \o Gets(From(file, n + 1))

\* The fields of a line, none if it has too few: rec[0 .. 2], and rec[3] of
\* a file of the HTTP plugin.
process_line(buf, role) ==
  LET Cuts  == SetToSortSeq({i \in DOMAIN buf : buf[i] = " "}, <)
      count == IF role = "ROLE_HTTP" THEN 4 ELSE 3
      Field(k) == SubSeq(buf, IF k = 1 THEN 1 ELSE Cuts[k - 1] + 1, Cuts[k] - 1)
  IN  IF Len(Cuts) < count THEN <<>> ELSE [k \in 1 .. count |-> Field(k)]

do_refresh_run_task(file, role) == [i \in DOMAIN Gets(file) |-> process_line(Gets(file)[i], role)]

----------------------------------------------------------------------------
(* What they promise. *)

\* The words of a line without quotes.
RECURSIVE Words(_)
Words(line) ==
  LET t == From(line, At(line, NotBlank))
  IN  IF t = <<>> THEN <<>> ELSE <<Before(t, IsBlank)>> \o Words(From(t, At(t, IsBlank)))

\* The fields of a line without quotes are its words, the last field all
\* the words there was no field for, with nothing behind the last of them.
FieldsAreWords(line, n) ==
  LET fields == str_explode(line, n)
      words  == Words(line)
  IN  IF Len(words) < n THEN fields = words
      ELSE /\ Len(fields) = n
           /\ Front(fields) = SubSeq(words, 1, n - 1)
           /\ Words(Last(fields)) = From(words, n)
           /\ NotBlank(Last(Last(fields)))

\* Trimming keeps the words of a line and leaves single blanks.
TrimKeepsWords(line) ==
  LET t == trim_in(line)
  IN  /\ Words(t) = Words(line)
      /\ \A i \in DOMAIN t : t[i] = " " => i > 1 /\ t[i - 1] # " "

\* The bytes of a base64 text: what its digits say as a number, cut to bytes.
Decoded(digits) ==
  LET body == SelectSeq(digits, LAMBDA x : x # Pad)
      all  == FoldLeft(LAMBDA n, x : 64 * n + x, 0, body)
      size == (6 * Len(body)) \div 8
      spare == 6 * Len(body) - 8 * size
  IN  [i \in 1 .. size |-> (all \div 2 ^ (spare + 8 * (size - i))) % 256]

Base64ComesBack(bytes) ==
  /\ Decoded(base64_encode(bytes, FALSE)) = bytes
  /\ Decoded(base64_encode(bytes, TRUE)) = bytes
  /\ Len(base64_encode(bytes, TRUE)) % 4 = 0

\* An address comes back from its text, but for those that are no host's.
AddressComesBack(ip) ==
  str2ip(ip2str(ip)) = IF ip[1] \in 1 .. 223 THEN ip ELSE INADDR_NONE

\* A message is read as it was built, what follows it in the buffer left
\* alone; of a part of it the reader asks for more, and never gives up.
MessageIsRead(cmdid, status, body, more) ==
  Len(body) < MAX_SIG_BODY =>
    LET msg == create_sig_msg(cmdid, status, body)
    IN  /\ parse_sig_msg(msg \o more) = [ret |-> "E_PRO_OK", body |-> body]
        /\ \A k \in 0 .. Len(msg) - 1 :
             parse_sig_msg(SubSeq(msg, 1, k)).ret \in {"E_PRO_HEAD_LEN", "E_PRO_TOTAL_LEN"}

\* Of a list of suffixes, with or without a '*' before them, none empty,
\* exactly the files that end in one of them are let through.
SuffixesLetThrough(items, stars, file) ==
  LET Item(i) == (IF i \in stars THEN <<"*">> ELSE <<>>) \o items[i]
      value   == FlattenSeq([i \in DOMAIN items |->
                               (IF i > 1 THEN <<"|">> ELSE <<>>) \o Item(i)])
  IN  (\A i \in DOMAIN items : items[i] # <<>>)
        => (check_file_allow(file, init_file_filter(<<value>>))
              <=> \E i \in DOMAIN items : IsSuffix(items[i], file))

\* Every answer is imported as one record with the peer it came from,
\* whatever the peer sent, if its line is not longer than fgets reads.
AnswersAreImported(peer, answers) ==
  LET Written(Line(_, _)) == [i \in DOMAIN answers |-> Line(peer, answers[i])]
      Imported(lines, role, rec) ==
        (\A i \in DOMAIN lines : Len(lines[i]) <= LineRoom)
          => do_refresh_run_task(FlattenSeq(lines), role) = [i \in DOMAIN answers |-> rec]
      who == <<peer.domain, peer.dstip, peer.port>>
  IN  /\ Imported(Written(first_line), "ROLE_FIRST", who)
      /\ Imported(Written(http_line), "ROLE_HTTP", Append(who, <<"[">> \o peer.url \o <<"]">>))

=============================================================================
