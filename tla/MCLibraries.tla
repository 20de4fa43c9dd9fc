---------------------------- MODULE MCLibraries ----------------------------
(***************************************************************************)
(* The libraries, each by itself: a behaviour stays in one part, and the   *)
(* states of the run are those of all parts together.  The pure functions  *)
(* are evaluated on every sample.                                          *)
(***************************************************************************)
EXTENDS MyBuff, TimeStamp, ConfigStore, ShmMonitor, ListHead, SequencesExt

CONSTANTS
  Ids, MaxVal, Nhash, Nrec, MaxSlots,
  MAX_NAME_LEN, MAX_VALUE_LEN, iPairLen,
  MAX_SIG_BODY, LineRoom

VARIABLES
  part,         \* the part this behaviour is about
  sample,       \* an input of the pure functions, or <<>>
  table

Table   == INSTANCE ShmTable
Paras   == INSTANCE ParaStrings
Access  == INSTANCE AccessLists
Texts   == INSTANCE TextTools

library == <<alloc, size, len, file, flen, open, part, sample, links, head, pos, l, table,
             index, tables, call, passing, m_pNode, got, late, sets,
             store, inited, loaded, reloads, updated, fcs, cs, self_stat, recorded>>

-----------------------------------------------------------------------------
(* Lengths around init_buff_size, its double and zero.                     *)
MCLens == {0, 1, 3, 4, 9}

Num(n)  == [word |-> "", num |-> n, unit |-> ""]
Word(w) == [word |-> w, num |-> 0, unit |-> ""]
Line(k, r, c, v) == [key |-> k, reloads |-> r, capital |-> c, val |-> v]
MCLines ==
  {Line("log_level", TRUE, FALSE, Num(5)), Line("log_level", TRUE, FALSE, Word("on")),
   Line("log_level", FALSE, FALSE, Num(3)), Line("s_log_level", TRUE, TRUE, Num(5)),
   Line("db_host", FALSE, FALSE, Word("db"))}
MCArguments ==
  {[key |-> "log_level", capital |-> c, val |-> v, replace |-> r] :
     c, r \in BOOLEAN, v \in {Num(4), NULL}}

MCDefaults == {-1, 8}

File(p, d, t) == [path |-> p, domain |-> d, ctime |-> t]
MCReceived ==
  {File(<<0, 1, 2, 7>>, 1, 3), File(<<0, 1, 2, 7>>, 1, 5), File(<<0, 4, 2, 7>>, 4, 4),
   File(<<0, 2, 0, 7>>, 0, 2), File(<<1, 2, 7>>, 1, 9), File(<<0, 0, 1, 2>>, -1, 9)}

-----------------------------------------------------------------------------
(* The samples: texts over the characters a function tells apart.          *)
UpTo(S, n) == UNION {[1..k -> S] : k \in 0..n}

Codes == {97, 61, 38, 37, 10}      \* a = & % and the end of a line
com   == <<".", "c", "o", "m">>
cn    == <<".", "c", "n">>
Sites == {<<"q">> \o com, <<"s", "q">> \o com, <<"q", ".", "s">> \o com,
          <<"q">> \o cn, <<"s", ".", "q">> \o cn, <<"q", ".", "c", "o">> \o cn}
Hosts == {<<>>, <<"w", ".">>, <<"s", ".">>, <<"w", ".", "s", ".">>}
Endings == {<<>>, <<"a">>, <<"b">>, <<"a", "b">>}

Samples(kind, A, B) == sample \in [kind : {kind}, a : A, b : B]
SomeSample ==
  \/ Samples("list", UpTo(UpTo(Codes, 1), 3), {12, 100})
  \/ Samples("binary", UpTo(Codes, 3), {0})
  \/ Samples("site", Hosts \X Sites, Sites \cup {<<>>})
  \/ Samples("pattern", UpTo({"a", "b", "*", "?"}, 4), UpTo({"a", "b"}, 4))
  \/ Samples("line", UpTo({"a", "b", " "}, 5), 1..3)
  \/ Samples("bytes", UpTo({0, 1, 90, 171, 255}, 3), {0})
  \/ Samples("message", UpTo({0, 1, 255}, 3), 0..2)
  \/ Samples("suffixes", UpTo(Endings, 3), SUBSET (1..3))
  \/ Samples("address", [1..4 -> {0, 9, 10, 88, 100, 223, 224, 255}], {0})
  \/ Samples("answers", UpTo(UpTo({"a", "\n", "\r", " "}, 2), 2), {0})

Peer == [domain |-> <<"d">>, dstip |-> <<"1">>, port |-> <<"8">>, url |-> <<"u">>]
ListOf(values) ==
  FoldLeft(LAMBDA p, v : Paras!SetParaValue(p, <<97, 98>>, v), <<>>, values)

-----------------------------------------------------------------------------
LibInit ==
  /\ Init
  /\ ListInit
  /\ Table!TableInit
  /\ MonitorInit
  /\ ConfigInit
  /\ StampInit
  /\ \/ /\ part \in {"buffer", "list", "table", "monitor", "config", "stamps"}
        /\ sample = <<>>
     \/ /\ part = "text"
        /\ SomeSample

LibNext ==
  /\ UNCHANGED <<part, sample>>
  /\ IF part = "buffer" THEN Next ELSE UNCHANGED <<alloc, size, len, file, flen, open>>
  /\ IF part = "list" THEN ListNext ELSE UNCHANGED <<links, head, pos, l>>
  /\ IF part = "table" THEN Table!TableNext ELSE UNCHANGED table
  /\ IF part = "monitor" THEN MonitorNext
     ELSE UNCHANGED <<index, tables, call, passing, m_pNode, got, late, sets>>
  /\ IF part = "config" THEN ConfigNext
     ELSE UNCHANGED <<store, inited, loaded, reloads, updated>>
  /\ IF part = "stamps" THEN StampNext
     ELSE UNCHANGED <<fcs, cs, self_stat, recorded>>

LibSpec == LibInit /\ [][LibNext]_library

-----------------------------------------------------------------------------
(* A shared memory table is a map from ids to values.                      *)
BehavesAsMap == Table!BehavesAsMap

(* parsepara.c: name/value lists and binary values come back from their    *)
(* text, and a line of a parameter file is read as it was written.         *)
ParametersComeBack ==
  /\ sample # <<>> /\ sample.kind = "list"
       => Paras!TextKeepsPairs(ListOf(sample.a), sample.b)
  /\ sample # <<>> /\ sample.kind = "binary"
       => /\ Paras!BinaryComesBack(<<>>, <<98>>, sample.a)
          /\ sample.a # <<>> /\ (\A i \in DOMAIN sample.a : sample.a[i] # 10)
               => Paras!LineIsRead(<<98>>, sample.a)

(* acl.c, util_str.c, common.c, util_ip.c, protocol.c, vfs_file_filter.c:  *)
(* what the small conversions promise of every text.                       *)
TextsAreRead ==
  sample # <<>> =>
    CASE sample.kind = "site" -> Access!SiteIsAdmitted(sample.a[1], sample.a[2], sample.b)
      [] sample.kind = "pattern" -> Access!MatchIsFound(sample.a, sample.b)
      [] sample.kind = "line" -> /\ Texts!FieldsAreWords(sample.a, sample.b)
                                 /\ Texts!TrimKeepsWords(sample.a)
      [] sample.kind = "bytes" -> Texts!Base64ComesBack(sample.a)
      [] sample.kind = "message" -> Texts!MessageIsRead(7, 1, sample.a, [i \in 1..sample.b |-> 9])
      [] sample.kind = "suffixes" ->
           \A f \in UpTo({"a", "b"}, 2) : Texts!SuffixesLetThrough(sample.a, sample.b, f)
      [] sample.kind = "address" -> Texts!AddressComesBack(sample.a)
      [] OTHER -> TRUE

(* The import reads back the answers the plugins wrote, whatever is in     *)
(* them.                                                                   *)
AnswersAreImported ==
  sample # <<>> /\ sample.kind = "answers" => Texts!AnswersAreImported(Peer, sample.a)
=============================================================================
