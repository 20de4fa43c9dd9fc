---------------------------- MODULE AccessLists ----------------------------
(***************************************************************************)
(* lib/acl.c: which referers a list of domains admits, and matching names  *)
(* against patterns with * and ?. A string is a sequence of characters.    *)
(* Letter case and the limits of the local arrays are left out.            *)
(***************************************************************************)
EXTENDS Integers, SequencesExt, FiniteSetsExt

Positions(s, ch) == {i \in DOMAIN s : s[i] = ch}
Drop(s, n)       == SubSeq(s, n + 1, Len(s))

\* Where t begins in s: strstr finds the first of these.
Occurrences(s, t) == {i \in 1 .. Len(s) - Len(t) + 1 : SubSeq(s, i, i + Len(t) - 1) = t}

----------------------------------------------------------------------------
(* Referers. *)

UpTo(s, stops) ==
  LET at == SelectInSeq(s, LAMBDA ch : ch \in stops)
  IN  IF at = 0 THEN s ELSE SubSeq(s, 1, at - 1)

RECURSIVE SkipSlashes(_)
SkipSlashes(s) == IF s # <<>> /\ s[1] = "/" THEN SkipSlashes(Tail(s)) ELSE s

HostOf(referer) == UpTo(SkipSlashes(Drop(referer, Min(Positions(referer, ":")))), {"/", ":"})

\* The dots that count: the one a host ends with does not.
Dots(host) == LET all == SetToSortSeq(Positions(host, "."), <)
              IN  IF host # <<>> /\ Last(host) = "." THEN Front(all) ELSE all

\* The part of the host behind the k-th dot from the right, or all of it.
Labels(host, k) == LET d == Dots(host)
                   IN  IF Len(d) < k THEN host ELSE Drop(host, d[Len(d) - k + 1])

Occurs(list, key) == Occurrences(list, key) # {}
\* Only the first occurrence is looked at.
StartsWord(list, key) ==
  /\ Occurs(list, key)
  /\ LET q == Min(Occurrences(list, key)) IN q = 1 \/ list[q - 1] = " "

\* A plausible slip: one dot too many is asked for.
RetryOff(dots) == Len(dots) > 2

\* Whether a second key is tried.
Retry(dots) == Len(dots) >= 2

check_referer(referer, referer_list, allow_null_referer) ==
  IF Positions(referer, ":") = {} THEN allow_null_referer
  ELSE LET host   == HostOf(referer)
           dots   == Dots(host)
           suffix == Len(host) - dots[Len(dots)]
       IN  /\ Len(dots) >= 1 /\ Cardinality(Positions(host, ".")) < 10
           /\ \/ /\ suffix = 3
                 /\ \/ StartsWord(referer_list, Labels(host, 2))
                    \/ Retry(dots) /\ StartsWord(referer_list, Labels(host, 3))
              \/ /\ suffix = 2
                 /\ \/ Occurs(referer_list, Labels(host, 3))
                    \/ Retry(dots) /\ StartsWord(referer_list, Labels(host, 2))

----------------------------------------------------------------------------
(* Patterns. *)

splitstr(s, ch) ==
  LET ends == <<0>> \o SetToSortSeq(Positions(s, ch), <) \o <<Len(s) + 1>>
  IN  [i \in 1 .. Len(ends) - 1 |-> SubSeq(s, ends[i] + 1, ends[i + 1] - 1)]

\* A piece of the pattern, and what stands before it.
getmatch(pattern) ==
  LET stars == splitstr(pattern, "*")
      ItemsOf(i) ==
        LET marks == splitstr(stars[i], "?")
        IN  [m \in DOMAIN marks |->
               [flag |-> IF m > 1 THEN "?" ELSE IF i = 1 THEN "" ELSE "*", val |-> marks[m]]]
  IN  FlattenSeq([i \in DOMAIN stars |-> ItemsOf(i)])

\* Where the search for a piece behind '*' may find it.
Found(dest, val) == {i \in Occurrences(dest, val) : i <= Len(dest)}

\* A '?' at the end of dest makes the code read behind its NUL: the outcome of
\* that is not defined, and no match is the one that admits least. At the
\* end of the search for a piece behind '*' the loop leaves it and goes on
\* with the next piece.
RECURSIVE strmatch(_, _)
strmatch(items, dest) ==
  IF items = <<>> THEN dest = <<>>
  ELSE
    LET val  == items[1].val
        rest == Tail(items)
        at   == Found(dest, val)
        flag == items[1].flag
    IN  \/ flag = "" /\ val = <<>> /\ rest = <<>>
        \/ flag = "" /\ IsPrefix(val, dest) /\ strmatch(rest, Drop(dest, Len(val)))
        \/ flag = "?" /\ dest # <<>> /\ IsPrefix(val, Tail(dest))
             /\ strmatch(rest, Drop(dest, 1 + Len(val)))
        \/ flag = "*" /\ \E i \in at : \/ val = <<>> /\ rest = <<>>
                                       \/ strmatch(rest, Drop(dest, i - 1 + Len(val)))
        \/ flag = "*" /\ (dest = <<>> \/ Len(dest) \in at) /\ strmatch(rest, dest)

----------------------------------------------------------------------------
(* What they promise. *)

\* A site in the list is admitted with all its hosts: word has two or three
\* labels and a suffix of two or three letters, sub is empty or ends in a
\* dot, and no earlier entry of the list ends like word.
SiteIsAdmitted(sub, word, earlier) ==
  LET list == IF earlier = <<>> THEN word ELSE earlier \o <<" ">> \o word
  IN  Occurrences(earlier, word) = {}
        => check_referer(<<"h", ":", "/", "/">> \o sub \o word \o <<"/">>, list, FALSE)

\* What a pattern means.
RECURSIVE Glob(_, _)
Glob(pattern, dest) ==
  IF pattern = <<>> THEN dest = <<>>
  ELSE \/ pattern[1] = "*" /\ Glob(Tail(pattern), dest)
       \/ /\ dest # <<>>
          /\ \/ pattern[1] = "*" /\ Glob(pattern, Tail(dest))
             \/ pattern[1] \in {"?", dest[1]} /\ Glob(Tail(pattern), Tail(dest))

\* A name the pattern describes is never refused. (The converse is false: the
\* piece behind the last '*' is skipped when nothing is left of the name.)
MatchIsFound(pattern, dest) == Glob(pattern, dest) => strmatch(getmatch(pattern), dest)

=============================================================================
