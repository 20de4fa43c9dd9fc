---------------------------- MODULE ConfigStore ----------------------------
(***************************************************************************)
(* lib/myconfig.c: the name/value store.  A key is section and name joined *)
(* and normalised: separators become '_', capitals small letters.  Entries *)
(* with the same key are kept, the newest in front.  Lookups compare       *)
(* normalised keys, so each key has a list of its own here instead of the  *)
(* hash buckets.                                                           *)
(*                                                                         *)
(* What a line of the file or an argument says of its key:                 *)
(*   key      the normalised key,                                          *)
(*   reloads  its name, without the section, is one of reload_key: the     *)
(*            key log_level is reloaded from "log_level = 5", and is not   *)
(*            from "level = 5" in section [log],                           *)
(*   capital  it is written with a capital, in section or name,            *)
(*   val      its value: [word, num, unit], where word is "" for text that *)
(*            starts with a number and unit the letter behind it.          *)
(* An entry also keeps the integer its value was read as, -1 before that.  *)
(***************************************************************************)
EXTENDS Integers, Sequences

CONSTANTS
  Lines,        \* lines a file may have: [key, reloads, capital, val]
  Arguments,    \* [key, capital, val, replace], replace for key==val, val
                \* NULL when nothing is behind the =
  Asked,        \* keys whose integer is asked for, as the code writes them
  Defaults,     \* what the callers take when there is no integer
  MaxLines, MaxArgs, MaxReloads,  \* bounds
  MaxValues     \* bound: values a key has when another is put by update_value

ASSUME ConfigAssumption ==
  /\ \A x \in Lines : {x.reloads, x.capital} \subseteq BOOLEAN
  /\ \A x \in Arguments : {x.replace, x.capital} \subseteq BOOLEAN
  /\ \A x \in Lines \cup Arguments : x.val.num \in Int
  /\ Defaults \subseteq Int /\ {MaxLines, MaxArgs} \subseteq Nat

VARIABLES
  store,        \* [key -> its entries [val, intval], newest first]
  inited,
  loaded,       \* the file as last read
  reloads,      \* calls of myconfig_reload so far
  updated       \* keys given a new value in place

config == <<store, inited, loaded, reloads, updated>>

NULL == [word |-> "NULL", num |-> 0, unit |-> ""]
AnyKey == {x.key : x \in Lines \cup Arguments} \cup Asked

(* Values are what get_value finds first and get_multivalue last to first. *)
myconfig_get_value(s, k) == IF s[k] = <<>> THEN NULL ELSE Head(s[k]).val
myconfig_get_multivalue(s, k, i) ==
  IF i < Len(s[k]) THEN s[k][Len(s[k]) - i].val ELSE NULL

myconfig_put_value(s, x) ==
  [s EXCEPT ![x.key] = <<[val |-> x.val, intval |-> -1]>> \o @]

(* What the text of a value says: a number, or one of the words, in        *)
(* letters of either size; def for any other text.                         *)
AsInteger(val, def) ==
  CASE val.word = "" -> val.num
    [] val.word \in {"on", "yes", "true", "enable", "enabled"} -> 1
    [] val.word \in {"off", "no", "false", "disable", "disabled"} -> 0
    [] OTHER -> def

intval_of(s, k, def) ==
  IF s[k] = <<>> THEN def
  ELSE LET e == Head(s[k])
       IN  IF e.intval = -1 THEN AsInteger(e.val, def) ELSE e.intval

(* A value that is no number is def here, words too.                       *)
get_size_of(s, k, def) ==
  LET v == myconfig_get_value(s, k)
  IN  CASE v.word # "" -> def
        [] v.unit = "k" -> v.num * 1024
        [] v.unit = "m" -> v.num * 1048576
        [] v.unit = "g" -> v.num * 1073741824
        [] OTHER -> v.num

(* The key to delete is not brought to small letters as the stored one     *)
(* was: with a capital in it nothing is found.                             *)
myconfig_delete_value(s, x) == IF x.capital THEN s ELSE [s EXCEPT ![x.key] = <<>>]

\* Mutant of reload_line: the newest value is changed where it is.
reload_lineInPlace(s, x) ==
  IF x.reloads
  THEN IF s[x.key] = <<>> THEN myconfig_put_value(s, x)
       ELSE [s EXCEPT ![x.key][1].val = x.val]
  ELSE s

\* Mutant of reload_line: a line that may not be reloaded is.
reload_lineAny(s, x) ==
  myconfig_put_value(myconfig_delete_value(s, x), x)

(* A line read again replaces all values of its key, if it may.            *)
reload_line(s, x) ==
  IF x.reloads THEN myconfig_put_value(myconfig_delete_value(s, x), x) ELSE s

load_line(s, x) == IF inited THEN reload_line(s, x) ELSE myconfig_put_value(s, x)

myconfig_loadfile0(s, lines) ==
  LET upto[i \in 0..Len(lines)] ==
        IF i = 0 THEN s ELSE load_line(upto[i - 1], lines[i])
  IN  upto[Len(lines)]

argument(s, x) ==
  LET left == IF x.replace THEN myconfig_delete_value(s, x) ELSE s
  IN  IF x.val = NULL THEN left ELSE myconfig_put_value(left, x)

arguments(s, argv) ==
  LET upto[i \in 0..Len(argv)] ==
        IF i = 0 THEN s ELSE argument(upto[i - 1], argv[i])
  IN  upto[Len(argv)]

ConfigInit ==
  /\ store = [k \in AnyKey |-> <<>>]
  /\ inited = FALSE
  /\ loaded = <<>>
  /\ reloads = 0
  /\ updated = {}

myconfig_init(lines, argv) ==
  /\ ~inited
  /\ store' = arguments(myconfig_loadfile0(store, lines), argv)
  /\ inited' = TRUE
  /\ loaded' = lines
  /\ UNCHANGED <<reloads, updated>>

(* SIGUSR1; no module registers a function to be called.                   *)
myconfig_reload(lines) ==
  /\ inited
  /\ reloads < MaxReloads
  /\ reloads' = reloads + 1
  /\ store' = myconfig_loadfile0(store, lines)
  /\ loaded' = lines
  /\ updated' = updated \ {lines[i].key : i \in {j \in DOMAIN lines : lines[j].reloads}}
  /\ UNCHANGED inited

(* An integer is read from the text once and kept beside it.               *)
myconfig_get_intval(k) ==
  /\ inited
  /\ store[k] # <<>>
  /\ store' = [store EXCEPT ![k][1].intval = intval_of(store, k, -1)]
  /\ UNCHANGED <<inited, loaded, reloads, updated>>

(* A value changed in place keeps the integer read from the old text.  A   *)
(* key not found, because of a capital in it too, is cut at its first '_', *)
(* which put_value joins again.                                            *)
myconfig_update_value(x) ==
  /\ inited
  /\ IF x.capital \/ store[x.key] = <<>>
     THEN /\ Len(store[x.key]) < MaxValues
          /\ store' = myconfig_put_value(store, x)
          /\ updated' = updated \ {x.key}
     ELSE /\ store' = [store EXCEPT ![x.key][1].val = x.val]
          /\ updated' = updated \cup {x.key}
  /\ UNCHANGED <<inited, loaded, reloads>>

(* At most n of S in a row.                                                *)
UpToMany(S, n) == UNION {[1..m -> S] : m \in 0..n}

ConfigNext ==
  \/ \E k \in Asked : myconfig_get_intval(k)
  \/ \E x \in {y \in Arguments : y.val # NULL} : myconfig_update_value(x)
  \/ \E lines \in UpToMany(Lines, MaxLines) :
       \/ myconfig_reload(lines)
       \/ \E argv \in UpToMany(Arguments, MaxArgs) : myconfig_init(lines, argv)

ConfigSpec == ConfigInit /\ [][ConfigNext]_config

-----------------------------------------------------------------------------
(* A reload gives a key the value of its last reloadable line, over one    *)
(* from the command line too, and leaves every other key as it is: a line  *)
(* taken out of the file and one that is not reloadable change nothing.    *)
(* Of several values of a key it keeps that one only, unless the line is   *)
(* written with a capital.                                                 *)
ReloadIsExact ==
  [][reloads' # reloads => \A k \in AnyKey :
       LET again == {i \in DOMAIN loaded' : loaded'[i].reloads /\ loaded'[i].key = k}
       IN  /\ again = {} => store'[k] = store[k]
           /\ \A i \in again : (\A j \in again : j <= i) =>
                /\ myconfig_get_value(store', k) = loaded'[i].val
                /\ ~loaded'[i].capital => myconfig_get_multivalue(store', k, 1) = NULL
    ]_config

(* myconfig_get_intval answers by the value that is set now, after any     *)
(* number of reloads, although it keeps what it read of an earlier one;    *)
(* only myconfig_update_value leaves it with the old number.               *)
IntegerIsCurrent ==
  \A k \in Asked \ updated, def \in Defaults :
    intval_of(store, k, def) = AsInteger(myconfig_get_value(store, k), def)

(***************************************************************************)
(* The inductive invariant behind both: the integer kept with the first    *)
(* value of a key is that of the value, or is still to be read.            *)
(***************************************************************************)
AnyVal == {x.val : x \in Lines \cup Arguments}
Entry  == [val : AnyVal, intval : Int]
Stores == [AnyKey -> Seq(Entry)]

Current(e) == \/ e.intval = -1
              \/ \A def \in Int : e.intval = AsInteger(e.val, def)

ConfigInv ==
  /\ store \in Stores
  /\ ~inited => \A k \in AnyKey : store[k] = <<>>
  /\ \A k \in AnyKey \ updated : store[k] # <<>> => Current(Head(store[k]))
=============================================================================
