----------------------------- MODULE TmpStatus -----------------------------
(***************************************************************************)
(* vfs_tmp_status.c: the file of unfinished tasks, read again when the     *)
(* program starts.  Every record of the file is blank or holds a task, and *)
(* idletmp lists the blank ones.  A start reads a copy of the file while   *)
(* it registers the tasks in the file itself, and then puts the copy in    *)
(* its place.                                                              *)
(***************************************************************************)
EXTENDS Integers, SequencesExt, FiniteSetsExt

CONSTANTS
  Tasks, Blank,
  DEFAULT_ITEMS,   \* records of a new file
  TaskNodes,       \* task nodes the pool has
  MaxAdds, MaxStarts, MaxRecords   \* bounds

VARIABLES
  records,      \* the file vfs_tmp_status; <<>> when there is none
  copy,         \* the file vfs_tmp_status.tmp
  reading,      \* "no", or the file being read: "new" or "copy"
  next,         \* record read next
  idletmp,      \* positions of blank records, last freed first
  queued,       \* tasks of this process: [task, pos]
  accepted,     \* tasks taken in and not finished
  overran,      \* a start found no blank record for a task
  adds, starts

tmp_status == <<records, copy, reading, next, idletmp, queued, accepted,
                overran, adds, starts>>

TmpInit ==
  /\ records = <<>>
  /\ copy = <<>>
  /\ reading = "off"
  /\ next = 1
  /\ idletmp = <<>>
  /\ queued = {}
  /\ accepted = {}
  /\ overran = FALSE
  /\ adds = 0
  /\ starts = 0

(* The size a start gives the copy is its own: a task record is nine times *)
(* as long as an idle entry.                                               *)
init_load_tmp_status ==
  /\ reading = "off"
  /\ starts < MaxStarts
  /\ starts' = starts + 1
  /\ idletmp' = <<>>
  /\ next' = 1
  /\ IF records = <<>>
     THEN /\ records' = [i \in 1..DEFAULT_ITEMS |-> Blank]
          /\ reading' = "new"
          /\ UNCHANGED copy
     ELSE /\ copy' = records
          /\ reading' = "copy"
          /\ UNCHANGED records
  /\ UNCHANGED <<queued, accepted, overran, adds>>

(* The writes of set_tmp_blank and set_task_to_tmp; a position behind the  *)
(* end of the file makes it longer.                                        *)
Put(f, pos, what) ==
  [i \in 1..Max({Len(f), pos}) |->
     IF i = pos THEN what ELSE IF i \in DOMAIN f THEN f[i] ELSE Blank]

set_tmp_blank(pos) ==
  /\ records' = Put(records, pos, Blank)
  /\ idletmp' = <<pos>> \o idletmp

\* Mutant of Place: the idle record stays on its list.
PlaceStays ==
  IF idletmp = <<>> THEN [pos |-> Len(records) + 1, idle |-> <<>>]
  ELSE [pos |-> Head(idletmp), idle |-> idletmp]

(* The blank record freed last, else a new one behind the others.          *)
Place ==
  IF idletmp = <<>> THEN [pos |-> Len(records) + 1, idle |-> <<>>]
  ELSE [pos |-> Head(idletmp), idle |-> Tail(idletmp)]

set_task_to_tmp(t) ==
  /\ Place.pos <= MaxRecords
  /\ records' = Put(records, Place.pos, t)
  /\ idletmp' = Place.idle
  /\ queued' = queued \cup {[task |-> t, pos |-> Place.pos]}

Source == IF reading = "new" THEN records ELSE copy

LoadBlank ==
  /\ reading \in {"new", "copy"}
  /\ next <= Len(Source)
  /\ Source[next] = Blank
  /\ set_tmp_blank(next)
  /\ next' = next + 1
  /\ UNCHANGED <<copy, reading, queued, accepted, overran, adds, starts>>

(* add_tmp_to_task takes the task in, or refuses it: its file is here      *)
(* already, or no node is free.                                            *)
LoadTask ==
  /\ reading = "copy"
  /\ next <= Len(copy)
  /\ copy[next] # Blank
  /\ next' = next + 1
  /\ \/ /\ Cardinality(queued) < TaskNodes
        /\ set_task_to_tmp(copy[next])
        /\ overran' = (overran \/ idletmp = <<>>)
        /\ UNCHANGED accepted
     \/ /\ set_tmp_blank(next)
        /\ accepted' = accepted \ {copy[next]}
        /\ UNCHANGED <<queued, overran>>
  /\ UNCHANGED <<copy, reading, adds, starts>>

(* The tasks keep the positions they were given in the file replaced.      *)
EndLoad ==
  /\ reading \in {"new", "copy"}
  /\ next > Len(Source)
  /\ records' = Source
  /\ copy' = <<>>
  /\ reading' = "no"
  /\ UNCHANGED <<next, idletmp, queued, accepted, overran, adds, starts>>

Register(t) ==
  /\ reading = "no"
  /\ adds < MaxAdds
  /\ adds' = adds + 1
  /\ Cardinality(queued) < TaskNodes
  /\ t \notin accepted
  /\ set_task_to_tmp(t)
  /\ accepted' = accepted \cup {t}
  /\ UNCHANGED <<copy, reading, next, overran, starts>>

Complete(q) ==
  /\ reading = "no"
  /\ set_tmp_blank(q.pos)
  /\ queued' = queued \ {q}
  /\ accepted' = accepted \ {q.task}
  /\ UNCHANGED <<copy, reading, next, overran, adds, starts>>

Halt ==
  /\ reading # "off"
  /\ reading' = "off"
  /\ queued' = {}
  /\ UNCHANGED <<records, copy, next, idletmp, accepted, overran, adds, starts>>

TmpNext ==
  \/ init_load_tmp_status
  \/ LoadBlank
  \/ LoadTask
  \/ EndLoad
  \/ \E t \in Tasks : Register(t)
  \/ \E q \in queued : Complete(q)
  \/ Halt

-----------------------------------------------------------------------------
(* A task taken in and not finished is in the file, whenever the program   *)
(* stops, in the middle of a start too.  This ends when a start finds no   *)
(* blank record for a task: its place then lies behind the end of the copy *)
(* put in place of the file, the next new task gets the same one, and who  *)
(* finishes first blanks the other's record.                               *)
NoTaskLost == ~overran => accepted \subseteq Range(records)

(***************************************************************************)
(* The inductive invariant behind it.                                      *)
(***************************************************************************)
Loading   == reading \in {"new", "copy"}
Positions == {q.pos : q \in queued}

TmpType ==
  /\ records \in Seq(Tasks \cup {Blank}) /\ copy \in Seq(Tasks \cup {Blank})
  /\ reading \in {"off", "new", "copy", "no"}
  /\ next \in Nat \ {0}
  /\ idletmp \in Seq(Nat \ {0})
  /\ queued \subseteq [task : Tasks, pos : Nat \ {0}]
  /\ accepted \subseteq Tasks
  /\ overran \in BOOLEAN

\* A place is given to one task at most, and only records read already, or in
\* the file, are given.
Placed ==
  /\ \A i, j \in DOMAIN idletmp : idletmp[i] = idletmp[j] => i = j
  /\ \A q, r \in queued : q.pos = r.pos => q = r
  /\ Range(idletmp) \cap Positions = {}
  /\ \A p \in Range(idletmp) \cup Positions :
       IF Loading THEN p < next ELSE p <= Len(records)

\* Record i keeps task x: nobody else is going to write it, a start that is
\* under way included.
Keeps(i, x) ==
  /\ records[i] = x
  /\ i \notin Range(idletmp)
  /\ \A q \in queued : q.pos = i => q.task = x /\ reading = "no"
  /\ reading = "copy" => copy[i] = x

TmpInv ==
  /\ TmpType
  /\ reading \in {"off", "new"} => queued = {}
  /\ Loading => next <= Len(Source) + 1
  /\ ~overran =>
       /\ reading = "new" => accepted = {}
       /\ reading = "copy" => Len(copy) = Len(records)
       /\ reading # "off" => Placed /\ \A x \in accepted : \E i \in DOMAIN records : Keeps(i, x)
  /\ NoTaskLost
=============================================================================
