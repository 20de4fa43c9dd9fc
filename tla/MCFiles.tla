------------------------------ MODULE MCFiles ------------------------------
(***************************************************************************)
(* What the server keeps in files and on lists of its own, each part by    *)
(* itself: the rotated logs, the result file of a plugin, the unfinished   *)
(* tasks, the index of tasks, and the delay tasks.  A behaviour stays in   *)
(* one part, and the states of the run are those of all parts together.    *)
(***************************************************************************)
EXTENDS LogRotation, FiniteSets

CONSTANTS
  Threads, Minute, MaxNow, MaxLines, Headless, MaxDb,
  Tasks, Blank, DEFAULT_ITEMS, TaskNodes, MaxAdds, MaxStarts, MaxRecords,
  Nodes, Statuses, MaxCalls,
  default_max, Spans, MaxTasks, MaxSeconds

ASSUME FilesAssumption ==
  /\ Blank \notin Tasks
  /\ DEFAULT_ITEMS \in Nat
  /\ IsFiniteSet(Nodes)
  /\ Spans \subseteq Nat

VARIABLES
  part,         \* the part this behaviour is about
  now, fp, last, tmpfile, gate, files, pc, line, file, lines, db, urls, ports, blame,
  records, copy, reading, next, idletmp, queued, accepted, overran, adds, starts,
  vfstask, taskcount, alltask, strayed, cancels,
  seconds, delay_home, delay_active, added, ran

Result == INSTANCE ResultFile
Tmp    == INSTANCE TmpStatus
Index  == INSTANCE TaskIndex
Timer  == INSTANCE VfsTimer WITH now <- seconds, MaxNow <- MaxSeconds

rotation   == <<cur, num, nextlogno, out, busy, tries, gaps, clock>>
results    == <<now, fp, last, tmpfile, gate, files, pc, line, file, lines, db, urls, ports,
                blame>>
tmp_status == <<records, copy, reading, next, idletmp, queued, accepted, overran, adds, starts>>
indexed    == <<vfstask, taskcount, alltask, strayed, cancels>>
delayed    == <<seconds, delay_home, delay_active, added, ran>>

FilesInit ==
  /\ part \in {"rotation", "results", "tmp_status", "index", "timer"}
  /\ Init
  /\ Result!ResultInit
  /\ Tmp!TmpInit
  /\ Index!IndexInit
  /\ Timer!TimerInit

FilesNext ==
  /\ UNCHANGED part
  /\ IF part = "rotation" THEN Next ELSE UNCHANGED rotation
  /\ IF part = "results" THEN Result!ResultNext ELSE UNCHANGED results
  /\ IF part = "tmp_status" THEN Tmp!TmpNext ELSE UNCHANGED tmp_status
  /\ IF part = "index" THEN Index!IndexNext ELSE UNCHANGED indexed
  /\ IF part = "timer" THEN Timer!TimerNext ELSE UNCHANGED delayed

FilesSpec ==
  FilesInit /\ [][FilesNext]_<<part, rotation, results, tmp_status, indexed, delayed>>

-----------------------------------------------------------------------------
(* The result file loses a line only when two threads use it at once.      *)
LostOnlyInARace == Result!LostOnlyInARace

(* A plugin's ports are never of a later version than its urls.            *)
PortsNotAhead == Result!PortsNotAhead

(* A task taken in is found again by every later start until it is done.   *)
NoTaskLost == Tmp!NoTaskLost

(* get_task_count counts each cancelled task for ever.                     *)
CountsTheCancelled == Index!CountsTheCancelled

(* A delay task runs once its span is over, at the first scan after that.  *)
RunsOnTime == Timer!RunsOnTime
=============================================================================
