----------------------------- MODULE TaskIndex -----------------------------
(***************************************************************************)
(* The second half of network/vfs_task.c: alltask, an index of tasks next  *)
(* to the queues, through which a task can be cancelled wherever it is.    *)
(* TaskQueue has the queues' locking; here each call is one step, and a    *)
(* call whose lock times out, which then does nothing, is left out.  The   *)
(* only caller, vfs_tmp_status.c, is in no makefile.                       *)
(***************************************************************************)
EXTENDS Integers, SequencesExt, FiniteSets

CONSTANTS
  Nodes,      \* the preallocated nodes; an empty TASK_HOME gives no more
  Statuses,   \* the queues besides TASK_HOME, which is 0
  MaxCalls    \* bound: cancellations

VARIABLES
  vfstask,    \* [queue -> sequence of nodes]
  taskcount,  \* starts at 0 in TASK_HOME too, where all the nodes are
  alltask,    \* every task hashes to list 0
  strayed,    \* [queue -> nodes linked elsewhere straight from it]
  cancels

index == <<vfstask, taskcount, alltask, strayed, cancels>>

TASK_HOME == 0
All == Statuses \cup {TASK_HOME}
On(x) == {s \in All : x \in Range(vfstask[s])}

IndexInit ==
  /\ vfstask = [s \in All |-> IF s = TASK_HOME THEN SetToSeq(Nodes) ELSE <<>>]
  /\ taskcount = [s \in All |-> 0]
  /\ alltask = <<>>
  /\ strayed = [s \in All |-> 0]
  /\ cancels = 0

vfs_get_task(s) ==
  /\ vfstask[s] # <<>>
  /\ vfstask' = [vfstask EXCEPT ![s] = Tail(@)]
  /\ taskcount' = [taskcount EXCEPT ![s] = @ - 1]
  /\ UNCHANGED <<alltask, strayed, cancels>>

\* Mutant of SetTask: the queue it is taken from is told.
SetTaskCounts(x, s) ==
  /\ vfstask' = [q \in All |->
       IF q = s THEN Append(RemoveFirst(vfstask[q], x), x)
       ELSE RemoveFirst(vfstask[q], x)]
  /\ taskcount' = [q \in All |-> taskcount[q] + (IF q = s THEN 1 ELSE 0)
                                   - (IF q \in On(x) THEN 1 ELSE 0)]
  /\ strayed' = [q \in All |-> IF q \in On(x) THEN strayed[q] + 1
                               ELSE strayed[q]]

(* list_del_init takes the node off whatever list it is on, s's lock held  *)
(* and no other, and only s's counter is changed.                          *)
SetTask(x, s) ==
  /\ vfstask' = [q \in All |->
       IF q = s THEN Append(RemoveFirst(vfstask[q], x), x)
       ELSE RemoveFirst(vfstask[q], x)]
  /\ taskcount' = [taskcount EXCEPT ![s] = @ + 1]
  /\ strayed' = [q \in All |-> IF q \in On(x) THEN strayed[q] + 1
                               ELSE strayed[q]]

(* A thread that got x puts it on a queue.                                 *)
vfs_set_task(x, s) ==
  /\ On(x) = {}
  /\ SetTask(x, s)
  /\ UNCHANGED <<alltask, cancels>>

add_task_to_alltask(x) ==
  /\ alltask' = <<x>> \o RemoveFirst(alltask, x)
  /\ UNCHANGED <<vfstask, taskcount, strayed, cancels>>

(* It is called with a time and looks at none: every task is taken off and *)
(* shown to the callback.                                                  *)
get_timeout_task_from_alltask ==
  /\ alltask' = <<>>
  /\ UNCHANGED <<vfstask, taskcount, strayed, cancels>>

(* The task that is found is the first one, whatever was asked for.        *)
get_task_from_alltask(x) ==
  /\ alltask # <<>>
  /\ x = Head(alltask)
  /\ alltask' = Tail(alltask)

(* Any other request than to cancel puts the task back where it was.       *)
mod_task_level ==
  /\ cancels < MaxCalls
  /\ cancels' = cancels + 1
  /\ \E x \in Range(alltask) :
       get_task_from_alltask(x) /\ SetTask(x, TASK_HOME)

get_task_count(s) == taskcount[s]

IndexNext ==
  \/ \E s \in All : vfs_get_task(s) \/ \E x \in Nodes : vfs_set_task(x, s)
  \/ \E x \in Nodes : add_task_to_alltask(x)
  \/ get_timeout_task_from_alltask
  \/ mod_task_level

-----------------------------------------------------------------------------
(* get_task_count is the length of a queue (less, for TASK_HOME, the nodes *)
(* it began with) plus the tasks cancelled while they waited on it: each   *)
(* cancelled task counts for ever.                                         *)
CountsTheCancelled ==
  \A s \in All :
    get_task_count(s) = Len(vfstask[s]) + strayed[s]
                          - (IF s = TASK_HOME THEN Cardinality(Nodes) ELSE 0)

(***************************************************************************)
(* The inductive invariant behind it: what a cancellation takes a task off *)
(* gets shorter by one.                                                    *)
(***************************************************************************)
Once(s) == \A i, j \in DOMAIN s : s[i] = s[j] => i = j

IndexInv ==
  /\ vfstask \in [All -> Seq(Nodes)] /\ \A s \in All : Once(vfstask[s])
  /\ alltask \in Seq(Nodes) /\ Once(alltask)
  /\ taskcount \in [All -> Int] /\ strayed \in [All -> Nat]
  /\ CountsTheCancelled
=============================================================================
