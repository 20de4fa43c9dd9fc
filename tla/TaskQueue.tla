----------------------------- MODULE TaskQueue -----------------------------
(***************************************************************************)
(* network/vfs_task.c: the task queues every plugin thread shares.  Each   *)
(* queue is a linked list vfstask[q] with a counter taskcount[q] and a     *)
(* mutex; vfs_get_task and vfs_set_task wait for the mutex at most         *)
(* lock_timeout seconds and give up with an error.  One action is one      *)
(* piece of the call another thread can see: the call with its range       *)
(* check, the lock or its timeout, the writes inside the critical section  *)
(* one after the other, the unlock with the return.                        *)
(*                                                                         *)
(* The callers are arbitrary threads that pass vfs_set_task only a node    *)
(* they got from vfs_get_task, which is what the plugins do.               *)
(***************************************************************************)
EXTENDS Integers, Sequences, Functions

CONSTANTS Threads, Tasks, HomeSeq, LastQueue, NoThread, NoTask

ASSUME QueueAssumption ==
  /\ LastQueue \in Nat
  /\ HomeSeq \in Seq(Tasks)
  /\ \A i, j \in 1..Len(HomeSeq) : HomeSeq[i] = HomeSeq[j] => i = j
  /\ NoThread \notin Threads
  /\ NoTask \notin Tasks

TASK_HOME      == 0
MAX_TASK_QUEUE == LastQueue + 1
Queues         == 0..LastQueue

\* What a call returned: GET_TASK_OK and 0 are "ok", GET_TASK_NOTHING is
\* "nothing", GET_TASK_ERR, -1 and ETIMEDOUT are "error".
Results == {"none", "ok", "nothing", "error"}

VARIABLES
  queue,      \* vfstask[q], head first
  taskcount,  \* taskcount[q], an atomic_t
  status,     \* task->status
  mutex,      \* the owner of mutex[q]
  fresh,      \* the nodes malloc has not handed out
  held,       \* the nodes a thread holds between vfs_get_task and vfs_set_task
  pc,         \* where a thread is
  call,       \* the last call a thread made: "get" or "set"
  arg,        \* its status argument
  node,       \* its task: the one got, or the one to set
  ret         \* what it returned

vars == <<queue, taskcount, status, mutex, fresh, held, pc, call, arg, node, ret>>

Pool == INSTANCE TaskPool WITH queue <- queue, held <- held, fresh <- fresh

InGet == {"get_scan", "get_del"}
InSet == {"set_link", "set_count"}
Critical == InGet \cup InSet \cup {"unlock"}

TypeOK ==
  /\ queue \in [Queues -> Seq(Tasks)]
  /\ taskcount \in [Queues -> Int]
  /\ status \in [Tasks -> 0..MAX_TASK_QUEUE]
  /\ mutex \in [Queues -> Threads \cup {NoThread}]
  /\ fresh \in SUBSET Tasks
  /\ held \in [Threads -> SUBSET Tasks]
  /\ pc \in [Threads -> {"idle", "lock"} \cup Critical]
  /\ call \in [Threads -> {"none", "get", "set"}]
  /\ arg \in [Threads -> Queues]
  /\ node \in [Threads -> Tasks \cup {NoTask}]
  /\ ret \in [Threads -> Results]

(* init_task_info(): the preallocated nodes go on TASK_HOME, and the       *)
(* memset of taskcount comes after, so TASK_HOME's counter starts at 0.    *)
(* Preallocated and malloc'ed nodes are zeroed: status 0 is TASK_HOME.     *)
Init ==
  /\ queue = [q \in Queues |-> IF q = TASK_HOME THEN HomeSeq ELSE <<>>]
  /\ taskcount = [q \in Queues |-> 0]
  /\ status = [x \in Tasks |-> TASK_HOME]
  /\ mutex = [q \in Queues |-> NoThread]
  /\ fresh = {x \in Tasks : \A i \in 1..Len(HomeSeq) : HomeSeq[i] # x}
  /\ held = [t \in Threads |-> {}]
  /\ pc = [t \in Threads |-> "idle"]
  /\ call = [t \in Threads |-> "none"]
  /\ arg = [t \in Threads |-> TASK_HOME]
  /\ node = [t \in Threads |-> NoTask]
  /\ ret = [t \in Threads |-> "none"]

-----------------------------------------------------------------------------
Goto(t, l) == pc' = [pc EXCEPT ![t] = l]
Return(t, r) == ret' = [ret EXCEPT ![t] = r]

\* The test both functions make of their argument.
InRange(q) == q >= 0 /\ q < MAX_TASK_QUEUE

(* vfs_get_task(&task, q) is called: a bad status returns at once.         *)
CallGet(t, q) ==
  /\ pc[t] = "idle"
  /\ call' = [call EXCEPT ![t] = "get"]
  /\ node' = [node EXCEPT ![t] = NoTask]
  /\ \/ /\ InRange(q)
        /\ arg' = [arg EXCEPT ![t] = q]
        /\ Return(t, "none")
        /\ Goto(t, "lock")
     \/ /\ ~InRange(q)
        /\ Return(t, "error")
        /\ UNCHANGED <<arg, pc>>
  /\ UNCHANGED <<queue, taskcount, status, mutex, fresh, held>>

(* vfs_set_task(x, q) is called by the thread that holds x.                *)
CallSet(t, x, q) ==
  /\ pc[t] = "idle"
  /\ x \in held[t]
  /\ call' = [call EXCEPT ![t] = "set"]
  /\ node' = [node EXCEPT ![t] = x]
  /\ \/ /\ InRange(q)
        /\ arg' = [arg EXCEPT ![t] = q]
        /\ Return(t, "none")
        /\ Goto(t, "lock")
     \/ /\ ~InRange(q)
        /\ Return(t, "error")
        /\ UNCHANGED <<arg, pc>>
  /\ UNCHANGED <<queue, taskcount, status, mutex, fresh, held>>

(* pthread_mutex_timedlock gets the mutex.                                 *)
Lock(t) ==
  /\ pc[t] = "lock"
  /\ mutex[arg[t]] = NoThread
  /\ mutex' = [mutex EXCEPT ![arg[t]] = t]
  /\ Goto(t, IF call[t] = "get" THEN "get_scan" ELSE "set_link")
  /\ UNCHANGED <<queue, taskcount, status, fresh, held, call, arg, node, ret>>

\* Mutants of LockTimeout: the result of pthread_mutex_timedlock is not
\* looked at; the failure is returned as a success; there is no timeout.
LockTimeoutIgnored(t) ==
  /\ pc[t] = "lock"
  /\ mutex[arg[t]] # NoThread
  /\ Goto(t, IF call[t] = "get" THEN "get_scan" ELSE "set_link")
  /\ UNCHANGED <<queue, taskcount, status, mutex, fresh, held, call, arg, node, ret>>

LockTimeoutOk(t) ==
  /\ pc[t] = "lock"
  /\ mutex[arg[t]] # NoThread
  /\ Return(t, "ok")
  /\ Goto(t, "idle")
  /\ UNCHANGED <<queue, taskcount, status, mutex, fresh, held, call, arg, node>>

LockForever(t) == FALSE /\ pc' = pc

(* It gives up: only while another thread has the mutex.  vfs_get_task     *)
(* returns ETIMEDOUT, vfs_set_task -1, neither having touched a list.      *)
LockTimeout(t) ==
  /\ pc[t] = "lock"
  /\ mutex[arg[t]] # NoThread
  /\ Return(t, "error")
  /\ Goto(t, "idle")
  /\ UNCHANGED <<queue, taskcount, status, mutex, fresh, held, call, arg, node>>

(* vfs_get_task, first entry of the list: atomic_dec, *task, ->status.     *)
GetHead(t) ==
  /\ pc[t] = "get_scan"
  /\ queue[arg[t]] # <<>>
  /\ LET x == Head(queue[arg[t]])
     IN  /\ node' = [node EXCEPT ![t] = x]
         /\ status' = [status EXCEPT ![x] = MAX_TASK_QUEUE]
  /\ taskcount' = [taskcount EXCEPT ![arg[t]] = @ - 1]
  /\ Goto(t, "get_del")
  /\ UNCHANGED <<queue, mutex, fresh, held, call, arg, ret>>

\* list_del_init of x on list s: nothing happens when x is not linked there.
Unlink(s, x) == IF x \in Range(s) THEN SelectSeq(s, LAMBDA y : y # x) ELSE s

\* Mutant of GetDel: the node stays linked.
GetDelMissing(t) ==
  /\ pc[t] = "get_del"
  /\ held' = [held EXCEPT ![t] = @ \cup {node[t]}]
  /\ Return(t, "ok")
  /\ Goto(t, "unlock")
  /\ UNCHANGED <<queue, taskcount, status, mutex, fresh, call, arg, node>>

(* list_del_init(&task0->llist) of the list's first entry.                 *)
GetDel(t) ==
  /\ pc[t] = "get_del"
  /\ queue' = [queue EXCEPT ![arg[t]] = Tail(@)]
  /\ held' = [held EXCEPT ![t] = @ \cup {node[t]}]
  /\ Return(t, "ok")
  /\ Goto(t, "unlock")
  /\ UNCHANGED <<taskcount, status, mutex, fresh, call, arg, node>>

\* Mutant of GetMalloc: a malloc'ed node keeps status TASK_HOME.
GetMallocNoStatus(t) ==
  /\ pc[t] = "get_scan"
  /\ queue[arg[t]] = <<>>
  /\ arg[t] = TASK_HOME
  /\ \E x \in fresh :
       /\ fresh' = fresh \ {x}
       /\ held' = [held EXCEPT ![t] = @ \cup {x}]
       /\ node' = [node EXCEPT ![t] = x]
  /\ Return(t, "ok")
  /\ Goto(t, "unlock")
  /\ UNCHANGED <<queue, taskcount, status, mutex, call, arg>>

(* The list is empty and it is TASK_HOME: malloc, a self-linked node.      *)
GetMalloc(t) ==
  /\ pc[t] = "get_scan"
  /\ queue[arg[t]] = <<>>
  /\ arg[t] = TASK_HOME
  /\ \E x \in fresh :
       /\ fresh' = fresh \ {x}
       /\ held' = [held EXCEPT ![t] = @ \cup {x}]
       /\ status' = [status EXCEPT ![x] = MAX_TASK_QUEUE]
       /\ node' = [node EXCEPT ![t] = x]
  /\ Return(t, "ok")
  /\ Goto(t, "unlock")
  /\ UNCHANGED <<queue, taskcount, mutex, call, arg>>

(* The list is empty and nothing was malloc'ed: another queue, or malloc   *)
(* failed, which it may do at any time.                                    *)
GetNothing(t) ==
  /\ pc[t] = "get_scan"
  /\ queue[arg[t]] = <<>>
  /\ Return(t, "nothing")
  /\ Goto(t, "unlock")
  /\ UNCHANGED <<queue, taskcount, status, mutex, fresh, held, call, arg, node>>

\* Mutant of SetLink: list_add_head for list_add_tail.
SetLinkHead(t) ==
  /\ pc[t] = "set_link"
  /\ queue' = [queue EXCEPT ![arg[t]] = <<node[t]>> \o @]
  /\ held' = [held EXCEPT ![t] = @ \ {node[t]}]
  /\ Goto(t, "set_count")
  /\ UNCHANGED <<taskcount, status, mutex, fresh, call, arg, node, ret>>

(* vfs_set_task: list_del_init then list_add_tail.  The list_del_init is   *)
(* applied to whatever list the node is on, not only to queue arg[t].      *)
SetLink(t) ==
  /\ pc[t] = "set_link"
  /\ queue' = [q \in Queues |->
                 IF q = arg[t] THEN Append(Unlink(queue[q], node[t]), node[t])
                               ELSE Unlink(queue[q], node[t])]
  /\ held' = [held EXCEPT ![t] = @ \ {node[t]}]
  /\ Goto(t, "set_count")
  /\ UNCHANGED <<taskcount, status, mutex, fresh, call, arg, node, ret>>

\* Mutant of SetCount: no atomic_inc.
SetCountNoInc(t) ==
  /\ pc[t] = "set_count"
  /\ status' = [status EXCEPT ![node[t]] = arg[t]]
  /\ Return(t, "ok")
  /\ Goto(t, "unlock")
  /\ UNCHANGED <<queue, taskcount, mutex, fresh, held, call, arg, node>>

(* task->status = status and atomic_inc.                                   *)
SetCount(t) ==
  /\ pc[t] = "set_count"
  /\ status' = [status EXCEPT ![node[t]] = arg[t]]
  /\ taskcount' = [taskcount EXCEPT ![arg[t]] = @ + 1]
  /\ Return(t, "ok")
  /\ Goto(t, "unlock")
  /\ UNCHANGED <<queue, mutex, fresh, held, call, arg, node>>

(* pthread_mutex_unlock and return.                                        *)
Unlock(t) ==
  /\ pc[t] = "unlock"
  /\ mutex' = [mutex EXCEPT ![arg[t]] = NoThread]
  /\ Goto(t, "idle")
  /\ UNCHANGED <<queue, taskcount, status, fresh, held, call, arg, node, ret>>

\* The body of a call, from the lock on.
Step(t) ==
  \/ Lock(t) \/ LockTimeout(t)
  \/ GetHead(t) \/ GetDel(t) \/ GetMalloc(t) \/ GetNothing(t)
  \/ SetLink(t) \/ SetCount(t)
  \/ Unlock(t)

\* The statuses callers try: all the queues, and one bad value on each side.
Statuses == -1..MAX_TASK_QUEUE

Next ==
  \E t \in Threads :
    \/ \E q \in Statuses : CallGet(t, q)
    \/ \E x \in Tasks, q \in Statuses : CallSet(t, x, q)
    \/ Step(t)

Spec == Init /\ [][Next]_vars

\* The kernel runs every thread that can run.
Fairness == \A t \in Threads : WF_vars(Step(t))

FairSpec == Spec /\ Fairness

-----------------------------------------------------------------------------
(***************************************************************************)
(* Properties                                                              *)
(***************************************************************************)

(* A node is in one place only, whatever the threads interleave: two       *)
(* threads never get the same node, and no node is lost by vfs_get_task    *)
(* or vfs_set_task, failing calls included.                                *)
OnePlace == Pool!OnePlace

(* The mutex of a queue is owned by the one thread inside its critical     *)
(* section.                                                                *)
LockOwner ==
  \A q \in Queues, t \in Threads :
    mutex[q] = t <=> pc[t] \in Critical /\ arg[t] = q

\* What taskcount[q] still lacks: vfs_get_task counts a node out before it
\* unlinks it, vfs_set_task counts it in after it linked it.
InFlight(q) == IF \E t \in Threads : arg[t] = q /\ pc[t] \in {"get_del", "set_count"}
               THEN 1 ELSE 0

\* The nodes init_task_info() linked before it cleared the counters.
Prealloc(q) == IF q = TASK_HOME THEN Len(HomeSeq) ELSE 0

(* taskcount[q] is the length of the queue, except on TASK_HOME, where it  *)
(* is short by the preallocated nodes for ever: get_task_count(TASK_HOME)  *)
(* is negative in normal operation (line 157 clears what 143-151 linked).  *)
CountAgrees ==
  \A q \in Queues :
    taskcount[q] = Len(queue[q]) - Prealloc(q) - InFlight(q)

(* task->status says where the node is: the number of its queue, or        *)
(* MAX_TASK_QUEUE in a thread's hands, but for the thread inside a call    *)
(* that has not got to the assignment.                                     *)
StatusAgrees ==
  /\ \A q \in Queues : \A i \in 1..Len(queue[q]) :
       \/ status[queue[q][i]] = q
       \/ \E t \in Threads : /\ pc[t] \in {"get_del", "set_count"}
                             /\ node[t] = queue[q][i]
                             /\ arg[t] = q
  /\ \A t \in Threads : \A x \in held[t] : status[x] = MAX_TASK_QUEUE

(* A call that failed left the caller as it was: after -1 from             *)
(* vfs_set_task the node is still the caller's and on no list, and a       *)
(* vfs_get_task that got nothing has not set *task.  A caller that ignores *)
(* the -1 loses the node for good.                                         *)
ErrorKeepsNode ==
  \A t \in Threads :
    pc[t] = "idle" =>
      /\ call[t] = "set" /\ ret[t] = "error" => node[t] \in held[t]
      /\ call[t] = "set" /\ ret[t] = "ok" => node[t] \notin held[t]
      /\ call[t] = "get" => (ret[t] = "ok" <=> node[t] # NoTask)

(* What a thread in the middle of a call can rely on: the node it is       *)
(* taking is still the head of the queue it locked, the node it is putting *)
(* is still its own until it is linked and the tail afterwards.            *)
CallShape ==
  \A t \in Threads :
    /\ pc[t] = "lock" => call[t] # "none"
    /\ pc[t] \in InGet => call[t] = "get"
    /\ pc[t] \in InSet => call[t] = "set"
    /\ pc[t] = "get_del" => /\ queue[arg[t]] # <<>>
                           /\ node[t] = Head(queue[arg[t]])
    /\ pc[t] = "set_link" \/ (pc[t] = "lock" /\ call[t] = "set")
         => node[t] \in held[t]
    /\ pc[t] = "set_count" => /\ queue[arg[t]] # <<>>
                             /\ node[t] = queue[arg[t]][Len(queue[arg[t]])]

(* The inductive invariant behind OnePlace and PoolSpec: node ownership    *)
(* survives a step because the mutex keeps every other thread away from    *)
(* the list a thread is in the middle of changing.                         *)
IInv == TypeOK /\ LockOwner /\ CallShape /\ OnePlace

(* Every step of the code is a step of the contract, or none of its        *)
(* business.                                                               *)
PoolSpec == Pool!Spec

(* Every call returns: a thread that cannot get a mutex gives up instead   *)
(* of waiting for it for ever.                                             *)
CallsReturn == \A t \in Threads : pc[t] = "lock" ~> pc[t] = "idle"
=============================================================================
