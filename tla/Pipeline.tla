------------------------------ MODULE Pipeline ------------------------------
(***************************************************************************)
(* The survey pipeline: one dispatcher thread (dispatcher/cdc_http_sub.c)  *)
(* and the threads of the port, protocol and http_detect plugins (their    *)
(* vfs_data_base.c and vfs_data.c), every one a vfs_signalling_thread,     *)
(* exchanging tasks through the pool of vfs_task.c.  Work thread t         *)
(* consumes queue t: 1..8 are port threads, 9..16 protocol threads, 17..24 *)
(* http_detect threads.                                                    *)
(*                                                                         *)
(*   dispatcher --net--> port --host--> protocol --http--> http_detect     *)
(*                                                                         *)
(* Pool operations are single steps here (TaskPool.tla, implemented by     *)
(* TaskQueue.tla).  What is not atomic is kept apart: the queue cursors    *)
(* g_get_info_queue_index and g_http_queue_index are plain static ints     *)
(* that all the threads of a plugin advance without a lock.  Compiled with *)
(* the makefile's -O2, the cursor is loaded for the call of vfs_set_task,  *)
(* loaded again after it, and stored once, already wrapped.                *)
(***************************************************************************)
EXTENDS Integers, Sequences, FiniteSets

CONSTANTS
  Width,       \* threads, and queues, of the three plugins: <<8, 8, 8>>
  Nets,        \* what the dispatcher surveys: a name with an address prefix
  Dispatches,  \* the address lists one dispatch round can come up with
  Tasks, HomeSeq,
  NoTask,
  Hosts,       \* connections a port thread tries per net: addresses * ports
  Urls,        \* connections an http_detect thread opens per task
  MaxRun,      \* cs_max_task_run_once
  MaxConns,    \* bound: connections a thread has open
  MaxFaults    \* bound: lock timeouts and failed mallocs in a behaviour

ASSUME PipelineAssumption ==
  /\ Width \in [1..3 -> Nat \ {0}]
  /\ Dispatches \subseteq Seq(Nets)
  /\ HomeSeq \in Seq(Tasks)
  /\ \A i, j \in 1..Len(HomeSeq) : HomeSeq[i] = HomeSeq[j] => i = j
  /\ NoTask \notin Tasks
  /\ {Hosts, Urls, MaxRun, MaxConns} \subseteq Nat \ {0}
  /\ MaxFaults \in Nat

TASK_HOME  == 0
Dispatcher == 0

\* The first and the last queue of a stage: 1 port, 2 protocol, 3 http_detect.
First(s) == CASE s = 1 -> 1
              [] s = 2 -> Width[1] + 1
              [] s = 3 -> Width[1] + Width[2] + 1
Last(s)  == First(s) + Width[s] - 1

Port       == First(1)..Last(1)
Protocol   == First(2)..Last(2)
HttpDetect == First(3)..Last(3)
Workers    == 1..Last(3)
Threads    == {Dispatcher} \cup Workers
LastQueue  == Last(3) + 1      \* at least one queue has no consumer
Queues     == 0..LastQueue

\* The stage a queue belongs to, and the stage a thread produces tasks for.
Stage(q)   == IF q \in Port THEN 1 ELSE IF q \in Protocol THEN 2
              ELSE IF q \in HttpDetect THEN 3 ELSE 4
Target(t)  == IF t = Dispatcher THEN 1 ELSE Stage(t) + 1

VARIABLES
  queue, held, fresh,  \* the pool
  base,                \* task->task.base: who is surveyed, and by which stage
  lost,                \* nodes no list and no variable refers to any more
  pc,                  \* where a thread is
  todo,                \* the dispatcher's remaining addresses
  cur,                 \* check_task's task
  new,                 \* the task do_scan, get_http_task or create_task fills
  idx,                 \* the loop counter of gen_scan_task
  once,                \* check_task's count of tasks in this round
  cursor,              \* g_queue_index, g_get_info_queue_index, g_http_queue_index
  reg,                 \* a thread's copy of a cursor, in a register
  conns,               \* activelist: the open connections, oldest first
  faults

vars == <<queue, held, fresh, base, lost, pc, todo, cur, new, idx, once,
          cursor, reg, conns, faults>>

Pool == INSTANCE TaskPool WITH queue <- queue, held <- held, fresh <- fresh

Jobs == [stage : 1..3, net : Nets]
NoJob == [stage |-> 0]

TypeOK ==
  /\ Pool!TypeOK
  /\ base \in [Tasks -> Jobs \cup {NoJob}]
  /\ lost \in SUBSET Tasks
  /\ pc \in [Threads -> {"loop", "get", "scan", "put", "load", "store"}]
  /\ todo \in Seq(Nets)
  /\ cur \in [Threads -> Tasks \cup {NoTask}]
  /\ new \in [Threads -> Tasks \cup {NoTask}]
  /\ idx \in [Workers -> Nat]
  /\ once \in [Workers -> 0..MaxRun]
  /\ cursor \in [1..3 -> Queues]
  /\ reg \in [Threads -> Queues]
  /\ conns \in [Protocol \cup HttpDetect -> Seq(Nets)]
  /\ faults \in 0..MaxFaults

Init ==
  /\ Pool!Init
  /\ base = [x \in Tasks |-> NoJob]
  /\ lost = {}
  /\ pc = [t \in Threads |-> "loop"]
  /\ todo = <<>>
  /\ cur = [t \in Threads |-> NoTask]
  /\ new = [t \in Threads |-> NoTask]
  /\ idx = [t \in Workers |-> 0]
  /\ once = [t \in Workers |-> 0]
  /\ cursor = [s \in 1..3 |-> First(s)]
  /\ reg = [t \in Threads |-> 0]
  /\ conns = [t \in Protocol \cup HttpDetect |-> <<>>]
  /\ faults = 0

-----------------------------------------------------------------------------
Goto(t, l) == pc' = [pc EXCEPT ![t] = l]

Fault == faults < MaxFaults /\ faults' = faults + 1

\* Mutant of Wrapped: one queue too far.
WrappedLate(s, c) == IF c > Last(s) THEN First(s) ELSE c + 1

\* A round-robin cursor one on: past the stage's last queue it is its first.
Wrapped(s, c) == IF c + 1 > Last(s) THEN First(s) ELSE c + 1

(* vfs_get_task(&task, TASK_HOME) gives t the node x, and t fills it in.   *)
NewTask(t, x, job) ==
  /\ \/ Pool!Take(t, TASK_HOME) /\ x = Head(queue[TASK_HOME])
     \/ Pool!Alloc(t, x)
  /\ new' = [new EXCEPT ![t] = x]
  /\ base' = [base EXCEPT ![x] = job]

(* It gives none: the lock timed out, or malloc failed.                    *)
NoNewTask == /\ \/ Fault
                \/ queue[TASK_HOME] = <<>> /\ fresh = {} /\ UNCHANGED faults
             /\ UNCHANGED <<queue, held, fresh, base, new>>

\* Mutant of SetTask: the range check refuses TASK_HOME.
SetTaskNotHome(t, x, q) ==
  /\ held' = [held EXCEPT ![t] = @ \ {x}]
  /\ IF q > TASK_HOME
     THEN queue' = [queue EXCEPT ![q] = Append(@, x)] /\ UNCHANGED lost
     ELSE lost' = lost \cup {x} /\ UNCHANGED queue
  /\ UNCHANGED <<fresh, faults>>

(* vfs_set_task(x, q), its result ignored by every caller: when the lock   *)
(* times out the node is on no list and its holder forgets it.             *)
SetTask(t, x, q) ==
  \/ Pool!Put(t, x, q) /\ UNCHANGED <<lost, faults>>
  \/ /\ Fault
     /\ lost' = lost \cup {x}
     /\ held' = [held EXCEPT ![t] = @ \ {x}]
     /\ UNCHANGED <<queue, fresh>>

-----------------------------------------------------------------------------
(* The dispatcher.                                                         *)

(* do_dispatcher(), an hour after the last time: the names of t_target and *)
(* t_sub are resolved; a failed query makes the round an empty one.        *)
do_dispatcher ==
  /\ pc[Dispatcher] = "loop"
  /\ \E l \in Dispatches : l # <<>> /\ todo' = l
  /\ Goto(Dispatcher, "scan")
  /\ UNCHANGED <<queue, held, fresh, base, lost, cur, new, idx, once, cursor,
                 reg, conns, faults>>

(* create_task(): a task for the next address, or none.                    *)
create_task ==
  /\ pc[Dispatcher] = "scan"
  /\ todo # <<>>
  /\ \/ /\ \E x \in Tasks : NewTask(Dispatcher, x, [stage |-> 1, net |-> Head(todo)])
        /\ reg' = [reg EXCEPT ![Dispatcher] = cursor[1]]
        /\ Goto(Dispatcher, "put")
        /\ UNCHANGED <<todo, faults>>
     \/ /\ NoNewTask
        /\ todo' = Tail(todo)
        /\ UNCHANGED <<reg, pc>>
  /\ UNCHANGED <<lost, cur, idx, once, cursor, conns>>

(* Its vfs_set_task, and the cursor, which only this thread uses.          *)
push_task ==
  /\ pc[Dispatcher] = "put"
  /\ SetTask(Dispatcher, new[Dispatcher], reg[Dispatcher])
  /\ cursor' = [cursor EXCEPT ![1] = Wrapped(1, @)]
  /\ todo' = Tail(todo)
  /\ new' = [new EXCEPT ![Dispatcher] = NoTask]
  /\ Goto(Dispatcher, "scan")
  /\ UNCHANGED <<base, cur, idx, once, reg, conns>>

dispatched ==
  /\ pc[Dispatcher] = "scan"
  /\ todo = <<>>
  /\ Goto(Dispatcher, "loop")
  /\ UNCHANGED <<queue, held, fresh, base, lost, todo, cur, new, idx, once,
                 cursor, reg, conns, faults>>

-----------------------------------------------------------------------------
(* check_task(), the same in the three plugins.                            *)

(* An iteration of the thread's loop reaches svc_timeout(): the longest    *)
(* idle connections, if any, are closed and check_task begins.             *)
svc_timeout(t) ==
  /\ pc[t] = "loop"
  /\ Goto(t, "get")
  /\ \/ UNCHANGED conns
     \/ /\ t \notin Port
        /\ \E k \in 1..Len(conns[t]) :
             conns' = [conns EXCEPT ![t] = SubSeq(@, k + 1, Len(@))]
  /\ UNCHANGED <<queue, held, fresh, base, lost, todo, cur, new, idx, once,
                 cursor, reg, faults>>

\* Mutant of check_task: the task is given back to TASK_HOME before the
\* scan instead of after it.
check_taskEarlyPut(t) ==
  /\ pc[t] = "get"
  /\ once[t] < MaxRun
  /\ queue[t] # <<>>
  /\ queue' = [queue EXCEPT ![t] = Tail(@), ![TASK_HOME] = Append(@, Head(queue[t]))]
  /\ cur' = [cur EXCEPT ![t] = Head(queue[t])]
  /\ once' = [once EXCEPT ![t] = @ + 1]
  /\ idx' = [idx EXCEPT ![t] = 1]
  /\ Goto(t, "scan")
  /\ UNCHANGED <<held, fresh, base, lost, todo, new, cursor, reg, conns, faults>>

(* vfs_get_task(&task, g_queue) finds a task.                              *)
check_task(t) ==
  /\ pc[t] = "get"
  /\ once[t] < MaxRun
  /\ Pool!Take(t, t)
  /\ cur' = [cur EXCEPT ![t] = Head(queue[t])]
  /\ once' = [once EXCEPT ![t] = @ + 1]
  /\ idx' = [idx EXCEPT ![t] = 1]
  /\ Goto(t, "scan")
  /\ UNCHANGED <<base, lost, todo, new, cursor, reg, conns, faults>>

(* Enough tasks for one round, none left, or the lock timed out.           *)
end_check(t) ==
  /\ pc[t] = "get"
  /\ \/ (once[t] >= MaxRun \/ queue[t] = <<>>) /\ UNCHANGED faults
     \/ Fault
  /\ Goto(t, "loop")
  /\ once' = [once EXCEPT ![t] = 0]
  /\ UNCHANGED <<queue, held, fresh, base, lost, todo, cur, new, idx, cursor,
                 reg, conns>>

\* How many connections gen_scan_task tries for one task.
Tries(t) == IF t \in Port THEN Hosts ELSE IF t \in Protocol THEN 1 ELSE Urls

\* Mutant of finish_task: the task is not put back.
finish_taskForgets(t) ==
  /\ pc[t] = "scan"
  /\ idx[t] > Tries(t)
  /\ cur' = [cur EXCEPT ![t] = NoTask]
  /\ idx' = [idx EXCEPT ![t] = 0]
  /\ Goto(t, "get")
  /\ UNCHANGED <<queue, held, fresh, base, lost, todo, new, once, cursor, reg,
                 conns, faults>>

(* gen_scan_task is through, and the task goes back to TASK_HOME.          *)
finish_task(t) ==
  /\ pc[t] = "scan"
  /\ idx[t] > Tries(t)
  /\ SetTask(t, cur[t], TASK_HOME)
  /\ cur' = [cur EXCEPT ![t] = NoTask]
  /\ idx' = [idx EXCEPT ![t] = 0]
  /\ Goto(t, "get")
  /\ UNCHANGED <<base, todo, new, once, cursor, reg, conns>>

-----------------------------------------------------------------------------
(* A task for the next stage: do_scan of the port plugin, get_http_task of *)
(* the protocol plugin.                                                    *)

(* vfs_get_task(&task, TASK_HOME), the fields, the first load of the       *)
(* cursor.  A thread that gets no task drops the result.                   *)
emit(t, net) ==
  /\ \E x \in Tasks : NewTask(t, x, [stage |-> Target(t), net |-> net])
  /\ reg' = [reg EXCEPT ![t] = cursor[Target(t)]]
  /\ Goto(t, "put")
  /\ UNCHANGED faults

(* vfs_set_task(task, <cursor>).                                           *)
put(t) ==
  /\ pc[t] = "put"
  /\ SetTask(t, new[t], reg[t])
  /\ new' = [new EXCEPT ![t] = NoTask]
  /\ Goto(t, "load")
  /\ UNCHANGED <<base, todo, cur, idx, once, cursor, reg, conns>>

(* The second load of the cursor, for the increment.                       *)
load(t) ==
  /\ pc[t] = "load"
  /\ reg' = [reg EXCEPT ![t] = cursor[Target(t)]]
  /\ Goto(t, "store")
  /\ UNCHANGED <<queue, held, fresh, base, lost, todo, cur, new, idx, once,
                 cursor, conns, faults>>

(* The store.  A port thread is in the middle of gen_scan_task, a protocol *)
(* thread in the middle of an event.                                       *)
store(t) ==
  /\ pc[t] = "store"
  /\ cursor' = [cursor EXCEPT ![Target(t)] = Wrapped(Target(t), reg[t])]
  /\ IF t \in Port
     THEN idx' = [idx EXCEPT ![t] = @ + 1] /\ Goto(t, "scan")
     ELSE UNCHANGED idx /\ Goto(t, "loop")
  /\ reg' = [reg EXCEPT ![t] = 0]
  /\ UNCHANGED <<queue, held, fresh, base, lost, todo, cur, new, once, conns,
                 faults>>

-----------------------------------------------------------------------------
(* Port: gen_scan_task tries the next address and port, and do_scan makes  *)
(* a task of it when it can be connected to.                               *)
port_scan(t) ==
  /\ t \in Port
  /\ pc[t] = "scan"
  /\ idx[t] <= Hosts
  /\ \/ emit(t, base[cur[t]].net) /\ UNCHANGED idx
     \/ /\ \/ UNCHANGED <<queue, held, fresh, base, new, faults>>
           \/ NoNewTask
        /\ idx' = [idx EXCEPT ![t] = @ + 1]
        /\ UNCHANGED <<reg, pc>>
  /\ UNCHANGED <<lost, todo, cur, once, cursor, conns>>

(* Protocol and http_detect: gen_scan_task opens the next connection and   *)
(* sends its request, or cannot connect.                                   *)
open(t) ==
  /\ t \notin Port
  /\ pc[t] = "scan"
  /\ idx[t] <= Tries(t)
  /\ idx' = [idx EXCEPT ![t] = @ + 1]
  /\ \/ UNCHANGED conns
     \/ /\ Len(conns[t]) < MaxConns
        /\ conns' = [conns EXCEPT ![t] = Append(@, base[cur[t]].net)]
  /\ UNCHANGED <<queue, held, fresh, base, lost, pc, todo, cur, new, once,
                 cursor, reg, faults>>

\* The connections of t without its i-th.
Closed(t, i) == [conns EXCEPT ![t] = SubSeq(@, 1, i - 1) \o SubSeq(@, i + 1, Len(@))]

(* An event of a connection ends in its close: an answer that is not HTTP, *)
(* any answer to http_detect, an error, a close by the peer.               *)
close_conn(t) ==
  /\ t \notin Port
  /\ pc[t] = "loop"
  /\ \E i \in 1..Len(conns[t]) : conns' = Closed(t, i)
  /\ UNCHANGED <<queue, held, fresh, base, lost, pc, todo, cur, new, idx, once,
                 cursor, reg, faults>>

(* Protocol: the answer begins with HTTP, and svc_recv closes after it.    *)
http_answer(t) ==
  /\ t \in Protocol
  /\ pc[t] = "loop"
  /\ \E i \in 1..Len(conns[t]) :
       /\ conns' = Closed(t, i)
       /\ \/ emit(t, conns[t][i])
          \/ NoNewTask /\ UNCHANGED <<reg, pc>>
  /\ UNCHANGED <<lost, todo, cur, idx, once, cursor>>

-----------------------------------------------------------------------------
dispatcher == do_dispatcher \/ create_task \/ push_task \/ dispatched

\* What a worker does of its own accord, without an event from outside.
worker(t) ==
  \/ svc_timeout(t) \/ check_task(t) \/ end_check(t) \/ finish_task(t)
  \/ port_scan(t) \/ open(t)
  \/ put(t) \/ load(t) \/ store(t)

Next ==
  \/ dispatcher
  \/ \E t \in Workers : worker(t) \/ close_conn(t) \/ http_answer(t)

Spec == Init /\ [][Next]_vars

\* Threads run; answers need not come, and no hour need pass.
Fairness ==
  /\ WF_vars(create_task \/ push_task \/ dispatched)
  /\ \A t \in Workers : WF_vars(worker(t))

FairSpec == Spec /\ Fairness

-----------------------------------------------------------------------------
(***************************************************************************)
(* Properties                                                              *)
(***************************************************************************)

(* A task reaches only the plugin it is meant for: a host found by the     *)
(* port scan goes to a protocol thread, an HTTP server to an http_detect   *)
(* thread, however the threads race on the cursors.  A cursor seen outside *)
(* its range would send it to another plugin or to a queue nobody reads.   *)
StageRouting ==
  /\ \A q \in Queues \ {TASK_HOME} : \A i \in 1..Len(queue[q]) :
       base[queue[q][i]].stage = Stage(q)
  /\ \A t \in Workers : cur[t] # NoTask => base[cur[t]].stage = Stage(t)

(* The node under a thread's scan is the thread's own: no other thread     *)
(* writes its task.base between the vfs_get_task and the vfs_set_task of   *)
(* check_task, whatever else the pool hands out meanwhile.                 *)
ScanUndisturbed ==
  [][\A t \in Workers :
       cur[t] # NoTask /\ cur'[t] = cur[t] => base'[cur[t]] = base[cur[t]]]_vars

(* The nodes on no list, with no holder and not in the heap any more are   *)
(* those of a vfs_set_task that timed out: at most one each time.          *)
LostOnlyByTimeout ==
  /\ Cardinality(lost) <= faults
  /\ lost = {x \in Tasks : /\ x \notin fresh
                           /\ \A t \in Threads : x \notin held[t]
                           /\ \A q \in Queues : \A i \in 1..Len(queue[q]) :
                                queue[q][i] # x}

(* A thread holds the nodes its local variables name and no other: what it *)
(* takes it puts back, on every path through check_task, do_scan,          *)
(* get_http_task and create_task.                                          *)
HoldsWhatItNames ==
  /\ TypeOK
  /\ \A t \in Threads : held[t] = {cur[t], new[t]} \ {NoTask}

(***************************************************************************)
(* The inductive invariant behind the three invariants above.              *)
(***************************************************************************)

\* check_task is in the middle of a task.
Scanning(t) == pc[t] = "scan" \/ (t \in Port /\ pc[t] \in {"put", "load", "store"})

\* Which variables of a thread name a task, by where the thread is.
Locals ==
  /\ \A t \in Threads :
       /\ pc[t] \in {"put", "load", "store"} => t \notin HttpDetect
       /\ new[t] # NoTask <=> pc[t] = "put"
       /\ cur[t] # NoTask <=> t \in Workers /\ Scanning(t)
       /\ cur[t] = new[t] => cur[t] = NoTask
  /\ pc[Dispatcher] \in {"loop", "scan", "put"}
  /\ pc[Dispatcher] = "put" => todo # <<>>

\* A cursor, and a copy that is going to be used, is a queue of its stage.
Cursors ==
  /\ \A s \in 1..3 : cursor[s] \in First(s)..Last(s)
  /\ \A t \in Threads : pc[t] \in {"put", "store"} =>
       reg[t] \in First(Target(t))..Last(Target(t))

\* A task on its way to a queue is already meant for that queue's stage.
Routed ==
  /\ StageRouting
  /\ \A t \in Threads : new[t] # NoTask => base[new[t]].stage = Target(t)

IInv ==
  /\ TypeOK /\ Locals /\ Cursors
  /\ Pool!Apart /\ HoldsWhatItNames
  /\ Routed
  /\ IsFiniteSet(lost) /\ LostOnlyByTimeout

AtHome(x) == \E i \in 1..Len(queue[TASK_HOME]) : queue[TASK_HOME][i] = x

(* Every task that leaves TASK_HOME comes back to it and can be used       *)
(* again, as vfs_task.h says.                                              *)
Reused == \A x \in Tasks : x \notin fresh /\ ~AtHome(x) ~> AtHome(x)

(* What the code does: it comes back unless a lock timeout has lost it,    *)
(* through three queues and scans by threads that give up after a few.     *)
ReusedUnlessLost ==
  \A x \in Tasks : x \notin fresh /\ ~AtHome(x) ~> AtHome(x) \/ x \in lost
=============================================================================
