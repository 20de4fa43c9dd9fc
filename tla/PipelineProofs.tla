--------------------------- MODULE PipelineProofs ---------------------------
(***************************************************************************)
(* Proofs about Pipeline.tla, for every number of threads per plugin, of   *)
(* tasks and of lock timeouts.  Of the five kinds of steps that move or    *)
(* fill in a task each keeps every part of the inductive invariant but the *)
(* types and the thread's own variables, which go action by action.        *)
(***************************************************************************)
EXTENDS Pipeline, SequenceTheorems, FiniteSetTheorems, TLAPS

-----------------------------------------------------------------------------
(* The numbering of queues and threads.                                    *)

\* The queues of a stage, one range after the other from 1 on.
LEMMA Ranges ==
  /\ Width[1] \in Nat \ {0} /\ Width[2] \in Nat \ {0} /\ Width[3] \in Nat \ {0}
  /\ First(1) = 1            /\ Last(1) = Width[1]
  /\ First(2) = Width[1] + 1 /\ Last(2) = Width[1] + Width[2]
  /\ First(3) = Width[1] + Width[2] + 1
  /\ Last(3) = Width[1] + Width[2] + Width[3]
BY PipelineAssumption DEF First, Last

LEMMA Layout ==
  /\ LastQueue \in Nat /\ TASK_HOME \in Queues
  /\ Port \cup Protocol \cup HttpDetect = Workers
  /\ Port \cap Protocol = {} /\ Port \cap HttpDetect = {} /\ Protocol \cap HttpDetect = {}
  /\ Workers \subseteq Queues /\ TASK_HOME \notin Workers /\ Dispatcher \notin Workers
  /\ Dispatcher \in Threads /\ Workers \subseteq Threads
BY Ranges DEF LastQueue, TASK_HOME, Queues, Port, Protocol, HttpDetect, Workers,
              Dispatcher, Threads

LEMMA StageOf ==
  ASSUME NEW s \in 1..3, NEW q \in First(s)..Last(s)
  PROVE  /\ q \in Queues /\ q # TASK_HOME /\ Stage(q) = s
         /\ Wrapped(s, q) \in First(s)..Last(s)
<1>1. CASE s = 1
  BY <1>1, Ranges DEF Queues, TASK_HOME, LastQueue, Stage, Wrapped, Port, Protocol, HttpDetect
<1>2. CASE s = 2
  BY <1>2, Ranges DEF Queues, TASK_HOME, LastQueue, Stage, Wrapped, Port, Protocol, HttpDetect
<1>3. CASE s = 3
  BY <1>3, Ranges DEF Queues, TASK_HOME, LastQueue, Stage, Wrapped, Port, Protocol, HttpDetect
<1>4. QED
  BY <1>1, <1>2, <1>3

LEMMA FirstInRange == \A s \in 1..3 : First(s) \in First(s)..Last(s)
<1> TAKE s \in 1..3
<1>1. CASE s = 1
  BY <1>1, Ranges
<1>2. CASE s = 2
  BY <1>2, Ranges
<1>3. CASE s = 3
  BY <1>3, Ranges
<1>4. QED
  BY <1>1, <1>2, <1>3

LEMMA Targets ==
  /\ Target(Dispatcher) = 1
  /\ \A t \in Port : Target(t) = 2 /\ Stage(t) = 1
  /\ \A t \in Protocol : Target(t) = 3 /\ Stage(t) = 2
  /\ \A t \in HttpDetect : Stage(t) = 3
  /\ \A t \in Threads \ HttpDetect : Target(t) \in 1..3
  /\ \A t \in Workers : Stage(t) \in 1..3
<1>1. \A t \in Workers : t # Dispatcher
  BY Layout
<1>2. /\ \A t \in Port : Stage(t) = 1
      /\ \A t \in Protocol : Stage(t) = 2
      /\ \A t \in HttpDetect : Stage(t) = 3
  BY Layout DEF Stage
<1>3. /\ \A t \in Port : Target(t) = 2
      /\ \A t \in Protocol : Target(t) = 3
      /\ Target(Dispatcher) = 1
  BY <1>1, <1>2, Layout DEF Target
<1>4. \A t \in Threads \ HttpDetect : t = Dispatcher \/ t \in Port \/ t \in Protocol
  BY Layout DEF Threads
<1>5. QED
  BY <1>2, <1>3, <1>4, Layout

-----------------------------------------------------------------------------
(* What a step does to the tasks.                                          *)

\* check_task gets one from the thread's own queue,
Got(t) ==
  /\ t \in Workers /\ cur[t] = NoTask
  /\ Pool!Take(t, t)
  /\ cur' = [cur EXCEPT ![t] = Head(queue[t])]
  /\ UNCHANGED <<base, lost, new, faults>>

\* a thread gets one to fill in,
Made(t) ==
  /\ new[t] = NoTask /\ t \notin HttpDetect
  /\ \E x \in Tasks, net \in Nets : NewTask(t, x, [stage |-> Target(t), net |-> net])
  /\ UNCHANGED <<lost, cur, faults>>

\* sends it to a queue of the next stage,
PutNew(t) ==
  /\ new[t] # NoTask
  /\ \E q \in First(Target(t))..Last(Target(t)) : SetTask(t, new[t], q)
  /\ new' = [new EXCEPT ![t] = NoTask]
  /\ UNCHANGED <<base, cur>>

\* or gives back what it has scanned.
PutCur(t) ==
  /\ t \in Workers /\ cur[t] # NoTask
  /\ SetTask(t, cur[t], TASK_HOME)
  /\ cur' = [cur EXCEPT ![t] = NoTask]
  /\ UNCHANGED <<base, new>>

\* Other steps leave the tasks alone.
Quiet ==
  /\ UNCHANGED <<queue, held, fresh, base, lost, cur, new>>
  /\ faults' = faults \/ Fault

\* The net of a task being scanned.
LEMMA ScannedNet ==
  ASSUME TypeOK, Routed, NEW t \in Workers, cur[t] # NoTask
  PROVE  cur[t] \in Tasks /\ base[cur[t]] \in Jobs /\ base[cur[t]].net \in Nets
<1>1. cur[t] \in Tasks /\ base[cur[t]] \in Jobs \cup {NoJob}
  BY Layout DEF TypeOK
<1>2. base[cur[t]].stage \in 1..3
  BY Targets DEF Routed, StageRouting
<1>3. base[cur[t]] # NoJob
  BY <1>2 DEF NoJob
<1>4. base[cur[t]] \in Jobs
  BY <1>1, <1>3
<1>5. QED
  BY <1>1, <1>4 DEF Jobs

LEMMA EmitMakes ==
  ASSUME IInv, NEW t \in Threads, NEW net \in Nets, emit(t, net),
         t \notin HttpDetect, pc[t] # "put", UNCHANGED <<lost, cur>>
  PROVE  Made(t)
BY DEF emit, Made, IInv, Locals

LEMMA StepKind ==
  ASSUME IInv, [Next]_vars
  PROVE  Quiet \/ \E t \in Threads : Got(t) \/ Made(t) \/ PutNew(t) \/ PutCur(t)
<1> USE DEF Quiet
<1>1. IInv /\ TypeOK /\ Locals /\ Cursors /\ Routed
  BY DEF IInv
<1>2. ASSUME dispatcher
      PROVE  Quiet \/ Made(Dispatcher) \/ PutNew(Dispatcher)
  <2>1. CASE do_dispatcher
    BY <2>1 DEF do_dispatcher
  <2>2. CASE create_task
    <3>1. CASE NoNewTask /\ UNCHANGED <<lost, cur>>
      BY <3>1 DEF NoNewTask
    <3>2. CASE \E x \in Tasks : NewTask(Dispatcher, x, [stage |-> 1, net |-> Head(todo)])
      <4>1. Head(todo) \in Nets
        BY <1>1, <2>2 DEF create_task, TypeOK
      <4>2. /\ new[Dispatcher] = NoTask /\ UNCHANGED <<lost, cur>>
            /\ Dispatcher \notin HttpDetect
        BY <1>1, <2>2, Layout DEF create_task, Locals
      <4>3. CASE UNCHANGED faults
        BY <3>2, <4>1, <4>2, <4>3, Targets DEF Made
      <4>4. CASE ~UNCHANGED faults
        BY <2>2, <4>4, <4>2 DEF create_task, NoNewTask
      <4>5. QED
        BY <4>3, <4>4
    <3>3. QED
      BY <2>2, <3>1, <3>2 DEF create_task
  <2>3. CASE push_task
    <3>1. new[Dispatcher] # NoTask
      BY <1>1, <2>3, Layout DEF push_task, Locals
    <3>2. reg[Dispatcher] \in First(Target(Dispatcher))..Last(Target(Dispatcher))
      BY <1>1, <2>3, Layout DEF push_task, Cursors
    <3>3. QED
      BY <2>3, <3>1, <3>2 DEF push_task, PutNew
  <2>4. CASE dispatched
    BY <2>4 DEF dispatched
  <2>5. QED
    BY <1>2, <2>1, <2>2, <2>3, <2>4 DEF dispatcher
<1>3. ASSUME NEW t \in Workers, worker(t) \/ close_conn(t) \/ http_answer(t)
      PROVE  Quiet \/ Got(t) \/ Made(t) \/ PutNew(t) \/ PutCur(t)
  <2>1. t \in Threads
    BY Layout
  <2>2. CASE svc_timeout(t) \/ open(t) \/ load(t) \/ store(t) \/ close_conn(t)
    BY <2>2 DEF svc_timeout, open, load, store, close_conn
  <2>3. CASE check_task(t)
    BY <1>1, <2>1, <2>3 DEF check_task, Got, Locals, Scanning
  <2>4. CASE end_check(t)
    BY <2>4 DEF end_check
  <2>5. CASE finish_task(t)
    BY <1>1, <2>1, <2>5 DEF finish_task, PutCur, Locals, Scanning
  <2>6. CASE put(t)
    <3>1. new[t] # NoTask /\ reg[t] \in First(Target(t))..Last(Target(t))
      BY <1>1, <2>1, <2>6 DEF put, Locals, Cursors
    <3>2. QED
      BY <2>6, <3>1 DEF put, PutNew
  <2>7. CASE port_scan(t)
    <3>1. CASE emit(t, base[cur[t]].net)
      <4>1. base[cur[t]].net \in Nets
        BY <1>1, <2>1, <2>7, ScannedNet DEF port_scan, Locals, Scanning
      <4>2. pc[t] # "put" /\ t \notin HttpDetect /\ UNCHANGED <<lost, cur>>
        BY <2>7, Layout DEF port_scan
      <4>3. QED
        BY <1>1, <2>1, <3>1, <4>1, <4>2, EmitMakes
    <3>2. CASE ~emit(t, base[cur[t]].net)
      BY <2>7, <3>2 DEF port_scan, NoNewTask
    <3>3. QED
      BY <3>1, <3>2
  <2>8. CASE http_answer(t)
    <3>1. /\ conns[t] \in Seq(Nets) /\ pc[t] = "loop" /\ UNCHANGED <<lost, cur>>
          /\ t \in Protocol /\ t \notin HttpDetect
      BY <1>1, <2>8, Layout DEF http_answer, TypeOK
    <3>2. PICK i \in 1..Len(conns[t]) :
            emit(t, conns[t][i]) \/ (NoNewTask /\ UNCHANGED <<reg, pc>>)
      BY <2>8 DEF http_answer
    <3>3. conns[t][i] \in Nets
      BY <3>1
    <3>4. CASE emit(t, conns[t][i])
      BY <1>1, <2>1, <3>1, <3>3, <3>4, EmitMakes
    <3>5. CASE NoNewTask
      BY <3>1, <3>5 DEF NoNewTask
    <3>6. QED
      BY <3>2, <3>4, <3>5
  <2>9. QED
    BY <1>3, <2>2, <2>3, <2>4, <2>5, <2>6, <2>7, <2>8 DEF worker
<1>4. CASE UNCHANGED vars
  BY <1>4 DEF vars
<1>5. QED
  BY <1>2, <1>3, <1>4, Layout DEF Next

-----------------------------------------------------------------------------
(* What each kind does to the pool.                                        *)

LEMMA PoolQueues == Pool!Queues = Queues /\ Pool!TASK_HOME = TASK_HOME
BY DEF Pool!Queues, Queues, Pool!TASK_HOME, TASK_HOME

\* A new task comes from TASK_HOME or the heap, so nobody holds or queues it.
LEMMA MakeEffects ==
  ASSUME Pool!TypeOK, Pool!Apart, NEW t \in Threads, NEW x \in Tasks, NEW job,
         NewTask(t, x, job)
  PROVE  /\ Pool!Apart'
         /\ held' = [held EXCEPT ![t] = @ \cup {x}]
         /\ \A u \in Threads : x \notin held[u]
         /\ \A q \in Queues : q # TASK_HOME => queue'[q] = queue[q]
         /\ ~Pool!Linked(x)' /\ x \notin fresh'
         /\ Pool!Linked(x) \/ x \in fresh
         /\ \A y : y # x => /\ Pool!Linked(y)' <=> Pool!Linked(y)
                            /\ y \in fresh' <=> y \in fresh
<1>1. CASE Pool!Take(t, TASK_HOME) /\ x = Head(queue[TASK_HOME])
  <2>1. /\ Pool!Apart' /\ Pool!Linked(x)
        /\ \A y : Pool!Linked(y)' <=> Pool!Linked(y) /\ y # x
    BY <1>1, Layout, PoolQueues, Pool!TakeMoves
  <2>2. /\ held' = [held EXCEPT ![t] = @ \cup {x}] /\ fresh' = fresh
        /\ \A q \in Queues : q # TASK_HOME => queue'[q] = queue[q]
    BY <1>1, PoolQueues DEF Pool!Take, Pool!TypeOK
  <2>3. x \notin fresh /\ \A u \in Threads : x \notin held[u]
    BY <2>1 DEF Pool!Apart, Pool!HeldApart
  <2>4. QED
    BY <2>1, <2>2, <2>3
<1>2. CASE Pool!Alloc(t, x)
  <2>1. Pool!Apart' /\ \A y : Pool!Linked(y)' <=> Pool!Linked(y)
    BY <1>2, Pool!AllocMoves
  <2>2. /\ x \in fresh /\ fresh' = fresh \ {x} /\ queue' = queue
        /\ held' = [held EXCEPT ![t] = @ \cup {x}]
    BY <1>2 DEF Pool!Alloc
  <2>3. ~Pool!Linked(x) /\ \A u \in Threads : x \notin held[u]
    BY <2>2 DEF Pool!Apart, Pool!HeldApart
  <2>4. QED
    BY <2>1, <2>2, <2>3
<1>3. QED
  BY <1>1, <1>2 DEF NewTask

\* A task sent off leaves the thread for a queue, or for nowhere.
LEMMA SetEffects ==
  ASSUME Pool!TypeOK, Pool!Apart, NEW t \in Threads, NEW q \in Queues, NEW x \in held[t],
         SetTask(t, x, q)
  PROVE  /\ x \in Tasks /\ Pool!Apart'
         /\ held' = [held EXCEPT ![t] = @ \ {x}] /\ fresh' = fresh
         /\ \/ /\ queue' = [queue EXCEPT ![q] = Append(@, x)]
               /\ \A y : Pool!Linked(y)' <=> Pool!Linked(y) \/ y = x
               /\ UNCHANGED <<lost, faults>>
            \/ /\ queue' = queue
               /\ \A y : Pool!Linked(y)' <=> Pool!Linked(y)
               /\ lost' = lost \cup {x} /\ Fault
<1>1. x \in Tasks
  BY DEF Pool!TypeOK
<1>2. CASE Pool!Put(t, x, q) /\ UNCHANGED <<lost, faults>>
  <2>1. Pool!Apart' /\ \A y : Pool!Linked(y)' <=> Pool!Linked(y) \/ y = x
    BY <1>1, <1>2, PoolQueues, Pool!PutMoves
  <2>2. QED
    BY <1>1, <1>2, <2>1 DEF Pool!Put
<1>3. CASE /\ Fault /\ lost' = lost \cup {x}
           /\ held' = [held EXCEPT ![t] = @ \ {x}]
           /\ UNCHANGED <<queue, fresh>>
  <2>1. \A y : Pool!Linked(y)' <=> Pool!Linked(y)
    BY <1>3 DEF Pool!Linked
  <2>2. \A u \in Threads : held'[u] \subseteq held[u]
    BY <1>3 DEF Pool!TypeOK
  <2>3. Pool!NoDuplicates'
    BY <1>3 DEF Pool!Apart, Pool!NoDuplicates
  <2>4. Pool!HeldApart'
    BY <1>3, <2>1, <2>2 DEF Pool!Apart, Pool!HeldApart
  <2>5. QED
    BY <1>1, <1>3, <2>1, <2>3, <2>4 DEF Pool!Apart
<1>4. QED
  BY <1>2, <1>3 DEF SetTask

\* A task taken from the thread's own queue.
LEMMA GotEffects ==
  ASSUME Pool!TypeOK, Pool!Apart, NEW t \in Workers, Pool!Take(t, t)
  PROVE  LET x == Head(queue[t])
         IN  /\ x \in Tasks /\ Pool!Apart' /\ Pool!Linked(x)
             /\ held' = [held EXCEPT ![t] = @ \cup {x}] /\ fresh' = fresh
             /\ queue' = [queue EXCEPT ![t] = Tail(@)]
             /\ queue[t] \in Seq(Tasks) /\ queue[t] # <<>>
             /\ \A y : Pool!Linked(y)' <=> Pool!Linked(y) /\ y # x
             /\ \A u \in Threads : x \notin held[u]
<1> DEFINE x == Head(queue[t])
<1>1. t \in Threads /\ t \in Pool!Queues
  BY Layout, PoolQueues
<1>2. /\ Pool!Apart' /\ x \in Tasks /\ Pool!Linked(x)
      /\ \A y : Pool!Linked(y)' <=> Pool!Linked(y) /\ y # x
  BY <1>1, Pool!TakeMoves
<1>3. \A u \in Threads : x \notin held[u]
  BY <1>2 DEF Pool!Apart, Pool!HeldApart
<1>4. QED
  BY <1>1, <1>2, <1>3 DEF Pool!Take, Pool!TypeOK

\* The task of PutNew, or of PutCur, is the thread's.
LEMMA Owned ==
  ASSUME HoldsWhatItNames, NEW t \in Threads
  PROVE  /\ cur[t] # NoTask => cur[t] \in held[t]
         /\ new[t] # NoTask => new[t] \in held[t]
BY DEF HoldsWhatItNames

LEMMA NewQueue ==
  ASSUME TypeOK, Locals, NEW t \in Threads, new[t] # NoTask
  PROVE  Target(t) \in 1..3
BY Targets DEF Locals

\* No step shares a task or puts it on two queues.
LEMMA ApartStep ==
  ASSUME IInv, [Next]_vars
  PROVE  Pool!Apart'
<1>1. Pool!TypeOK /\ Pool!Apart /\ TypeOK /\ Locals /\ HoldsWhatItNames
  BY DEF IInv, TypeOK
<1>2. CASE Quiet
  BY <1>1, <1>2 DEF Quiet, Pool!Apart, Pool!NoDuplicates, Pool!HeldApart, Pool!Linked
<1>3. ASSUME NEW t \in Threads, Got(t) PROVE Pool!Apart'
  BY <1>1, <1>3, GotEffects DEF Got
<1>4. ASSUME NEW t \in Threads, Made(t) PROVE Pool!Apart'
  BY <1>1, <1>4, MakeEffects DEF Made
<1>5. ASSUME NEW t \in Threads, PutNew(t) PROVE Pool!Apart'
  <2>1. PICK q \in First(Target(t))..Last(Target(t)) : SetTask(t, new[t], q)
    BY <1>5 DEF PutNew
  <2>2. q \in Queues /\ new[t] \in held[t]
    BY <1>1, <1>5, NewQueue, StageOf, Owned DEF PutNew
  <2>3. QED
    BY <1>1, <2>1, <2>2, SetEffects
<1>6. ASSUME NEW t \in Threads, PutCur(t) PROVE Pool!Apart'
  <2>1. cur[t] \in held[t]
    BY <1>1, <1>6, Owned DEF PutCur
  <2>2. QED
    BY <1>1, <1>6, <2>1, SetEffects, Layout DEF PutCur
<1>7. QED
  BY <1>2, <1>3, <1>4, <1>5, <1>6, StepKind

\* A thread keeps holding what its variables name.
LEMMA HoldsStep ==
  ASSUME IInv, [Next]_vars
  PROVE  \A t \in Threads : held'[t] = {cur'[t], new'[t]} \ {NoTask}
<1>1. /\ Pool!TypeOK /\ Pool!Apart /\ TypeOK /\ Locals /\ HoldsWhatItNames
      /\ \A t \in Threads : held[t] = {cur[t], new[t]} \ {NoTask}
      /\ \A t \in Threads : cur[t] = new[t] => cur[t] = NoTask
      /\ held \in [Threads -> SUBSET Tasks] /\ NoTask \notin Tasks
      /\ DOMAIN cur = Threads /\ DOMAIN new = Threads
  BY PipelineAssumption DEF IInv, TypeOK, HoldsWhatItNames, Pool!TypeOK, Locals
<1>2. CASE Quiet
  BY <1>1, <1>2 DEF Quiet
<1>3. ASSUME NEW t \in Threads, Got(t)
      PROVE  \A u \in Threads : held'[u] = {cur'[u], new'[u]} \ {NoTask}
  <2> DEFINE x == Head(queue[t])
  <2>1. /\ x \in Tasks /\ held' = [held EXCEPT ![t] = @ \cup {x}]
        /\ cur' = [cur EXCEPT ![t] = x] /\ new' = new /\ cur[t] = NoTask
    BY <1>1, <1>3, GotEffects DEF Got
  <2> HIDE DEF x
  <2>2. QED
    BY <1>1, <2>1
<1>4. ASSUME NEW t \in Threads, Made(t)
      PROVE  \A u \in Threads : held'[u] = {cur'[u], new'[u]} \ {NoTask}
  <2>1. PICK x \in Tasks, net \in Nets : NewTask(t, x, [stage |-> Target(t), net |-> net])
    BY <1>4 DEF Made
  <2>2. /\ held' = [held EXCEPT ![t] = @ \cup {x}]
        /\ new' = [new EXCEPT ![t] = x] /\ cur' = cur /\ new[t] = NoTask
    BY <1>1, <1>4, <2>1, MakeEffects DEF Made, NewTask
  <2>3. QED
    BY <1>1, <2>2
<1>5. ASSUME NEW t \in Threads, PutNew(t)
      PROVE  \A u \in Threads : held'[u] = {cur'[u], new'[u]} \ {NoTask}
  <2>1. PICK q \in First(Target(t))..Last(Target(t)) : SetTask(t, new[t], q)
    BY <1>5 DEF PutNew
  <2>2. q \in Queues /\ new[t] \in held[t]
    BY <1>1, <1>5, NewQueue, StageOf, Owned DEF PutNew
  <2>3. /\ held' = [held EXCEPT ![t] = @ \ {new[t]}]
        /\ new' = [new EXCEPT ![t] = NoTask] /\ cur' = cur /\ new[t] # NoTask
    BY <1>1, <1>5, <2>1, <2>2, SetEffects DEF PutNew
  <2>4. QED
    BY <1>1, <2>3
<1>6. ASSUME NEW t \in Threads, PutCur(t)
      PROVE  \A u \in Threads : held'[u] = {cur'[u], new'[u]} \ {NoTask}
  <2>1. cur[t] \in held[t]
    BY <1>1, <1>6, Owned DEF PutCur
  <2>2. /\ held' = [held EXCEPT ![t] = @ \ {cur[t]}]
        /\ cur' = [cur EXCEPT ![t] = NoTask] /\ new' = new /\ cur[t] # NoTask
    BY <1>1, <1>6, <2>1, SetEffects, Layout DEF PutCur
  <2>3. QED
    BY <1>1, <2>2
<1>7. QED
  BY <1>2, <1>3, <1>4, <1>5, <1>6, StepKind

\* What a thread has named stays as it was filled in, whatever others do.
LEMMA BaseKept ==
  ASSUME IInv, NEW t \in Threads, Made(t)
  PROVE  /\ \A u \in Threads : cur[u] # NoTask => base'[cur[u]] = base[cur[u]]
         /\ \A u \in Threads : u # t /\ new[u] # NoTask => base'[new[u]] = base[new[u]]
         /\ \A q \in Queues : q # TASK_HOME =>
              /\ queue'[q] = queue[q]
              /\ \A i \in 1..Len(queue[q]) : base'[queue[q][i]] = base[queue[q][i]]
<1>1. /\ Pool!TypeOK /\ Pool!Apart /\ TypeOK /\ HoldsWhatItNames
      /\ queue \in [Queues -> Seq(Tasks)]
  BY PoolQueues DEF IInv, TypeOK, Pool!TypeOK
<1>2. PICK x \in Tasks, net \in Nets : NewTask(t, x, [stage |-> Target(t), net |-> net])
  BY DEF Made
<1>3. /\ \A u \in Threads : x \notin held[u]
      /\ \A q \in Queues : q # TASK_HOME => queue'[q] = queue[q]
      /\ ~Pool!Linked(x)'
  BY <1>1, <1>2, MakeEffects
<1>4. \A y \in Tasks : y # x => base'[y] = base[y]
  BY <1>2 DEF NewTask, IInv, TypeOK
<1>5. ASSUME NEW u \in Threads
      PROVE  /\ cur[u] # NoTask => base'[cur[u]] = base[cur[u]]
             /\ new[u] # NoTask => base'[new[u]] = base[new[u]]
  BY <1>1, <1>3, <1>4, Owned DEF TypeOK
<1>6. ASSUME NEW q \in Queues, q # TASK_HOME, NEW i \in 1..Len(queue[q])
      PROVE  base'[queue[q][i]] = base[queue[q][i]]
  <2>1. queue[q][i] \in Tasks
    BY <1>1
  <2>2. queue[q][i] # x
    BY <1>3, <1>6, PoolQueues DEF Pool!Linked
  <2>3. QED
    BY <1>4, <2>1, <2>2
<1>7. QED
  BY <1>3, <1>5, <1>6

\* A task goes only to a queue of the stage it was made for.
LEMMA RoutedStep ==
  ASSUME IInv, [Next]_vars
  PROVE  Routed'
<1>1. /\ Pool!TypeOK /\ Pool!Apart /\ TypeOK /\ Locals /\ HoldsWhatItNames /\ Routed
      /\ queue \in [Queues -> Seq(Tasks)]
      /\ cur \in [Threads -> Tasks \cup {NoTask}] /\ new \in [Threads -> Tasks \cup {NoTask}]
      /\ base \in [Tasks -> Jobs \cup {NoJob}]
  BY PoolQueues DEF IInv, TypeOK, Pool!TypeOK
<1> DEFINE InQueues == \A q \in Queues \ {TASK_HOME} : \A i \in 1..Len(queue[q]) :
                         base[queue[q][i]].stage = Stage(q)
           InCur == \A t \in Workers : cur[t] # NoTask => base[cur[t]].stage = Stage(t)
           InNew == \A t \in Threads : new[t] # NoTask => base[new[t]].stage = Target(t)
<1>2. InQueues /\ InCur /\ InNew
  BY <1>1 DEF Routed, StageRouting
<1>3. CASE Quiet
  BY <1>3, <1>2 DEF Quiet, Routed, StageRouting
<1>4. ASSUME NEW t \in Threads, Got(t) PROVE Routed'
  <2> DEFINE x == Head(queue[t])   s == queue[t]
  <2>1. /\ x \in Tasks /\ t \in Workers /\ queue' = [queue EXCEPT ![t] = Tail(s)]
        /\ s \in Seq(Tasks) /\ s # <<>>
        /\ cur' = [cur EXCEPT ![t] = x] /\ new' = new /\ base' = base
    BY <1>1, <1>4, GotEffects DEF Got
  <2>2. t \in Queues \ {TASK_HOME}
    BY <2>1, Layout
  <2>3. x = s[1] /\ 1 \in 1..Len(s)
    BY <2>1
  <2>4. \A i \in 1..Len(Tail(s)) : i + 1 \in 1..Len(s) /\ Tail(s)[i] = s[i + 1]
    BY <2>1
  <2>5. InCur'
    BY <1>1, <1>2, <2>1, <2>2, <2>3
  <2>6. InQueues'
    <3> SUFFICES ASSUME NEW q \in Queues, q # TASK_HOME, NEW i \in 1..Len(queue'[q])
                 PROVE  base[queue'[q][i]].stage = Stage(q)
      BY <2>1
    <3>1. CASE q = t
      BY <1>1, <1>2, <2>1, <2>2, <2>4, <3>1
    <3>2. CASE q # t
      BY <1>1, <1>2, <2>1, <3>2
    <3>3. QED
      BY <3>1, <3>2
  <2>7. InNew'
    BY <1>2, <2>1
  <2>8. QED
    BY <2>5, <2>6, <2>7 DEF Routed, StageRouting
<1>5. ASSUME NEW t \in Threads, Made(t) PROVE Routed'
  <2>1. PICK x \in Tasks, net \in Nets : NewTask(t, x, [stage |-> Target(t), net |-> net])
    BY <1>5 DEF Made
  <2>2. new' = [new EXCEPT ![t] = x] /\ base'[x].stage = Target(t) /\ cur' = cur
    BY <1>1, <1>5, <2>1 DEF NewTask, Made
  <2>3. InQueues'
    <3> SUFFICES ASSUME NEW q \in Queues, q # TASK_HOME, NEW i \in 1..Len(queue'[q])
                 PROVE  base'[queue'[q][i]].stage = Stage(q)
      OBVIOUS
    <3>1. queue'[q] = queue[q]
      BY <1>5, BaseKept
    <3>2. base'[queue[q][i]] = base[queue[q][i]]
      BY <1>5, <3>1, BaseKept
    <3>3. QED
      BY <1>2, <3>1, <3>2
  <2>4. InCur'
    BY <1>2, <1>5, <2>2, BaseKept, Layout
  <2>5. InNew'
    BY <1>1, <1>2, <1>5, <2>2, BaseKept
  <2>6. QED
    BY <2>3, <2>4, <2>5 DEF Routed, StageRouting
<1>6. ASSUME NEW t \in Threads, PutNew(t) PROVE Routed'
  <2> DEFINE x == new[t]
  <2>1. PICK q \in First(Target(t))..Last(Target(t)) : SetTask(t, x, q)
    BY <1>6 DEF PutNew
  <2>2. q \in Queues /\ Stage(q) = Target(t) /\ x \in held[t] /\ x \in Tasks
    BY <1>1, <1>6, NewQueue, StageOf, Owned DEF PutNew
  <2>3. /\ queue' = [queue EXCEPT ![q] = Append(@, x)] \/ queue' = queue
        /\ new' = [new EXCEPT ![t] = NoTask] /\ UNCHANGED <<base, cur>>
    BY <1>1, <1>6, <2>1, <2>2, SetEffects DEF PutNew
  <2>4. InQueues'
    <3> SUFFICES ASSUME NEW p \in Queues, p # TASK_HOME, NEW i \in 1..Len(queue'[p])
                 PROVE  base[queue'[p][i]].stage = Stage(p)
      BY <2>3
    <3>1. CASE queue'[p] = queue[p]
      BY <1>2, <3>1
    <3>2. CASE queue'[p] # queue[p]
      <4>1. p = q /\ queue'[p] = Append(queue[q], x) /\ queue[q] \in Seq(Tasks)
        BY <1>1, <2>2, <2>3, <3>2
      <4>2. i = Len(queue[q]) + 1 \/ i \in 1..Len(queue[q])
        BY <2>2, <4>1
      <4>3. CASE i = Len(queue[q]) + 1
        <5>1. queue'[p][i] = x
          BY <2>2, <4>1, <4>3
        <5>2. QED
          BY <1>2, <1>6, <2>2, <4>1, <5>1 DEF PutNew
      <4>4. CASE i \in 1..Len(queue[q])
        <5>1. queue'[p][i] = queue[q][i]
          BY <2>2, <4>1, <4>4
        <5>2. QED
          BY <1>2, <4>1, <4>4, <5>1
      <4>5. QED
        BY <4>2, <4>3, <4>4
    <3>3. QED
      BY <3>1, <3>2
  <2>5. InCur' /\ InNew'
    BY <1>1, <1>2, <2>3
  <2>6. QED
    BY <2>4, <2>5 DEF Routed, StageRouting
<1>7. ASSUME NEW t \in Threads, PutCur(t) PROVE Routed'
  <2>1. cur[t] \in held[t] /\ TASK_HOME \in Queues
    BY <1>1, <1>7, Owned, Layout DEF PutCur
  <2>2. /\ queue' = [queue EXCEPT ![TASK_HOME] = Append(@, cur[t])] \/ queue' = queue
        /\ cur' = [cur EXCEPT ![t] = NoTask] /\ UNCHANGED <<base, new>>
    BY <1>1, <1>7, <2>1, SetEffects DEF PutCur
  <2>3. \A q \in Queues \ {TASK_HOME} : queue'[q] = queue[q]
    BY <1>1, <2>2
  <2>4. InQueues'
    BY <1>2, <2>2, <2>3
  <2>5. InCur' /\ InNew'
    BY <1>1, <1>2, <2>2, Layout
  <2>6. QED
    BY <2>4, <2>5 DEF Routed, StageRouting
<1>8. QED
  BY <1>3, <1>4, <1>5, <1>6, <1>7, StepKind

-----------------------------------------------------------------------------
(* The tasks nobody refers to.                                             *)

\* LostOnlyByTimeout in the words of TaskPool.
LEMMA LostIs ==
  LostOnlyByTimeout <=>
    /\ Cardinality(lost) <= faults
    /\ lost = {x \in Tasks : /\ x \notin fresh /\ ~Pool!Linked(x)
                             /\ \A t \in Threads : x \notin held[t]}
BY PoolQueues DEF LostOnlyByTimeout, Pool!Linked

LEMMA LostStep ==
  ASSUME IInv, [Next]_vars
  PROVE  IsFiniteSet(lost') /\ LostOnlyByTimeout'
<1> DEFINE Home(x) == x \in fresh \/ Pool!Linked(x) \/ \E t \in Threads : x \in held[t]
           Gone == {x \in Tasks : ~Home(x)}
<1>1. /\ Pool!TypeOK /\ Pool!Apart /\ TypeOK /\ Locals /\ HoldsWhatItNames
      /\ held \in [Threads -> SUBSET Tasks] /\ faults \in 0..MaxFaults
      /\ IsFiniteSet(lost) /\ Cardinality(lost) <= faults
  BY LostIs DEF IInv, TypeOK, Pool!TypeOK
<1>2. lost = Gone
  BY LostIs DEF IInv
<1> SUFFICES IsFiniteSet(lost') /\ Cardinality(lost') <= faults' /\ lost' = Gone'
  BY PoolQueues DEF LostOnlyByTimeout, Pool!Linked
<1>3. faults' = faults \/ Fault => faults' \in Nat /\ faults <= faults'
  BY <1>1, PipelineAssumption DEF Fault
<1>4. CASE Quiet
  <2>1. \A x : Home(x)' <=> Home(x)
    BY <1>4 DEF Quiet, Pool!Linked
  <2>2. Cardinality(lost) \in Nat
    BY <1>1, FS_CardinalityType
  <2>3. lost' = Gone'
    BY <1>2, <1>4, <2>1 DEF Quiet
  <2>4. lost' = lost /\ faults <= faults' /\ faults' \in Nat
    BY <1>3, <1>4 DEF Quiet
  <2>5. QED
    BY <1>1, <2>2, <2>3, <2>4
<1>5. ASSUME NEW t \in Threads, Got(t)
      PROVE  lost' = lost /\ faults' = faults /\ Gone' = Gone
  <2> DEFINE x == Head(queue[t])
  <2>1. /\ Pool!Linked(x) /\ held' = [held EXCEPT ![t] = @ \cup {x}] /\ fresh' = fresh
        /\ \A y : Pool!Linked(y)' <=> Pool!Linked(y) /\ y # x
    BY <1>1, <1>5, GotEffects DEF Got
  <2>2. \A y : Home(y)' <=> Home(y)
    <3> HIDE DEF x
    <3> QED
      BY <1>1, <2>1
  <2>3. QED
    BY <1>5, <2>2 DEF Got
<1>6. ASSUME NEW t \in Threads, Made(t)
      PROVE  lost' = lost /\ faults' = faults /\ Gone' = Gone
  <2>1. PICK x \in Tasks, net \in Nets : NewTask(t, x, [stage |-> Target(t), net |-> net])
    BY <1>6 DEF Made
  <2>2. /\ held' = [held EXCEPT ![t] = @ \cup {x}]
        /\ Pool!Linked(x) \/ x \in fresh
        /\ \A y : y # x => /\ Pool!Linked(y)' <=> Pool!Linked(y)
                           /\ y \in fresh' <=> y \in fresh
    BY <1>1, <2>1, MakeEffects
  <2>3. \A y : Home(y)' <=> Home(y)
    BY <1>1, <2>2
  <2>4. QED
    BY <1>6, <2>3 DEF Made
<1>7. ASSUME NEW t \in Threads, NEW x \in held[t], NEW q \in Queues, SetTask(t, x, q)
      PROVE  \/ lost' = lost /\ faults' = faults /\ Gone' = Gone
             \/ lost' = lost \cup {x} /\ Fault /\ Gone' = Gone \cup {x}
  <2>1. /\ x \in Tasks
        /\ held' = [held EXCEPT ![t] = @ \ {x}] /\ fresh' = fresh
        /\ \/ /\ \A y : Pool!Linked(y)' <=> Pool!Linked(y) \/ y = x
              /\ UNCHANGED <<lost, faults>>
           \/ /\ \A y : Pool!Linked(y)' <=> Pool!Linked(y)
              /\ lost' = lost \cup {x} /\ Fault
    BY <1>1, <1>7, SetEffects
  <2>2. /\ x \notin fresh /\ ~Pool!Linked(x)
        /\ \A u \in Threads : u # t => x \notin held[u]
    BY <1>1 DEF Pool!Apart, Pool!HeldApart
  <2>3. \A y : (\E u \in Threads : y \in held'[u]) <=> y # x /\ \E u \in Threads : y \in held[u]
    BY <1>1, <2>1, <2>2
  <2>4. CASE \A y : Pool!Linked(y)' <=> Pool!Linked(y) \/ y = x
    <3>1. \A y : Home(y)' <=> Home(y)
      BY <2>1, <2>3, <2>4
    <3>2. lost' = lost /\ faults' = faults
      BY <2>1, <2>2, <2>4
    <3>3. QED
      BY <3>1, <3>2
  <2>5. CASE \A y : Pool!Linked(y)' <=> Pool!Linked(y)
    <3>1. \A y : Home(y)' <=> Home(y) /\ y # x
      BY <2>1, <2>2, <2>3, <2>5
    <3>2. Gone' = Gone \cup {x}
      BY <2>1, <3>1
    <3>3. lost' = lost \cup {x} /\ Fault
      BY <2>1, <2>2, <2>5
    <3>4. QED
      BY <3>2, <3>3
  <2>6. QED
    BY <2>1, <2>4, <2>5
<1>8. ASSUME NEW x, lost' = lost \cup {x}, Fault
      PROVE  IsFiniteSet(lost') /\ Cardinality(lost') <= faults'
  <2>1. IsFiniteSet(lost') /\ Cardinality(lost') \in {Cardinality(lost), Cardinality(lost) + 1}
    BY <1>1, <1>8, FS_AddElement
  <2>2. Cardinality(lost) \in Nat /\ faults' = faults + 1
    BY <1>1, <1>8, FS_CardinalityType DEF Fault
  <2>3. QED
    BY <1>1, <2>1, <2>2
<1>9. ASSUME NEW t \in Threads, NEW x \in held[t], NEW q \in Queues, SetTask(t, x, q)
      PROVE  IsFiniteSet(lost') /\ Cardinality(lost') <= faults' /\ lost' = Gone'
  BY <1>1, <1>2, <1>7, <1>8, <1>9
<1>10. ASSUME NEW t \in Threads, PutNew(t)
       PROVE  \E x \in held[t], q \in Queues : SetTask(t, x, q)
  BY <1>1, <1>10, NewQueue, StageOf, Owned DEF PutNew
<1>11. ASSUME NEW t \in Threads, PutCur(t)
       PROVE  \E x \in held[t], q \in Queues : SetTask(t, x, q)
  BY <1>1, <1>11, Owned, Layout DEF PutCur
<1>12. QED
  BY <1>1, <1>2, <1>4, <1>5, <1>6, <1>9, <1>10, <1>11, StepKind

-----------------------------------------------------------------------------
(* Types.                                                                  *)

\* Those of the tasks, by kind of step,
LEMMA TaskTypes ==
  ASSUME IInv, [Next]_vars
  PROVE  /\ Pool!TypeOK'
         /\ base' \in [Tasks -> Jobs \cup {NoJob}] /\ lost' \in SUBSET Tasks
         /\ cur' \in [Threads -> Tasks \cup {NoTask}]
         /\ new' \in [Threads -> Tasks \cup {NoTask}]
         /\ faults' \in 0..MaxFaults
<1>1. /\ Pool!TypeOK /\ Pool!Apart /\ TypeOK /\ Locals /\ HoldsWhatItNames
      /\ queue \in [Queues -> Seq(Tasks)] /\ held \in [Threads -> SUBSET Tasks]
  BY PoolQueues DEF IInv, TypeOK, Pool!TypeOK
<1>2. Fault => faults' \in 0..MaxFaults
  BY <1>1, PipelineAssumption DEF Fault, TypeOK
<1>3. CASE Quiet
  BY <1>1, <1>2, <1>3 DEF Quiet, TypeOK, Pool!TypeOK
<1>4. ASSUME NEW t \in Threads, Got(t)
      PROVE  Pool!TypeOK' /\ cur' \in [Threads -> Tasks \cup {NoTask}]
  <2> DEFINE x == Head(queue[t])
  <2>1. /\ x \in Tasks /\ held' = [held EXCEPT ![t] = @ \cup {x}] /\ fresh' = fresh
        /\ queue' = [queue EXCEPT ![t] = Tail(@)]
        /\ queue[t] \in Seq(Tasks) /\ queue[t] # <<>>
        /\ cur' = [cur EXCEPT ![t] = x]
    BY <1>1, <1>4, GotEffects DEF Got
  <2>2. Tail(queue[t]) \in Seq(Tasks)
    BY <2>1
  <2> HIDE DEF x
  <2>3. QED
    BY <1>1, <2>1, <2>2, PoolQueues DEF TypeOK, Pool!TypeOK
<1>5. ASSUME NEW t \in Threads, Made(t)
      PROVE  /\ Pool!TypeOK' /\ base' \in [Tasks -> Jobs \cup {NoJob}]
             /\ new' \in [Threads -> Tasks \cup {NoTask}]
  <2>1. PICK x \in Tasks, net \in Nets : NewTask(t, x, [stage |-> Target(t), net |-> net])
    BY <1>5 DEF Made
  <2>2. Target(t) \in 1..3
    BY <1>5, Targets DEF Made
  <2>3. Pool!Next
    BY <2>1, Layout, PoolQueues DEF NewTask, Pool!Next
  <2>4. Pool!TypeOK'
    BY <1>1, <2>3, Pool!PoolTypeStep
  <2>5. [stage |-> Target(t), net |-> net] \in Jobs
    BY <2>2 DEF Jobs
  <2>6. QED
    BY <1>1, <2>1, <2>4, <2>5 DEF NewTask, TypeOK
<1>6. ASSUME NEW t \in Threads, NEW x \in held[t], NEW q \in Queues, SetTask(t, x, q)
      PROVE  Pool!TypeOK' /\ lost' \in SUBSET Tasks /\ faults' \in 0..MaxFaults
  <2>1. /\ x \in Tasks
        /\ held' = [held EXCEPT ![t] = @ \ {x}] /\ fresh' = fresh
        /\ \/ queue' = [queue EXCEPT ![q] = Append(@, x)] /\ UNCHANGED <<lost, faults>>
           \/ queue' = queue /\ lost' = lost \cup {x} /\ Fault
    BY <1>1, <1>6, SetEffects
  <2>2. Append(queue[q], x) \in Seq(Tasks)
    BY <1>1, <2>1
  <2>3. queue' \in [Queues -> Seq(Tasks)]
    BY <1>1, <2>1, <2>2
  <2>4. held' \in [Threads -> SUBSET Tasks]
    BY <1>1, <2>1
  <2>5. QED
    BY <1>1, <1>2, <2>1, <2>3, <2>4, PoolQueues DEF TypeOK, Pool!TypeOK
<1>7. ASSUME NEW t \in Threads, PutNew(t)
      PROVE  \E x \in held[t], q \in Queues : SetTask(t, x, q)
  BY <1>1, <1>7, NewQueue, StageOf, Owned DEF PutNew
<1>8. ASSUME NEW t \in Threads, PutCur(t)
      PROVE  \E x \in held[t], q \in Queues : SetTask(t, x, q)
  BY <1>1, <1>8, Owned, Layout DEF PutCur
<1>9. QED
  BY <1>1, <1>3, <1>4, <1>5, <1>6, <1>7, <1>8, StepKind
     DEF TypeOK, Got, Made, PutNew, PutCur, NewTask

\* those of the threads' other variables, by action.
LoopTypes ==
  /\ pc \in [Threads -> {"loop", "get", "scan", "put", "load", "store"}]
  /\ todo \in Seq(Nets)
  /\ idx \in [Workers -> Nat]
  /\ once \in [Workers -> 0..MaxRun]
  /\ cursor \in [1..3 -> Queues]
  /\ reg \in [Threads -> Queues]
  /\ conns \in [Protocol \cup HttpDetect -> Seq(Nets)]

\* A list of connections that were some of one thread's is one.
LEMMA ConnsTypes ==
  ASSUME NEW s \in Seq(Nets)
  PROVE  /\ \A k \in 1..Len(s) : SubSeq(s, k + 1, Len(s)) \in Seq(Nets)
         /\ \A i \in 1..Len(s) :
              SubSeq(s, 1, i - 1) \o SubSeq(s, i + 1, Len(s)) \in Seq(Nets)
<1>1. ASSUME NEW k \in 1..Len(s) PROVE SubSeq(s, k + 1, Len(s)) \in Seq(Nets)
  <2>1. /\ k + 1 \in Int /\ Len(s) \in Int
        /\ \A i \in (k + 1)..Len(s) : s[i] \in Nets
    OBVIOUS
  <2>2. QED
    BY <2>1, SubSeqProperties
<1>2. ASSUME NEW i \in 1..Len(s) PROVE SubSeq(s, 1, i - 1) \in Seq(Nets)
  <2>1. /\ i - 1 \in Int /\ 1 \in Int
        /\ \A j \in 1..(i - 1) : s[j] \in Nets
    OBVIOUS
  <2>2. QED
    BY <2>1, SubSeqProperties
<1>3. ASSUME NEW i \in 1..Len(s)
      PROVE  SubSeq(s, 1, i - 1) \o SubSeq(s, i + 1, Len(s)) \in Seq(Nets)
  BY <1>1, <1>2, ConcatProperties
<1>4. QED
  BY <1>1, <1>3

LEMMA LoopTypeStep ==
  ASSUME IInv, [Next]_vars
  PROVE  LoopTypes'
<1>1. TypeOK /\ Locals /\ Cursors /\ Routed /\ LoopTypes
  BY DEF IInv, TypeOK, LoopTypes
<1>2. /\ \A q \in Queues : q \in Queues
      /\ \A s \in 1..3 : cursor[s] \in Queues
      /\ \A t \in Threads \ HttpDetect : Target(t) \in 1..3
      /\ TASK_HOME = 0 /\ 0 \in Queues /\ MaxRun \in Nat
  BY <1>1, Targets, Layout, PipelineAssumption DEF TypeOK, TASK_HOME
<1> USE <1>1 DEF LoopTypes, Goto
<1>3. CASE dispatcher
  <2>1. CASE do_dispatcher
    BY <2>1, PipelineAssumption DEF do_dispatcher
  <2>2. CASE create_task
    <3>1. Tail(todo) \in Seq(Nets)
      BY <2>2 DEF create_task
    <3>2. cursor[1] \in Queues
      BY <1>2
    <3>3. todo' \in Seq(Nets) /\ UNCHANGED <<idx, once, cursor, conns>>
      BY <2>2, <3>1 DEF create_task
    <3>4. reg' \in [Threads -> Queues]
      BY <2>2, <3>2 DEF create_task
    <3>5. pc' \in [Threads -> {"loop", "get", "scan", "put", "load", "store"}]
      BY <2>2 DEF create_task
    <3>6. QED
      BY <3>3, <3>4, <3>5
  <2>3. CASE push_task
    <3>1. Wrapped(1, cursor[1]) \in Queues
      BY StageOf DEF Cursors
    <3>2. Tail(todo) \in Seq(Nets)
      BY <2>3 DEF push_task, Locals
    <3>3. QED
      BY <2>3, <3>1, <3>2 DEF push_task
  <2>4. CASE dispatched
    BY <2>4 DEF dispatched
  <2>5. QED
    BY <1>3, <2>1, <2>2, <2>3, <2>4 DEF dispatcher
<1>4. ASSUME NEW t \in Workers, worker(t) \/ close_conn(t) \/ http_answer(t)
      PROVE  LoopTypes'
  <2>1. t \in Threads /\ (t \in Port \/ t \in Protocol \cup HttpDetect)
    BY Layout
  <2>2. t \in Protocol \cup HttpDetect => t \notin Port /\ conns[t] \in Seq(Nets)
    BY Layout
  <2>3. CASE svc_timeout(t)
    <3>1. CASE UNCHANGED conns
      BY <2>3, <3>1 DEF svc_timeout
    <3>2. CASE t \notin Port /\ \E k \in 1..Len(conns[t]) :
                 conns' = [conns EXCEPT ![t] = SubSeq(@, k + 1, Len(@))]
      BY <2>1, <2>2, <2>3, <3>2, ConnsTypes DEF svc_timeout
    <3>3. QED
      BY <2>3, <3>1, <3>2 DEF svc_timeout
  <2>4. CASE check_task(t)
    <3>1. once[t] + 1 \in 0..MaxRun
      BY <1>2, <2>4 DEF check_task
    <3>2. QED
      BY <2>4, <3>1 DEF check_task
  <2>5. CASE end_check(t)
    <3>1. 0 \in 0..MaxRun
      BY <1>2
    <3>2. QED
      BY <2>5, <3>1 DEF end_check
  <2>6. CASE finish_task(t)
    BY <2>6 DEF finish_task
  <2>7. CASE port_scan(t)
    <3>1. Target(t) \in 1..3 /\ cursor[Target(t)] \in Queues
      BY <1>2, <2>1, <2>7, Layout DEF port_scan
    <3>2. idx[t] + 1 \in Nat
      OBVIOUS
    <3>3. CASE emit(t, base[cur[t]].net) /\ UNCHANGED idx
      BY <2>7, <3>1, <3>3 DEF port_scan, emit
    <3>4. CASE idx' = [idx EXCEPT ![t] = @ + 1] /\ UNCHANGED <<reg, pc>>
      BY <2>7, <3>2, <3>4 DEF port_scan
    <3>5. QED
      BY <2>7, <3>3, <3>4 DEF port_scan
  <2>8. CASE open(t)
    <3>1. pc[t] = "scan" /\ cur[t] # NoTask
      BY <2>1, <2>8 DEF open, Locals, Scanning
    <3>2. base[cur[t]].net \in Nets
      BY <3>1, ScannedNet
    <3>3. t \in Protocol \cup HttpDetect
      BY <2>1, <2>8 DEF open
    <3>4. Append(conns[t], base[cur[t]].net) \in Seq(Nets)
      BY <2>2, <3>2, <3>3
    <3>5. idx' \in [Workers -> Nat]
      BY <2>8 DEF open
    <3>6. conns' \in [Protocol \cup HttpDetect -> Seq(Nets)]
      BY <2>8, <3>3, <3>4 DEF open
    <3>7. QED
      BY <2>8, <3>5, <3>6 DEF open
  <2>9. CASE put(t)
    BY <2>9 DEF put
  <2>10. CASE load(t)
    <3>1. cursor[Target(t)] \in Queues
      BY <1>2, <2>1, <2>10 DEF load, Locals
    <3>2. QED
      BY <2>10, <3>1 DEF load
  <2>11. CASE store(t)
    <3>1. Target(t) \in 1..3 /\ Wrapped(Target(t), reg[t]) \in Queues
      BY <1>2, <2>1, <2>11, StageOf DEF store, Locals, Cursors
    <3>2. idx' \in [Workers -> Nat]
      <4>1. idx[t] + 1 \in Nat
        OBVIOUS
      <4>2. idx' = [idx EXCEPT ![t] = @ + 1] \/ UNCHANGED idx
        BY <2>11 DEF store
      <4>3. QED
        BY <4>1, <4>2
    <3>3. cursor' \in [1..3 -> Queues] /\ reg' \in [Threads -> Queues]
      BY <1>2, <2>11, <3>1 DEF store
    <3>4. pc' \in [Threads -> {"loop", "get", "scan", "put", "load", "store"}]
      BY <2>11 DEF store
    <3>5. QED
      BY <2>11, <3>2, <3>3, <3>4 DEF store
  <2>12. CASE close_conn(t)
    BY <2>1, <2>2, <2>12, ConnsTypes DEF close_conn, Closed
  <2>13. CASE http_answer(t)
    <3>1. t \in Protocol /\ cursor[Target(t)] \in Queues
      BY <1>2, <2>13, Targets DEF http_answer
    <3>2. conns' \in [Protocol \cup HttpDetect -> Seq(Nets)]
      BY <2>2, <2>13, <3>1, ConnsTypes DEF http_answer, Closed
    <3>3. QED
      BY <1>2, <2>13, <3>1, <3>2 DEF http_answer, emit
  <2>14. QED
    BY <1>4, <2>3, <2>4, <2>5, <2>6, <2>7, <2>8, <2>9, <2>10, <2>11, <2>12, <2>13 DEF worker
<1>5. CASE UNCHANGED vars
  BY <1>5 DEF vars
<1>6. QED
  BY <1>3, <1>4, <1>5 DEF Next

LEMMA TypeStep ==
  ASSUME IInv, [Next]_vars
  PROVE  TypeOK'
BY TaskTypes, LoopTypeStep DEF TypeOK, LoopTypes

-----------------------------------------------------------------------------
(* The threads' variables.                                                 *)

\* A cursor seen by any thread, at any moment, is in its stage's range.
LEMMA CursorStep ==
  ASSUME IInv, [Next]_vars
  PROVE  Cursors'
<1>1. TypeOK /\ Locals /\ Cursors /\ LoopTypes
  BY DEF IInv, TypeOK, LoopTypes
<1>2. /\ \A s \in 1..3 : cursor[s] \in First(s)..Last(s)
      /\ \A t \in Threads : pc[t] \in {"put", "store"} =>
           reg[t] \in First(Target(t))..Last(Target(t))
      /\ \A t \in Threads \ HttpDetect : Target(t) \in 1..3
      /\ \A s \in 1..3 : \A q \in First(s)..Last(s) : Wrapped(s, q) \in First(s)..Last(s)
      /\ pc \in [Threads -> {"loop", "get", "scan", "put", "load", "store"}]
      /\ cursor \in [1..3 -> Queues] /\ reg \in [Threads -> Queues]
      /\ \A t \in Threads : pc[t] \in {"put", "load", "store"} => t \notin HttpDetect
  BY <1>1, Targets, StageOf DEF Cursors, LoopTypes, Locals
<1> USE DEF Goto
<1>3. CASE dispatcher
  <2>1. Dispatcher \in Threads /\ Target(Dispatcher) = 1
    BY Layout, Targets
  <2>2. CASE do_dispatcher
    BY <1>2, <2>1, <2>2 DEF do_dispatcher, Cursors
  <2>3. CASE create_task
    <3>1. cursor[1] \in First(1)..Last(1) /\ cursor' = cursor
      BY <1>2, <2>3 DEF create_task
    <3>2. CASE UNCHANGED <<reg, pc>>
      BY <1>2, <3>1, <3>2 DEF Cursors
    <3>3. CASE reg' = [reg EXCEPT ![Dispatcher] = cursor[1]] /\ Goto(Dispatcher, "put")
      BY <1>2, <2>1, <3>1, <3>3 DEF Cursors
    <3>4. QED
      BY <2>3, <3>2, <3>3 DEF create_task
  <2>4. CASE push_task
    BY <1>2, <2>1, <2>4 DEF push_task, Cursors
  <2>5. CASE dispatched
    BY <1>2, <2>1, <2>5 DEF dispatched, Cursors
  <2>6. QED
    BY <1>3, <2>2, <2>3, <2>4, <2>5 DEF dispatcher
<1>4. ASSUME NEW t \in Workers, worker(t) \/ close_conn(t) \/ http_answer(t)
      PROVE  Cursors'
  <2>1. t \in Threads
    BY Layout
  <2>2. CASE svc_timeout(t) \/ check_task(t) \/ end_check(t) \/ finish_task(t) \/ put(t)
    BY <1>2, <2>1, <2>2
       DEF svc_timeout, check_task, end_check, finish_task, put, Cursors
  <2>3. CASE open(t) \/ close_conn(t)
    BY <1>2, <2>3 DEF open, close_conn, Cursors
  <2>4. CASE port_scan(t)
    <3>1. t \in Threads \ HttpDetect
      BY <2>1, <2>4, Layout DEF port_scan
    <3>2. QED
      BY <1>2, <2>4, <3>1 DEF port_scan, emit, Cursors
  <2>5. CASE http_answer(t)
    <3>1. t \in Threads \ HttpDetect
      BY <2>1, <2>5, Layout DEF http_answer
    <3>2. QED
      BY <1>2, <2>5, <3>1 DEF http_answer, emit, Cursors
  <2>6. CASE load(t)
    BY <1>2, <2>1, <2>6 DEF load, Cursors
  <2>7. CASE store(t)
    <3>1. /\ Target(t) \in 1..3
          /\ Wrapped(Target(t), reg[t]) \in First(Target(t))..Last(Target(t))
      BY <1>2, <2>1, <2>7 DEF store
    <3>2. QED
      BY <1>2, <2>1, <2>7, <3>1 DEF store, Cursors
  <2>8. QED
    BY <1>4, <2>2, <2>3, <2>4, <2>5, <2>6, <2>7 DEF worker
<1>5. CASE UNCHANGED vars
  BY <1>2, <1>5 DEF vars, Cursors
<1>6. QED
  BY <1>3, <1>4, <1>5 DEF Next

\* Which variables name a task follows where the thread is.
LEMMA LocalStep ==
  ASSUME IInv, [Next]_vars
  PROVE  Locals'
<1> DEFINE Right(t) ==
      /\ pc[t] \in {"put", "load", "store"} => t \notin HttpDetect
      /\ new[t] # NoTask <=> pc[t] = "put"
      /\ cur[t] # NoTask <=> t \in Workers /\ Scanning(t)
      /\ cur[t] = new[t] => cur[t] = NoTask
<1>1. /\ Pool!TypeOK /\ Pool!Apart /\ TypeOK /\ Locals /\ HoldsWhatItNames
      /\ pc \in [Threads -> {"loop", "get", "scan", "put", "load", "store"}]
      /\ cur \in [Threads -> Tasks \cup {NoTask}] /\ new \in [Threads -> Tasks \cup {NoTask}]
      /\ \A t \in Threads : Right(t)
      /\ pc[Dispatcher] \in {"loop", "scan", "put"}
      /\ pc[Dispatcher] = "put" => todo # <<>>
      /\ NoTask \notin Tasks
  BY PipelineAssumption DEF IInv, TypeOK, Locals
<1>2. Dispatcher \in Threads /\ Dispatcher \notin Workers /\ Dispatcher \notin HttpDetect
  BY Layout
\* A task just got for filling in is not the one being scanned.
<1>3. ASSUME NEW t \in Threads, NEW x \in Tasks, NEW job, NewTask(t, x, job)
      PROVE  /\ new' = [new EXCEPT ![t] = x] /\ x # NoTask /\ cur[t] # x
  <2>1. x \notin held[t]
    BY <1>1, <1>3, MakeEffects
  <2>2. QED
    BY <1>1, <1>3, <2>1, Owned DEF NewTask
<1> USE DEF Goto, Scanning
<1>4. CASE dispatcher
  <2>1. \A t \in Threads : t # Dispatcher => Right(t)'
    <3> SUFFICES ASSUME NEW t \in Threads, t # Dispatcher
                 PROVE  pc'[t] = pc[t] /\ new'[t] = new[t] /\ cur'[t] = cur[t]
      BY <1>1
    <3>1. CASE do_dispatcher \/ push_task \/ dispatched
      BY <1>1, <3>1 DEF do_dispatcher, push_task, dispatched
    <3>2. CASE create_task
      BY <1>1, <3>2 DEF create_task, NewTask, NoNewTask
    <3>3. QED
      BY <1>4, <3>1, <3>2 DEF dispatcher
  <2>2. /\ Right(Dispatcher)'
        /\ pc'[Dispatcher] \in {"loop", "scan", "put"}
        /\ pc'[Dispatcher] = "put" => todo' # <<>>
    <3>1. CASE do_dispatcher
      BY <1>1, <1>2, <3>1 DEF do_dispatcher
    <3>2. CASE create_task
      <4>1. CASE \E x \in Tasks : NewTask(Dispatcher, x, [stage |-> 1, net |-> Head(todo)])
                 /\ Goto(Dispatcher, "put") /\ UNCHANGED <<todo, cur>> /\ todo # <<>>
        BY <1>1, <1>2, <1>3, <4>1
      <4>2. CASE UNCHANGED <<new, cur, pc>> /\ pc[Dispatcher] = "scan"
        BY <1>1, <1>2, <4>2
      <4>3. QED
        BY <3>2, <4>1, <4>2 DEF create_task, NoNewTask
    <3>3. CASE push_task
      BY <1>1, <1>2, <3>3 DEF push_task
    <3>4. CASE dispatched
      BY <1>1, <1>2, <3>4 DEF dispatched
    <3>5. QED
      BY <1>4, <3>1, <3>2, <3>3, <3>4 DEF dispatcher
  <2>3. QED
    BY <2>1, <2>2 DEF Locals
<1>5. ASSUME NEW t \in Workers, worker(t) \/ close_conn(t) \/ http_answer(t)
      PROVE  Locals'
  <2>1. /\ t \in Threads /\ t # Dispatcher
        /\ t \in Port => t \notin HttpDetect /\ t \notin Protocol
        /\ t \in Protocol => t \notin HttpDetect
    BY Layout
  <2>2. \A u \in Threads : u # t =>
          pc'[u] = pc[u] /\ new'[u] = new[u] /\ cur'[u] = cur[u]
    <3>1. CASE \/ svc_timeout(t) \/ check_task(t) \/ end_check(t) \/ finish_task(t)
               \/ open(t) \/ put(t) \/ load(t) \/ store(t) \/ close_conn(t)
      BY <1>1, <3>1 DEF svc_timeout, check_task, end_check, finish_task, open, put,
                        load, store, close_conn
    <3>2. CASE port_scan(t) \/ http_answer(t)
      BY <1>1, <3>2 DEF port_scan, http_answer, emit, NewTask, NoNewTask
    <3>3. QED
      BY <1>5, <3>1, <3>2 DEF worker
  <2>3. UNCHANGED todo
    BY <1>5 DEF worker, svc_timeout, check_task, end_check, finish_task, open, put,
                load, store, close_conn, port_scan, http_answer
  <2>4. Right(t)'
    <3>1. CASE svc_timeout(t) \/ end_check(t) \/ load(t) \/ open(t) \/ close_conn(t)
      BY <1>1, <2>1, <3>1 DEF svc_timeout, end_check, load, open, close_conn
    <3>2. CASE check_task(t)
      <4>1. Head(queue[t]) \in Tasks
        BY <1>1, <3>2, GotEffects DEF check_task
      <4>2. QED
        BY <1>1, <2>1, <3>2, <4>1 DEF check_task
    <3>3. CASE finish_task(t) \/ put(t) \/ store(t)
      BY <1>1, <2>1, <3>3 DEF finish_task, put, store
    <3>4. CASE port_scan(t)
      <4>1. CASE emit(t, base[cur[t]].net)
        BY <1>1, <1>3, <2>1, <3>4, <4>1 DEF port_scan, emit
      <4>2. CASE UNCHANGED <<new, pc>>
        BY <1>1, <2>1, <3>4, <4>2 DEF port_scan
      <4>3. QED
        BY <3>4, <4>1, <4>2 DEF port_scan, NoNewTask
    <3>5. CASE http_answer(t)
      <4>1. CASE \E net : emit(t, net)
        BY <1>1, <1>3, <2>1, <3>5, <4>1 DEF http_answer, emit
      <4>2. CASE UNCHANGED <<new, pc>>
        BY <1>1, <2>1, <3>5, <4>2 DEF http_answer
      <4>3. QED
        BY <3>5, <4>1, <4>2 DEF http_answer, NoNewTask
    <3>6. QED
      BY <1>5, <3>1, <3>2, <3>3, <3>4, <3>5 DEF worker
  <2>5. QED
    BY <1>1, <2>1, <2>2, <2>3, <2>4, <1>2 DEF Locals
<1>6. CASE UNCHANGED vars
  BY <1>1, <1>6 DEF vars, Locals
<1>7. QED
  BY <1>4, <1>5, <1>6 DEF Next

-----------------------------------------------------------------------------
LEMMA InitInv == Init => IInv
<1> SUFFICES ASSUME Init PROVE IInv
  OBVIOUS
<1>1. Pool!TypeOK /\ Pool!OnePlace
  BY PipelineAssumption, Layout, PoolQueues, Pool!InitPlace
     DEF Init, Pool!PoolAssumption
<1>2. TypeOK
  <2>1. \A s \in 1..3 : First(s) \in Queues
    BY FirstInRange, StageOf
  <2>2. 0 \in Queues /\ 0 \in 0..MaxRun /\ 0 \in 0..MaxFaults /\ <<>> \in Seq(Nets)
    BY Layout, PipelineAssumption DEF TASK_HOME
  <2>3. QED
    BY <1>1, <2>1, <2>2 DEF Init, TypeOK
<1>3. Locals
  BY Layout DEF Init, Locals, Scanning
<1>4. Cursors
  BY FirstInRange DEF Init, Cursors
<1>5. HoldsWhatItNames
  BY <1>2 DEF Init, HoldsWhatItNames, Pool!Init
<1>6. Routed
  BY Layout, PoolQueues DEF Init, Routed, StageRouting, Pool!Init
<1>7. IsFiniteSet(lost) /\ LostOnlyByTimeout
  <2>1. IsFiniteSet(lost) /\ Cardinality(lost) = 0
    BY FS_EmptySet DEF Init
  <2>2. \A x \in Tasks : x \in fresh \/ Pool!Linked(x)
    BY <1>1 DEF Pool!OnePlace, Pool!Accounted, Init, Pool!Init
  <2>3. QED
    BY <2>1, <2>2, LostIs DEF Init
<1>8. QED
  BY <1>1, <1>2, <1>3, <1>4, <1>5, <1>6, <1>7 DEF IInv, Pool!OnePlace, Pool!Apart

LEMMA InvStep == IInv /\ [Next]_vars => IInv'
<1> SUFFICES ASSUME IInv, [Next]_vars PROVE IInv'
  OBVIOUS
<1>1. TypeOK' /\ Locals' /\ Cursors' /\ Pool!Apart' /\ Routed'
  BY TypeStep, LocalStep, CursorStep, ApartStep, RoutedStep
<1>2. HoldsWhatItNames'
  BY <1>1, HoldsStep DEF HoldsWhatItNames
<1>3. IsFiniteSet(lost') /\ LostOnlyByTimeout'
  BY LostStep
<1>4. QED
  BY <1>1, <1>2, <1>3 DEF IInv

(* The inductive invariant of the pipeline holds in every reachable state, *)
(* for every number of threads in the plugins, of tasks and of timeouts.   *)
THEOREM Inductive == Spec => []IInv
BY InitInv, InvStep, PTL DEF Spec

(* Whatever the threads of a plugin make of the cursor they share, a task  *)
(* reaches only the plugin it was made for: a racing store can skip queues *)
(* or use one twice, but never leave the stage.                            *)
THEOREM TasksReachTheirStage == Spec => []StageRouting
<1>1. IInv => StageRouting
  BY DEF IInv, Routed
<1>2. QED
  BY <1>1, Inductive, PTL

(* On every path through check_task, do_scan, get_http_task and            *)
(* create_task a thread holds what its variables name and nothing else.    *)
THEOREM NothingForgotten == Spec => []HoldsWhatItNames
<1>1. IInv => HoldsWhatItNames
  BY DEF IInv
<1>2. QED
  BY <1>1, Inductive, PTL

(* A node is lost only by a vfs_set_task whose lock timed out, one each    *)
(* time: with every other step of every thread it stays on a queue, with a *)
(* holder or in the heap.                                                  *)
THEOREM LossNeedsTimeout == Spec => []LostOnlyByTimeout
<1>1. IInv => LostOnlyByTimeout
  BY DEF IInv
<1>2. QED
  BY <1>1, Inductive, PTL

(* While a thread scans a task no step, of whichever thread, writes that   *)
(* task's base.                                                            *)
THEOREM ScanIsUndisturbed == Spec => ScanUndisturbed
<1> DEFINE Same == \A t \in Workers :
                     cur[t] # NoTask /\ cur'[t] = cur[t] => base'[cur[t]] = base[cur[t]]
<1>1. ASSUME IInv, [Next]_vars PROVE [Same]_vars
  <2>1. ASSUME NEW t \in Threads, Made(t) PROVE Same
    BY <1>1, <2>1, BaseKept, Layout
  <2>2. CASE base' = base
    BY <2>2
  <2>3. QED
    BY <1>1, <2>1, <2>2, StepKind DEF Quiet, Got, PutNew, PutCur
<1>2. QED
  BY <1>1, Inductive, PTL DEF Spec, ScanUndisturbed

(* Composition with the pool: a step of the pipeline that changes the pool *)
(* is a step of TaskPool's contract, which TaskQueue implements, or the    *)
(* loss of one node that a timed out vfs_set_task left with nobody.        *)
THEOREM UsesThePool ==
  Spec => Pool!Init /\ [][Pool!Next \/ lost' # lost]_(Pool!poolVars)
<1>1. ASSUME IInv, [Next]_vars
      PROVE  [Pool!Next \/ lost' # lost]_(Pool!poolVars)
  <2>1. /\ Pool!TypeOK /\ Pool!Apart /\ TypeOK /\ Locals /\ HoldsWhatItNames
    BY <1>1 DEF IInv, TypeOK
  <2>2. CASE Quiet
    BY <2>2 DEF Quiet, Pool!poolVars
  <2>3. ASSUME NEW t \in Threads, Got(t) PROVE Pool!Next
    BY <2>3, Layout, PoolQueues DEF Got, Pool!Next
  <2>4. ASSUME NEW t \in Threads, Made(t) PROVE Pool!Next
    BY <2>4, Layout, PoolQueues DEF Made, NewTask, Pool!Next
  <2>5. ASSUME NEW t \in Threads, NEW x \in held[t], NEW q \in Queues, SetTask(t, x, q)
        PROVE  Pool!Next \/ lost' # lost
    <3>1. x \in Tasks
      BY <2>1 DEF Pool!TypeOK
    <3>2. CASE Pool!Put(t, x, q)
      BY <3>1, <3>2, PoolQueues DEF Pool!Next
    <3>3. CASE lost' = lost \cup {x}
      BY <1>1, <3>1, <3>3 DEF IInv, LostOnlyByTimeout
    <3>4. QED
      BY <2>5, <3>2, <3>3 DEF SetTask
  <2>6. ASSUME NEW t \in Threads, PutNew(t)
        PROVE  \E x \in held[t], q \in Queues : SetTask(t, x, q)
    BY <2>1, <2>6, NewQueue, StageOf, Owned DEF PutNew
  <2>7. ASSUME NEW t \in Threads, PutCur(t)
        PROVE  \E x \in held[t], q \in Queues : SetTask(t, x, q)
    BY <2>1, <2>7, Owned, Layout DEF PutCur
  <2>8. QED
    BY <1>1, <2>2, <2>3, <2>4, <2>5, <2>6, <2>7, StepKind
<1>2. Init => Pool!Init
  BY DEF Init
<1>3. QED
  BY <1>1, <1>2, Inductive, PTL DEF Spec

=============================================================================
