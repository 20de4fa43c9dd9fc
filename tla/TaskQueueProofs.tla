-------------------------- MODULE TaskQueueProofs --------------------------
(***************************************************************************)
(* Proofs about TaskQueue.tla, for any threads, nodes and queues.          *)
(***************************************************************************)
EXTENDS TaskQueue, TLAPS

\* Where a call is, for the case splits below.
LEMMA PcNames ==
  /\ InGet = {"get_scan", "get_del"}
  /\ InSet = {"set_link", "set_count"}
  /\ Critical = {"get_scan", "get_del", "set_link", "set_count", "unlock"}
BY DEF InGet, InSet, Critical

\* Queue 0 exists and an argument that passes the range check is a queue.
LEMMA QueueRange ==
  /\ TASK_HOME \in Queues
  /\ \A q \in Statuses : InRange(q) => q \in Queues
  /\ \A q \in Queues : q \in 0..MAX_TASK_QUEUE
  /\ MAX_TASK_QUEUE \in 0..MAX_TASK_QUEUE
BY QueueAssumption DEF TASK_HOME, Queues, Statuses, InRange, MAX_TASK_QUEUE

\* The node a call is about is a node, when the call is about to use it.
LEMMA NodeInUse ==
  ASSUME TypeOK, CallShape, NEW t \in Threads,
         pc[t] \in {"get_del", "set_link", "set_count"}
  PROVE  node[t] \in Tasks
<1>1. arg[t] \in Queues /\ queue[arg[t]] \in Seq(Tasks) /\ held[t] \subseteq Tasks
  BY DEF TypeOK
<1>2. CASE pc[t] = "get_del"
  BY <1>1, <1>2 DEF CallShape
<1>3. CASE pc[t] = "set_link"
  BY <1>1, <1>3 DEF CallShape
<1>4. CASE pc[t] = "set_count"
  BY <1>1, <1>4 DEF CallShape
<1>5. QED
  BY <1>2, <1>3, <1>4

\* A held node is on no list, so the list_del_init at the head of
\* vfs_set_task leaves every list alone.
LEMMA UnlinkHeld ==
  ASSUME TypeOK, OnePlace, NEW t \in Threads, NEW x \in held[t], NEW q \in Queues
  PROVE  Unlink(queue[q], x) = queue[q]
<1>1. \A i \in 1..Len(queue[q]) : queue[q][i] # x
  BY DEF OnePlace, Pool!OnePlace, Pool!HeldApart, Pool!Linked, Pool!Queues, Queues
<1>2. queue[q] \in Seq(Tasks)
  BY DEF TypeOK
<1>3. x \notin Range(queue[q])
  BY <1>1, <1>2 DEF Range
<1>4. QED
  BY <1>3 DEF Unlink

-----------------------------------------------------------------------------
(* Initially.                                                              *)
LEMMA InitInv == Init => IInv
<1> SUFFICES ASSUME Init PROVE IInv
  OBVIOUS
<1>1. TypeOK
  BY QueueAssumption, QueueRange DEF Init, TypeOK, Results
<1>2. LockOwner
  BY QueueAssumption, PcNames DEF Init, LockOwner
<1>3. CallShape
  BY PcNames DEF Init, CallShape
<1>4. OnePlace
  <2>1. queue = [q \in Queues |-> IF q = TASK_HOME THEN HomeSeq ELSE <<>>]
    BY DEF Init
  <2>2. \A q \in Queues : \A i \in 1..Len(queue[q]) :
          q = TASK_HOME /\ queue[q][i] = HomeSeq[i] /\ i \in 1..Len(HomeSeq)
    BY <2>1, QueueAssumption
  <2>3. \A i \in 1..Len(HomeSeq) : i \in 1..Len(queue[TASK_HOME])
    BY <2>1, QueueRange
  <2>4. queue[TASK_HOME] = HomeSeq
    BY <2>1, QueueRange
  <2>5. Pool!NoDuplicates
    BY <2>2, QueueAssumption DEF Pool!NoDuplicates, Pool!Queues, Queues
  <2>6. Pool!HeldApart
    BY <2>2 DEF Init, Pool!HeldApart, Pool!Linked, Pool!Queues, Queues
  <2>7. Pool!Accounted
    BY <2>3, <2>4, QueueRange DEF Init, Pool!Accounted, Pool!Linked, Pool!Queues, Queues
  <2>8. QED
    BY <2>5, <2>6, <2>7 DEF OnePlace, Pool!OnePlace
<1>5. QED
  BY <1>1, <1>2, <1>3, <1>4 DEF IInv

-----------------------------------------------------------------------------
(* One step.  The whole of IInv is assumed, one conjunct is re-established *)
(* at a time.                                                              *)
LEMMA TypeStep == IInv /\ [Next]_vars => TypeOK'
<1> SUFFICES ASSUME IInv, [Next]_vars PROVE TypeOK'
  OBVIOUS
<1>1. TypeOK /\ CallShape
  BY DEF IInv
<1> USE <1>1 DEF TypeOK, Results, Goto, Return
<1>2. ASSUME NEW t \in Threads, NEW q \in Statuses, CallGet(t, q)
      PROVE  TypeOK'
  <2>1. CASE InRange(q)
    BY <1>2, <2>1, QueueRange DEF CallGet
  <2>2. CASE ~InRange(q)
    BY <1>2, <2>2 DEF CallGet
  <2>3. QED
    BY <2>1, <2>2
<1>3. ASSUME NEW t \in Threads, NEW x \in Tasks, NEW q \in Statuses,
             CallSet(t, x, q)
      PROVE  TypeOK'
  <2>1. CASE InRange(q)
    <3>1. q \in Queues
      BY <2>1, QueueRange
    <3>2. /\ call' = [call EXCEPT ![t] = "set"]
          /\ node' = [node EXCEPT ![t] = x]
          /\ arg' = [arg EXCEPT ![t] = q]
          /\ ret' = [ret EXCEPT ![t] = "none"]
          /\ pc' = [pc EXCEPT ![t] = "lock"]
          /\ UNCHANGED <<queue, taskcount, status, mutex, fresh, held>>
      BY <1>3, <2>1 DEF CallSet
    <3>3. QED
      BY <3>1, <3>2
  <2>2. CASE ~InRange(q)
    BY <1>3, <2>2 DEF CallSet
  <2>3. QED
    BY <2>1, <2>2
<1>4. ASSUME NEW t \in Threads, Lock(t) PROVE TypeOK'
  BY <1>4, PcNames DEF Lock
<1>5. ASSUME NEW t \in Threads, LockTimeout(t) PROVE TypeOK'
  BY <1>5 DEF LockTimeout
<1>6. ASSUME NEW t \in Threads, GetHead(t) PROVE TypeOK'
  <2>1. Head(queue[arg[t]]) \in Tasks
    BY <1>6 DEF GetHead
  <2>2. QED
    BY <1>6, <2>1, PcNames, QueueRange DEF GetHead
<1>7. ASSUME NEW t \in Threads, GetDel(t) PROVE TypeOK'
  <2>1. node[t] \in Tasks /\ Tail(queue[arg[t]]) \in Seq(Tasks)
    BY <1>7, NodeInUse DEF GetDel, CallShape
  <2>2. QED
    BY <1>7, <2>1, PcNames DEF GetDel
<1>8. ASSUME NEW t \in Threads, GetMalloc(t) PROVE TypeOK'
  BY <1>8, PcNames, QueueRange DEF GetMalloc
<1>9. ASSUME NEW t \in Threads, GetNothing(t) PROVE TypeOK'
  BY <1>9, PcNames DEF GetNothing
<1>10. ASSUME NEW t \in Threads, SetLink(t) PROVE TypeOK'
  <2>1. node[t] \in held[t] /\ node[t] \in Tasks
    BY <1>10, NodeInUse DEF SetLink, CallShape
  <2>2. \A q \in Queues : Unlink(queue[q], node[t]) \in Seq(Tasks)
    BY <2>1, UnlinkHeld DEF IInv
  <2>3. QED
    BY <1>10, <2>1, <2>2, PcNames DEF SetLink
<1>11. ASSUME NEW t \in Threads, SetCount(t) PROVE TypeOK'
  <2>1. node[t] \in Tasks
    BY <1>11, NodeInUse DEF SetCount
  <2>2. QED
    BY <1>11, <2>1, PcNames, QueueRange DEF SetCount
<1>12. ASSUME NEW t \in Threads, Unlock(t) PROVE TypeOK'
  BY <1>12 DEF Unlock
<1>13. CASE UNCHANGED vars
  BY <1>13 DEF vars
<1>14. QED
  BY <1>2, <1>3, <1>4, <1>5, <1>6, <1>7, <1>8, <1>9, <1>10, <1>11, <1>12, <1>13
     DEF Next, Step

\* A thread enters a critical section by taking a free mutex and leaves it by
\* freeing its own.
LEMMA LockStep == IInv /\ [Next]_vars => LockOwner'
<1> SUFFICES ASSUME IInv, [Next]_vars PROVE LockOwner'
  OBVIOUS
<1>1. TypeOK /\ LockOwner
  BY DEF IInv
<1> USE <1>1, PcNames, QueueAssumption DEF TypeOK, LockOwner, Goto
<1>2. ASSUME NEW t \in Threads, NEW q \in Statuses, CallGet(t, q)
      PROVE  LockOwner'
  BY <1>2 DEF CallGet
<1>3. ASSUME NEW t \in Threads, NEW x \in Tasks, NEW q \in Statuses,
             CallSet(t, x, q)
      PROVE  LockOwner'
  BY <1>3 DEF CallSet
<1>4. ASSUME NEW t \in Threads, Lock(t) PROVE LockOwner'
  BY <1>4 DEF Lock
<1>5. ASSUME NEW t \in Threads, LockTimeout(t) PROVE LockOwner'
  BY <1>5 DEF LockTimeout
<1>6. ASSUME NEW t \in Threads,
             GetHead(t) \/ GetDel(t) \/ GetMalloc(t) \/ GetNothing(t)
      PROVE  LockOwner'
  BY <1>6 DEF GetHead, GetDel, GetMalloc, GetNothing
<1>7. ASSUME NEW t \in Threads, SetLink(t) \/ SetCount(t) PROVE LockOwner'
  BY <1>7 DEF SetLink, SetCount
<1>8. ASSUME NEW t \in Threads, Unlock(t) PROVE LockOwner'
  BY <1>8 DEF Unlock
<1>9. CASE UNCHANGED vars
  BY <1>9 DEF vars
<1>10. QED
  BY <1>2, <1>3, <1>4, <1>5, <1>6, <1>7, <1>8, <1>9 DEF Next, Step

-----------------------------------------------------------------------------
(* The critical sections against the contract: GetDel, GetMalloc and       *)
(* SetLink are the steps Take, Alloc and Put, every other step leaves the  *)
(* nodes where they are.                                                   *)
LEMMA DelIsTake ==
  ASSUME IInv, NEW t \in Threads, GetDel(t)
  PROVE  arg[t] \in Queues /\ Pool!Take(t, arg[t])
<1>1. arg[t] \in Queues /\ queue[arg[t]] # <<>> /\ node[t] = Head(queue[arg[t]])
  BY DEF IInv, TypeOK, CallShape, GetDel
<1>2. QED
  BY <1>1 DEF GetDel, Pool!Take

LEMMA MallocIsAlloc ==
  ASSUME IInv, NEW t \in Threads, GetMalloc(t)
  PROVE  \E x \in Tasks : Pool!Alloc(t, x)
BY DEF IInv, TypeOK, GetMalloc, Pool!Alloc, Pool!TASK_HOME, TASK_HOME

LEMMA LinkIsPut ==
  ASSUME IInv, NEW t \in Threads, SetLink(t)
  PROVE  /\ node[t] \in held[t] /\ node[t] \in Tasks /\ arg[t] \in Queues
         /\ Pool!Put(t, node[t], arg[t])
<1>1. node[t] \in held[t] /\ node[t] \in Tasks /\ arg[t] \in Queues
  BY DEF IInv, TypeOK, CallShape, SetLink
<1>2. \A q \in Queues : Unlink(queue[q], node[t]) = queue[q]
  BY <1>1, UnlinkHeld DEF IInv
<1>3. queue' = [queue EXCEPT ![arg[t]] = Append(@, node[t])]
  BY <1>1, <1>2 DEF SetLink, IInv, TypeOK
<1>4. QED
  BY <1>1, <1>3 DEF SetLink, Pool!Put

LEMMA OtherSteps ==
  ASSUME NEW t \in Threads,
         \/ \E q \in Statuses : CallGet(t, q)
         \/ \E x \in Tasks, q \in Statuses : CallSet(t, x, q)
         \/ Lock(t) \/ LockTimeout(t) \/ GetHead(t) \/ GetNothing(t)
         \/ SetCount(t) \/ Unlock(t)
  PROVE  UNCHANGED <<queue, held, fresh>>
BY DEF CallGet, CallSet, Lock, LockTimeout, GetHead, GetNothing, SetCount, Unlock

LEMMA StepRefines == IInv /\ [Next]_vars => [Pool!Next]_<<queue, held, fresh>>
<1> SUFFICES ASSUME IInv, [Next]_vars
             PROVE  Pool!Next \/ UNCHANGED <<queue, held, fresh>>
  OBVIOUS
<1>1. ASSUME NEW t \in Threads, GetDel(t) PROVE Pool!Next
  BY <1>1, DelIsTake DEF Pool!Next, Pool!Queues, Queues
<1>2. ASSUME NEW t \in Threads, GetMalloc(t) PROVE Pool!Next
  BY <1>2, MallocIsAlloc DEF Pool!Next
<1>3. ASSUME NEW t \in Threads, SetLink(t) PROVE Pool!Next
  BY <1>3, LinkIsPut DEF Pool!Next, Pool!Queues, Queues
<1>4. CASE UNCHANGED vars
  BY <1>4 DEF vars
<1>5. QED
  BY <1>1, <1>2, <1>3, <1>4, OtherSteps DEF Next, Step

\* So the contract's lemmas carry over.
LEMMA PlaceStep == IInv /\ [Next]_vars => OnePlace'
<1> SUFFICES ASSUME IInv, [Next]_vars PROVE OnePlace'
  OBVIOUS
<1>1. Pool!TypeOK /\ Pool!OnePlace
  BY DEF IInv, TypeOK, OnePlace, Pool!TypeOK, Pool!Queues, Queues
<1>2. Pool!PoolAssumption
  BY QueueAssumption DEF Pool!PoolAssumption
<1>3. CASE Pool!Next
  BY <1>1, <1>2, <1>3, Pool!TakeKeepsPlace, Pool!AllocKeepsPlace, Pool!PutKeepsPlace
     DEF Pool!Next, OnePlace
<1>4. CASE UNCHANGED <<queue, held, fresh>>
  BY <1>1, <1>4 DEF OnePlace, Pool!OnePlace, Pool!NoDuplicates, Pool!HeldApart,
                    Pool!Accounted, Pool!Linked
<1>5. QED
  BY <1>3, <1>4, StepRefines

\* Two threads in critical sections are in those of different queues.
LEMMA Exclusive ==
  ASSUME TypeOK, LockOwner, NEW t \in Threads, NEW u \in Threads,
         pc[t] \in Critical, pc[u] \in Critical, t # u
  PROVE  arg[t] # arg[u]
BY DEF TypeOK, LockOwner

\* What a thread is in the middle of is undisturbed by the others.
LEMMA ShapeStep == IInv /\ [Next]_vars => CallShape'
<1> SUFFICES ASSUME IInv, [Next]_vars PROVE CallShape'
  OBVIOUS
<1>1. TypeOK /\ LockOwner /\ CallShape
  BY DEF IInv
<1> USE <1>1, PcNames DEF TypeOK, CallShape, Goto
<1>2. ASSUME NEW t \in Threads, NEW q \in Statuses, CallGet(t, q)
      PROVE  CallShape'
  BY <1>2 DEF CallGet
<1>3. ASSUME NEW t \in Threads, NEW x \in Tasks, NEW q \in Statuses,
             CallSet(t, x, q)
      PROVE  CallShape'
  BY <1>3 DEF CallSet
<1>4. ASSUME NEW t \in Threads, Lock(t) PROVE CallShape'
  <2>1. CASE call[t] = "get"
    BY <1>4, <2>1 DEF Lock
  <2>2. CASE call[t] = "set"
    BY <1>4, <2>2 DEF Lock
  <2>3. QED
    BY <1>4, <2>1, <2>2 DEF Lock
<1>5. ASSUME NEW t \in Threads, LockTimeout(t) PROVE CallShape'
  BY <1>5 DEF LockTimeout
<1>6. ASSUME NEW t \in Threads, GetHead(t) PROVE CallShape'
  BY <1>6 DEF GetHead
<1>7. ASSUME NEW t \in Threads, GetDel(t) PROVE CallShape'
  <2> SUFFICES ASSUME NEW u \in Threads, u # t,
                      pc[u] \in {"get_del", "set_count"}
               PROVE  queue'[arg[u]] = queue[arg[u]]
    BY <1>7 DEF GetDel
  <2>1. arg[u] # arg[t]
    BY <1>7, Exclusive DEF GetDel
  <2>2. QED
    BY <1>7, <2>1 DEF GetDel
<1>8. ASSUME NEW t \in Threads, GetMalloc(t) PROVE CallShape'
  BY <1>8 DEF GetMalloc
<1>9. ASSUME NEW t \in Threads, GetNothing(t) PROVE CallShape'
  BY <1>9 DEF GetNothing
<1>10. ASSUME NEW t \in Threads, SetLink(t) PROVE CallShape'
  <2>1. /\ queue' = [queue EXCEPT ![arg[t]] = Append(@, node[t])]
        /\ held' = [held EXCEPT ![t] = @ \ {node[t]}]
        /\ node[t] \in Tasks /\ arg[t] \in Queues
    BY <1>10, LinkIsPut DEF Pool!Put
  <2>2. /\ queue'[arg[t]] # <<>>
        /\ queue'[arg[t]][Len(queue'[arg[t]])] = node[t]
    <3> DEFINE s == queue[arg[t]]
    <3>1. s \in Seq(Tasks) /\ queue'[arg[t]] = Append(s, node[t])
      BY <2>1
    <3>2. Append(s, node[t]) # <<>> /\ Append(s, node[t])[Len(Append(s, node[t]))] = node[t]
      BY <2>1, <3>1
    <3>3. QED
      BY <3>1, <3>2
  <2>3. \A u \in Threads : u # t /\ pc[u] \in {"get_del", "set_count"}
                              => queue'[arg[u]] = queue[arg[u]]
    BY <1>10, <2>1, Exclusive DEF SetLink
  <2>4. QED
    BY <1>10, <2>1, <2>2, <2>3 DEF SetLink
<1>11. ASSUME NEW t \in Threads, SetCount(t) PROVE CallShape'
  BY <1>11 DEF SetCount
<1>12. ASSUME NEW t \in Threads, Unlock(t) PROVE CallShape'
  BY <1>12 DEF Unlock
<1>13. CASE UNCHANGED vars
  BY <1>13 DEF vars
<1>14. QED
  BY <1>2, <1>3, <1>4, <1>5, <1>6, <1>7, <1>8, <1>9, <1>10, <1>11, <1>12, <1>13
     DEF Next, Step

-----------------------------------------------------------------------------
(* The inductive invariant holds in every reachable state.                 *)
THEOREM Inductive == Spec => []IInv
<1>1. IInv /\ [Next]_vars => IInv'
  BY TypeStep, LockStep, ShapeStep, PlaceStep DEF IInv
<1>2. QED
  BY InitInv, <1>1, PTL DEF Spec

(* Every variable keeps its type: in particular, by the range check at the *)
(* head of both functions, no call indexes vfstask out of its bounds.      *)
THEOREM TypeCorrect == Spec => []TypeOK
<1>1. IInv => TypeOK
  BY DEF IInv
<1>2. QED
  BY Inductive, <1>1, PTL

(* Whatever the threads interleave and whichever calls time out, no node   *)
(* is handed to two threads, linked twice or lost.                         *)
THEOREM NodeInOnePlace == Spec => []OnePlace
<1>1. IInv => OnePlace
  BY DEF IInv
<1>2. QED
  BY Inductive, <1>1, PTL

(* vfs_task.c implements the pool contract.                                *)
THEOREM Refinement == Spec => PoolSpec
<1>1. Init => Pool!Init
  BY DEF Init, Pool!Init, Pool!Queues, Queues, Pool!TASK_HOME, TASK_HOME
<1>2. [Pool!Next]_<<queue, held, fresh>> => [Pool!Next]_(Pool!poolVars)
  BY DEF Pool!poolVars
<1>3. QED
  BY <1>1, <1>2, Inductive, StepRefines, PTL DEF Spec, PoolSpec, Pool!Spec

-----------------------------------------------------------------------------
(* The counters.                                                           *)

\* t is between the two halves of a change to queue q.
Between(t, q) == arg[t] = q /\ pc[t] \in {"get_del", "set_count"}

\* A step of a thread that is not in that place before or after does not
\* change what the counter of q lacks.
LEMMA FlightKept ==
  ASSUME NEW t \in Threads, NEW q \in Queues, ~Between(t, q), ~Between(t, q)',
         \A u \in Threads : u # t => Between(u, q)' = Between(u, q)
  PROVE  InFlight(q)' = InFlight(q)
BY DEF InFlight, Between

\* While t owns the mutex of q, only t can be in that place.
LEMMA FlightAlone ==
  ASSUME TypeOK, LockOwner, NEW t \in Threads, pc[t] \in Critical
  PROVE  InFlight(arg[t]) = IF pc[t] \in {"get_del", "set_count"} THEN 1 ELSE 0
BY Exclusive, PcNames DEF InFlight

\* The steps that touch neither a counter nor a list.
LEMMA CountOther ==
  ASSUME IInv, CountAgrees, UNCHANGED <<queue, taskcount>>,
         NEW t \in Threads, NEW l, NEW a \in Queues,
         pc' = [pc EXCEPT ![t] = l],
         arg' = [arg EXCEPT ![t] = a],
         pc[t] \notin {"get_del", "set_count"}, l \notin {"get_del", "set_count"}
  PROVE  CountAgrees'
<1> SUFFICES ASSUME NEW q \in Queues
             PROVE  taskcount'[q] = Len(queue'[q]) - Prealloc(q) - InFlight(q)'
  BY DEF CountAgrees, Prealloc
<1>1. ~Between(t, q) /\ ~Between(t, q)'
  BY DEF IInv, TypeOK, Between
<1>2. \A u \in Threads : u # t => Between(u, q)' = Between(u, q)
  BY DEF IInv, TypeOK, Between
<1>3. InFlight(q)' = InFlight(q)
  BY <1>1, <1>2, FlightKept
<1>4. QED
  BY <1>3 DEF CountAgrees

\* The steps that do: they change the counter or the list of queue arg[t]
\* alone, by what enters or leaves flight.
LEMMA CountOwn ==
  ASSUME IInv, IInv', CountAgrees, NEW t \in Threads, arg' = arg,
         \A u \in Threads : u # t => pc'[u] = pc[u],
         \A q \in Queues : q # arg[t] => /\ taskcount'[q] = taskcount[q]
                                       /\ queue'[q] = queue[q],
         taskcount'[arg[t]] - Len(queue'[arg[t]]) + InFlight(arg[t])'
           = taskcount[arg[t]] - Len(queue[arg[t]]) + InFlight(arg[t])
  PROVE  CountAgrees'
<1> SUFFICES ASSUME NEW q \in Queues
             PROVE  taskcount'[q] = Len(queue'[q]) - Prealloc(q) - InFlight(q)'
  BY DEF CountAgrees, Prealloc
<1> DEFINE c1 == taskcount[q]   c2 == taskcount'[q]
           n1 == Len(queue[q])  n2 == Len(queue'[q])
           f1 == InFlight(q)    f2 == InFlight(q)'
           p == Prealloc(q)
<1>1. /\ c1 \in Int /\ c2 \in Int /\ n1 \in Int /\ n2 \in Int
      /\ f1 \in Int /\ f2 \in Int /\ p \in Int
  BY QueueAssumption DEF IInv, TypeOK, InFlight, Prealloc
<1>2. c1 = n1 - p - f1
  BY DEF CountAgrees
<1>3. CASE q = arg[t]
  <2>1. c2 - n2 + f2 = c1 - n1 + f1
    BY <1>3
  <2>2. c2 = n2 - p - f2
    <3> HIDE DEF c1, c2, n1, n2, f1, f2, p
    <3> QED
      BY <1>1, <1>2, <2>1
  <2>3. QED
    BY <2>2
<1>4. CASE q # arg[t]
  <2>1. ~Between(t, q) /\ ~Between(t, q)'
    BY <1>4 DEF Between
  <2>2. \A u \in Threads : u # t => Between(u, q)' = Between(u, q)
    BY DEF IInv, TypeOK, Between
  <2>3. InFlight(q)' = InFlight(q)
    BY <2>1, <2>2, FlightKept
  <2>4. QED
    BY <1>2, <1>4, <2>3
<1>5. QED
  BY <1>3, <1>4

LEMMA CountStep == IInv /\ IInv' /\ CountAgrees /\ [Next]_vars => CountAgrees'
<1> SUFFICES ASSUME IInv, IInv', CountAgrees, [Next]_vars PROVE CountAgrees'
  OBVIOUS
<1>1. TypeOK /\ LockOwner /\ TypeOK' /\ LockOwner'
  BY DEF IInv
<1> USE DEF Goto
<1>2. ASSUME NEW t \in Threads, NEW q \in Statuses, CallGet(t, q)
      PROVE  CountAgrees'
  <2>1. CASE InRange(q)
    BY <1>2, <2>1, CountOther, QueueRange DEF CallGet
  <2>2. CASE ~InRange(q)
    BY <1>2, <2>2 DEF CallGet, CountAgrees, InFlight, Prealloc
  <2>3. QED
    BY <2>1, <2>2
<1>3. ASSUME NEW t \in Threads, NEW x \in Tasks, NEW q \in Statuses,
             CallSet(t, x, q)
      PROVE  CountAgrees'
  <2>1. CASE InRange(q)
    BY <1>3, <2>1, CountOther, QueueRange DEF CallSet
  <2>2. CASE ~InRange(q)
    BY <1>3, <2>2 DEF CallSet, CountAgrees, InFlight, Prealloc
  <2>3. QED
    BY <2>1, <2>2
<1>4. ASSUME NEW t \in Threads,
             \/ Lock(t) \/ LockTimeout(t) \/ GetMalloc(t) \/ GetNothing(t) \/ Unlock(t)
      PROVE  CountAgrees'
  <2>1. arg[t] \in Queues /\ arg' = [arg EXCEPT ![t] = arg[t]]
    BY <1>1, <1>4 DEF TypeOK, Lock, LockTimeout, GetMalloc, GetNothing, Unlock
  <2>2. UNCHANGED <<queue, taskcount>> /\ pc[t] \notin {"get_del", "set_count"}
    BY <1>4 DEF Lock, LockTimeout, GetMalloc, GetNothing, Unlock
  <2>3. PICK l \in {"idle", "get_scan", "set_link", "unlock"} :
          pc' = [pc EXCEPT ![t] = l]
    BY <1>4 DEF Lock, LockTimeout, GetMalloc, GetNothing, Unlock
  <2>4. QED
    BY <2>1, <2>2, <2>3, CountOther
<1>5. ASSUME NEW t \in Threads, GetHead(t) PROVE CountAgrees'
  <2>1. pc[t] \in Critical /\ pc'[t] = "get_del" /\ pc'[t] \in Critical
        /\ arg[t] \in Queues /\ arg' = arg /\ InFlight(arg[t]) = 0
    BY <1>1, <1>5, FlightAlone, PcNames DEF GetHead, TypeOK
  <2>2. InFlight(arg[t])' = 1
    BY <2>1 DEF InFlight
  <2>3. /\ \A u \in Threads : u # t => pc'[u] = pc[u]
        /\ \A q \in Queues : q # arg[t] => /\ taskcount'[q] = taskcount[q]
                                         /\ queue'[q] = queue[q]
    BY <1>1, <1>5 DEF GetHead, TypeOK
  <2>4. /\ Len(queue[arg[t]]) \in Nat /\ taskcount[arg[t]] \in Int
        /\ queue'[arg[t]] = queue[arg[t]] /\ taskcount'[arg[t]] = taskcount[arg[t]] - 1
    BY <1>1, <1>5, <2>1 DEF GetHead, TypeOK
  <2>5. taskcount'[arg[t]] - Len(queue'[arg[t]]) + InFlight(arg[t])'
          = taskcount[arg[t]] - Len(queue[arg[t]]) + InFlight(arg[t])
    BY <2>1, <2>2, <2>4
  <2>6. QED
    BY <2>1, <2>3, <2>5, CountOwn
<1>6. ASSUME NEW t \in Threads, GetDel(t) PROVE CountAgrees'
  <2>1. pc[t] \in Critical /\ pc'[t] = "unlock" /\ pc'[t] \in Critical
        /\ arg[t] \in Queues /\ arg' = arg /\ InFlight(arg[t]) = 1
    BY <1>1, <1>6, FlightAlone, PcNames DEF GetDel, TypeOK
  <2>2. InFlight(arg[t])' = 0
    <3>1. \A u \in Threads : u # t /\ pc[u] \in Critical => arg[u] # arg[t]
      BY <1>1, <2>1, Exclusive
    <3>2. QED
      BY <1>1, <1>6, <2>1, <3>1, PcNames DEF InFlight, GetDel, TypeOK
  <2>3. /\ queue[arg[t]] \in Seq(Tasks) /\ queue[arg[t]] # <<>>
        /\ queue'[arg[t]] = Tail(queue[arg[t]])
    BY <1>1, <1>6, <2>1 DEF GetDel, TypeOK, IInv, CallShape
  <2>4. Len(queue'[arg[t]]) = Len(queue[arg[t]]) - 1
    BY <2>3
  <2>5. /\ \A u \in Threads : u # t => pc'[u] = pc[u]
        /\ \A q \in Queues : q # arg[t] => /\ taskcount'[q] = taskcount[q]
                                         /\ queue'[q] = queue[q]
    BY <1>1, <1>6 DEF GetDel, TypeOK
  <2>6. /\ Len(queue[arg[t]]) \in Nat /\ taskcount[arg[t]] \in Int
        /\ taskcount'[arg[t]] = taskcount[arg[t]]
    BY <1>1, <1>6, <2>1 DEF GetDel, TypeOK
  <2>7. taskcount'[arg[t]] - Len(queue'[arg[t]]) + InFlight(arg[t])'
          = taskcount[arg[t]] - Len(queue[arg[t]]) + InFlight(arg[t])
    BY <2>1, <2>2, <2>4, <2>6
  <2>8. QED
    BY <2>1, <2>5, <2>7, CountOwn
<1>7. ASSUME NEW t \in Threads, SetLink(t) PROVE CountAgrees'
  <2>1. pc[t] \in Critical /\ pc'[t] = "set_count" /\ pc'[t] \in Critical
        /\ arg[t] \in Queues /\ arg' = arg /\ InFlight(arg[t]) = 0
    BY <1>1, <1>7, FlightAlone, PcNames DEF SetLink, TypeOK
  <2>2. InFlight(arg[t])' = 1
    BY <2>1 DEF InFlight
  <2>3. queue' = [queue EXCEPT ![arg[t]] = Append(@, node[t])] /\ node[t] \in Tasks
    BY <1>7, LinkIsPut DEF Pool!Put
  <2>4. Len(queue'[arg[t]]) = Len(queue[arg[t]]) + 1
    BY <1>1, <2>1, <2>3 DEF TypeOK
  <2>5. /\ \A u \in Threads : u # t => pc'[u] = pc[u]
        /\ \A q \in Queues : q # arg[t] => /\ taskcount'[q] = taskcount[q]
                                         /\ queue'[q] = queue[q]
    BY <1>1, <1>7, <2>3 DEF SetLink, TypeOK
  <2>6. /\ Len(queue[arg[t]]) \in Nat /\ taskcount[arg[t]] \in Int
        /\ taskcount'[arg[t]] = taskcount[arg[t]]
    BY <1>1, <1>7, <2>1 DEF SetLink, TypeOK
  <2>7. taskcount'[arg[t]] - Len(queue'[arg[t]]) + InFlight(arg[t])'
          = taskcount[arg[t]] - Len(queue[arg[t]]) + InFlight(arg[t])
    BY <2>1, <2>2, <2>4, <2>6
  <2>8. QED
    BY <2>1, <2>5, <2>7, CountOwn
<1>8. ASSUME NEW t \in Threads, SetCount(t) PROVE CountAgrees'
  <2>1. pc[t] \in Critical /\ pc'[t] = "unlock" /\ pc'[t] \in Critical
        /\ arg[t] \in Queues /\ arg' = arg /\ InFlight(arg[t]) = 1
    BY <1>1, <1>8, FlightAlone, PcNames DEF SetCount, TypeOK
  <2>2. InFlight(arg[t])' = 0
    <3>1. \A u \in Threads : u # t /\ pc[u] \in Critical => arg[u] # arg[t]
      BY <1>1, <2>1, Exclusive
    <3>2. QED
      BY <1>1, <1>8, <2>1, <3>1, PcNames DEF InFlight, SetCount, TypeOK
  <2>3. /\ \A u \in Threads : u # t => pc'[u] = pc[u]
        /\ \A q \in Queues : q # arg[t] => /\ taskcount'[q] = taskcount[q]
                                         /\ queue'[q] = queue[q]
    BY <1>1, <1>8 DEF SetCount, TypeOK
  <2>4. /\ Len(queue[arg[t]]) \in Nat /\ taskcount[arg[t]] \in Int
        /\ queue'[arg[t]] = queue[arg[t]] /\ taskcount'[arg[t]] = taskcount[arg[t]] + 1
    BY <1>1, <1>8, <2>1 DEF SetCount, TypeOK
  <2>5. taskcount'[arg[t]] - Len(queue'[arg[t]]) + InFlight(arg[t])'
          = taskcount[arg[t]] - Len(queue[arg[t]]) + InFlight(arg[t])
    BY <2>1, <2>2, <2>4
  <2>6. QED
    BY <2>1, <2>3, <2>5, CountOwn
<1>9. CASE UNCHANGED vars
  BY <1>9 DEF vars, CountAgrees, InFlight, Prealloc
<1>10. QED
  BY <1>2, <1>3, <1>4, <1>5, <1>6, <1>7, <1>8, <1>9 DEF Next, Step

(* taskcount[q] is the length of queue q as soon as no thread is inside a  *)
(* change of it, and on TASK_HOME it is that length minus the preallocated *)
(* nodes, for ever: increments and decrements never get lost or doubled.   *)
THEOREM CountCorrect == Spec => []CountAgrees
<1>1. Init => CountAgrees
  BY QueueAssumption DEF Init, CountAgrees, InFlight, Prealloc, TASK_HOME
<1>2. QED
  BY <1>1, CountStep, Inductive, PTL DEF Spec

-----------------------------------------------------------------------------
(* What a call tells its caller, and what a node's status says of its     *)
(* place.                                                                  *)

\* What a call in progress is going to answer.
Answering ==
  \A t \in Threads :
    /\ pc[t] \in {"lock", "get_scan"} /\ call[t] = "get" => node[t] = NoTask
    /\ pc[t] = "set_count" => node[t] \notin held[t]
    /\ pc[t] = "unlock" =>
         /\ call[t] = "set" => ret[t] = "ok" /\ node[t] \notin held[t]
         /\ call[t] = "get" => (ret[t] = "ok" <=> node[t] # NoTask)

ResultInv == ErrorKeepsNode /\ Answering

\* A step of one thread leaves the others' calls and nodes alone.
LEMMA OwnCall ==
  ASSUME IInv, NEW t \in Threads,
         \/ \E q \in Statuses : CallGet(t, q)
         \/ \E x \in Tasks, q \in Statuses : CallSet(t, x, q)
         \/ Step(t)
  PROVE  \A u \in Threads : u # t =>
           /\ pc'[u] = pc[u] /\ call'[u] = call[u] /\ arg'[u] = arg[u]
           /\ node'[u] = node[u] /\ ret'[u] = ret[u] /\ held'[u] = held[u]
<1> USE DEF IInv, TypeOK, Goto, Return
<1>1. ASSUME NEW q \in Statuses, CallGet(t, q)
      PROVE  \A u \in Threads : u # t =>
               /\ pc'[u] = pc[u] /\ call'[u] = call[u] /\ arg'[u] = arg[u]
               /\ node'[u] = node[u] /\ ret'[u] = ret[u] /\ held'[u] = held[u]
  BY <1>1 DEF CallGet
<1>2. ASSUME NEW x \in Tasks, NEW q \in Statuses, CallSet(t, x, q)
      PROVE  \A u \in Threads : u # t =>
               /\ pc'[u] = pc[u] /\ call'[u] = call[u] /\ arg'[u] = arg[u]
               /\ node'[u] = node[u] /\ ret'[u] = ret[u] /\ held'[u] = held[u]
  BY <1>2 DEF CallSet
<1>3. ASSUME Step(t)
      PROVE  \A u \in Threads : u # t =>
               /\ pc'[u] = pc[u] /\ call'[u] = call[u] /\ arg'[u] = arg[u]
               /\ node'[u] = node[u] /\ ret'[u] = ret[u] /\ held'[u] = held[u]
  BY <1>3 DEF Step, Lock, LockTimeout, GetHead, GetDel, GetMalloc, GetNothing,
              SetLink, SetCount, Unlock
<1>4. QED
  BY <1>1, <1>2, <1>3

LEMMA ResultStep == IInv /\ ResultInv /\ [Next]_vars => ResultInv'
<1> SUFFICES ASSUME IInv, ResultInv, [Next]_vars PROVE ResultInv'
  OBVIOUS
<1> DEFINE Right(u) ==
      /\ pc[u] = "idle" =>
           /\ call[u] = "set" /\ ret[u] = "error" => node[u] \in held[u]
           /\ call[u] = "set" /\ ret[u] = "ok" => node[u] \notin held[u]
           /\ call[u] = "get" => (ret[u] = "ok" <=> node[u] # NoTask)
      /\ pc[u] \in {"lock", "get_scan"} /\ call[u] = "get" => node[u] = NoTask
      /\ pc[u] = "set_count" => node[u] \notin held[u]
      /\ pc[u] = "unlock" =>
           /\ call[u] = "set" => ret[u] = "ok" /\ node[u] \notin held[u]
           /\ call[u] = "get" => (ret[u] = "ok" <=> node[u] # NoTask)
<1>1. \A u \in Threads : Right(u)
  BY DEF ResultInv, ErrorKeepsNode, Answering
<1>2. ASSUME NEW t \in Threads,
             \/ \E q \in Statuses : CallGet(t, q)
             \/ \E x \in Tasks, q \in Statuses : CallSet(t, x, q)
             \/ Step(t)
      PROVE  \A u \in Threads : Right(u)'
  <2>1. \A u \in Threads : u # t => Right(u)'
    BY <1>1, <1>2, OwnCall
  <2>2. Right(t)'
    <3> USE <1>1 DEF IInv, TypeOK, Goto, Return
    <3>1. ASSUME NEW q \in Statuses, CallGet(t, q) PROVE Right(t)'
      BY <3>1 DEF CallGet
    <3>2. ASSUME NEW x \in Tasks, NEW q \in Statuses, CallSet(t, x, q) PROVE Right(t)'
      BY <3>2 DEF CallSet
    <3>3. CASE Lock(t)
      BY <3>3, PcNames DEF Lock, CallShape
    <3>4. CASE LockTimeout(t)
      BY <3>4 DEF LockTimeout, CallShape
    <3>5. CASE GetHead(t)
      BY <3>5, PcNames DEF GetHead, CallShape
    <3>6. CASE GetDel(t)
      <4>1. node[t] \in Tasks /\ node[t] # NoTask
        BY <3>6, NodeInUse, QueueAssumption DEF GetDel
      <4>2. QED
        BY <3>6, <4>1, PcNames DEF GetDel, CallShape
    <3>7. CASE GetMalloc(t)
      BY <3>7, PcNames, QueueAssumption DEF GetMalloc, CallShape
    <3>8. CASE GetNothing(t)
      BY <3>8, PcNames DEF GetNothing, CallShape
    <3>9. CASE SetLink(t)
      BY <3>9, PcNames DEF SetLink, CallShape
    <3>10. CASE SetCount(t)
      BY <3>10, PcNames DEF SetCount, CallShape
    <3>11. CASE Unlock(t)
      BY <3>11 DEF Unlock
    <3>12. QED
      BY <1>2, <3>1, <3>2, <3>3, <3>4, <3>5, <3>6, <3>7, <3>8, <3>9, <3>10, <3>11 DEF Step
  <2>3. QED
    BY <2>1, <2>2
<1>3. ASSUME UNCHANGED vars PROVE \A u \in Threads : Right(u)'
  BY <1>1, <1>3 DEF vars
<1>4. \A u \in Threads : Right(u)'
  BY <1>2, <1>3 DEF Next
<1>5. QED
  BY <1>4 DEF ResultInv, ErrorKeepsNode, Answering

(* A call that fails has changed nothing for its caller: after an error    *)
(* vfs_set_task leaves the node with the thread, and vfs_get_task sets its *)
(* argument exactly when it says so.                                       *)
THEOREM FailureKeepsNode == Spec => []ErrorKeepsNode
<1>1. Init => ResultInv
  BY DEF Init, ResultInv, ErrorKeepsNode, Answering
<1>2. ResultInv => ErrorKeepsNode
  BY DEF ResultInv
<1>3. QED
  BY <1>1, <1>2, ResultStep, Inductive, PTL DEF Spec

-----------------------------------------------------------------------------
\* The status of a node being taken is set before it is unlinked.
Taking == \A t \in Threads : pc[t] = "get_del" => status[node[t]] = MAX_TASK_QUEUE

StatusInv == StatusAgrees /\ Taking

\* t is between the two halves of a change that makes x's status right.
Late(t, x, q) == pc[t] \in {"get_del", "set_count"} /\ node[t] = x /\ arg[t] = q

\* OnePlace, in the words of this module.
LEMMA Places ==
  ASSUME IInv
  PROVE  /\ \A q, r \in Queues : \A i \in 1..Len(queue[q]), j \in 1..Len(queue[r]) :
              queue[q][i] = queue[r][j] => q = r /\ i = j
         /\ \A t \in Threads : \A x \in held[t] :
              \A q \in Queues : \A i \in 1..Len(queue[q]) : queue[q][i] # x
         /\ \A x \in fresh : \A q \in Queues : \A i \in 1..Len(queue[q]) : queue[q][i] # x
         /\ \A t \in Threads : held[t] \cap fresh = {}
BY DEF IInv, OnePlace, Pool!OnePlace, Pool!NoDuplicates, Pool!HeldApart, Pool!Linked,
       Pool!Queues, Queues

\* Where the node of a thread between the halves is.
LEMMA Ends ==
  ASSUME IInv, NEW t \in Threads
  PROVE  /\ arg[t] \in Queues /\ queue[arg[t]] \in Seq(Tasks)
         /\ pc[t] = "get_del" => /\ 1 \in 1..Len(queue[arg[t]])
                                 /\ node[t] = queue[arg[t]][1]
         /\ pc[t] = "set_count" => /\ Len(queue[arg[t]]) \in 1..Len(queue[arg[t]])
                                   /\ node[t] = queue[arg[t]][Len(queue[arg[t]])]
BY DEF IInv, TypeOK, CallShape

\* A node keeps its status while its place and the calls about it stay.
LEMMA EntryKept ==
  ASSUME StatusAgrees, NEW t \in Threads, NEW q \in Queues,
         NEW i \in 1..Len(queue[q]), NEW x, x = queue[q][i],
         status'[x] = status[x], ~Late(t, x, q),
         \A u \in Threads : u # t =>
           pc'[u] = pc[u] /\ node'[u] = node[u] /\ arg'[u] = arg[u]
  PROVE  \/ status'[x] = q
         \/ \E u \in Threads : /\ pc'[u] \in {"get_del", "set_count"}
                               /\ node'[u] = x
                               /\ arg'[u] = q
<1>1. \/ status[x] = q
      \/ \E u \in Threads : Late(u, x, q)
  BY DEF StatusAgrees, Late
<1>2. ASSUME NEW u \in Threads, Late(u, x, q)
      PROVE  /\ pc'[u] \in {"get_del", "set_count"}
             /\ node'[u] = x
             /\ arg'[u] = q
  BY <1>2 DEF Late
<1>3. QED
  BY <1>1, <1>2

\* A step that changes neither lists nor statuses, of a thread that is not in
\* that place before or after.
LEMMA StatusOther ==
  ASSUME IInv, StatusInv, NEW t \in Threads,
         UNCHANGED <<queue, status, held>>,
         \A u \in Threads : u # t =>
           pc'[u] = pc[u] /\ node'[u] = node[u] /\ arg'[u] = arg[u],
         pc[t] \notin {"get_del", "set_count"}, pc'[t] # "get_del"
  PROVE  StatusInv'
<1>1. Taking'
  BY DEF StatusInv, Taking
<1>2. StatusAgrees'
  <2>1. ASSUME NEW q \in Queues, NEW i \in 1..Len(queue[q])
        PROVE  \/ status'[queue[q][i]] = q
               \/ \E u \in Threads : /\ pc'[u] \in {"get_del", "set_count"}
                                     /\ node'[u] = queue[q][i]
                                     /\ arg'[u] = q
    BY EntryKept DEF StatusInv, Late
  <2>2. QED
    BY <2>1 DEF StatusInv, StatusAgrees
<1>3. QED
  BY <1>1, <1>2 DEF StatusInv

LEMMA GetHeadStatus ==
  ASSUME IInv, IInv', StatusInv, NEW t \in Threads, GetHead(t)
  PROVE  StatusInv'
<1> DEFINE x == queue[arg[t]][1]
<1> USE DEF Goto
<1>1. /\ arg[t] \in Queues /\ 1 \in 1..Len(queue[arg[t]]) /\ x \in Tasks
      /\ x = Head(queue[arg[t]])
  BY DEF GetHead, IInv, TypeOK
<1>2. /\ pc'[t] = "get_del" /\ node'[t] = x /\ arg'[t] = arg[t]
      /\ status'[x] = MAX_TASK_QUEUE /\ UNCHANGED <<queue, held>>
      /\ \A y \in Tasks : y # x => status'[y] = status[y]
      /\ \A u \in Threads : u # t =>
           pc'[u] = pc[u] /\ node'[u] = node[u] /\ arg'[u] = arg[u]
  BY <1>1 DEF GetHead, IInv, TypeOK
<1>3. Taking'
  <2> SUFFICES ASSUME NEW u \in Threads, pc'[u] = "get_del"
               PROVE  status'[node'[u]] = MAX_TASK_QUEUE
    BY DEF Taking, MAX_TASK_QUEUE
  <2>1. CASE u = t
    BY <1>2, <2>1
  <2>2. CASE u # t
    <3>1. node[u] \in Tasks /\ status[node[u]] = MAX_TASK_QUEUE /\ node'[u] = node[u]
      BY <1>2, <2>2, NodeInUse DEF StatusInv, Taking, IInv
    <3>2. QED
      BY <1>2, <3>1
  <2>3. QED
    BY <2>1, <2>2
<1>4. \A q \in Queues : \A i \in 1..Len(queue[q]) :
        \/ status'[queue[q][i]] = q
        \/ \E u \in Threads : /\ pc'[u] \in {"get_del", "set_count"}
                              /\ node'[u] = queue[q][i]
                              /\ arg'[u] = q
  <2> SUFFICES ASSUME NEW q \in Queues, NEW i \in 1..Len(queue[q])
               PROVE  \/ status'[queue[q][i]] = q
                      \/ \E u \in Threads : /\ pc'[u] \in {"get_del", "set_count"}
                                            /\ node'[u] = queue[q][i]
                                            /\ arg'[u] = q
    OBVIOUS
  <2>1. CASE queue[q][i] = x
    <3>1. q = arg[t]
      BY <1>1, <2>1, Places
    <3>2. QED
      BY <1>2, <2>1, <3>1
  <2>2. CASE queue[q][i] # x
    <3>1. queue[q][i] \in Tasks
      BY DEF IInv, TypeOK
    <3>2. ~Late(t, queue[q][i], q)
      BY DEF GetHead, Late
    <3>3. QED
      BY <1>2, <2>2, <3>1, <3>2, EntryKept DEF StatusInv
  <2>3. QED
    BY <2>1, <2>2
<1>5. \A u \in Threads : \A y \in held'[u] : status'[y] = MAX_TASK_QUEUE
  <2>1. \A u \in Threads : \A y \in held[u] : status[y] = MAX_TASK_QUEUE /\ y \in Tasks
    BY DEF StatusInv, StatusAgrees, IInv, TypeOK
  <2>2. QED
    BY <1>2, <2>1
<1>6. QED
  BY <1>2, <1>3, <1>4, <1>5 DEF StatusInv, StatusAgrees, MAX_TASK_QUEUE

LEMMA GetDelStatus ==
  ASSUME IInv, IInv', StatusInv, NEW t \in Threads, GetDel(t)
  PROVE  StatusInv'
<1> USE DEF Goto
<1>1. /\ arg[t] \in Queues /\ queue[arg[t]] \in Seq(Tasks)
      /\ 1 \in 1..Len(queue[arg[t]]) /\ node[t] = queue[arg[t]][1]
      /\ status[node[t]] = MAX_TASK_QUEUE /\ pc[t] = "get_del"
  BY Ends DEF GetDel, StatusInv, Taking
<1>2. /\ pc'[t] = "unlock" /\ UNCHANGED <<status, node, arg>>
      /\ held' = [held EXCEPT ![t] = @ \cup {node[t]}]
      /\ queue'[arg[t]] = Tail(queue[arg[t]])
      /\ \A r \in Queues : r # arg[t] => queue'[r] = queue[r]
      /\ \A u \in Threads : u # t => pc'[u] = pc[u]
  BY DEF GetDel, IInv, TypeOK
<1>3. Taking'
  BY <1>2 DEF StatusInv, Taking, MAX_TASK_QUEUE
<1>4. \A q \in Queues : \A i \in 1..Len(queue'[q]) :
        \E j \in 1..Len(queue[q]) : /\ queue'[q][i] = queue[q][j]
                                    /\ q = arg[t] => j # 1
  <2> SUFFICES ASSUME NEW q \in Queues, NEW i \in 1..Len(queue'[q])
               PROVE  \E j \in 1..Len(queue[q]) : /\ queue'[q][i] = queue[q][j]
                                                  /\ q = arg[t] => j # 1
    OBVIOUS
  <2>1. CASE q = arg[t]
    <3>1. queue'[q] = Tail(queue[q]) /\ queue[q] \in Seq(Tasks) /\ Len(queue[q]) > 0
      BY <1>1, <1>2, <2>1
    <3>2. i + 1 \in 1..Len(queue[q]) /\ queue'[q][i] = queue[q][i + 1] /\ i + 1 # 1
      BY <3>1
    <3>3. QED
      BY <3>2
  <2>2. CASE q # arg[t]
    BY <1>2, <2>2
  <2>3. QED
    BY <2>1, <2>2
<1>5. \A q \in Queues : \A i \in 1..Len(queue'[q]) :
        \/ status'[queue'[q][i]] = q
        \/ \E u \in Threads : /\ pc'[u] \in {"get_del", "set_count"}
                              /\ node'[u] = queue'[q][i]
                              /\ arg'[u] = q
  <2> SUFFICES ASSUME NEW q \in Queues, NEW i \in 1..Len(queue'[q])
               PROVE  \/ status'[queue'[q][i]] = q
                      \/ \E u \in Threads : /\ pc'[u] \in {"get_del", "set_count"}
                                            /\ node'[u] = queue'[q][i]
                                            /\ arg'[u] = q
    OBVIOUS
  <2>1. PICK j \in 1..Len(queue[q]) : /\ queue'[q][i] = queue[q][j]
                                      /\ q = arg[t] => j # 1
    BY <1>4
  <2>2. ~Late(t, queue[q][j], q)
    <3>1. q = arg[t] => queue[q][j] # node[t]
      BY <1>1, <2>1, Places
    <3>2. QED
      BY <3>1 DEF Late
  <2>3. QED
    BY <1>2, <2>1, <2>2, EntryKept DEF StatusInv
<1>6. \A u \in Threads : \A y \in held'[u] : status'[y] = MAX_TASK_QUEUE
  BY <1>1, <1>2 DEF StatusInv, StatusAgrees, IInv, TypeOK
<1>7. QED
  BY <1>3, <1>5, <1>6 DEF StatusInv, StatusAgrees, MAX_TASK_QUEUE

LEMMA GetMallocStatus ==
  ASSUME IInv, IInv', StatusInv, NEW t \in Threads, GetMalloc(t)
  PROVE  StatusInv'
<1> USE DEF Goto
<1>1. PICK x \in fresh : /\ held' = [held EXCEPT ![t] = @ \cup {x}]
                         /\ status' = [status EXCEPT ![x] = MAX_TASK_QUEUE]
                         /\ node' = [node EXCEPT ![t] = x]
  BY DEF GetMalloc
<1>2. x \in Tasks
  BY DEF IInv, TypeOK
<1>3. /\ pc[t] = "get_scan" /\ pc'[t] = "unlock" /\ UNCHANGED <<queue, arg>>
      /\ status'[x] = MAX_TASK_QUEUE
      /\ \A y \in Tasks : y # x => status'[y] = status[y]
      /\ \A u \in Threads : u # t =>
           pc'[u] = pc[u] /\ node'[u] = node[u] /\ arg'[u] = arg[u]
      /\ \A u \in Threads : held'[u] \subseteq held[u] \cup {x}
  BY <1>1, <1>2 DEF GetMalloc, IInv, TypeOK
<1>4. Taking'
  <2> SUFFICES ASSUME NEW u \in Threads, pc'[u] = "get_del"
               PROVE  status'[node'[u]] = MAX_TASK_QUEUE
    BY DEF Taking, MAX_TASK_QUEUE
  <2>1. u # t
    BY <1>3
  <2>2. node[u] \in Tasks /\ status[node[u]] = MAX_TASK_QUEUE /\ node'[u] = node[u]
    BY <1>3, <2>1, NodeInUse DEF StatusInv, Taking, IInv
  <2>3. QED
    BY <1>3, <2>2
<1>5. \A q \in Queues : \A i \in 1..Len(queue[q]) :
        \/ status'[queue[q][i]] = q
        \/ \E u \in Threads : /\ pc'[u] \in {"get_del", "set_count"}
                              /\ node'[u] = queue[q][i]
                              /\ arg'[u] = q
  <2> SUFFICES ASSUME NEW q \in Queues, NEW i \in 1..Len(queue[q])
               PROVE  \/ status'[queue[q][i]] = q
                      \/ \E u \in Threads : /\ pc'[u] \in {"get_del", "set_count"}
                                            /\ node'[u] = queue[q][i]
                                            /\ arg'[u] = q
    OBVIOUS
  <2>1. queue[q][i] \in Tasks
    BY DEF IInv, TypeOK
  <2>2. queue[q][i] # x
    BY <1>1, Places
  <2>3. ~Late(t, queue[q][i], q)
    BY <1>3 DEF Late
  <2>4. QED
    BY <1>3, <2>1, <2>2, <2>3, EntryKept DEF StatusInv
<1>6. \A u \in Threads : \A y \in held'[u] : status'[y] = MAX_TASK_QUEUE
  <2>1. \A u \in Threads : \A y \in held[u] : status[y] = MAX_TASK_QUEUE /\ y \in Tasks
    BY DEF StatusInv, StatusAgrees, IInv, TypeOK
  <2>2. QED
    BY <1>3, <2>1
<1>7. QED
  BY <1>3, <1>4, <1>5, <1>6 DEF StatusInv, StatusAgrees, MAX_TASK_QUEUE

LEMMA SetLinkStatus ==
  ASSUME IInv, IInv', StatusInv, NEW t \in Threads, SetLink(t)
  PROVE  StatusInv'
<1> USE DEF Goto
<1>1. /\ queue' = [queue EXCEPT ![arg[t]] = Append(@, node[t])]
      /\ held' = [held EXCEPT ![t] = @ \ {node[t]}]
      /\ node[t] \in Tasks /\ arg[t] \in Queues
  BY LinkIsPut DEF Pool!Put, IInv, TypeOK
<1>2. /\ pc[t] = "set_link" /\ pc'[t] = "set_count" /\ UNCHANGED <<status, node, arg>>
      /\ \A u \in Threads : u # t => pc'[u] = pc[u]
      /\ \A u \in Threads : held'[u] \subseteq held[u]
      /\ queue[arg[t]] \in Seq(Tasks)
      /\ queue'[arg[t]] = Append(queue[arg[t]], node[t])
      /\ \A r \in Queues : r # arg[t] => queue'[r] = queue[r]
  BY <1>1 DEF SetLink, IInv, TypeOK
<1>3. Taking'
  BY <1>2 DEF StatusInv, Taking, MAX_TASK_QUEUE
<1>4. \A q \in Queues : \A i \in 1..Len(queue'[q]) :
        \/ q = arg[t] /\ queue'[q][i] = node[t]
        \/ i \in 1..Len(queue[q]) /\ queue'[q][i] = queue[q][i]
  <2> SUFFICES ASSUME NEW q \in Queues, NEW i \in 1..Len(queue'[q])
               PROVE  \/ q = arg[t] /\ queue'[q][i] = node[t]
                      \/ i \in 1..Len(queue[q]) /\ queue'[q][i] = queue[q][i]
    OBVIOUS
  <2>1. CASE q = arg[t]
    <3> DEFINE s == queue[q]   y == node[t]
    <3>1. s \in Seq(Tasks) /\ y \in Tasks /\ queue'[q] = Append(s, y)
      BY <1>1, <1>2, <2>1
    <3>2. Len(Append(s, y)) = Len(s) + 1 /\ Len(s) \in Nat
      BY <3>1
    <3>3. CASE i = Len(s) + 1
      <4>1. Append(s, y)[Len(s) + 1] = y
        BY <3>1
      <4>2. QED
        BY <2>1, <3>1, <3>3, <4>1
    <3>4. CASE i # Len(s) + 1
      <4>1. i \in 1..Len(s)
        BY <3>1, <3>2, <3>4
      <4>2. Append(s, y)[i] = s[i]
        BY <3>1, <4>1
      <4>3. QED
        BY <3>1, <4>1, <4>2
    <3>5. QED
      BY <3>3, <3>4
  <2>2. CASE q # arg[t]
    BY <1>2, <2>2
  <2>3. QED
    BY <2>1, <2>2
<1>5. \A q \in Queues : \A i \in 1..Len(queue'[q]) :
        \/ status'[queue'[q][i]] = q
        \/ \E u \in Threads : /\ pc'[u] \in {"get_del", "set_count"}
                              /\ node'[u] = queue'[q][i]
                              /\ arg'[u] = q
  <2> SUFFICES ASSUME NEW q \in Queues, NEW i \in 1..Len(queue'[q])
               PROVE  \/ status'[queue'[q][i]] = q
                      \/ \E u \in Threads : /\ pc'[u] \in {"get_del", "set_count"}
                                            /\ node'[u] = queue'[q][i]
                                            /\ arg'[u] = q
    OBVIOUS
  <2>1. CASE q = arg[t] /\ queue'[q][i] = node[t]
    BY <1>2, <2>1
  <2>2. CASE i \in 1..Len(queue[q]) /\ queue'[q][i] = queue[q][i]
    <3>1. ~Late(t, queue[q][i], q)
      BY <1>2 DEF Late
    <3>2. QED
      BY <1>2, <2>2, <3>1, EntryKept DEF StatusInv
  <2>3. QED
    BY <1>4, <2>1, <2>2
<1>6. \A u \in Threads : \A y \in held'[u] : status'[y] = MAX_TASK_QUEUE
  BY <1>2 DEF StatusInv, StatusAgrees
<1>7. QED
  BY <1>3, <1>5, <1>6 DEF StatusInv, StatusAgrees, MAX_TASK_QUEUE

LEMMA SetCountStatus ==
  ASSUME IInv, IInv', StatusInv, NEW t \in Threads, SetCount(t)
  PROVE  StatusInv'
<1> DEFINE x == node[t]
<1> USE DEF Goto
<1>1. /\ pc[t] = "set_count" /\ arg[t] \in Queues /\ queue[arg[t]] \in Seq(Tasks)
      /\ Len(queue[arg[t]]) \in 1..Len(queue[arg[t]])
      /\ x = queue[arg[t]][Len(queue[arg[t]])] /\ x \in Tasks
  BY Ends DEF SetCount
<1>2. /\ pc'[t] = "unlock" /\ UNCHANGED <<queue, held, node, arg>>
      /\ status'[x] = arg[t]
      /\ \A y \in Tasks : y # x => status'[y] = status[y]
      /\ \A u \in Threads : u # t => pc'[u] = pc[u]
  BY <1>1 DEF SetCount, IInv, TypeOK
<1>3. Taking'
  <2> SUFFICES ASSUME NEW u \in Threads, pc'[u] = "get_del"
               PROVE  status'[node'[u]] = MAX_TASK_QUEUE
    BY DEF Taking, MAX_TASK_QUEUE
  <2>1. u # t /\ pc[u] = "get_del"
    BY <1>2
  <2>2. /\ arg[u] \in Queues /\ 1 \in 1..Len(queue[arg[u]])
        /\ node[u] = queue[arg[u]][1] /\ node[u] \in Tasks
    BY <2>1, Ends
  <2>3. arg[u] # arg[t]
    BY <1>1, <2>1, Exclusive, PcNames DEF IInv
  <2>4. node[u] # x
    BY <1>1, <2>2, <2>3, Places
  <2>5. status[node[u]] = MAX_TASK_QUEUE /\ node'[u] = node[u]
    BY <1>2, <2>1 DEF StatusInv, Taking
  <2>6. QED
    BY <1>2, <2>2, <2>4, <2>5
<1>4. \A q \in Queues : \A i \in 1..Len(queue[q]) :
        \/ status'[queue[q][i]] = q
        \/ \E u \in Threads : /\ pc'[u] \in {"get_del", "set_count"}
                              /\ node'[u] = queue[q][i]
                              /\ arg'[u] = q
  <2> SUFFICES ASSUME NEW q \in Queues, NEW i \in 1..Len(queue[q])
               PROVE  \/ status'[queue[q][i]] = q
                      \/ \E u \in Threads : /\ pc'[u] \in {"get_del", "set_count"}
                                            /\ node'[u] = queue[q][i]
                                            /\ arg'[u] = q
    OBVIOUS
  <2>1. CASE queue[q][i] = x
    <3>1. q = arg[t]
      BY <1>1, <2>1, Places
    <3>2. QED
      BY <1>2, <2>1, <3>1
  <2>2. CASE queue[q][i] # x
    <3>1. queue[q][i] \in Tasks
      BY DEF IInv, TypeOK
    <3>2. ~Late(t, queue[q][i], q)
      BY <2>2 DEF Late
    <3>3. QED
      BY <1>2, <2>2, <3>1, <3>2, EntryKept DEF StatusInv
  <2>3. QED
    BY <2>1, <2>2
<1>5. \A u \in Threads : \A y \in held'[u] : status'[y] = MAX_TASK_QUEUE
  <2> SUFFICES ASSUME NEW u \in Threads, NEW y \in held[u]
               PROVE  status'[y] = MAX_TASK_QUEUE
    BY <1>2
  <2>1. status[y] = MAX_TASK_QUEUE /\ y \in Tasks
    BY DEF StatusInv, StatusAgrees, IInv, TypeOK
  <2>2. y # x
    BY <1>1, Places
  <2>3. QED
    BY <1>2, <2>1, <2>2
<1>6. QED
  BY <1>2, <1>3, <1>4, <1>5 DEF StatusInv, StatusAgrees, MAX_TASK_QUEUE

LEMMA StatusStep == IInv /\ IInv' /\ StatusInv /\ [Next]_vars => StatusInv'
<1> SUFFICES ASSUME IInv, IInv', StatusInv, [Next]_vars PROVE StatusInv'
  OBVIOUS
<1> USE DEF Goto
<1>1. ASSUME NEW t \in Threads, NEW q \in Statuses, CallGet(t, q) PROVE StatusInv'
  <2>1. /\ UNCHANGED <<queue, status, held>> /\ pc[t] = "idle"
        /\ pc'[t] \in {"idle", "lock"}
    BY <1>1 DEF CallGet, IInv, TypeOK
  <2>2. \A u \in Threads : u # t =>
          pc'[u] = pc[u] /\ node'[u] = node[u] /\ arg'[u] = arg[u]
    BY <1>1, OwnCall
  <2>3. QED
    BY <2>1, <2>2, StatusOther
<1>2. ASSUME NEW t \in Threads, NEW x \in Tasks, NEW q \in Statuses, CallSet(t, x, q)
      PROVE  StatusInv'
  <2>1. /\ UNCHANGED <<queue, status, held>> /\ pc[t] = "idle"
        /\ pc'[t] \in {"idle", "lock"}
    BY <1>2 DEF CallSet, IInv, TypeOK
  <2>2. \A u \in Threads : u # t =>
          pc'[u] = pc[u] /\ node'[u] = node[u] /\ arg'[u] = arg[u]
    BY <1>2, OwnCall
  <2>3. QED
    BY <2>1, <2>2, StatusOther
<1>3. ASSUME NEW t \in Threads, Lock(t) \/ LockTimeout(t) \/ GetNothing(t) \/ Unlock(t)
      PROVE  StatusInv'
  <2>1. /\ UNCHANGED <<queue, status, held>>
        /\ pc[t] \in {"lock", "get_scan", "unlock"}
        /\ pc'[t] \in {"idle", "get_scan", "set_link", "unlock"}
    BY <1>3 DEF Lock, LockTimeout, GetNothing, Unlock, IInv, TypeOK
  <2>2. \A u \in Threads : u # t =>
          pc'[u] = pc[u] /\ node'[u] = node[u] /\ arg'[u] = arg[u]
    BY <1>3, OwnCall DEF Step
  <2>3. QED
    BY <2>1, <2>2, StatusOther
<1>4. CASE UNCHANGED vars
  BY <1>4 DEF vars, StatusInv, StatusAgrees, Taking, MAX_TASK_QUEUE
<1>5. QED
  BY <1>1, <1>2, <1>3, <1>4, GetHeadStatus, GetDelStatus, GetMallocStatus,
     SetLinkStatus, SetCountStatus DEF Next, Step

(* task->status tells where the node is, in every state and for every      *)
(* number of threads, queues and nodes: the number of its queue, or        *)
(* MAX_TASK_QUEUE with a thread, but inside the critical section that is   *)
(* changing the one or the other.  The status is written after the list in *)
(* vfs_set_task and before it in vfs_get_task; the mutex hides both gaps.  *)
THEOREM StatusCorrect == Spec => []StatusAgrees
<1>1. Init => StatusInv
  BY QueueAssumption DEF Init, StatusInv, StatusAgrees, Taking, TASK_HOME, Queues
<1>2. StatusInv => StatusAgrees
  BY DEF StatusInv
<1>3. QED
  BY <1>1, <1>2, StatusStep, Inductive, PTL DEF Spec
=============================================================================
