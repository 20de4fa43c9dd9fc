------------------------------ MODULE TaskPool ------------------------------
(***************************************************************************)
(* The contract of the task pool of network/vfs_task.c, as its callers use *)
(* it: numbered FIFO queues of task nodes, queue 0 (TASK_HOME) being the   *)
(* free list.  A thread takes the head of a queue and is then the only     *)
(* holder of the node until it puts it on the tail of a queue again; only  *)
(* an empty TASK_HOME makes the pool allocate a node.  Every operation is  *)
(* one step here; TaskQueue.tla is the mutex-protected implementation.     *)
(***************************************************************************)
EXTENDS Integers, Sequences, TLAPS

CONSTANTS
  Threads,    \* the threads that call vfs_get_task and vfs_set_task
  Tasks,      \* every node that can ever exist: preallocated or malloc'ed
  HomeSeq,    \* the nodes init_task_info() links on TASK_HOME (2048 of them)
  LastQueue   \* MAX_TASK_QUEUE - 1

\* What is assumed of them; TaskQueue's own assumption implies it.
PoolAssumption ==
  /\ LastQueue \in Nat
  /\ HomeSeq \in Seq(Tasks)
  /\ \A i, j \in 1..Len(HomeSeq) : HomeSeq[i] = HomeSeq[j] => i = j

TASK_HOME == 0
Queues    == 0..LastQueue

VARIABLES
  queue,   \* vfstask: the nodes linked on each queue, head first
  held,    \* the nodes each thread got and has not put back
  fresh    \* the nodes malloc has not handed out yet

poolVars == <<queue, held, fresh>>

TypeOK ==
  /\ queue \in [Queues -> Seq(Tasks)]
  /\ held \in [Threads -> SUBSET Tasks]
  /\ fresh \in SUBSET Tasks

Init ==
  /\ queue = [q \in Queues |-> IF q = TASK_HOME THEN HomeSeq ELSE <<>>]
  /\ held = [t \in Threads |-> {}]
  /\ fresh = {x \in Tasks : \A i \in 1..Len(HomeSeq) : HomeSeq[i] # x}

(* vfs_get_task on a queue that has a node: the head changes hands.        *)
Take(t, q) ==
  /\ queue[q] # <<>>
  /\ queue' = [queue EXCEPT ![q] = Tail(@)]
  /\ held' = [held EXCEPT ![t] = @ \cup {Head(queue[q])}]
  /\ UNCHANGED fresh

(* vfs_get_task on an empty TASK_HOME: malloc a node x.                    *)
Alloc(t, x) ==
  /\ queue[TASK_HOME] = <<>>
  /\ x \in fresh
  /\ held' = [held EXCEPT ![t] = @ \cup {x}]
  /\ fresh' = fresh \ {x}
  /\ UNCHANGED queue

(* vfs_set_task: the holder puts x on the tail of queue q.                 *)
Put(t, x, q) ==
  /\ x \in held[t]
  /\ queue' = [queue EXCEPT ![q] = Append(@, x)]
  /\ held' = [held EXCEPT ![t] = @ \ {x}]
  /\ UNCHANGED fresh

Next ==
  \E t \in Threads :
    \/ \E q \in Queues : Take(t, q)
    \/ \E x \in Tasks : Alloc(t, x)
    \/ \E x \in Tasks, q \in Queues : Put(t, x, q)

Spec == Init /\ [][Next]_poolVars

-----------------------------------------------------------------------------
(* x is linked on some queue.                                              *)
Linked(x) == \E q \in Queues : \E i \in 1..Len(queue[q]) : queue[q][i] = x

(* A node is linked at most once, over all the queues.                     *)
NoDuplicates ==
  \A q, r \in Queues : \A i \in 1..Len(queue[q]), j \in 1..Len(queue[r]) :
    queue[q][i] = queue[r][j] => q = r /\ i = j

(* A held node has one holder, and neither it nor a node malloc still has  *)
(* is on a queue.                                                          *)
HeldApart ==
  /\ \A t, u \in Threads : t # u => held[t] \cap held[u] = {}
  /\ \A t \in Threads : held[t] \cap fresh = {}
  /\ \A t \in Threads : \A x \in held[t] : ~Linked(x)
  /\ \A x \in fresh : ~Linked(x)

(* No node vanishes.                                                       *)
Accounted ==
  \A x \in Tasks : x \in fresh \/ Linked(x) \/ \E t \in Threads : x \in held[t]

\* The part that outlives the loss of a node.
Apart == NoDuplicates /\ HeldApart

(* Every node is in exactly one place: on one queue once, with one thread, *)
(* or not allocated.  This is what lets a plugin thread fill in            *)
(* task->task.base without a lock after vfs_get_task returned.             *)
OnePlace == NoDuplicates /\ HeldApart /\ Accounted

-----------------------------------------------------------------------------
(***************************************************************************)
(* Proofs: OnePlace is inductive for the contract.                         *)
(***************************************************************************)

\* The queues keep their type.
LEMMA PoolTypeStep == TypeOK /\ [Next]_poolVars => TypeOK'
<1> SUFFICES ASSUME TypeOK, [Next]_poolVars PROVE TypeOK'
  OBVIOUS
<1>1. ASSUME NEW t \in Threads, NEW q \in Queues, Take(t, q) PROVE TypeOK'
  <2>1. queue[q] \in Seq(Tasks) /\ queue[q] # <<>>
    BY <1>1 DEF Take, TypeOK
  <2>2. Tail(queue[q]) \in Seq(Tasks) /\ Head(queue[q]) \in Tasks
    BY <2>1
  <2>3. QED
    BY <1>1, <2>2 DEF Take, TypeOK
<1>2. ASSUME NEW t \in Threads, NEW x \in Tasks, Alloc(t, x) PROVE TypeOK'
  BY <1>2 DEF Alloc, TypeOK
<1>3. ASSUME NEW t \in Threads, NEW x \in Tasks, NEW q \in Queues, Put(t, x, q)
      PROVE  TypeOK'
  BY <1>3 DEF Put, TypeOK
<1>4. CASE UNCHANGED poolVars
  BY <1>4 DEF TypeOK, poolVars
<1>5. QED
  BY <1>1, <1>2, <1>3, <1>4 DEF Next

\* Taking the head of a queue only moves that node to the thread.
LEMMA TakeMoves ==
  ASSUME TypeOK, Apart, NEW t \in Threads, NEW q \in Queues, Take(t, q)
  PROVE  /\ Apart'
         /\ Head(queue[q]) \in Tasks /\ Linked(Head(queue[q]))
         /\ \A y : Linked(y)' <=> Linked(y) /\ y # Head(queue[q])
<1> DEFINE s == queue[q]
           x == Head(s)
<1>1. /\ s \in Seq(Tasks) /\ s # <<>> /\ Len(s) \in Nat /\ Len(s) > 0
      /\ x = s[1] /\ x \in Tasks
      /\ queue'[q] = Tail(s)
      /\ \A r \in Queues : r # q => queue'[r] = queue[r]
  BY DEF TypeOK, Take
<1>2. /\ Len(queue'[q]) = Len(s) - 1
      /\ \A i \in 1..Len(queue'[q]) : i + 1 \in 1..Len(s) /\ queue'[q][i] = s[i + 1]
  BY <1>1
<1> DEFINE old(p, i) == IF p = q THEN i + 1 ELSE i
<1>3. Linked(x)
  BY <1>1 DEF Linked
<1>4. ASSUME NEW p \in Queues, NEW i \in 1..Len(queue'[p])
      PROVE  /\ old(p, i) \in 1..Len(queue[p])
             /\ queue'[p][i] = queue[p][old(p, i)]
             /\ queue'[p][i] # x
  <2>1. CASE p = q
    <3>1. i + 1 \in 1..Len(s) /\ queue'[q][i] = s[i + 1]
      BY <1>2, <2>1
    <3>2. s[i + 1] # s[1]
      BY <1>1, <3>1 DEF Apart, NoDuplicates
    <3>3. QED
      BY <1>1, <2>1, <3>1, <3>2
  <2>2. CASE p # q
    <3>1. queue'[p] = queue[p]
      BY <1>1, <2>2
    <3>2. queue[p][i] # s[1]
      BY <1>1, <2>2, <3>1 DEF Apart, NoDuplicates
    <3>3. QED
      BY <1>1, <2>2, <3>1, <3>2
  <2>3. QED
    BY <2>1, <2>2
<1>5. \A y : Linked(y)' <=> Linked(y) /\ y # x
  <2>1. ASSUME NEW y, Linked(y)' PROVE Linked(y) /\ y # x
    BY <1>4, <2>1 DEF Linked
  <2>2. ASSUME NEW y, Linked(y), y # x PROVE Linked(y)'
    <3>1. PICK r \in Queues : \E i \in 1..Len(queue[r]) : queue[r][i] = y
      BY <2>2 DEF Linked
    <3>2. PICK i \in 1..Len(queue[r]) : queue[r][i] = y
      BY <3>1
    <3>3. CASE r = q
      <4>1. i # 1 /\ i - 1 \in 1..Len(queue'[q]) /\ queue'[q][i - 1] = y
        BY <1>1, <1>2, <2>2, <3>2, <3>3
      <4>2. QED
        BY <4>1 DEF Linked
    <3>4. CASE r # q
      BY <1>1, <3>2, <3>4 DEF Linked
    <3>5. QED
      BY <3>3, <3>4
  <2>3. QED
    BY <2>1, <2>2
<1>6. NoDuplicates'
  <2> SUFFICES ASSUME NEW p \in Queues, NEW r \in Queues,
                      NEW i \in 1..Len(queue'[p]), NEW j \in 1..Len(queue'[r]),
                      queue'[p][i] = queue'[r][j]
               PROVE  p = r /\ i = j
    BY DEF NoDuplicates
  <2>1. /\ old(p, i) \in 1..Len(queue[p])
        /\ old(r, j) \in 1..Len(queue[r])
        /\ queue[p][old(p, i)] = queue[r][old(r, j)]
    BY <1>4
  <2>2. p = r /\ old(p, i) = old(r, j)
    BY <2>1 DEF Apart, NoDuplicates
  <2>3. QED
    BY <2>2
<1>7. held' = [held EXCEPT ![t] = @ \cup {x}] /\ fresh' = fresh
  BY DEF Take
<1>8. HeldApart'
  BY <1>3, <1>5, <1>7 DEF HeldApart, Apart, TypeOK
<1>9. QED
  BY <1>1, <1>3, <1>5, <1>6, <1>8 DEF Apart

LEMMA TakeKeepsPlace ==
  ASSUME TypeOK, OnePlace, NEW t \in Threads, NEW q \in Queues, Take(t, q)
  PROVE  OnePlace'
<1> DEFINE x == Head(queue[q])
<1>1. /\ Apart'
      /\ \A y : Linked(y)' <=> Linked(y) /\ y # x
  BY TakeMoves DEF OnePlace, Apart
<1>2. held' = [held EXCEPT ![t] = @ \cup {x}] /\ fresh' = fresh
  BY DEF Take
<1>3. Accounted'
  BY <1>1, <1>2 DEF Accounted, OnePlace, TypeOK
<1>4. QED
  BY <1>1, <1>3 DEF OnePlace, Apart

\* So does allocating a node.
LEMMA AllocMoves ==
  ASSUME TypeOK, Apart, NEW t \in Threads, NEW x \in Tasks, Alloc(t, x)
  PROVE  /\ Apart'
         /\ \A y : Linked(y)' <=> Linked(y)
<1>1. \A y : Linked(y)' <=> Linked(y)
  BY DEF Alloc, Linked
<1>2. NoDuplicates'
  BY DEF Alloc, NoDuplicates, Apart
<1>3. HeldApart'
  BY <1>1 DEF HeldApart, Apart, TypeOK, Alloc
<1>4. QED
  BY <1>1, <1>2, <1>3 DEF Apart

LEMMA AllocKeepsPlace ==
  ASSUME TypeOK, OnePlace, NEW t \in Threads, NEW x \in Tasks, Alloc(t, x)
  PROVE  OnePlace'
<1>1. Apart' /\ \A y : Linked(y)' <=> Linked(y)
  BY AllocMoves DEF OnePlace, Apart
<1>2. Accounted'
  BY <1>1 DEF Accounted, OnePlace, TypeOK, Alloc
<1>3. QED
  BY <1>1, <1>2 DEF OnePlace, Apart

\* And putting a held node on the tail of a queue.
LEMMA PutMoves ==
  ASSUME TypeOK, Apart, NEW t \in Threads, NEW x \in Tasks, NEW q \in Queues,
         Put(t, x, q)
  PROVE  /\ Apart'
         /\ \A y : Linked(y)' <=> Linked(y) \/ y = x
<1> DEFINE s == queue[q]
<1>1. /\ s \in Seq(Tasks) /\ Len(s) \in Nat
      /\ queue'[q] = Append(s, x)
      /\ \A r \in Queues : r # q => queue'[r] = queue[r]
  BY DEF TypeOK, Put
<1>2. /\ Len(queue'[q]) = Len(s) + 1 /\ queue'[q][Len(s) + 1] = x
      /\ \A i \in 1..Len(s) : queue'[q][i] = s[i]
  BY <1>1
<1>3. ~Linked(x)
  BY DEF Apart, HeldApart, Put
<1>4. ASSUME NEW p \in Queues, NEW i \in 1..Len(queue'[p])
      PROVE  \/ i \in 1..Len(queue[p]) /\ queue'[p][i] = queue[p][i] /\ queue'[p][i] # x
             \/ p = q /\ i = Len(s) + 1 /\ queue'[p][i] = x
  <2>1. CASE p = q
    BY <1>1, <1>2, <1>3, <2>1 DEF Linked
  <2>2. CASE p # q
    <3>1. queue'[p] = queue[p]
      BY <1>1, <2>2
    <3>2. QED
      BY <1>3, <3>1 DEF Linked
  <2>3. QED
    BY <2>1, <2>2
<1>5. \A y : Linked(y)' <=> Linked(y) \/ y = x
  <2>1. \A y : Linked(y)' => Linked(y) \/ y = x
    BY <1>4 DEF Linked
  <2>2. Linked(x)'
    BY <1>1, <1>2 DEF Linked
  <2>3. ASSUME NEW y, Linked(y) PROVE Linked(y)'
    <3>1. PICK r \in Queues : \E i \in 1..Len(queue[r]) : queue[r][i] = y
      BY <2>3 DEF Linked
    <3>2. PICK i \in 1..Len(queue[r]) : queue[r][i] = y
      BY <3>1
    <3>3. i \in 1..Len(queue'[r]) /\ queue'[r][i] = y
      BY <1>1, <1>2, <3>2
    <3>4. QED
      BY <3>3 DEF Linked
  <2>4. QED
    BY <2>1, <2>2, <2>3
<1>6. NoDuplicates'
  <2> SUFFICES ASSUME NEW p \in Queues, NEW r \in Queues,
                      NEW i \in 1..Len(queue'[p]), NEW j \in 1..Len(queue'[r]),
                      queue'[p][i] = queue'[r][j]
               PROVE  p = r /\ i = j
    BY DEF NoDuplicates
  <2>1. CASE queue'[p][i] = x
    BY <1>4, <2>1
  <2>2. CASE queue'[p][i] # x
    BY <1>4, <2>2 DEF Apart, NoDuplicates
  <2>3. QED
    BY <2>1, <2>2
<1>7. held' = [held EXCEPT ![t] = @ \ {x}] /\ fresh' = fresh /\ x \in held[t]
  BY DEF Put
<1>8. HeldApart'
  BY <1>5, <1>7 DEF HeldApart, Apart, TypeOK
<1>9. QED
  BY <1>5, <1>6, <1>8 DEF Apart

LEMMA PutKeepsPlace ==
  ASSUME TypeOK, OnePlace, NEW t \in Threads, NEW x \in Tasks, NEW q \in Queues,
         Put(t, x, q)
  PROVE  OnePlace'
<1>1. Apart' /\ \A y : Linked(y)' <=> Linked(y) \/ y = x
  BY PutMoves DEF OnePlace, Apart
<1>2. held' = [held EXCEPT ![t] = @ \ {x}] /\ fresh' = fresh
  BY DEF Put
<1>3. \A u \in Threads : \A y \in held[u] : y = x \/ y \in held'[u]
  BY <1>2 DEF TypeOK
<1>4. Accounted'
  BY <1>1, <1>2, <1>3 DEF Accounted, OnePlace
<1>5. QED
  BY <1>1, <1>4 DEF OnePlace, Apart

\* At the start every node is on TASK_HOME or in the heap.
LEMMA InitPlace ==
  ASSUME PoolAssumption, Init
  PROVE  TypeOK /\ OnePlace
<1>1. TypeOK
  BY DEF PoolAssumption, Init, TypeOK, Queues, TASK_HOME
<1>2. queue[TASK_HOME] = HomeSeq /\ TASK_HOME \in Queues
  BY DEF PoolAssumption, Init, Queues, TASK_HOME
<1>3. \A q \in Queues : \A i \in 1..Len(queue[q]) :
        q = TASK_HOME /\ queue[q][i] = HomeSeq[i] /\ i \in 1..Len(HomeSeq)
  BY DEF PoolAssumption, Init
<1>4. NoDuplicates
  BY <1>3 DEF PoolAssumption, NoDuplicates
<1>5. HeldApart
  BY <1>3 DEF Init, HeldApart, Linked
<1>6. Accounted
  BY <1>2 DEF Init, Accounted, Linked
<1>7. QED
  BY <1>1, <1>4, <1>5, <1>6 DEF OnePlace

(* The contract never duplicates or loses a node: whichever thread takes,  *)
(* allocates or puts, in any order, every node stays in exactly one place. *)
THEOREM PoolOnePlace ==
  ASSUME PoolAssumption PROVE Spec => []OnePlace
<1>1. Init => TypeOK /\ OnePlace
  BY InitPlace
<1>2. TypeOK /\ OnePlace /\ [Next]_poolVars => (TypeOK /\ OnePlace)'
  <2> SUFFICES ASSUME TypeOK, OnePlace, [Next]_poolVars PROVE OnePlace'
    BY PoolTypeStep
  <2>1. CASE Next
    BY <2>1, TakeKeepsPlace, AllocKeepsPlace, PutKeepsPlace DEF Next
  <2>2. CASE UNCHANGED poolVars
    BY <2>2 DEF poolVars, OnePlace, NoDuplicates, HeldApart, Accounted, Linked
  <2>3. QED
    BY <2>1, <2>2
<1>3. QED
  BY <1>1, <1>2, PTL DEF Spec
=============================================================================
