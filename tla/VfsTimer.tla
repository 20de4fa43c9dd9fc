------------------------------ MODULE VfsTimer ------------------------------
(***************************************************************************)
(* network/vfs_timer.c: tasks to run later, once or again and again.  Any  *)
(* thread adds one, the main loop runs the due ones.  Both hold            *)
(* delay_mutex throughout, the callbacks too: one that added a task would  *)
(* wait for its own lock until lock_timeout and be refused.  The only      *)
(* callback there is, report_2_nm, adds none.  A scan meets every task on   *)
(* the active list, so the list is a set here.                             *)
(***************************************************************************)
EXTENDS Integers, Sequences, FiniteSets

CONSTANTS
  default_max,  \* preallocated nodes
  Spans,        \* span_time of the tasks
  MaxTasks,     \* bound: tasks added
  MaxNow        \* bound: seconds

VARIABLES
  now,
  delay_home,   \* free nodes
  delay_active, \* tasks [id, next_time, span_time, loop]
  added,        \* [id -> when it was added and what it asked for]
  ran           \* [id -> when its callback ran last, 0 for never]

timer == <<now, delay_home, delay_active, added, ran>>

(* delay_task_init                                                         *)
TimerInit ==
  /\ now = 1
  /\ delay_home = default_max
  /\ delay_active = {}
  /\ added = <<>>
  /\ ran = <<>>

(* Without a free node one is malloc'ed; a task is refused when that, or   *)
(* the lock, fails.                                                        *)
add_to_delay_task(span, loop) ==
  /\ Len(added) < MaxTasks
  /\ delay_home' = IF delay_home > 0 THEN delay_home - 1 ELSE 0
  /\ delay_active' = delay_active \cup
       {[id |-> Len(added) + 1, next_time |-> now + span, span_time |-> span, loop |-> loop]}
  /\ added' = Append(added, [at |-> now, span |-> span, loop |-> loop])
  /\ ran' = Append(ran, 0)
  /\ UNCHANGED now

Due(x) == now > x.next_time

\* Mutant of After: a loop task counts from when it was due.
AfterDue(x) ==
  IF ~Due(x) THEN {x}
  ELSE IF x.loop THEN {[x EXCEPT !.next_time = @ + x.span_time]} ELSE {}

(* What a scan leaves of a task on the active list.                        *)
After(x) ==
  IF ~Due(x) THEN {x}
  ELSE IF x.loop THEN {[x EXCEPT !.next_time = now + x.span_time]} ELSE {}

scan_delay_task ==
  /\ ran' = [i \in DOMAIN ran |->
       IF \E x \in delay_active : x.id = i /\ Due(x) THEN now ELSE ran[i]]
  /\ delay_active' = UNION {After(x) : x \in delay_active}
  /\ delay_home' = delay_home + Cardinality(delay_active) - Cardinality(delay_active')
  /\ UNCHANGED <<now, added>>

Tick ==
  /\ now < MaxNow
  /\ now' = now + 1
  /\ UNCHANGED <<delay_home, delay_active, added, ran>>

TimerNext ==
  \/ \E span \in Spans, loop \in BOOLEAN : add_to_delay_task(span, loop)
  \/ scan_delay_task
  \/ Tick

-----------------------------------------------------------------------------
(* A task that was accepted runs when more than its span has gone by since *)
(* it was added or, in a loop, ran last, and at the first scan after that; *)
(* one that is no loop never runs a second time.                           *)
RunsOnTime ==
  [][/\ \A i \in DOMAIN ran :
          ran'[i] # ran[i] =>
            /\ ran[i] # 0 => added[i].loop
            /\ now > (IF ran[i] = 0 THEN added[i].at ELSE ran[i]) + added[i].span
     /\ scan_delay_task =>
          \A i \in DOMAIN ran :
            (ran[i] = 0 /\ now > added[i].at + added[i].span) => ran'[i] = now
    ]_timer

(***************************************************************************)
(* The inductive invariant behind it: a task that has still to run is on   *)
(* the active list, once, with its time.                                   *)
(***************************************************************************)
Expected(i) == (IF ran[i] = 0 THEN added[i].at ELSE ran[i]) + added[i].span

TimerInv ==
  /\ now \in Nat \ {0}
  /\ added \in Seq([at : Nat, span : Nat, loop : BOOLEAN])
  /\ ran \in Seq(Nat) /\ Len(ran) = Len(added)
  /\ delay_active \subseteq [id : DOMAIN ran, next_time : Nat, span_time : Nat, loop : BOOLEAN]
  /\ \A x \in delay_active :
       /\ x.next_time = Expected(x.id)
       /\ x.span_time = added[x.id].span /\ x.loop = added[x.id].loop
       /\ ran[x.id] # 0 => x.loop
  /\ \A i \in DOMAIN ran : ran[i] = 0 => \E x \in delay_active : x.id = i
=============================================================================
