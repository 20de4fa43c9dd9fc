---------------------------- MODULE ServerProofs ----------------------------
(* The tables are taken down after the last thread, for any number of      *)
(* threads and signals.                                                    *)
EXTENDS Server, TLAPS

(* stop_threads goes through the threads one by one and never back: the    *)
(* ones before k have ended, and an ended thread does nothing more.        *)
Waited ==
  /\ main = "join" => k \in Threads
  /\ main \in {"mark", "join"} => \A i \in 1..k - 1 : at[i] = "gone"
  /\ main = "clean" => \A i \in Threads : at[i] = "gone"

(* Nothing is freed before that.                                           *)
Kept ==
  tables # {"config", "acon"} =>
    main \in {"clean", "gone"} /\ \A i \in Threads : at[i] = "gone"

ServerInv == TypeOK /\ Waited /\ Kept

\* The starting main thread only adds threads, and none has ended it.
LEMMA StartingUp ==
  ASSUME ServerInv, Initialise \/ StartThread \/ Started \/ LeaveLoop
  PROVE  ServerInv'
<1> USE ServerAssumption DEF ServerInv, TypeOK, Waited, Kept, Threads
<1>1. CASE Initialise
  BY <1>1 DEF Initialise, Exit
<1>2. CASE StartThread
  BY <1>2 DEF StartThread, Exit
<1>3. CASE Started
  BY <1>3 DEF Started
<1>4. CASE LeaveLoop
  BY <1>4 DEF LeaveLoop
<1> QED
  BY <1>1, <1>2, <1>3, <1>4

\* Going down, it passes a thread only when that has ended.
LEMMA GoingDown ==
  ASSUME ServerInv, MarkThread \/ JoinThread \/ CleanUp \/ Finish
  PROVE  ServerInv'
<1> USE ServerAssumption DEF ServerInv, TypeOK, Waited, Kept, Threads
<1>1. CASE MarkThread
  BY <1>1 DEF MarkThread
<1>2. CASE JoinThread
  BY <1>2 DEF JoinThread
<1>3. CASE CleanUp
  <2>1. \A i \in Threads : i \in 1..k - 1
    BY <1>3 DEF CleanUp
  <2> QED
    BY <1>3, <2>1 DEF CleanUp
<1>4. CASE Finish
  BY <1>4 DEF Finish, Exit
<1> QED
  BY <1>1, <1>2, <1>3, <1>4

\* A step of a thread is a step of one that has not ended.
LEMMA ThreadRuns ==
  ASSUME ServerInv, NEW i \in Threads, ThreadStep(i)
  PROVE  ServerInv'
<1>1. /\ at[i] # "gone"
      /\ \A j \in Threads : j # i => at'[j] = at[j]
      /\ UNCHANGED <<main, k, tables>>
  BY DEF ServerInv, TypeOK, ThreadStep, Enter, SetUp, SeeStop, Leave
<1>2. TypeOK'
  BY DEF ServerInv, TypeOK, ThreadStep, Enter, SetUp, SeeStop, Leave
<1>3. k \in 1..N + 1
  BY DEF ServerInv, TypeOK
<1>4. Waited'
  <2>1. ASSUME main \in {"mark", "join"}, NEW j \in 1..k - 1 PROVE at'[j] = "gone"
    <3>1. at[j] = "gone" /\ j \in Threads
      BY <1>3, <2>1, ServerAssumption DEF ServerInv, Waited, Threads
    <3> QED
      BY <1>1, <3>1
  <2> QED
    BY <1>1, <2>1 DEF ServerInv, Waited
<1>5. Kept'
  BY <1>1 DEF ServerInv, Kept
<1> QED
  BY <1>2, <1>4, <1>5 DEF ServerInv

(* myconfig_cleanup and fini_fdinfo free the configuration and the         *)
(* connection table when no thread is left that could use them, whichever  *)
(* threads were still starting or had failed to start when stop was set,   *)
(* and however many signals came.                                          *)
THEOREM TablesOutliveThreads == Spec => []FreedUnused
<1>1. Init => ServerInv
  <2> SUFFICES ASSUME Init PROVE ServerInv
    OBVIOUS
  <2>1. 1 \in 1..N + 1 /\ 0 \in 0..MaxSignals
    BY ServerAssumption
  <2>2. state \in [Threads -> {"STOPPING"}] /\ at \in [Threads -> {"none"}]
    BY DEF Init
  <2>3. k \in 1..N + 1 /\ signals \in 0..MaxSignals /\ restart \in 0..1 /\ status \in -1..1
    BY <2>1 DEF Init
  <2>4. TypeOK
    BY <2>2, <2>3 DEF Init, TypeOK
  <2> QED
    BY <2>4 DEF Init, ServerInv, Waited, Kept
<1>2. ServerInv /\ [Next]_vars => ServerInv'
  <2> SUFFICES ASSUME ServerInv, [Next]_vars PROVE ServerInv'
    OBVIOUS
  <2>1. CASE MainStep
    BY <2>1, StartingUp, GoingDown DEF MainStep
  <2>2. ASSUME NEW i \in Threads, ThreadStep(i) PROVE ServerInv'
    BY <2>2, ThreadRuns
  <2>3. CASE Signal
    BY <2>3, ServerAssumption DEF Signal, ServerInv, TypeOK, Waited, Kept
  <2>4. CASE UNCHANGED vars
    BY <2>4 DEF vars, ServerInv, TypeOK, Waited, Kept
  <2> QED
    BY <2>1, <2>2, <2>3, <2>4 DEF Next
<1>3. ServerInv => FreedUnused
  BY DEF ServerInv, Kept, FreedUnused
<1> QED
  BY <1>1, <1>2, <1>3, PTL DEF Spec
=============================================================================
