------------------------------- MODULE Server -------------------------------
(***************************************************************************)
(* network/main.c with thread.c, daemon.c and the frame of                 *)
(* vfs_signalling_thread: the server comes up, runs its plugin threads     *)
(* until stop is set, waits for them and takes its tables down.  stop is   *)
(* set by a signal or by a thread that cannot start.  What a thread does   *)
(* in its loop is in ConnTable and Pipeline.                               *)
(*                                                                         *)
(* SIGHUP ends the server as SIGTERM does: only a watchdog would start it  *)
(* again, and nothing calls start_watchdog.                                *)
(***************************************************************************)
EXTENDS Integers

CONSTANTS
  N,          \* registered threads: 25
  MaxSignals  \* bound: signals after the handlers are set

ASSUME ServerAssumption == N \in Nat /\ MaxSignals \in Nat

VARIABLES
  main,       \* where main() is
  k,          \* the thread start_threads or stop_threads is at
  state,      \* [1..N -> threadlist[i]->state]
  at,         \* [1..N -> where the thread is]
  stop, restart,
  tables,     \* what is still allocated of {"config", "acon"}
  status,     \* what main returns
  signals     \* how many there were

vars == <<main, k, state, at, stop, restart, tables, status, signals>>

Threads == 1..N

TypeOK ==
  /\ main \in {"init", "start", "loop", "mark", "join", "clean", "gone"}
  /\ k \in 1..N + 1
  /\ state \in [Threads ->
       {"STARTING", "RUNNING", "STOPPING", "EXITED", "UNUSED"}]
  /\ at \in [Threads -> {"none", "entry", "svc_init", "loop", "out", "gone"}]
  /\ stop \in BOOLEAN
  /\ restart \in 0..1
  /\ tables \subseteq {"config", "acon"}
  /\ status \in -1..1
  /\ signals \in 0..MaxSignals

(* register_thread leaves a thread THREAD_STOPPING until it is started.    *)
Init ==
  /\ main = "init"
  /\ k = 1
  /\ state = [i \in Threads |-> "STOPPING"]
  /\ at = [i \in Threads |-> "none"]
  /\ stop = FALSE
  /\ restart = 1
  /\ tables = {"config", "acon"}
  /\ status = 0
  /\ signals = 0

Exit(s) == main' = "gone" /\ status' = s

(* The calls that set up logs, tables and plugins: the first that fails    *)
(* ends the program.                                                       *)
Initialise ==
  /\ main = "init"
  /\ \/ Exit(-1)
     \/ main' = "start" /\ UNCHANGED status
  /\ UNCHANGED <<k, state, at, stop, restart, tables, signals>>

(* start_threads, thread by thread; when one cannot be created, exit()     *)
(* takes the ones that run along.                                          *)
StartThread ==
  /\ main = "start"
  /\ k <= N
  /\ state' = [state EXCEPT ![k] = "STARTING"]
  /\ \/ Exit(-1) /\ UNCHANGED <<k, at>>
     \/ /\ at' = [at EXCEPT ![k] = "entry"]
        /\ k' = k + 1
        /\ UNCHANGED <<main, status>>
  /\ UNCHANGED <<stop, restart, tables, signals>>

Started ==
  /\ main = "start"
  /\ k > N
  /\ main' = "loop"
  /\ UNCHANGED <<k, state, at, stop, restart, tables, status, signals>>

(* main_loop looks at stop every five seconds.  SIGALRM, which             *)
(* stop_threads sends to the running ones first, changes nothing.          *)
LeaveLoop ==
  /\ main = "loop"
  /\ stop
  /\ main' = "mark"
  /\ k' = 1
  /\ UNCHANGED <<state, at, stop, restart, tables, status, signals>>

(* stop_threads: a running thread is marked, whatever it does meanwhile,   *)
MarkThread ==
  /\ main = "mark"
  /\ k <= N
  /\ main' = "join"
  /\ state' = [state EXCEPT ![k] = IF @ = "RUNNING" THEN "STOPPING" ELSE @]
  /\ UNCHANGED <<k, at, stop, restart, tables, status, signals>>

\* Mutant of JoinThread: only the threads found running are waited for.
JoinThreadRunning ==
  /\ main = "join"
  /\ state[k] = "STOPPING" => at[k] = "gone"
  /\ state' = [state EXCEPT ![k] = "UNUSED"]
  /\ main' = "mark"
  /\ k' = k + 1
  /\ UNCHANGED <<at, stop, restart, tables, status, signals>>

(* and waited for, one after the other.                                    *)
JoinThread ==
  /\ main = "join"
  /\ at[k] = "gone"
  /\ state' = [state EXCEPT ![k] = "UNUSED"]
  /\ main' = "mark"
  /\ k' = k + 1
  /\ UNCHANGED <<at, stop, restart, tables, status, signals>>

(* myconfig_cleanup, fini_fdinfo, and the end.                             *)
CleanUp ==
  /\ main = "mark"
  /\ k > N
  /\ main' = "clean"
  /\ tables' = tables \ {"config"}
  /\ UNCHANGED <<k, state, at, stop, restart, status, signals>>

Finish ==
  /\ main = "clean"
  /\ tables' = {}
  /\ Exit(restart)
  /\ UNCHANGED <<k, state, at, stop, restart, signals>>

(* thread_entry.                                                           *)
Enter(i) ==
  /\ at[i] = "entry"
  /\ at' = [at EXCEPT ![i] = "svc_init"]
  /\ state' = [state EXCEPT ![i] = "RUNNING"]
  /\ UNCHANGED <<main, k, stop, restart, tables, status, signals>>

\* Mutant of SetUp: a thread that cannot start just ends.
SetUpQuiet(i) ==
  /\ at[i] = "svc_init"
  /\ \E next \in {"loop", "out"} : at' = [at EXCEPT ![i] = next]
  /\ UNCHANGED <<main, k, state, stop, restart, tables, status, signals>>

(* vfs_signalling_thread: the plugin's svc_init, which reads the           *)
(* configuration, the epoll descriptor and the buffers.                    *)
SetUp(i) ==
  /\ at[i] = "svc_init"
  /\ \/ at' = [at EXCEPT ![i] = "loop"] /\ UNCHANGED stop
     \/ at' = [at EXCEPT ![i] = "out"] /\ stop' = TRUE
  /\ UNCHANGED <<main, k, state, restart, tables, status, signals>>

(* epoll_wait returns after 100 ms at most, then stop is looked at.        *)
SeeStop(i) ==
  /\ at[i] = "loop"
  /\ stop
  /\ at' = [at EXCEPT ![i] = "out"]
  /\ UNCHANGED <<main, k, state, stop, restart, tables, status, signals>>

Leave(i) ==
  /\ at[i] = "out"
  /\ at' = [at EXCEPT ![i] = "gone"]
  /\ state' = [state EXCEPT ![i] = "EXITED"]
  /\ UNCHANGED <<main, k, stop, restart, tables, status, signals>>

(* SIGTERM, SIGINT or SIGQUIT, and SIGHUP, at any time.                    *)
Signal ==
  /\ main # "gone"
  /\ signals < MaxSignals
  /\ signals' = signals + 1
  /\ stop' = TRUE
  /\ restart' \in 0..1
  /\ UNCHANGED <<main, k, state, at, tables, status>>

MainStep ==
  \/ Initialise \/ StartThread \/ Started \/ LeaveLoop
  \/ MarkThread \/ JoinThread \/ CleanUp \/ Finish

ThreadStep(i) ==
  main # "gone" /\ (Enter(i) \/ SetUp(i) \/ SeeStop(i) \/ Leave(i))

Next == MainStep \/ (\E i \in Threads : ThreadStep(i)) \/ Signal

Spec == Init /\ [][Next]_vars

(* The loops have timeouts, so each goes round; a signal need not come.    *)
FairSpec ==
  Spec /\ WF_vars(MainStep) /\ \A i \in Threads : WF_vars(ThreadStep(i))

-----------------------------------------------------------------------------
(* The configuration and the connection table are freed only when no       *)
(* thread uses them any more: also one that was still starting, or failed  *)
(* to start, when stop was set.                                            *)
FreedUnused ==
  tables # {"config", "acon"} => \A i \in Threads : at[i] \in {"none", "gone"}

(* A signal, or one thread that cannot start, brings the whole server      *)
(* down, whenever it comes: nobody waits for a thread that does not end.   *)
GoesDown ==
  /\ stop ~> main = "gone"
  /\ \A i \in Threads : at[i] \in {"out", "gone"} ~> main = "gone"
=============================================================================
