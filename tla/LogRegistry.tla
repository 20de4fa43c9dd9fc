---------------------------- MODULE LogRegistry ----------------------------
(***************************************************************************)
(* lib/log.c: threads register their logs and write to them through an     *)
(* index into logentities, while the maintenance thread rotates the files  *)
(* and closes the old descriptors some seconds later, since a writer may   *)
(* still have one in its hand.  There is a lock around the registration    *)
(* only.                                                                   *)
(*                                                                         *)
(* Every thread has a log of its own (svc_init of the plugins); what is    *)
(* written and the names of the rotated files are left out, so a rotation  *)
(* by time or by size can come in any round.                               *)
(***************************************************************************)
EXTENDS Integers

CONSTANTS
  Threads,
  NoThread,
  MAX_LOG,
  Fds,       \* descriptor numbers left for log files
  NoFd,      \* -1
  Grace,     \* DELAYCLOSE: 5 seconds
  Period,    \* the sleep of maintain_log: 10 seconds
  MaxWrite   \* bound: seconds between a writer's load of nle->fd and its write

ASSUME LogAssumption ==
  /\ NoThread \notin Threads
  /\ NoFd \notin Fds
  /\ MAX_LOG \in Nat \ {0}
  /\ {Grace, Period, MaxWrite} \subseteq Nat
  /\ MaxWrite < Grace

Ids == 0..(MAX_LOG - 1)

VARIABLES
  mutex,     \* holder of log_mutex
  curlogid,
  owner,     \* logentities[i].fn: whose log it is
  fd,        \* logentities[i].fd
  pending,   \* logentities[i].fdinfo.fd, NoFd when iclose is 0
  left,      \* fdinfo.timeout, as the seconds from now
  os,        \* whose log an open descriptor is a file of
  pc, id,    \* a thread's place, and vfs_sig_log
  wfd,       \* the descriptor LOG has loaded
  wage,      \* for how many seconds
  wrot,      \* and how often its log was rotated since (2: or more)
  mpc, mi, due, ofd, nfd, nap  \* maintain_log: place, i, ids to close, descriptors, sleep

registry == <<mutex, curlogid, owner, id>>
writers  == <<wfd, wage, wrot>>
vars     == <<registry, fd, pending, left, os, pc, writers, mpc, mi, due, ofd, nfd, nap>>

TypeOK ==
  /\ mutex \in Threads \cup {NoThread}
  /\ curlogid \in Ids
  /\ owner \in [Ids -> Threads \cup {NoThread}]
  /\ {fd, pending} \subseteq [Ids -> Fds \cup {NoFd}]
  /\ left \in [Ids -> 0..Grace]
  /\ os \in [Fds -> Threads \cup {NoThread}]
  /\ pc \in [Threads -> {"start", "locked", "opened", "unlocked", "ready", "write", "failed"}]
  /\ id \in [Threads -> Ids \cup {-1}]
  /\ wfd \in [Threads -> Fds \cup {NoFd}]
  /\ wage \in [Threads -> 0..MaxWrite]
  /\ wrot \in [Threads -> 0..2]
  /\ mpc \in {"sleep", "close", "scan", "swap", "delay"}
  /\ mi \in Ids
  /\ due \subseteq Ids
  /\ {ofd, nfd} \subseteq Fds \cup {NoFd}
  /\ nap \in 0..Period

(* init_log: an empty table, and the maintenance thread in its first round.*)
Init ==
  /\ mutex = NoThread
  /\ curlogid = 0
  /\ owner = [i \in Ids |-> NoThread]
  /\ fd = [i \in Ids |-> NoFd]
  /\ pending = [i \in Ids |-> NoFd]
  /\ left = [i \in Ids |-> 0]
  /\ os = [f \in Fds |-> NoThread]
  /\ pc = [t \in Threads |-> "start"]
  /\ id = [t \in Threads |-> -1]
  /\ wfd = [t \in Threads |-> NoFd]
  /\ wage = [t \in Threads |-> 0]
  /\ wrot = [t \in Threads |-> 0]
  /\ mpc = "close" /\ mi = 0 /\ due = {} /\ ofd = NoFd /\ nfd = NoFd /\ nap = 0

Closed    == {f \in Fds : os[f] = NoThread}
Close(f)  == [os EXCEPT ![f] = NoThread]
Moves(t, from, to) == pc[t] = from /\ pc' = [pc EXCEPT ![t] = to]

-----------------------------------------------------------------------------
(* registerlog                                                             *)

logVars   == <<fd, pending, left, os, writers, mpc, mi, due, ofd, nfd, nap>>

\* Mutant of Lock: registerlog_internal without its mutex.
LockNot(t) ==
  /\ Moves(t, "start", "locked")
  /\ mutex' = t
  /\ UNCHANGED <<curlogid, owner, id, logVars>>

Lock(t) ==
  /\ mutex = NoThread
  /\ Moves(t, "start", "locked")
  /\ mutex' = t
  /\ UNCHANGED <<curlogid, owner, id, logVars>>

HasRoom == curlogid < MAX_LOG - 1

(* The next entity is filled and its file opened.                          *)
OpenLog(t) ==
  /\ HasRoom
  /\ Moves(t, "locked", "opened")
  /\ owner' = [owner EXCEPT ![curlogid] = t]
  /\ \E f \in Closed :
       /\ fd' = [fd EXCEPT ![curlogid] = f]
       /\ os' = [os EXCEPT ![f] = t]
  /\ UNCHANGED <<mutex, curlogid, id, pending, left, writers, mpc, mi, due, ofd, nfd, nap>>

(* The table or the descriptors are used up: svc_init fails.               *)
RefuseLog(t) ==
  /\ ~HasRoom \/ Closed = {}
  /\ Moves(t, "locked", "failed")
  /\ mutex' = NoThread
  /\ owner' = IF HasRoom THEN [owner EXCEPT ![curlogid] = t] ELSE owner
  /\ fd' = IF HasRoom THEN [fd EXCEPT ![curlogid] = NoFd] ELSE fd
  /\ UNCHANGED <<curlogid, id, pending, left, os, writers, mpc, mi, due, ofd, nfd, nap>>

(* curlogid++ makes the entity visible to maintain_log; then the unlock.   *)
CountLog(t) ==
  /\ Moves(t, "opened", "unlocked")
  /\ curlogid' = curlogid + 1
  /\ mutex' = NoThread
  /\ UNCHANGED <<owner, id, logVars>>

(* registerlog reads curlogid after registerlog_internal has unlocked.     *)
ReadId(t) ==
  /\ Moves(t, "unlocked", "ready")
  /\ id' = [id EXCEPT ![t] = curlogid - 1]
  /\ UNCHANGED <<mutex, curlogid, owner, logVars>>

-----------------------------------------------------------------------------
(* LOG: nle->fd is loaded and then written to.                             *)

LoadFd(t) ==
  /\ Moves(t, "ready", "write")
  /\ wfd' = [wfd EXCEPT ![t] = fd[id[t]]]
  /\ UNCHANGED <<registry, fd, pending, left, os, wage, wrot, mpc, mi, due, ofd, nfd, nap>>

Write(t) ==
  /\ Moves(t, "write", "ready")
  /\ wfd' = [wfd EXCEPT ![t] = NoFd]
  /\ wage' = [wage EXCEPT ![t] = 0]
  /\ wrot' = [wrot EXCEPT ![t] = 0]
  /\ UNCHANGED <<registry, fd, pending, left, os, mpc, mi, due, ofd, nfd, nap>>

-----------------------------------------------------------------------------
(* maintain_log                                                            *)

(* sleep(10) is over, or a signal handler ran in this thread: a new round  *)
(* compares the timeouts with the time it starts at.                       *)
WakeUp(signal) ==
  /\ mpc = "sleep" /\ (nap = 0 \/ signal)
  /\ mpc' = "close" /\ mi' = 0 /\ nap' = 0
  /\ due' = {i \in Ids : pending[i] # NoFd /\ left[i] = 0}
  /\ UNCHANGED <<registry, fd, pending, left, os, pc, writers, ofd, nfd>>

InLoop == mi < curlogid

\* Mutant of CloseDue: the loop leaves out the log registered last.
CloseDueShort ==
  /\ mpc = "close"
  /\ IF mi < curlogid - 1
     THEN /\ mpc' = mpc /\ mi' = mi + 1
          /\ IF mi \in due
             THEN pending' = [pending EXCEPT ![mi] = NoFd] /\ os' = Close(pending[mi])
             ELSE UNCHANGED <<pending, os>>
     ELSE mpc' = "scan" /\ mi' = 0 /\ UNCHANGED <<pending, os>>
  /\ UNCHANGED <<registry, fd, left, pc, writers, due, ofd, nfd, nap>>

(* One turn of the loop over the delayed closes, and its end.              *)
CloseDue ==
  /\ mpc = "close"
  /\ IF InLoop
     THEN /\ mpc' = mpc /\ mi' = mi + 1
          /\ IF mi \in due
             THEN pending' = [pending EXCEPT ![mi] = NoFd] /\ os' = Close(pending[mi])
             ELSE UNCHANGED <<pending, os>>
     ELSE mpc' = "scan" /\ mi' = 0 /\ UNCHANGED <<pending, os>>
  /\ UNCHANGED <<registry, fd, left, pc, writers, due, ofd, nfd, nap>>

(* scanlogs: log mi stays, or its new file cannot be opened.               *)
KeepLog ==
  /\ mpc = "scan" /\ InLoop
  /\ mi' = mi + 1
  /\ UNCHANGED <<registry, fd, pending, left, os, pc, writers, mpc, due, ofd, nfd, nap>>

(* shiftfile opens the new file.                                           *)
ShiftLog ==
  /\ mpc = "scan" /\ InLoop
  /\ mpc' = "swap"
  /\ \E f \in Closed : nfd' = f /\ os' = [os EXCEPT ![f] = owner[mi]]
  /\ UNCHANGED <<registry, fd, pending, left, pc, writers, mi, due, ofd, nap>>

(* le->fd = nfd: from here on writers load the new descriptor.             *)
SwapFd ==
  /\ mpc = "swap"
  /\ mpc' = "delay"
  /\ ofd' = fd[mi] /\ fd' = [fd EXCEPT ![mi] = nfd] /\ nfd' = NoFd
  /\ wrot' = [t \in Threads |-> IF pc[t] = "write" /\ id[t] = mi /\ wrot[t] < 2
                                THEN wrot[t] + 1 ELSE wrot[t]]
  /\ UNCHANGED <<registry, pending, left, os, pc, wfd, wage, mi, due, nap>>

\* Mutant of delay_close: the old descriptor is closed at once.
delay_closeAtOnce ==
  /\ mpc = "delay"
  /\ os' = Close(ofd)
  /\ mpc' = "scan" /\ mi' = mi + 1 /\ ofd' = NoFd
  /\ UNCHANGED <<registry, fd, pending, left, pc, writers, due, nfd, nap>>

\* Mutant of delay_close: what was pending before is forgotten.
delay_closeForgets ==
  /\ mpc = "delay"
  /\ pending' = [pending EXCEPT ![mi] = ofd]
  /\ left' = [left EXCEPT ![mi] = Grace]
  /\ mpc' = "scan" /\ mi' = mi + 1 /\ ofd' = NoFd
  /\ UNCHANGED <<registry, fd, os, pc, writers, due, nfd, nap>>

(* One descriptor can be pending per log; the one before goes at once.     *)
delay_close ==
  /\ mpc = "delay"
  /\ os' = IF pending[mi] = NoFd THEN os ELSE Close(pending[mi])
  /\ pending' = [pending EXCEPT ![mi] = ofd]
  /\ left' = [left EXCEPT ![mi] = Grace]
  /\ mpc' = "scan" /\ mi' = mi + 1 /\ ofd' = NoFd
  /\ UNCHANGED <<registry, fd, pc, writers, due, nfd, nap>>

EndRound ==
  /\ mpc = "scan" /\ ~InLoop
  /\ mpc' = "sleep" /\ mi' = 0 /\ due' = {} /\ nap' = Period
  /\ UNCHANGED <<registry, fd, pending, left, os, pc, writers, ofd, nfd>>

-----------------------------------------------------------------------------
(* A second passes; no call of LOG takes more than MaxWrite of them.       *)
Tick ==
  /\ \A t \in Threads : pc[t] = "write" => wage[t] < MaxWrite
  /\ wage' = [t \in Threads |-> IF pc[t] = "write" THEN wage[t] + 1 ELSE wage[t]]
  /\ left' = [i \in Ids |-> IF left[i] > 0 THEN left[i] - 1 ELSE 0]
  /\ nap' = IF nap > 0 THEN nap - 1 ELSE 0
  /\ UNCHANGED <<registry, fd, pending, os, pc, wfd, wrot, mpc, mi, due, ofd, nfd>>

registerlog(t) ==
  Lock(t) \/ OpenLog(t) \/ RefuseLog(t) \/ CountLog(t) \/ ReadId(t)

maintain_log ==
  \/ WakeUp(FALSE) \/ CloseDue \/ KeepLog \/ ShiftLog \/ SwapFd
  \/ delay_close \/ EndRound

Next ==
  \/ \E t \in Threads : registerlog(t) \/ LoadFd(t) \/ Write(t)
  \/ maintain_log
  \/ WakeUp(TRUE)
  \/ Tick

Spec == Init /\ [][Next]_vars

(* Threads run, sleep(10) ends and so does every call of LOG.              *)
FairSpec == Spec /\ WF_vars(maintain_log) /\ WF_vars(Tick)
                 /\ \A t \in Threads : WF_vars(Write(t))

-----------------------------------------------------------------------------
(* However registrations interleave, a thread that has registered has a    *)
(* log: no other thread was given its slot of logentities.                 *)
HasEntity ==
  /\ TypeOK
  /\ \A t \in Threads : pc[t] \in {"unlocked", "ready", "write"} =>
       \E i \in 0..(curlogid - 1) : owner[i] = t

(* log.h: registerlog returns "the log fd", so the index a thread was      *)
(* given is that of its own log and not of one registered meanwhile.       *)
OwnId == \A t \in Threads : id[t] # -1 => owner[id[t]] = t

(* The descriptor in a writer's hand is an open file of the log it writes  *)
(* to, although rotations swap and close descriptors without a lock and    *)
(* the numbers are used again; unless its log was rotated twice during the *)
(* call, which takes a signal that cuts maintain_log's sleep short.        *)
WritesItsLog ==
  \A t \in Threads : pc[t] = "write" /\ wrot[t] < 2 => os[wfd[t]] = owner[id[t]]

(* No rotation leaks a descriptor: what is open is in use, waits for its   *)
(* delayed close, or is in the hand of maintain_log or a registration.     *)
NoLeak ==
  \A f \in Fds : os[f] # NoThread =>
    f \in {ofd, nfd} \cup {fd[i] : i \in Ids} \cup {pending[i] : i \in Ids}

-----------------------------------------------------------------------------
(* The inductive invariant behind HasEntity, WritesItsLog and NoLeak.      *)

\* The mutex, and what it protects: the slot curlogid is being filled.
Registering ==
  /\ \A t \in Threads : mutex = t <=> pc[t] \in {"locked", "opened"}
  /\ \A t \in Threads : pc[t] = "opened" =>
       curlogid < MAX_LOG - 1 /\ owner[curlogid] = t /\ fd[curlogid] # NoFd
  /\ \A t \in Threads : pc[t] \in {"ready", "write"} => id[t] \in 0..(curlogid - 1)

\* The slots in use have a file, and the others nothing.
Slots ==
  /\ \A i \in Ids : i < curlogid => fd[i] # NoFd
  /\ \A i \in Ids : i >= curlogid => pending[i] = NoFd
  /\ \A i \in Ids : i >= curlogid /\ fd[i] # NoFd =>
       i = curlogid /\ \E t \in Threads : pc[t] = "opened"
  /\ nfd # NoFd <=> mpc = "swap"
  /\ ofd # NoFd <=> mpc = "delay"
  /\ mpc \in {"swap", "delay"} => InLoop

\* A descriptor somewhere in the table is an open file of that slot's log,
OpenFiles ==
  /\ \A i \in Ids : fd[i] # NoFd => os[fd[i]] = owner[i] /\ owner[i] \in Threads
  /\ \A i \in Ids : pending[i] # NoFd => os[pending[i]] = owner[i]
  /\ nfd # NoFd => os[nfd] = owner[mi]
  /\ ofd # NoFd => os[ofd] = owner[mi]

\* and in one place only, so that closing it there is right.
OncePlaced ==
  /\ \A i, j \in Ids : fd[i] # NoFd /\ fd[i] = fd[j] => i = j
  /\ \A i, j \in Ids : pending[i] # NoFd /\ pending[i] = pending[j] => i = j
  /\ \A i, j \in Ids : fd[i] # NoFd => fd[i] # pending[j]
  /\ \A i \in Ids : nfd # NoFd => nfd # fd[i] /\ nfd # pending[i]
  /\ \A i \in Ids : ofd # NoFd => ofd # fd[i] /\ ofd # pending[i]

\* A writer has what its log had then: the current descriptor, or after one
\* rotation the one that waits for its close, for as long as the call takes.
InHand ==
  \A t \in Threads :
    /\ pc[t] # "write" => wage[t] = 0 /\ wrot[t] = 0
    /\ pc[t] = "write" /\ wrot[t] = 0 => wfd[t] = fd[id[t]]
    /\ pc[t] = "write" /\ wrot[t] = 1 =>
         IF mpc = "delay" /\ mi = id[t]
         THEN wfd[t] = ofd
         ELSE /\ wfd[t] = pending[id[t]] /\ wfd[t] # NoFd
              /\ left[id[t]] + wage[t] >= Grace
              /\ mpc = "close" /\ id[t] \in due => id[t] < mi

IInv ==
  /\ HasEntity
  /\ Registering /\ Slots
  /\ OpenFiles /\ OncePlaced /\ NoLeak
  /\ InHand

(* A descriptor that waits for its delayed close is closed in the end.     *)
PendingCloses == \A i \in Ids, f \in Fds : pending[i] = f ~> pending[i] # f
=============================================================================
