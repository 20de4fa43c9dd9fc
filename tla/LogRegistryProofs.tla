------------------------- MODULE LogRegistryProofs -------------------------
(***************************************************************************)
(* Proofs about LogRegistry.tla, for every number of threads, logs and     *)
(* descriptors and every delay longer than a call of LOG.                  *)
(***************************************************************************)
EXTENDS LogRegistry, TLAPS

\* The slots, as numbers.
LEMMA Slot ==
  /\ MAX_LOG \in Nat /\ MAX_LOG > 0
  /\ \A i : i \in Ids <=> i \in Int /\ 0 <= i /\ i <= MAX_LOG - 1
  /\ NoFd \notin Fds /\ NoThread \notin Threads
  /\ Grace \in Nat /\ Period \in Nat /\ MaxWrite \in Nat /\ MaxWrite < Grace
BY LogAssumption DEF Ids

\* Steps that leave the table, the descriptors and their files alone.
TableKept == UNCHANGED <<curlogid, owner, fd, pending, os, nfd, ofd>>

\* What one thread's step leaves to the others.
LEMMA OthersKept ==
  ASSUME TypeOK, NEW t \in Threads, registerlog(t) \/ LoadFd(t) \/ Write(t)
  PROVE  /\ \A u \in Threads : u # t =>
              /\ pc'[u] = pc[u] /\ id'[u] = id[u]
              /\ wfd'[u] = wfd[u] /\ wage'[u] = wage[u] /\ wrot'[u] = wrot[u]
         /\ UNCHANGED <<mpc, mi, due, ofd, nfd, nap, pending, left>>
BY DEF TypeOK, registerlog, Lock, OpenLog, RefuseLog, CountLog, ReadId, LoadFd, Write,
       Moves, logVars, writers, registry

\* A step is one of these.
LEMMA Steps ==
  ASSUME [Next]_vars
  PROVE  \/ \E t \in Threads : \/ Lock(t) \/ OpenLog(t) \/ RefuseLog(t)
                               \/ CountLog(t) \/ ReadId(t) \/ LoadFd(t) \/ Write(t)
         \/ WakeUp(FALSE) \/ WakeUp(TRUE)
         \/ CloseDue \/ KeepLog \/ ShiftLog \/ SwapFd \/ delay_close \/ EndRound
         \/ Tick
         \/ UNCHANGED vars
BY DEF Next, registerlog, maintain_log

-----------------------------------------------------------------------------
LEMMA TypeStep ==
  ASSUME IInv, [Next]_vars
  PROVE  TypeOK'
<1>1. TypeOK /\ Registering /\ Slots /\ HasEntity
  BY DEF IInv, HasEntity
<1> USE <1>1, Slot DEF TypeOK
<1>2. ASSUME NEW t \in Threads, Lock(t) PROVE TypeOK'
  BY <1>2 DEF Lock, Moves, logVars, writers
<1>3. ASSUME NEW t \in Threads, OpenLog(t) PROVE TypeOK'
  BY <1>3 DEF OpenLog, Moves, writers, Closed
<1>4. ASSUME NEW t \in Threads, RefuseLog(t) PROVE TypeOK'
  BY <1>4 DEF RefuseLog, Moves, writers
<1>5. ASSUME NEW t \in Threads, CountLog(t) PROVE TypeOK'
  BY <1>5 DEF CountLog, Moves, logVars, writers, Registering
<1>6. ASSUME NEW t \in Threads, ReadId(t) PROVE TypeOK'
  <2>1. pc[t] = "unlocked"
    BY <1>6 DEF ReadId, Moves
  <2>2. PICK i \in 0..(curlogid - 1) : owner[i] = t
    BY <2>1 DEF HasEntity
  <2>3. curlogid - 1 \in Ids
    BY <2>2
  <2>4. QED
    BY <1>6, <2>3 DEF ReadId, Moves, logVars, writers
<1>7. ASSUME NEW t \in Threads, LoadFd(t) PROVE TypeOK'
  <2>1. id[t] \in Ids
    BY <1>7 DEF LoadFd, Moves, Registering
  <2>2. fd[id[t]] \in Fds \cup {NoFd}
    BY <2>1
  <2>3. QED
    BY <1>7, <2>2 DEF LoadFd, Moves, registry
<1>8. ASSUME NEW t \in Threads, Write(t) PROVE TypeOK'
  BY <1>8 DEF Write, Moves, registry
<1>9. CASE WakeUp(FALSE) \/ WakeUp(TRUE)
  BY <1>9 DEF WakeUp, registry, writers
<1>10. CASE CloseDue
  BY <1>10 DEF CloseDue, InLoop, Close, registry, writers
<1>11. CASE KeepLog \/ EndRound
  BY <1>11 DEF KeepLog, EndRound, InLoop, registry, writers
<1>12. CASE ShiftLog
  BY <1>12 DEF ShiftLog, InLoop, Closed, registry, writers
<1>13. CASE SwapFd
  BY <1>13 DEF SwapFd, registry, Slots
<1>14. CASE delay_close
  BY <1>14 DEF delay_close, Close, registry, writers, Slots, InLoop
<1>15. CASE Tick
  <2>1. wage' \in [Threads -> 0..MaxWrite]
    BY <1>15 DEF Tick
  <2>2. left' \in [Ids -> 0..Grace] /\ nap' \in 0..Period
    BY <1>15 DEF Tick
  <2>3. QED
    BY <1>15, <2>1, <2>2 DEF Tick, registry
<1>16. CASE UNCHANGED vars
  BY <1>16 DEF vars, registry, writers
<1>17. QED
  BY <1>2, <1>3, <1>4, <1>5, <1>6, <1>7, <1>8, <1>9, <1>10, <1>11, <1>12, <1>13,
     <1>14, <1>15, <1>16, Steps

-----------------------------------------------------------------------------
\* Steps that are none of registerlog's leave its variables alone.
LEMMA RegistryKept ==
  ASSUME \/ WakeUp(FALSE) \/ WakeUp(TRUE) \/ CloseDue \/ KeepLog \/ ShiftLog
         \/ SwapFd \/ delay_close \/ EndRound \/ Tick \/ UNCHANGED vars
  PROVE  UNCHANGED <<mutex, curlogid, owner, id, pc>>
BY DEF WakeUp, CloseDue, KeepLog, ShiftLog, SwapFd, delay_close, EndRound, Tick, vars,
       registry

\* The registration protocol, and that nobody loses its slot.
LEMMA RegisteringStep ==
  ASSUME IInv, [Next]_vars
  PROVE  Registering' /\ HasEntity'
<1>1. TypeOK /\ TypeOK' /\ Registering /\ HasEntity /\ Slots
  BY TypeStep DEF IInv, HasEntity
<1>2. /\ \A t \in Threads : mutex = t <=> pc[t] \in {"locked", "opened"}
      /\ \A t \in Threads : pc[t] = "opened" =>
           curlogid < MAX_LOG - 1 /\ owner[curlogid] = t /\ fd[curlogid] # NoFd
      /\ \A t \in Threads : pc[t] \in {"ready", "write"} => id[t] \in 0..(curlogid - 1)
      /\ \A t \in Threads : pc[t] \in {"unlocked", "ready", "write"} =>
           \E i \in 0..(curlogid - 1) : owner[i] = t
      /\ curlogid \in Int /\ \A i \in 0..(curlogid - 1) : i \in Ids /\ i # curlogid
      /\ pc \in [Threads -> {"start", "locked", "opened", "unlocked", "ready", "write", "failed"}]
      /\ id \in [Threads -> Ids \cup {-1}]
      /\ owner \in [Ids -> Threads \cup {NoThread}] /\ curlogid \in Ids
      /\ fd \in [Ids -> Fds \cup {NoFd}]
  BY <1>1, Slot DEF TypeOK, Registering, HasEntity
<1> DEFINE Has(t) == \E i \in 0..(curlogid - 1) : owner[i] = t
<1>3. ASSUME NEW t \in Threads, Lock(t) PROVE Registering' /\ HasEntity'
  BY <1>1, <1>2, <1>3, Slot DEF Lock, Moves, logVars, Registering, HasEntity
<1>4. ASSUME NEW t \in Threads, OpenLog(t) \/ RefuseLog(t) PROVE Registering' /\ HasEntity'
  <2>1. /\ curlogid' = curlogid /\ id' = id
        /\ \A i \in 0..(curlogid - 1) : owner'[i] = owner[i]
        /\ pc[t] = "locked" /\ mutex = t
    BY <1>2, <1>4 DEF OpenLog, RefuseLog, Moves
  <2>2. \/ /\ pc' = [pc EXCEPT ![t] = "opened"] /\ mutex' = mutex
           /\ curlogid < MAX_LOG - 1 /\ owner'[curlogid] = t /\ fd'[curlogid] # NoFd
        \/ pc' = [pc EXCEPT ![t] = "failed"] /\ mutex' = NoThread
    <3>1. CASE OpenLog(t)
      <4>1. PICK f \in Fds : fd' = [fd EXCEPT ![curlogid] = f]
        BY <3>1 DEF OpenLog, Closed
      <4>2. fd'[curlogid] = f /\ f # NoFd
        BY <1>2, <4>1, Slot
      <4>3. owner'[curlogid] = t
        BY <1>2, <3>1 DEF OpenLog
      <4>4. QED
        BY <3>1, <4>2, <4>3 DEF OpenLog, Moves, HasRoom
    <3>2. CASE RefuseLog(t)
      BY <3>2 DEF RefuseLog, Moves
    <3>3. QED
      BY <1>4, <3>1, <3>2
  <2>3. HasEntity'
    BY <1>1, <1>2, <2>1, <2>2 DEF HasEntity
  <2>4. Registering'
    BY <1>2, <2>1, <2>2, Slot DEF Registering
  <2>5. QED
    BY <2>3, <2>4
<1>5. ASSUME NEW t \in Threads, CountLog(t) PROVE Registering' /\ HasEntity'
  <2>1. /\ pc[t] = "opened" /\ owner[curlogid] = t /\ mutex = t
        /\ curlogid' = curlogid + 1 /\ mutex' = NoThread /\ UNCHANGED <<owner, id, fd>>
        /\ pc' = [pc EXCEPT ![t] = "unlocked"]
    BY <1>2, <1>5 DEF CountLog, Moves, logVars
  <2>2. \A i \in 0..(curlogid - 1) : i \in 0..(curlogid' - 1)
    BY <1>2, <2>1
  <2>3. curlogid \in 0..(curlogid' - 1)
    BY <1>2, <2>1, Slot
  <2>4. HasEntity'
    BY <1>1, <1>2, <2>1, <2>2, <2>3 DEF HasEntity
  <2>5. Registering'
    BY <1>2, <2>1, <2>2, Slot DEF Registering
  <2>6. QED
    BY <2>4, <2>5
<1>6. ASSUME NEW t \in Threads, ReadId(t) PROVE Registering' /\ HasEntity'
  <2>1. /\ pc[t] = "unlocked" /\ pc' = [pc EXCEPT ![t] = "ready"]
        /\ id' = [id EXCEPT ![t] = curlogid - 1]
        /\ UNCHANGED <<mutex, curlogid, owner, fd>>
    BY <1>6 DEF ReadId, Moves, logVars
  <2>2. curlogid - 1 \in 0..(curlogid - 1)
    BY <1>2, <2>1
  <2>3. HasEntity'
    BY <1>1, <1>2, <2>1 DEF HasEntity
  <2>4. Registering'
    BY <1>2, <2>1, <2>2 DEF Registering
  <2>5. QED
    BY <2>3, <2>4
<1>7. ASSUME NEW t \in Threads, LoadFd(t) \/ Write(t) PROVE Registering' /\ HasEntity'
  <2>1. /\ UNCHANGED <<mutex, curlogid, owner, id, fd>> /\ pc[t] \in {"ready", "write"}
        /\ pc' = [pc EXCEPT ![t] = "write"] \/ pc' = [pc EXCEPT ![t] = "ready"]
    BY <1>7 DEF LoadFd, Write, Moves, registry
  <2>2. HasEntity'
    BY <1>1, <1>2, <2>1 DEF HasEntity
  <2>3. Registering'
    BY <1>2, <2>1 DEF Registering
  <2>4. QED
    BY <2>2, <2>3
<1>8. ASSUME UNCHANGED <<mutex, curlogid, owner, id, pc>>,
             \A i \in Ids : fd[i] # NoFd => fd'[i] # NoFd
      PROVE  Registering' /\ HasEntity'
  <2>1. HasEntity'
    BY <1>1, <1>2, <1>8 DEF HasEntity
  <2>2. Registering'
    BY <1>2, <1>8 DEF Registering
  <2>3. QED
    BY <2>1, <2>2
<1>9. CASE SwapFd
  <2>1. \A i \in Ids : fd[i] # NoFd => fd'[i] # NoFd
    BY <1>1, <1>2, <1>9 DEF SwapFd, Slots
  <2>2. QED
    BY <1>8, <1>9, <2>1, RegistryKept
<1>10. CASE \/ WakeUp(FALSE) \/ WakeUp(TRUE) \/ CloseDue \/ KeepLog \/ ShiftLog
            \/ delay_close \/ EndRound \/ Tick \/ UNCHANGED vars
  <2>1. fd' = fd
    BY <1>10 DEF WakeUp, CloseDue, KeepLog, ShiftLog, delay_close, EndRound, Tick, vars
  <2>2. QED
    BY <1>8, <1>10, <2>1, RegistryKept
<1>11. QED
  BY <1>3, <1>4, <1>5, <1>6, <1>7, <1>9, <1>10, Steps

-----------------------------------------------------------------------------
\* Steps that move no descriptor.
Inert ==
  \/ \E t \in Threads : Lock(t) \/ ReadId(t) \/ LoadFd(t) \/ Write(t)
  \/ WakeUp(FALSE) \/ WakeUp(TRUE) \/ KeepLog \/ EndRound \/ Tick
  \/ UNCHANGED vars

LEMMA InertKeeps ==
  ASSUME Inert
  PROVE  TableKept
BY DEF Inert, TableKept, Lock, ReadId, LoadFd, Write, WakeUp, KeepLog, EndRound, Tick,
       vars, registry, logVars

\* The types the rest works with.
LEMMA Types ==
  ASSUME TypeOK
  PROVE  /\ curlogid \in Ids /\ mi \in Ids
         /\ owner \in [Ids -> Threads \cup {NoThread}]
         /\ fd \in [Ids -> Fds \cup {NoFd}]
         /\ pending \in [Ids -> Fds \cup {NoFd}]
         /\ os \in [Fds -> Threads \cup {NoThread}]
         /\ ofd \in Fds \cup {NoFd} /\ nfd \in Fds \cup {NoFd}
         /\ curlogid \in Int /\ mi \in Int /\ \A i \in Ids : i \in Int
BY Slot DEF TypeOK

\* Only the maintenance thread moves in its loop.
LEMMA SlotStep ==
  ASSUME IInv, [Next]_vars
  PROVE  Slots'
<1>1. TypeOK /\ TypeOK' /\ Slots /\ Registering
  BY TypeStep DEF IInv, HasEntity
<1>2. /\ \A i \in Ids : i < curlogid => fd[i] # NoFd
      /\ \A i \in Ids : i >= curlogid => pending[i] = NoFd
      /\ \A i \in Ids : i >= curlogid /\ fd[i] # NoFd =>
           i = curlogid /\ \E t \in Threads : pc[t] = "opened"
      /\ nfd # NoFd <=> mpc = "swap"
      /\ ofd # NoFd <=> mpc = "delay"
      /\ mpc \in {"swap", "delay"} => mi < curlogid
      /\ pc \in [Threads -> {"start", "locked", "opened", "unlocked", "ready", "write", "failed"}]
  BY <1>1 DEF Slots, TypeOK, InLoop
<1>3. ASSUME NEW t \in Threads, Lock(t) \/ ReadId(t) \/ LoadFd(t) \/ Write(t) PROVE Slots'
  <2>1. /\ TableKept /\ UNCHANGED <<mpc, mi>>
        /\ \A u \in Threads : pc[u] = "opened" => pc'[u] = "opened"
    BY <1>2, <1>3, InertKeeps
       DEF Inert, Lock, ReadId, LoadFd, Write, Moves, logVars
  <2>2. QED
    BY <1>2, <2>1 DEF Slots, TableKept, InLoop
<1>4. CASE WakeUp(FALSE) \/ WakeUp(TRUE) \/ KeepLog \/ EndRound \/ Tick \/ UNCHANGED vars
  <2>1. TableKept /\ pc' = pc
    BY <1>4, InertKeeps, RegistryKept DEF Inert
  <2>2. mpc' \notin {"swap", "delay"} \/ UNCHANGED <<mpc, mi>>
    BY <1>2, <1>4 DEF WakeUp, KeepLog, EndRound, Tick, vars
  <2>3. mpc' \in {"swap", "delay"} <=> mpc \in {"swap", "delay"}
    BY <1>2, <1>4 DEF WakeUp, KeepLog, EndRound, Tick, vars
  <2>4. mpc \in {"swap", "delay"} => UNCHANGED <<mpc, mi>>
    BY <2>2, <2>3
  <2>5. QED
    BY <1>2, <2>1, <2>3, <2>4 DEF Slots, TableKept, InLoop
<1>5. ASSUME NEW t \in Threads, OpenLog(t) PROVE Slots'
  <2>1. /\ UNCHANGED <<curlogid, pending, mpc, mi, nfd, ofd>>
        /\ \A i \in Ids : i # curlogid => fd'[i] = fd[i]
        /\ pc'[t] = "opened" /\ curlogid \in Ids /\ curlogid \in Int
    BY <1>1, <1>2, <1>5, Types DEF OpenLog, Moves
  <2>2. \A i \in Ids : i > curlogid => fd'[i] = NoFd
    BY <1>2, <2>1, Slot
  <2>3. \A i \in Ids : i < curlogid => fd'[i] # NoFd
    BY <1>2, <2>1, Slot
  <2>4. QED
    BY <1>2, <2>1, <2>2, <2>3, Slot DEF Slots, InLoop
<1>6. ASSUME NEW t \in Threads, RefuseLog(t) PROVE Slots'
  <2>1. /\ UNCHANGED <<curlogid, pending, mpc, mi, nfd, ofd>>
        /\ \A i \in Ids : i # curlogid => fd'[i] = fd[i]
        /\ fd'[curlogid] = NoFd \/ fd'[curlogid] = fd[curlogid]
        /\ \A u \in Threads : pc[u] # "opened"
        /\ curlogid \in Ids /\ curlogid \in Int
    BY <1>1, <1>2, <1>6, Types DEF RefuseLog, Moves, Registering
  <2>2. QED
    BY <1>2, <2>1, Slot DEF Slots, InLoop
<1>7. ASSUME NEW t \in Threads, CountLog(t) PROVE Slots'
  <2>1. /\ UNCHANGED <<fd, pending, mpc, mi, nfd, ofd>> /\ curlogid' = curlogid + 1
        /\ fd[curlogid] # NoFd /\ curlogid \in Int /\ mi \in Int
    BY <1>1, <1>7, Types DEF CountLog, Moves, logVars, Registering
  <2>2. \A i \in Ids : i < curlogid + 1 => i <= curlogid
    BY <2>1, Slot
  <2>3. \A i \in Ids : i < curlogid + 1 => fd[i] # NoFd
    BY <1>2, <2>1, <2>2, Slot
  <2>4. \A i \in Ids : i >= curlogid + 1 => i >= curlogid /\ i # curlogid
    BY <2>1, Slot
  <2>5. \A i \in Ids : i >= curlogid + 1 => pending[i] = NoFd /\ fd[i] = NoFd
    BY <1>2, <2>4
  <2>6. mpc \in {"swap", "delay"} => mi < curlogid + 1
    BY <1>2, <2>1
  <2>7. QED
    BY <1>2, <2>1, <2>3, <2>5, <2>6 DEF Slots, InLoop
<1>8. CASE CloseDue \/ ShiftLog
  <2>1. UNCHANGED <<curlogid, pc, fd, ofd>>
    BY <1>8, RegistryKept DEF CloseDue, ShiftLog
  <2>2. \A i \in Ids : pending'[i] = pending[i] \/ pending'[i] = NoFd
    BY <1>1, <1>8, Types DEF CloseDue, ShiftLog
  <2>3. CASE CloseDue
    <3>1. nfd' = nfd /\ mpc = "close" /\ mpc' \in {"close", "scan"}
      BY <1>2, <2>3 DEF CloseDue
    <3>2. QED
      BY <1>2, <2>1, <2>2, <3>1 DEF Slots, InLoop
  <2>4. CASE ShiftLog
    <3>1. /\ mpc = "scan" /\ mpc' = "swap" /\ mi' = mi /\ mi < curlogid
          /\ nfd' # NoFd /\ pending' = pending
      BY <1>2, <2>4, Slot DEF ShiftLog, InLoop, Closed
    <3>2. QED
      BY <1>2, <2>1, <3>1 DEF Slots, InLoop
  <2>5. QED
    BY <1>8, <2>3, <2>4
<1>9. CASE SwapFd
  <2>1. /\ UNCHANGED <<curlogid, pc, pending, mi>> /\ mpc = "swap" /\ mpc' = "delay"
        /\ ofd' = fd[mi] /\ nfd' = NoFd /\ fd' = [fd EXCEPT ![mi] = nfd]
    BY <1>9, RegistryKept DEF SwapFd
  <2>2. /\ fd[mi] # NoFd /\ nfd # NoFd /\ mi < curlogid
    BY <1>1, <1>2, <2>1, Types
  <2>3. \A i \in Ids : fd'[i] # NoFd <=> fd[i] # NoFd
    BY <1>1, <2>1, <2>2, Types
  <2>4. QED
    BY <1>2, <2>1, <2>2, <2>3 DEF Slots, InLoop
<1>10. CASE delay_close
  <2>1. /\ UNCHANGED <<curlogid, pc, fd, nfd>> /\ mpc = "delay" /\ mpc' = "scan"
        /\ ofd' = NoFd /\ pending' = [pending EXCEPT ![mi] = ofd]
    BY <1>10, RegistryKept DEF delay_close
  <2>2. \A i \in Ids : i >= curlogid => i # mi
    BY <1>1, <1>2, <2>1, Types, Slot
  <2>3. \A i \in Ids : i >= curlogid => pending'[i] = NoFd
    BY <1>1, <1>2, <2>1, <2>2, Types
  <2>4. QED
    BY <1>2, <2>1, <2>3 DEF Slots, InLoop
<1>11. QED
  BY <1>3, <1>4, <1>5, <1>6, <1>7, <1>8, <1>9, <1>10, Steps

-----------------------------------------------------------------------------
\* A closed descriptor is nowhere in the table.
LEMMA ClosedIsNowhere ==
  ASSUME TypeOK, Slots, OpenFiles, NEW f \in Closed
  PROVE  /\ f \in Fds /\ f # NoFd
         /\ \A i \in Ids : fd[i] # f /\ pending[i] # f
         /\ nfd # f /\ ofd # f
<1>1. f \in Fds /\ f # NoFd /\ os[f] = NoThread
  BY Slot DEF Closed
<1>2. \A i \in Ids : fd[i] # f
  BY <1>1, Slot DEF OpenFiles
<1>3. \A i \in Ids : i < curlogid => owner[i] \in Threads
  BY DEF Slots, OpenFiles
<1>4. \A i \in Ids : pending[i] # f
  <2>1. ASSUME NEW i \in Ids, pending[i] = f PROVE FALSE
    <3>1. ~(i >= curlogid)
      BY <1>1, <2>1 DEF Slots
    <3>2. i < curlogid
      BY <3>1, Types
    <3>3. QED
      BY <1>1, <1>3, <2>1, <3>2, Slot DEF OpenFiles
  <2>2. QED
    BY <2>1
<1>5. nfd # f /\ ofd # f
  BY <1>1, <1>3, Types, Slot DEF Slots, OpenFiles, InLoop
<1>6. QED
  BY <1>1, <1>2, <1>4, <1>5

\* Every open descriptor stays in one place, and is its log's there.
LEMMA FilesStep ==
  ASSUME IInv, [Next]_vars
  PROVE  OpenFiles' /\ OncePlaced' /\ NoLeak'
<1>1. /\ TypeOK /\ Slots /\ Registering /\ OpenFiles /\ OncePlaced /\ NoLeak
      /\ \A i \in Ids : i < curlogid => owner[i] \in Threads
  BY DEF IInv, HasEntity, Slots, OpenFiles
<1>2. /\ \A i \in Ids : fd[i] # NoFd => os[fd[i]] = owner[i] /\ owner[i] \in Threads
      /\ \A i \in Ids : pending[i] # NoFd => os[pending[i]] = owner[i]
      /\ nfd # NoFd => os[nfd] = owner[mi]
      /\ ofd # NoFd => os[ofd] = owner[mi]
  BY <1>1 DEF OpenFiles
<1>3. /\ \A i, j \in Ids : fd[i] # NoFd /\ fd[i] = fd[j] => i = j
      /\ \A i, j \in Ids : pending[i] # NoFd /\ pending[i] = pending[j] => i = j
      /\ \A i, j \in Ids : fd[i] # NoFd => fd[i] # pending[j]
      /\ \A i \in Ids : nfd # NoFd => nfd # fd[i] /\ nfd # pending[i]
      /\ \A i \in Ids : ofd # NoFd => ofd # fd[i] /\ ofd # pending[i]
  BY <1>1 DEF OncePlaced
<1>4. \A f \in Fds : os[f] # NoThread =>
        \/ f = ofd \/ f = nfd
        \/ \E i \in Ids : f = fd[i]
        \/ \E i \in Ids : f = pending[i]
  BY <1>1 DEF NoLeak
<1>5. /\ curlogid \in Ids /\ mi \in Ids
      /\ owner \in [Ids -> Threads \cup {NoThread}]
      /\ fd \in [Ids -> Fds \cup {NoFd}]
      /\ pending \in [Ids -> Fds \cup {NoFd}]
      /\ os \in [Fds -> Threads \cup {NoThread}]
      /\ ofd \in Fds \cup {NoFd} /\ nfd \in Fds \cup {NoFd}
      /\ NoFd \notin Fds /\ NoThread \notin Threads
  BY <1>1, Types, Slot
<1>6. /\ nfd # NoFd <=> mpc = "swap"
      /\ ofd # NoFd <=> mpc = "delay"
      /\ mpc \in {"swap", "delay"} => mi < curlogid /\ mi # curlogid
  BY <1>1, Types DEF Slots, InLoop
<1>7. ASSUME TableKept, mi' = mi \/ (nfd = NoFd /\ ofd = NoFd)
      PROVE  OpenFiles' /\ OncePlaced' /\ NoLeak'
  BY <1>2, <1>3, <1>4, <1>7 DEF TableKept, OpenFiles, OncePlaced, NoLeak
<1>8. CASE Inert
  <2>1. mi' = mi \/ mpc \notin {"swap", "delay"}
    BY <1>8 DEF Inert, Lock, ReadId, LoadFd, Write, WakeUp, KeepLog, EndRound, Tick, vars,
               logVars
  <2>2. mi' = mi \/ (nfd = NoFd /\ ofd = NoFd)
    BY <1>6, <2>1
  <2>3. TableKept
    BY <1>8, InertKeeps
  <2>4. QED
    BY <1>7, <2>2, <2>3
\* What a thread finds when it fills the next slot.
<1>9. ASSUME NEW t \in Threads, OpenLog(t) \/ RefuseLog(t)
      PROVE  fd[curlogid] = NoFd /\ pending[curlogid] = NoFd
  <2>1. \A u \in Threads : pc[u] # "opened"
    BY <1>1, <1>9 DEF OpenLog, RefuseLog, Moves, Registering
  <2>2. curlogid >= curlogid
    BY <1>1, Types
  <2>3. QED
    BY <1>1, <1>5, <2>1, <2>2 DEF Slots
<1>10. ASSUME NEW t \in Threads, OpenLog(t) PROVE OpenFiles' /\ OncePlaced' /\ NoLeak'
  <2>1. PICK f \in Closed : /\ fd' = [fd EXCEPT ![curlogid] = f]
                            /\ os' = [os EXCEPT ![f] = t]
    BY <1>10 DEF OpenLog
  <2>2. /\ UNCHANGED <<pending, mi, nfd, ofd>>
        /\ owner' = [owner EXCEPT ![curlogid] = t]
    BY <1>10 DEF OpenLog
  <2>3. /\ f \in Fds /\ f # NoFd
        /\ \A i \in Ids : fd[i] # f /\ pending[i] # f
        /\ nfd # f /\ ofd # f
    BY <1>1, ClosedIsNowhere
  <2>4. /\ fd'[curlogid] = f /\ os'[f] = t /\ owner'[curlogid] = t
        /\ \A i \in Ids : i # curlogid => fd'[i] = fd[i] /\ owner'[i] = owner[i]
        /\ \A g \in Fds : g # f => os'[g] = os[g]
        /\ fd[curlogid] = NoFd /\ pending[curlogid] = NoFd
        /\ nfd # NoFd \/ ofd # NoFd => mi # curlogid
    BY <1>5, <1>6, <1>9, <1>10, <2>1, <2>2, <2>3
  <2>5. OpenFiles'
    BY <1>2, <1>5, <2>2, <2>3, <2>4 DEF OpenFiles
  <2>6. OncePlaced'
    BY <1>3, <1>5, <2>2, <2>3, <2>4 DEF OncePlaced
  <2>7. NoLeak'
    BY <1>4, <1>5, <2>2, <2>3, <2>4 DEF NoLeak
  <2>8. QED
    BY <2>5, <2>6, <2>7
<1>11. ASSUME NEW t \in Threads, RefuseLog(t) PROVE OpenFiles' /\ OncePlaced' /\ NoLeak'
  <2>1. /\ UNCHANGED <<pending, os, mi, nfd, ofd>>
        /\ \A i \in Ids : i # curlogid => owner'[i] = owner[i]
        /\ \A i \in Ids : fd'[i] = fd[i]
        /\ fd[curlogid] = NoFd /\ pending[curlogid] = NoFd
        /\ nfd # NoFd \/ ofd # NoFd => mi # curlogid
    BY <1>5, <1>6, <1>9, <1>11 DEF RefuseLog
  <2>2. OpenFiles'
    BY <1>2, <1>5, <2>1 DEF OpenFiles
  <2>3. OncePlaced' /\ NoLeak'
    BY <1>3, <1>4, <2>1 DEF OncePlaced, NoLeak
  <2>4. QED
    BY <2>2, <2>3
<1>12. ASSUME NEW t \in Threads, CountLog(t) PROVE OpenFiles' /\ OncePlaced' /\ NoLeak'
  <2>1. UNCHANGED <<owner, fd, pending, os, mi, nfd, ofd>>
    BY <1>12 DEF CountLog, logVars
  <2>2. QED
    BY <1>2, <1>3, <1>4, <2>1 DEF OpenFiles, OncePlaced, NoLeak
<1>13. CASE CloseDue
  <2>1. UNCHANGED <<owner, fd, nfd, ofd>> /\ nfd = NoFd /\ ofd = NoFd
    BY <1>6, <1>13, RegistryKept DEF CloseDue
  <2>2. CASE UNCHANGED <<pending, os>>
    BY <1>2, <1>3, <1>4, <2>1, <2>2 DEF OpenFiles, OncePlaced, NoLeak
  <2>3. CASE pending' = [pending EXCEPT ![mi] = NoFd] /\ os' = Close(pending[mi])
    <3>1. /\ pending'[mi] = NoFd /\ \A i \in Ids : i # mi => pending'[i] = pending[i]
          /\ \A g \in Fds : g # pending[mi] => os'[g] = os[g]
          /\ pending[mi] # NoFd => os'[pending[mi]] = NoThread
      BY <1>5, <2>3 DEF Close
    <3>2. OpenFiles'
      BY <1>2, <1>3, <1>5, <2>1, <3>1 DEF OpenFiles
    <3>3. OncePlaced'
      BY <1>3, <1>5, <2>1, <3>1 DEF OncePlaced
    <3>4. NoLeak'
      BY <1>4, <1>5, <2>1, <3>1 DEF NoLeak
    <3>5. QED
      BY <3>2, <3>3, <3>4
  <2>4. QED
    BY <1>13, <2>2, <2>3 DEF CloseDue
<1>14. CASE ShiftLog
  <2>1. PICK f \in Closed : nfd' = f /\ os' = [os EXCEPT ![f] = owner[mi]]
    BY <1>14 DEF ShiftLog
  <2>2. UNCHANGED <<owner, fd, pending, mi, ofd>> /\ nfd = NoFd /\ ofd = NoFd
    BY <1>6, <1>14, RegistryKept DEF ShiftLog
  <2>3. /\ f \in Fds /\ f # NoFd
        /\ \A i \in Ids : fd[i] # f /\ pending[i] # f
    BY <1>1, ClosedIsNowhere
  <2>4. os'[f] = owner[mi] /\ \A g \in Fds : g # f => os'[g] = os[g]
    BY <1>5, <2>1, <2>3
  <2>5. OpenFiles'
    BY <1>2, <1>5, <2>1, <2>2, <2>3, <2>4 DEF OpenFiles
  <2>6. OncePlaced'
    BY <1>3, <2>1, <2>2, <2>3 DEF OncePlaced
  <2>7. NoLeak'
    BY <1>4, <2>1, <2>2, <2>4 DEF NoLeak
  <2>8. QED
    BY <2>5, <2>6, <2>7
<1>15. CASE SwapFd
  <2>1. /\ UNCHANGED <<owner, pending, os, mi>> /\ nfd # NoFd /\ ofd = NoFd
        /\ ofd' = fd[mi] /\ fd' = [fd EXCEPT ![mi] = nfd] /\ nfd' = NoFd
        /\ owner[mi] \in Threads
    BY <1>1, <1>5, <1>6, <1>15, RegistryKept DEF SwapFd
  <2>2. fd'[mi] = nfd /\ \A i \in Ids : i # mi => fd'[i] = fd[i]
    BY <1>5, <2>1
  <2>3. OpenFiles'
    BY <1>2, <1>5, <2>1, <2>2 DEF OpenFiles
  <2>4. OncePlaced'
    BY <1>3, <1>5, <2>1, <2>2 DEF OncePlaced
  <2>5. NoLeak'
    BY <1>4, <1>5, <2>1, <2>2 DEF NoLeak
  <2>6. QED
    BY <2>3, <2>4, <2>5
<1>16. CASE delay_close
  <2>1. /\ UNCHANGED <<owner, fd, nfd>> /\ nfd = NoFd /\ ofd # NoFd /\ ofd' = NoFd
        /\ pending' = [pending EXCEPT ![mi] = ofd]
        /\ os' = IF pending[mi] = NoFd THEN os ELSE Close(pending[mi])
    BY <1>6, <1>16, RegistryKept DEF delay_close
  <2>2. /\ pending'[mi] = ofd /\ \A i \in Ids : i # mi => pending'[i] = pending[i]
        /\ \A g \in Fds : g # pending[mi] => os'[g] = os[g]
        /\ pending[mi] # NoFd => os'[pending[mi]] = NoThread
    BY <1>5, <2>1 DEF Close
  <2>3. OpenFiles'
    BY <1>2, <1>3, <1>5, <2>1, <2>2 DEF OpenFiles
  <2>4. OncePlaced'
    BY <1>3, <1>5, <2>1, <2>2 DEF OncePlaced
  <2>5. NoLeak'
    BY <1>4, <1>5, <2>1, <2>2 DEF NoLeak
  <2>6. QED
    BY <2>3, <2>4, <2>5
<1>17. QED
  BY <1>8, <1>10, <1>11, <1>12, <1>13, <1>14, <1>15, <1>16, Steps DEF Inert

-----------------------------------------------------------------------------
\* What a descriptor in a writer's hand is, while maintain_log moves on.
LEMMA HandStep ==
  ASSUME IInv, [Next]_vars
  PROVE  InHand'
<1>1. /\ TypeOK /\ Slots /\ Registering /\ InHand /\ TypeOK' /\ Registering'
  BY TypeStep, RegisteringStep DEF IInv, HasEntity
<1>2. /\ pc \in [Threads -> {"start", "locked", "opened", "unlocked", "ready", "write", "failed"}]
      /\ wfd \in [Threads -> Fds \cup {NoFd}]
      /\ wage \in [Threads -> 0..MaxWrite] /\ wrot \in [Threads -> 0..2]
      /\ left \in [Ids -> 0..Grace]
      /\ \A t \in Threads : pc[t] \in {"ready", "write"} =>
           id[t] \in Ids /\ id[t] \in Int /\ id[t] < curlogid
      /\ fd \in [Ids -> Fds \cup {NoFd}] /\ pending \in [Ids -> Fds \cup {NoFd}]
      /\ mi \in Ids /\ mi \in Int /\ curlogid \in Ids /\ curlogid \in Int
      /\ Grace \in Nat /\ MaxWrite \in Nat /\ MaxWrite < Grace
      /\ ofd # NoFd <=> mpc = "delay"
  BY <1>1, Slot, Types DEF TypeOK, Registering, Slots
<1>3. \A t \in Threads :
        /\ pc[t] # "write" => wage[t] = 0 /\ wrot[t] = 0
        /\ pc[t] = "write" /\ wrot[t] = 0 => wfd[t] = fd[id[t]]
        /\ pc[t] = "write" /\ wrot[t] = 1 /\ mpc = "delay" /\ mi = id[t] => wfd[t] = ofd
        /\ pc[t] = "write" /\ wrot[t] = 1 /\ ~(mpc = "delay" /\ mi = id[t]) =>
             /\ wfd[t] = pending[id[t]] /\ wfd[t] # NoFd
             /\ left[id[t]] + wage[t] >= Grace
             /\ mpc = "close" /\ id[t] \in due => id[t] < mi
  BY <1>1 DEF InHand
<1> DEFINE
      Hand(t) ==
        /\ pc[t] # "write" => wage[t] = 0 /\ wrot[t] = 0
        /\ pc[t] = "write" /\ wrot[t] = 0 => wfd[t] = fd[id[t]]
        /\ pc[t] = "write" /\ wrot[t] = 1 =>
             IF mpc = "delay" /\ mi = id[t]
             THEN wfd[t] = ofd
             ELSE /\ wfd[t] = pending[id[t]] /\ wfd[t] # NoFd
                  /\ left[id[t]] + wage[t] >= Grace
                  /\ mpc = "close" /\ id[t] \in due => id[t] < mi
<1>4. SUFFICES ASSUME NEW t \in Threads PROVE Hand(t)'
  BY DEF InHand
<1>5. ASSUME NEW u \in Threads, registerlog(u) \/ LoadFd(u) \/ Write(u) PROVE Hand(t)'
  <2>1. /\ UNCHANGED <<mpc, mi, due, ofd, pending, left>>
        /\ t # u => /\ pc'[t] = pc[t] /\ id'[t] = id[t] /\ wfd'[t] = wfd[t]
                    /\ wage'[t] = wage[t] /\ wrot'[t] = wrot[t]
    BY <1>1, <1>5, OthersKept
  <2>2. \A i \in Ids : i # curlogid => fd'[i] = fd[i]
    BY <1>2, <1>5 DEF registerlog, Lock, OpenLog, RefuseLog, CountLog, ReadId, LoadFd,
                      Write, logVars
  <2>3. CASE t # u
    BY <1>2, <1>3, <2>1, <2>2, <2>3
  <2>4. CASE t = u /\ registerlog(t)
    <3>1. pc'[t] # "write" /\ pc[t] # "write" /\ UNCHANGED <<wage, wrot>>
      BY <1>2, <2>4 DEF registerlog, Lock, OpenLog, RefuseLog, CountLog, ReadId, Moves,
                        logVars, writers
    <3>2. QED
      BY <1>3, <3>1
  <2>5. CASE t = u /\ LoadFd(t)
    <3>1. /\ pc[t] = "ready" /\ wfd'[t] = fd[id[t]] /\ id' = id /\ fd' = fd
          /\ UNCHANGED wrot /\ pc'[t] = "write"
      BY <1>2, <2>5 DEF LoadFd, Moves, registry
    <3>2. QED
      BY <1>3, <3>1
  <2>6. CASE t = u /\ Write(t)
    <3>1. pc'[t] = "ready" /\ wage'[t] = 0 /\ wrot'[t] = 0
      BY <1>2, <2>6 DEF Write, Moves
    <3>2. QED
      BY <3>1
  <2>7. QED
    BY <1>5, <2>3, <2>4, <2>5, <2>6
<1>6. CASE WakeUp(FALSE) \/ WakeUp(TRUE)
  <2>1. /\ UNCHANGED <<fd, pending, left, pc, id, wfd, wage, wrot>>
        /\ mpc = "sleep" /\ mpc' = "close"
        /\ \A i \in due' : left[i] = 0
    BY <1>6 DEF WakeUp, registry, writers
  <2>2. wage[t] \in Int /\ wage[t] <= MaxWrite
    BY <1>2
  <2>3. pc[t] = "write" /\ wrot[t] = 1 => left[id[t]] # 0
    BY <1>2, <1>3, <2>1, <2>2
  <2>4. QED
    BY <1>3, <2>1, <2>3
<1>7. CASE CloseDue
  <2>1. /\ UNCHANGED <<fd, left, pc, id, wfd, wage, wrot, due>> /\ mpc = "close"
    BY <1>7 DEF CloseDue, registry, writers
  <2>2. CASE InLoop
    <3>1. /\ mpc' = "close" /\ mi' = mi + 1
          /\ \A i \in Ids : i # mi => pending'[i] = pending[i]
          /\ mi \notin due => pending' = pending
      BY <1>2, <1>7, <2>1, <2>2 DEF CloseDue
    <3>2. QED
      BY <1>2, <1>3, <2>1, <3>1
  <2>3. CASE ~InLoop
    <3>1. mpc' = "scan" /\ pending' = pending
      BY <1>7, <2>3 DEF CloseDue
    <3>2. QED
      BY <1>3, <2>1, <3>1
  <2>4. QED
    BY <2>2, <2>3
<1>8. CASE KeepLog \/ ShiftLog \/ EndRound
  <2>1. /\ UNCHANGED <<fd, pending, left, pc, id, wfd, wage, wrot>>
        /\ mpc = "scan" /\ mpc' \in {"scan", "swap", "sleep"}
    BY <1>8 DEF KeepLog, ShiftLog, EndRound, registry, writers
  <2>2. QED
    BY <1>3, <2>1
<1>9. CASE SwapFd
  <2>1. /\ UNCHANGED <<pending, left, pc, id, wfd, wage, due, mi>>
        /\ mpc = "swap" /\ mpc' = "delay" /\ ofd' = fd[mi]
        /\ \A i \in Ids : i # mi => fd'[i] = fd[i]
    BY <1>2, <1>9 DEF SwapFd, registry
  <2>2. wrot'[t] = IF pc[t] = "write" /\ id[t] = mi /\ wrot[t] < 2
                   THEN wrot[t] + 1 ELSE wrot[t]
    BY <1>9 DEF SwapFd
  <2>3. CASE pc[t] = "write" /\ id[t] = mi
    <3>1. wrot'[t] # 0 /\ (wrot'[t] = 1 => wrot[t] = 0)
      BY <1>2, <2>2, <2>3
    <3>2. QED
      BY <1>3, <2>1, <2>3, <3>1
  <2>4. CASE ~(pc[t] = "write" /\ id[t] = mi)
    BY <1>2, <1>3, <2>1, <2>2, <2>4
  <2>5. QED
    BY <2>3, <2>4
<1>10. CASE delay_close
  <2>1. /\ UNCHANGED <<fd, pc, id, wfd, wage, wrot>>
        /\ mpc = "delay" /\ mpc' = "scan" /\ ofd # NoFd
        /\ pending'[mi] = ofd /\ left'[mi] = Grace
        /\ \A i \in Ids : i # mi => pending'[i] = pending[i] /\ left'[i] = left[i]
    BY <1>2, <1>10 DEF delay_close, registry, writers
  <2>2. wage[t] \in Nat
    BY <1>2
  <2>3. QED
    BY <1>2, <1>3, <2>1, <2>2
<1>11. CASE Tick
  <2>1. UNCHANGED <<fd, pending, pc, id, wfd, wrot, mpc, mi, due, ofd>>
    BY <1>11 DEF Tick, registry
  <2>2. wage'[t] = IF pc[t] = "write" THEN wage[t] + 1 ELSE wage[t]
    BY <1>11 DEF Tick
  <2>3. \A i \in Ids : left'[i] = IF left[i] > 0 THEN left[i] - 1 ELSE 0
    BY <1>11 DEF Tick
  <2>4. pc[t] = "write" /\ left[id[t]] + wage[t] >= Grace =>
          left'[id[t]] + wage'[t] >= Grace
    BY <1>2, <2>2, <2>3
  <2>5. QED
    BY <1>3, <2>1, <2>2, <2>4
<1>12. CASE UNCHANGED vars
  BY <1>3, <1>12 DEF vars, registry, writers
<1>13. QED
  BY <1>5, <1>6, <1>7, <1>8, <1>9, <1>10, <1>11, <1>12, Steps DEF registerlog

-----------------------------------------------------------------------------
LEMMA InitInv ==
  ASSUME Init
  PROVE  IInv
<1> USE DEF Init
<1>1. 0 \in Ids /\ \A i \in Ids : ~(i < 0)
  BY Slot
<1>2. TypeOK
  BY <1>1, Slot DEF TypeOK
<1>3. HasEntity /\ Registering
  BY <1>2, Slot DEF HasEntity, Registering
<1>4. Slots
  BY <1>1 DEF Slots
<1>5. OpenFiles /\ OncePlaced
  BY DEF OpenFiles, OncePlaced
<1>6. NoLeak /\ InHand
  BY DEF NoLeak, InHand
<1>7. QED
  BY <1>3, <1>4, <1>5, <1>6 DEF IInv

LEMMA InvStep ==
  ASSUME IInv, [Next]_vars
  PROVE  IInv'
BY RegisteringStep, SlotStep, FilesStep, HandStep DEF IInv

\* IInv holds in every state, with any number of threads, logs and
\* descriptors: registrations, writes, rotations and delayed closes together.
THEOREM Inductive == Spec => []IInv
BY InitInv, InvStep, PTL DEF Spec

\* However registerlog's calls interleave, a registered thread has a slot of
\* logentities that no later registration takes.
THEOREM EveryThreadHasItsLog == Spec => []HasEntity
<1>1. IInv => HasEntity
  BY DEF IInv
<1>2. QED
  BY <1>1, Inductive, PTL

\* LOG writes to an open file of the log it was called for, whatever
\* maintain_log swapped and closed since the descriptor was loaded, as long as
\* a call is shorter than DELAYCLOSE and spans one rotation at most.
THEOREM WritersAreSafe == Spec => []WritesItsLog
<1>1. ASSUME IInv, NEW t \in Threads, pc[t] = "write", wrot[t] < 2
      PROVE  os[wfd[t]] = owner[id[t]]
  <2>1. TypeOK /\ Slots /\ Registering /\ OpenFiles /\ InHand
    BY <1>1 DEF IInv, HasEntity
  <2>2. id[t] \in Ids /\ id[t] < curlogid
    BY <1>1, <2>1, Slot, Types DEF Registering
  <2>3. wrot[t] = 0 \/ wrot[t] = 1
    BY <1>1, <2>1 DEF TypeOK
  <2>4. fd[id[t]] # NoFd
    BY <2>1, <2>2 DEF Slots
  <2>5. CASE wrot[t] = 0
    BY <1>1, <2>1, <2>2, <2>4, <2>5 DEF InHand, OpenFiles
  <2>6. CASE wrot[t] = 1
    <3>1. CASE mpc = "delay" /\ mi = id[t]
      BY <1>1, <2>1, <2>6, <3>1 DEF InHand, OpenFiles, Slots
    <3>2. CASE ~(mpc = "delay" /\ mi = id[t])
      BY <1>1, <2>1, <2>2, <2>6, <3>2 DEF InHand, OpenFiles
    <3>3. QED
      BY <3>1, <3>2
  <2>7. QED
    BY <2>3, <2>5, <2>6
<1>2. IInv => WritesItsLog
  BY <1>1 DEF WritesItsLog
<1>3. QED
  BY <1>2, Inductive, PTL

\* No rotation, delayed close or registration loses track of a descriptor.
THEOREM NothingLeaks == Spec => []NoLeak
<1>1. IInv => NoLeak
  BY DEF IInv
<1>2. QED
  BY <1>1, Inductive, PTL
=============================================================================
