-------------------------- MODULE ConnTableProofs --------------------------
(***************************************************************************)
(* Proofs about ConnTable.tla, for any threads, descriptors and idle       *)
(* limit, where the threads are Alone (see there).                         *)
(***************************************************************************)
EXTENDS ConnTable, TLAPS

NoDup(s)  == \A i, j \in 1..Len(s) : s[i] = s[j] => i = j
Has(s, f) == \E i \in 1..Len(s) : s[i] = f

-----------------------------------------------------------------------------
(* The list operations.                                                    *)

\* list_del_init takes f off its list and nothing else.
LEMMA Removed ==
  ASSUME NEW S, NEW s \in Seq(S), NoDup(s), NEW f
  PROVE  /\ RemoveFirst(s, f) \in Seq(S)
         /\ NoDup(RemoveFirst(s, f))
         /\ \A g : Has(RemoveFirst(s, f), g) <=> g # f /\ Has(s, g)
<1> DEFINE r == RemoveFirst(s, f)
<1>1. CASE ~Has(s, f)
  <2>1. r = s
    BY <1>1 DEF RemoveFirst, Has
  <2>2. QED
    BY <1>1, <2>1
<1>2. CASE Has(s, f)
  <2>1. PICK k \in 1..Len(s) : s[k] = f
    BY <1>2 DEF Has
  <2>2. {i \in 1..Len(s) : s[i] = f} = {k}
    BY <2>1 DEF NoDup
  <2>3. Min({k}) = k
    BY <2>1 DEF Min
  <2>4. SelectInSeq(s, LAMBDA v : v = f) = k
    BY <2>2, <2>3 DEF SelectInSeq
  <2>5. r = SubSeq(s, 1, k - 1) \o SubSeq(s, k + 1, Len(s))
    BY <1>2, <2>4 DEF RemoveFirst, RemoveAt, Has
  <2>6. /\ r \in Seq(S) /\ Len(r) = Len(s) - 1
        /\ \A j \in 1..(Len(s) - 1) : r[j] = IF j < k THEN s[j] ELSE s[j + 1]
    <3> DEFINE a == SubSeq(s, 1, k - 1)
               b == SubSeq(s, k + 1, Len(s))
    <3>1. k \in Int /\ 1 <= k /\ k <= Len(s) /\ Len(s) \in Nat
      BY <2>1
    <3>2. /\ a \in Seq(S) /\ Len(a) = k - 1
          /\ \A j \in 1..(k - 1) : a[j] = s[j]
      BY <3>1
    <3>3. /\ b \in Seq(S) /\ Len(b) = Len(s) - k
          /\ \A j \in 1..(Len(s) - k) : b[j] = s[k + j]
      BY <3>1
    <3> HIDE DEF a, b
    <3>4. r = a \o b
      BY <2>5 DEF a, b
    <3> HIDE DEF r
    <3>5. r \in Seq(S) /\ Len(r) = Len(s) - 1
      <4>1. a \o b \in Seq(S) /\ Len(a \o b) = Len(a) + Len(b)
        <5>1. a \in Seq(S) /\ b \in Seq(S)
          BY <3>2, <3>3
        <5>2. a \o b \in Seq(S)
          BY <5>1
        <5>3. Len(a \o b) = Len(a) + Len(b)
          BY <5>1
        <5>4. QED
          BY <5>2, <5>3
      <4>2. QED
        BY <3>1, <3>2, <3>3, <3>4, <4>1
    <3>6. ASSUME NEW j \in 1..(Len(s) - 1)
          PROVE  r[j] = IF j < k THEN s[j] ELSE s[j + 1]
      <4>1. r[j] = IF j <= Len(a) THEN a[j] ELSE b[j - Len(a)]
        BY <3>1, <3>2, <3>3, <3>4, <3>6
      <4>2. CASE j < k
        BY <3>1, <3>2, <3>6, <4>1, <4>2
      <4>3. CASE ~(j < k)
        <5>1. j - (k - 1) \in 1..(Len(s) - k) /\ k + (j - (k - 1)) = j + 1
          BY <3>1, <3>6, <4>3
        <5>2. QED
          BY <3>1, <3>2, <3>3, <3>6, <4>1, <4>3, <5>1
      <4>4. QED
        BY <4>2, <4>3
    <3>7. QED
      BY <3>5, <3>6
  <2>7. Len(s) \in Nat
    OBVIOUS
  <2>8. NoDup(r)
    BY <2>1, <2>6, <2>7 DEF NoDup
  <2>9. \A g : Has(r, g) => g # f /\ Has(s, g)
    BY <2>1, <2>6, <2>7 DEF NoDup, Has
  <2>10. ASSUME NEW g, g # f, Has(s, g) PROVE Has(r, g)
    <3>1. PICK i \in 1..Len(s) : s[i] = g
      BY <2>10 DEF Has
    <3>2. CASE i < k
      BY <2>1, <2>6, <2>7, <3>1, <3>2 DEF Has
    <3>3. CASE i > k
      <4>1. i - 1 \in 1..(Len(s) - 1) /\ ~(i - 1 < k) /\ (i - 1) + 1 = i
        BY <2>1, <2>7, <3>3
      <4>2. r[i - 1] = g /\ i - 1 \in 1..Len(r)
        BY <2>6, <3>1, <4>1
      <4>3. QED
        BY <4>2 DEF Has
    <3>4. QED
      BY <2>1, <2>10, <3>1, <3>2, <3>3
  <2>11. QED
    BY <2>6, <2>8, <2>9, <2>10
<1>3. QED
  BY <1>1, <1>2

LEMMA Appended ==
  ASSUME NEW S, NEW s \in Seq(S), NoDup(s), NEW f \in S, ~Has(s, f)
  PROVE  /\ Append(s, f) \in Seq(S)
         /\ NoDup(Append(s, f))
         /\ \A g : Has(Append(s, f), g) <=> g = f \/ Has(s, g)
<1>1. /\ Append(s, f) \in Seq(S) /\ Len(Append(s, f)) = Len(s) + 1 /\ Len(s) \in Nat
      /\ Append(s, f)[Len(s) + 1] = f
      /\ \A i \in 1..Len(s) : Append(s, f)[i] = s[i]
  OBVIOUS
<1>2. 1..(Len(s) + 1) = (1..Len(s)) \cup {Len(s) + 1}
  BY <1>1
<1>3. NoDup(Append(s, f))
  BY <1>1, <1>2 DEF NoDup, Has
<1>4. \A g : Has(Append(s, f), g) <=> g = f \/ Has(s, g)
  BY <1>1, <1>2 DEF Has
<1>5. QED
  BY <1>1, <1>3, <1>4

LEMMA UnlistedIs ==
  ASSUME list \in [Threads -> Seq(Fds)], \A u \in Threads : NoDup(list[u]), NEW f
  PROVE  /\ Unlisted(f) \in [Threads -> Seq(Fds)]
         /\ \A u \in Threads :
              /\ NoDup(Unlisted(f)[u])
              /\ \A g : Has(Unlisted(f)[u], g) <=> g # f /\ Has(list[u], g)
BY Removed DEF Unlisted

LEMMA MovedTailIs ==
  ASSUME list \in [Threads -> Seq(Fds)], \A u \in Threads : NoDup(list[u]),
         NEW t \in Threads, NEW f \in Fds
  PROVE  /\ MovedTail(t, f) \in [Threads -> Seq(Fds)]
         /\ \A u \in Threads :
              /\ NoDup(MovedTail(t, f)[u])
              /\ \A g : Has(MovedTail(t, f)[u], g) <=>
                          (u = t /\ g = f) \/ (g # f /\ Has(list[u], g))
<1> DEFINE un == Unlisted(f)
<1>1. /\ un \in [Threads -> Seq(Fds)]
      /\ \A u \in Threads : /\ NoDup(un[u])
                            /\ \A g : Has(un[u], g) <=> g # f /\ Has(list[u], g)
  BY UnlistedIs
<1>2. /\ Append(un[t], f) \in Seq(Fds) /\ NoDup(Append(un[t], f))
      /\ \A g : Has(Append(un[t], f), g) <=> g = f \/ Has(un[t], g)
  BY <1>1, Appended
<1> HIDE DEF un
<1>3. MovedTail(t, f) = [un EXCEPT ![t] = Append(un[t], f)]
  BY DEF MovedTail, un
<1>4. /\ MovedTail(t, f) \in [Threads -> Seq(Fds)]
      /\ MovedTail(t, f)[t] = Append(un[t], f)
      /\ \A u \in Threads : u # t => MovedTail(t, f)[u] = un[u]
  BY <1>1, <1>2, <1>3
<1>5. QED
  BY <1>1, <1>2, <1>4

\* The list of t itself.
LEMMA MovedTailOwn ==
  ASSUME list \in [Threads -> Seq(Fds)], \A u \in Threads : NoDup(list[u]),
         NEW t \in Threads, NEW f \in Fds
  PROVE  /\ NoDup(MovedTail(t, f)[t])
         /\ \A g : Has(MovedTail(t, f)[t], g) <=> g = f \/ Has(list[t], g)
BY MovedTailIs

-----------------------------------------------------------------------------
(* IInv, thread by thread.                                                 *)
Good(t) ==
  /\ NoDup(list[t])
  /\ \A f \in Fds : Has(list[t], f) => os[f] = t
  /\ \A f \in Fds : os[f] = t /\ ~Setting(t, f) /\ ~Closing(t, f)
       => live[f] /\ Has(list[t], f)
  /\ pc[t] \in {"init", "add", "recv", "fini", "mark", "close"} => os[fd[t]] = t
  /\ pc[t] \in {"init", "mark", "close"} => ~Has(list[t], fd[t])
  /\ pc[t] = "add" => Has(list[t], fd[t])
  /\ pc[t] \in {"recv", "fini"} => live[fd[t]]
  /\ pc[t] = "close" => ~live[fd[t]]
  /\ pos[t] > 0
  /\ pc[t] = "send" => os[fd[t]] = t \/ (~live[fd[t]] /\ \A u \in Threads : u = t)
  /\ ~Combined => ~outs[t] /\ back[t] # "send"

LEMMA InList ==
  ASSUME TypeOK, NEW t \in Threads
  PROVE  /\ \A i \in 1..Len(list[t]) : list[t][i] \in Fds /\ Has(list[t], list[t][i])
         /\ (\A i \in 1..Len(list[t]) : os[list[t][i]] = t)
              <=> (\A f \in Fds : Has(list[t], f) => os[f] = t)
<1>1. list[t] \in Seq(Fds)
  BY DEF TypeOK
<1>2. \A i \in 1..Len(list[t]) : list[t][i] \in Fds /\ Has(list[t], list[t][i])
  BY <1>1 DEF Has
<1>3. QED
  BY <1>2 DEF Has

LEMMA Threadwise == IInv <=> TypeOK /\ \A t \in Threads : Good(t)
<1>1. ASSUME IInv, NEW t \in Threads PROVE TypeOK /\ Good(t)
  BY <1>1, InList
     DEF IInv, ListedIsOpen, AtConnection, SendAfterClose, Good, NoDup, Has, Listed
<1>2. ASSUME TypeOK, \A t \in Threads : Good(t) PROVE IInv
  <2>1. ListedIsOpen
    <3>1. ASSUME NEW t \in Threads
          PROVE  /\ \A i \in 1..Len(list[t]) : os[list[t][i]] = t
                 /\ \A i, j \in 1..Len(list[t]) : list[t][i] = list[t][j] => i = j
                 /\ \A f \in Fds : os[f] = t /\ ~Setting(t, f) /\ ~Closing(t, f)
                      => live[f] /\ \E i \in 1..Len(list[t]) : list[t][i] = f
      BY <1>2, InList DEF Good, NoDup, Has
    <3>2. QED
      BY <1>2, <3>1 DEF ListedIsOpen
  <2>2. AtConnection /\ SendAfterClose
    BY <1>2 DEF AtConnection, SendAfterClose, Good, Has, Listed
  <2>3. QED
    BY <2>1, <2>2 DEF IInv
<1>3. IInv => TypeOK
  BY DEF IInv, ListedIsOpen
<1>4. QED
  BY <1>1, <1>2, <1>3

\* A step is one of these.
LEMMA Steps ==
  ASSUME [Next]_vars
  PROVE  \/ Tick \/ UNCHANGED vars
         \/ \E t \in Threads :
              \/ createsocket(t) \/ do_process(t) \/ svc_initconn(t) \/ add_fd_2_efd(t)
              \/ do_recv(t) \/ do_send(t) \/ svc_timeout(t) \/ close_idle(t)
              \/ end_timeout(t) \/ do_close(t) \/ mark_closed(t) \/ close_fd(t)
BY DEF Next, Run

LEMMA TypeStep ==
  ASSUME IInv, [Next]_vars
  PROVE  TypeOK'
<1>1. TypeOK /\ \A t \in Threads : Good(t)
  BY Threadwise
<1>2. /\ list \in [Threads -> Seq(Fds)] /\ \A t \in Threads : NoDup(list[t])
      /\ \A t \in Threads : fd[t] \in Fds /\ pos[t] \in Nat
      /\ Idle \in Nat /\ Request \in Nat /\ Spurious \in Nat
      /\ Idle > 0 /\ Request > 0
  BY <1>1, ConnAssumption DEF TypeOK, Good
<1>0. /\ os \in [Fds -> Threads \cup {NoThread}] /\ live \in [Fds -> BOOLEAN]
      /\ age \in [Fds -> 0..Idle] /\ unsent \in [Fds -> 0..Request]
      /\ armed \in SUBSET Fds /\ again \in [Fds -> 0..Spurious]
      /\ pc \in [Threads -> Places] /\ fd \in [Threads -> Fds]
      /\ outs \in [Threads -> BOOLEAN] /\ back \in [Threads -> {"loop", "send", "idle"}]
      /\ pos \in [Threads -> Nat]
  BY <1>1 DEF TypeOK
<1> USE <1>0, <1>2 DEF TypeOK, Places, Goto, Close, Alive, net, loc
<1>3. ASSUME NEW t \in Threads, createsocket(t) PROVE TypeOK'
  BY <1>3 DEF createsocket
<1>4. ASSUME NEW t \in Threads, do_process(t) PROVE TypeOK'
  <2>1. fd' \in [Threads -> Fds] /\ UNCHANGED <<os, live, list, age, net, pos>>
    BY <1>4 DEF do_process
  <2>2. /\ pc' \in [Threads -> Places] /\ back' \in [Threads -> {"loop", "send", "idle"}]
        /\ outs' \in [Threads -> BOOLEAN]
    BY <1>4 DEF do_process
  <2>3. QED
    BY <2>1, <2>2
<1>5. ASSUME NEW t \in Threads, svc_initconn(t) PROVE TypeOK'
  <2>1. list' \in [Threads -> Seq(Fds)]
    BY <1>5, MovedTailIs DEF svc_initconn
  <2>2. QED
    <3>1. age' \in [Fds -> 0..Idle] /\ os' \in [Fds -> Threads \cup {NoThread}]
      <4>1. \/ age' = [age EXCEPT ![fd[t]] = 0] /\ os' = os
            \/ age' = age /\ os' = [os EXCEPT ![fd[t]] = NoThread]
        BY <1>5 DEF svc_initconn
      <4>2. 0 \in 0..Idle
        OBVIOUS
      <4>3. age' \in [Fds -> 0..Idle]
        BY <4>1, <4>2
      <4>4. os' \in [Fds -> Threads \cup {NoThread}]
        BY <4>1
      <4>5. QED
        BY <4>3, <4>4
    <3>2. pc' \in [Threads -> Places] /\ UNCHANGED <<live, fd, net, loc>>
      BY <1>5 DEF svc_initconn
    <3>3. QED
      BY <2>1, <3>1, <3>2
<1>6. ASSUME NEW t \in Threads, add_fd_2_efd(t) PROVE TypeOK'
  BY <1>6 DEF add_fd_2_efd
<1>7. ASSUME NEW t \in Threads, do_recv(t) PROVE TypeOK'
  <2>1. list' \in [Threads -> Seq(Fds)]
    BY <1>7, MovedTailIs DEF do_recv
  <2>2. again' \in [Fds -> 0..Spurious]
    <3>1. CASE again' = again
      BY <3>1
    <3>2. CASE again[fd[t]] < Spurious /\ again' = [again EXCEPT ![fd[t]] = @ + 1]
      BY <3>2
    <3>3. QED
      BY <1>7, <3>1, <3>2 DEF do_recv
  <2>3. age' \in [Fds -> 0..Idle] /\ armed' \in SUBSET Fds
    BY <1>7 DEF do_recv
  <2>4. /\ pc' \in [Threads -> Places] /\ back' \in [Threads -> {"loop", "send", "idle"}]
        /\ UNCHANGED <<os, live, unsent, fd, outs, pos>>
    BY <1>7 DEF do_recv, AfterRecv
  <2>5. QED
    BY <2>1, <2>2, <2>3, <2>4
<1>8. ASSUME NEW t \in Threads, do_send(t) PROVE TypeOK'
  <2>1. list' \in [Threads -> Seq(Fds)]
    BY <1>8, MovedTailIs DEF do_send
  <2>2. unsent' \in [Fds -> 0..Request]
    BY <1>8 DEF do_send
  <2>3. age' \in [Fds -> 0..Idle] /\ armed' \in SUBSET Fds
    BY <1>8 DEF do_send
  <2>4. /\ pc' \in [Threads -> Places] /\ back' \in [Threads -> {"loop", "send", "idle"}]
        /\ UNCHANGED <<os, live, again, fd, outs, pos>>
    BY <1>8 DEF do_send
  <2>5. QED
    BY <2>1, <2>2, <2>3, <2>4
<1>9. ASSUME NEW t \in Threads, svc_timeout(t) \/ end_timeout(t) PROVE TypeOK'
  <2>1. CASE svc_timeout(t)
    <3>1. pos' \in [Threads -> Nat]
      BY <2>1 DEF svc_timeout
    <3>2. pc' \in [Threads -> Places]
      BY <2>1 DEF svc_timeout
    <3>3. QED
      BY <2>1, <3>1, <3>2 DEF svc_timeout
  <2>2. CASE end_timeout(t)
    BY <2>2 DEF end_timeout
  <2>3. QED
    BY <1>9, <2>1, <2>2
<1>10. ASSUME NEW t \in Threads, close_idle(t) PROVE TypeOK'
  <2>1. pos[t] \in 1..Len(list[t])
    BY <1>1, <1>10 DEF close_idle, Good
  <2>2. list[t][pos[t]] \in Fds
    BY <1>1, <2>1, InList
  <2>3. QED
    BY <1>10, <2>2 DEF close_idle
<1>11. ASSUME NEW t \in Threads, do_close(t) PROVE TypeOK'
  <2>1. list' \in [Threads -> Seq(Fds)]
    BY <1>11, UnlistedIs DEF do_close
  <2>2. back[t] \in Places /\ pos[t] + 1 \in Nat
    OBVIOUS
  <2>3. pc' \in [Threads -> Places] /\ pos' \in [Threads -> Nat]
    BY <1>11, <2>2 DEF do_close
  <2>4. UNCHANGED <<os, live, age, net, fd, outs, back>>
    BY <1>11 DEF do_close
  <2>5. QED
    BY <2>1, <2>3, <2>4
<1>12. ASSUME NEW t \in Threads, mark_closed(t) PROVE TypeOK'
  BY <1>12 DEF mark_closed
<1>13. ASSUME NEW t \in Threads, close_fd(t) PROVE TypeOK'
  BY <1>13 DEF close_fd
<1>14. CASE Tick
  BY <1>14 DEF Tick
<1>15. CASE UNCHANGED vars
  BY <1>15 DEF vars
<1>16. QED
  BY <1>3, <1>4, <1>5, <1>6, <1>7, <1>8, <1>9, <1>10, <1>11, <1>12, <1>13, <1>14, <1>15,
     Steps

-----------------------------------------------------------------------------
\* What one thread does to its own connection does not concern the others.
LEMMA Foreign ==
  ASSUME \A u \in Threads : Good(u), TypeOK, NEW t \in Threads,
         \A u \in Threads : u # t => /\ pc'[u] = pc[u] /\ fd'[u] = fd[u] /\ pos'[u] = pos[u]
                                     /\ outs'[u] = outs[u] /\ back'[u] = back[u],
         \A u \in Threads, f \in Fds : u # t => (os'[f] = u <=> os[f] = u),
         \A u \in Threads, f \in Fds : u # t /\ os[f] = u => live'[f] = live[f],
         \A u \in Threads : u # t =>
           NoDup(list'[u]) /\ \A f \in Fds : Has(list'[u], f) <=> Has(list[u], f)
  PROVE  \A u \in Threads : u # t => Good(u)'
<1>1. SUFFICES ASSUME NEW u \in Threads, u # t PROVE Good(u)'
  OBVIOUS
<1>2. Good(u) /\ fd[u] \in Fds
  BY DEF TypeOK
<1>3. QED
  BY <1>1, <1>2 DEF Good, Setting, Closing

\* The list operations seen by the other threads.
LEMMA OthersLists ==
  ASSUME \A u \in Threads : Good(u), TypeOK, NEW t \in Threads, os[fd[t]] = t,
         list' \in {list, Unlisted(fd[t]), MovedTail(t, fd[t])}
  PROVE  \A u \in Threads : u # t =>
           NoDup(list'[u]) /\ \A f \in Fds : Has(list'[u], f) <=> Has(list[u], f)
<1>1. /\ list \in [Threads -> Seq(Fds)] /\ fd[t] \in Fds
      /\ \A u \in Threads : NoDup(list[u])
      /\ \A u \in Threads : u # t => ~Has(list[u], fd[t])
  BY DEF TypeOK, Good
<1>2. CASE list' = list
  BY <1>1, <1>2
<1>3. CASE list' = Unlisted(fd[t])
  BY <1>1, <1>3, UnlistedIs
<1>4. CASE list' = MovedTail(t, fd[t])
  BY <1>1, <1>4, MovedTailIs
<1>5. QED
  BY <1>2, <1>3, <1>4

LEMMA ConnStep ==
  ASSUME IInv, Alone, [Next]_vars
  PROVE  \A t \in Threads : Good(t)'
<1>1. TypeOK /\ \A t \in Threads : Good(t)
  BY Threadwise
<1>2. /\ os \in [Fds -> Threads \cup {NoThread}] /\ live \in [Fds -> BOOLEAN]
      /\ pc \in [Threads -> Places] /\ fd \in [Threads -> Fds]
      /\ outs \in [Threads -> BOOLEAN] /\ back \in [Threads -> {"loop", "send", "idle"}]
      /\ pos \in [Threads -> Nat]
      /\ NoThread \notin Threads
  BY <1>1, ConnAssumption DEF TypeOK
<1>3. list \in [Threads -> Seq(Fds)] /\ \A t \in Threads : NoDup(list[t])
  BY <1>1 DEF TypeOK, Good
\* A thread that is at none of its connections has all of them live and listed.
<1>4. ASSUME NEW t \in Threads, NEW f \in Fds, pc[t] \in {"loop", "recv", "send", "idle"},
             os[f] = t
      PROVE  live[f] /\ Has(list[t], f)
  BY <1>1, <1>4 DEF Good, Setting, Closing
<1>5. ASSUME NEW t \in Threads, createsocket(t) PROVE \A u \in Threads : Good(u)'
  <2>1. PICK f \in Fds : /\ os[f] = NoThread /\ os' = [os EXCEPT ![f] = t]
                         /\ fd' = [fd EXCEPT ![t] = f]
    BY <1>5 DEF createsocket
  <2>2. /\ pc[t] = "loop" /\ pc' = [pc EXCEPT ![t] = "init"]
        /\ UNCHANGED <<live, list, outs, back, pos>>
    BY <1>5 DEF createsocket, Goto, loc
  <2>3. /\ \A u \in Threads : u # t => pc'[u] = pc[u] /\ fd'[u] = fd[u]
        /\ \A u \in Threads, g \in Fds : u # t => (os'[g] = u <=> os[g] = u)
    BY <1>2, <2>1, <2>2
  <2>4. \A u \in Threads : u # t => Good(u)'
    BY <1>1, <1>3, <2>2, <2>3, Foreign
  <2>5. /\ pc'[t] = "init" /\ fd'[t] = f /\ os'[f] = t
        /\ \A g \in Fds : g # f => os'[g] = os[g]
        /\ \A g \in Fds : os[g] = t => g # f /\ live[g] /\ Has(list[t], g)
        /\ ~Has(list[t], f)
    BY <1>1, <1>2, <1>4, <2>1, <2>2 DEF Good
  <2>6. Good(t)'
    BY <1>1, <2>2, <2>5 DEF Good, Setting, Closing
  <2>7. QED
    BY <2>4, <2>6
<1>6. ASSUME NEW t \in Threads, svc_initconn(t) PROVE \A u \in Threads : Good(u)'
  <2>1. /\ pc[t] = "init" /\ os[fd[t]] = t /\ fd[t] \in Fds /\ ~Has(list[t], fd[t])
        /\ UNCHANGED <<live, fd, outs, back, pos>>
    BY <1>1, <1>2, <1>6 DEF svc_initconn, loc, Good
  <2>2. CASE list' = MovedTail(t, fd[t]) /\ Goto(t, "add") /\ os' = os
    <3>1. pc'[t] = "add" /\ \A u \in Threads : u # t => pc'[u] = pc[u]
      BY <1>2, <2>2 DEF Goto
    <3>2. \A u \in Threads : u # t => Good(u)'
      BY <1>1, <2>1, <2>2, <3>1, OthersLists, Foreign
    <3>3. /\ NoDup(list'[t])
          /\ \A g \in Fds : Has(list'[t], g) <=> g = fd[t] \/ Has(list[t], g)
      BY <1>3, <2>1, <2>2, MovedTailOwn
    <3>4. Good(t)'
      BY <1>1, <2>1, <2>2, <3>1, <3>3 DEF Good, Setting, Closing
    <3>5. QED
      BY <3>2, <3>4
  <2>3. CASE os' = [os EXCEPT ![fd[t]] = NoThread] /\ Goto(t, "loop") /\ list' = list
    <3>1. /\ pc'[t] = "loop" /\ \A u \in Threads : u # t => pc'[u] = pc[u]
          /\ os'[fd[t]] = NoThread /\ \A g \in Fds : g # fd[t] => os'[g] = os[g]
      BY <1>2, <2>1, <2>3 DEF Goto
    <3>2. \A u \in Threads, g \in Fds : u # t => (os'[g] = u <=> os[g] = u)
      BY <1>2, <2>1, <3>1
    <3>3. \A u \in Threads : u # t => Good(u)'
      BY <1>1, <1>3, <2>1, <2>3, <3>1, <3>2, Foreign
    <3>4. Good(t)'
      BY <1>1, <1>2, <2>1, <2>3, <3>1 DEF Good, Setting, Closing
    <3>5. QED
      BY <3>3, <3>4
  <2>4. QED
    BY <1>6, <2>2, <2>3 DEF svc_initconn
<1>7. ASSUME NEW t \in Threads, add_fd_2_efd(t) PROVE \A u \in Threads : Good(u)'
  <2>1. /\ pc[t] = "add" /\ os[fd[t]] = t /\ fd[t] \in Fds /\ Has(list[t], fd[t])
        /\ UNCHANGED <<os, list, fd, outs, back, pos>>
        /\ live'[fd[t]] = TRUE /\ \A g \in Fds : g # fd[t] => live'[g] = live[g]
        /\ pc'[t] = "loop" /\ \A u \in Threads : u # t => pc'[u] = pc[u]
    BY <1>1, <1>2, <1>7 DEF add_fd_2_efd, loc, Good, Goto
  <2>2. \A u \in Threads : u # t => Good(u)'
    BY <1>1, <1>3, <2>1, Foreign
  <2>3. Good(t)'
    BY <1>1, <2>1 DEF Good, Setting, Closing
  <2>4. QED
    BY <2>2, <2>3
<1>8. ASSUME NEW t \in Threads, do_process(t) PROVE \A u \in Threads : Good(u)'
  <2>1. PICK f \in Fds :
          /\ os[f] = t
          /\ fd' = [fd EXCEPT ![t] = f]
          /\ \/ Close(t, "loop") /\ UNCHANGED outs
             \/ /\ Goto(t, "recv") /\ UNCHANGED back
                /\ \E o \in BOOLEAN : (o => Combined) /\ outs' = [outs EXCEPT ![t] = o]
             \/ Goto(t, "send") /\ UNCHANGED <<outs, back>>
    BY <1>8 DEF do_process
  <2>2. /\ pc[t] = "loop" /\ UNCHANGED <<os, live, list, pos>>
        /\ live[f] /\ Has(list[t], f) /\ fd'[t] = f
        /\ \A u \in Threads : u # t => fd'[u] = fd[u]
    BY <1>2, <1>4, <1>8, <2>1 DEF do_process
  <2>3. /\ \A u \in Threads : u # t => pc'[u] = pc[u] /\ outs'[u] = outs[u]
                                       /\ back'[u] = back[u]
        /\ pc'[t] \in {"fini", "recv", "send"}
        /\ back'[t] = back[t] \/ back'[t] = "loop"
        /\ ~Combined => outs'[t] = outs[t] \/ ~outs'[t]
    BY <1>2, <2>1 DEF Goto, Close
  <2>4. \A u \in Threads : u # t => Good(u)'
    BY <1>1, <1>3, <2>2, <2>3, Foreign
  <2>5. Good(t)'
    BY <1>1, <2>1, <2>2, <2>3 DEF Good, Setting, Closing
  <2>6. QED
    BY <2>4, <2>5
<1>9. ASSUME NEW t \in Threads, do_recv(t) PROVE \A u \in Threads : Good(u)'
  <2>1. /\ pc[t] = "recv" /\ os[fd[t]] = t /\ fd[t] \in Fds /\ live[fd[t]]
        /\ UNCHANGED <<os, live, fd, outs, pos>>
        /\ AfterRecv(t) \in {"loop", "send"} /\ (~Combined => AfterRecv(t) = "loop")
    BY <1>1, <1>2, <1>9 DEF do_recv, Good, AfterRecv
  <2>2. CASE Close(t, AfterRecv(t)) /\ list' = list
    <3>1. /\ pc'[t] = "fini" /\ back'[t] = AfterRecv(t)
          /\ \A u \in Threads : u # t => pc'[u] = pc[u] /\ back'[u] = back[u]
      BY <1>2, <2>2 DEF Close, Goto
    <3>2. \A u \in Threads : u # t => Good(u)'
      BY <1>1, <1>3, <2>1, <2>2, <3>1, Foreign
    <3>3. Good(t)'
      BY <1>1, <2>1, <2>2, <3>1 DEF Good, Setting, Closing
    <3>4. QED
      BY <3>2, <3>3
  <2>3. CASE list' = MovedTail(t, fd[t]) /\ Goto(t, AfterRecv(t)) /\ UNCHANGED back
    <3>1. /\ pc'[t] \in {"loop", "send"} /\ \A u \in Threads : u # t => pc'[u] = pc[u]
      BY <1>2, <2>1, <2>3 DEF Goto
    <3>2. \A u \in Threads : u # t => Good(u)'
      BY <1>1, <2>1, <2>3, <3>1, OthersLists, Foreign
    <3>3. /\ NoDup(list'[t])
          /\ \A g \in Fds : Has(list'[t], g) <=> g = fd[t] \/ Has(list[t], g)
      BY <1>3, <2>1, <2>3, MovedTailOwn
    <3>4. Good(t)'
      BY <1>1, <2>1, <2>3, <3>1, <3>3 DEF Good, Setting, Closing
    <3>5. QED
      BY <3>2, <3>4
  <2>4. QED
    BY <1>9, <2>1, <2>2, <2>3 DEF do_recv
<1>10. ASSUME NEW t \in Threads, do_send(t) PROVE \A u \in Threads : Good(u)'
  <2>1. /\ pc[t] = "send" /\ fd[t] \in Fds /\ (live[fd[t]] => os[fd[t]] = t)
        /\ UNCHANGED <<os, live, fd, outs, pos>>
    BY <1>1, <1>2, <1>10 DEF do_send, Good
  <2>2. CASE Goto(t, "loop") /\ UNCHANGED <<list, back>>
    <3>1. pc'[t] = "loop" /\ \A u \in Threads : u # t => pc'[u] = pc[u]
      BY <1>2, <2>2 DEF Goto
    <3>2. \A u \in Threads : u # t => Good(u)'
      BY <1>1, <1>3, <2>1, <2>2, <3>1, Foreign
    <3>3. Good(t)'
      BY <1>1, <2>1, <2>2, <3>1 DEF Good, Setting, Closing
    <3>4. QED
      BY <3>2, <3>3
  <2>3. CASE live[fd[t]] /\ Close(t, "loop") /\ list' = list
    <3>1. /\ pc'[t] = "fini" /\ back'[t] = "loop"
          /\ \A u \in Threads : u # t => pc'[u] = pc[u] /\ back'[u] = back[u]
      BY <1>2, <2>3 DEF Close, Goto
    <3>2. \A u \in Threads : u # t => Good(u)'
      BY <1>1, <1>3, <2>1, <2>3, <3>1, Foreign
    <3>3. Good(t)'
      BY <1>1, <2>1, <2>3, <3>1 DEF Good, Setting, Closing
    <3>4. QED
      BY <3>2, <3>3
  <2>4. CASE live[fd[t]] /\ list' = MovedTail(t, fd[t]) /\ Goto(t, "loop") /\ back' = back
    <3>1. pc'[t] = "loop" /\ \A u \in Threads : u # t => pc'[u] = pc[u]
      BY <1>2, <2>4 DEF Goto
    <3>2. \A u \in Threads : u # t => Good(u)'
      BY <1>1, <2>1, <2>4, <3>1, OthersLists, Foreign
    <3>3. /\ NoDup(list'[t])
          /\ \A g \in Fds : Has(list'[t], g) <=> g = fd[t] \/ Has(list[t], g)
      BY <1>3, <2>1, <2>4, MovedTailOwn
    <3>4. Good(t)'
      BY <1>1, <2>1, <2>4, <3>1, <3>3 DEF Good, Setting, Closing
    <3>5. QED
      BY <3>2, <3>4
  <2>5. QED
    BY <1>10, <2>2, <2>3, <2>4 DEF do_send
<1>11. ASSUME NEW t \in Threads, svc_timeout(t) \/ end_timeout(t)
       PROVE  \A u \in Threads : Good(u)'
  <2>1. /\ pc[t] \in {"loop", "idle"} /\ UNCHANGED <<os, live, list, fd, outs, back>>
        /\ pc'[t] \in {"loop", "idle"} /\ pos'[t] > 0
        /\ \A u \in Threads : u # t => pc'[u] = pc[u] /\ pos'[u] = pos[u]
    BY <1>1, <1>2, <1>11 DEF svc_timeout, end_timeout, Goto, loc, Good
  <2>2. \A u \in Threads : u # t => Good(u)'
    BY <1>1, <1>3, <2>1, Foreign
  <2>3. Good(t)'
    BY <1>1, <2>1 DEF Good, Setting, Closing
  <2>4. QED
    BY <2>2, <2>3
<1>12. ASSUME NEW t \in Threads, close_idle(t) PROVE \A u \in Threads : Good(u)'
  <2>1. pos[t] \in 1..Len(list[t])
    BY <1>1, <1>2, <1>12 DEF close_idle, Good
  <2>2. PICK f \in Fds : f = list[t][pos[t]] /\ Has(list[t], f) /\ os[f] = t
    BY <1>1, <2>1, InList DEF Good
  <2>3. /\ pc[t] = "idle" /\ UNCHANGED <<os, live, list, outs, pos>>
        /\ live[f] /\ fd'[t] = f /\ pc'[t] = "fini" /\ back'[t] = "idle"
        /\ \A u \in Threads : u # t => /\ fd'[u] = fd[u] /\ pc'[u] = pc[u]
                                        /\ back'[u] = back[u]
    BY <1>2, <1>4, <1>12, <2>2 DEF close_idle, Close, Goto
  <2>4. \A u \in Threads : u # t => Good(u)'
    BY <1>1, <1>3, <2>3, Foreign
  <2>5. Good(t)'
    BY <1>1, <2>2, <2>3 DEF Good, Setting, Closing
  <2>6. QED
    BY <2>4, <2>5
<1>13. ASSUME NEW t \in Threads, do_close(t) PROVE \A u \in Threads : Good(u)'
  <2>1. /\ pc[t] = "fini" /\ os[fd[t]] = t /\ fd[t] \in Fds /\ live[fd[t]]
        /\ UNCHANGED <<os, live, fd, outs, back, pos>>
        /\ list' = Unlisted(fd[t])
        /\ pc'[t] = "mark" /\ \A u \in Threads : u # t => pc'[u] = pc[u]
    BY <1>1, <1>2, <1>13 DEF do_close, Goto, Good
  <2>2. \A u \in Threads : u # t => Good(u)'
    BY <1>1, <2>1, OthersLists, Foreign
  <2>3. /\ NoDup(list'[t])
        /\ \A g \in Fds : Has(list'[t], g) <=> g # fd[t] /\ Has(list[t], g)
    BY <1>3, <2>1, UnlistedIs
  <2>4. Good(t)'
    BY <1>1, <2>1, <2>3 DEF Good, Setting, Closing
  <2>5. QED
    BY <2>2, <2>4
<1>14. ASSUME NEW t \in Threads, mark_closed(t) PROVE \A u \in Threads : Good(u)'
  <2>1. /\ pc[t] = "mark" /\ os[fd[t]] = t /\ fd[t] \in Fds /\ ~Has(list[t], fd[t])
        /\ UNCHANGED <<os, list, fd, outs, back, pos>>
        /\ live'[fd[t]] = FALSE /\ \A g \in Fds : g # fd[t] => live'[g] = live[g]
        /\ pc'[t] = "close" /\ \A u \in Threads : u # t => pc'[u] = pc[u]
    BY <1>1, <1>2, <1>14 DEF mark_closed, loc, Good, Goto
  <2>2. \A u \in Threads : u # t => Good(u)'
    BY <1>1, <1>3, <2>1, Foreign
  <2>3. Good(t)'
    BY <1>1, <2>1 DEF Good, Setting, Closing
  <2>4. QED
    BY <2>2, <2>3
\* The one step where a thread may go on to do_send without a connection.
<1>15. ASSUME NEW t \in Threads, close_fd(t) PROVE \A u \in Threads : Good(u)'
  <2>1. /\ pc[t] = "close" /\ os[fd[t]] = t /\ fd[t] \in Fds
        /\ ~Has(list[t], fd[t]) /\ ~live[fd[t]]
        /\ UNCHANGED <<live, list, fd, outs, back, pos>>
        /\ os'[fd[t]] = NoThread /\ \A g \in Fds : g # fd[t] => os'[g] = os[g]
        /\ pc'[t] = back[t] /\ \A u \in Threads : u # t => pc'[u] = pc[u]
        /\ pc'[t] \in {"loop", "send", "idle"}
    BY <1>1, <1>2, <1>15 DEF close_fd, loc, Good, Goto
  <2>2. \A u \in Threads, g \in Fds : u # t => (os'[g] = u <=> os[g] = u)
    BY <1>2, <2>1
  <2>3. \A u \in Threads : u # t => Good(u)'
    BY <1>1, <1>3, <2>1, <2>2, Foreign
  <2>4. pc'[t] = "send" => \A u \in Threads : u = t
    BY <1>1, <2>1 DEF Good, Alone
  <2>5. Good(t)'
    BY <1>1, <1>2, <2>1, <2>4 DEF Good, Setting, Closing
  <2>6. QED
    BY <2>3, <2>5
<1>16. CASE Tick \/ UNCHANGED vars
  <2>1. UNCHANGED <<os, live, list, pc, fd, outs, back, pos>>
    BY <1>16 DEF Tick, vars, loc
  <2>2. QED
    BY <1>1, <2>1 DEF Good, Setting, Closing
<1>17. QED
  BY <1>5, <1>6, <1>7, <1>8, <1>9, <1>10, <1>11, <1>12, <1>13, <1>14, <1>15, <1>16, Steps

-----------------------------------------------------------------------------
LEMMA InitInv ==
  ASSUME Init
  PROVE  IInv
<1>1. TypeOK
  <2>1. (CHOOSE f \in Fds : TRUE) \in Fds
    BY ConnAssumption
  <2>2. /\ 0 \in 0..Idle /\ 0 \in 0..Request /\ 0 \in 0..Spurious
    BY ConnAssumption
  <2>3. QED
    BY <2>1, <2>2 DEF Init, TypeOK, Places
<1>2. ASSUME NEW t \in Threads PROVE Good(t)
  <2>1. /\ list[t] = <<>> /\ pc[t] = "loop" /\ pos[t] = 1 /\ ~outs[t] /\ back[t] = "loop"
        /\ \A f \in Fds : os[f] # t
    BY ConnAssumption DEF Init
  <2>2. NoDup(list[t]) /\ \A f \in Fds : ~Has(list[t], f)
    BY <2>1 DEF NoDup, Has
  <2>3. QED
    BY <2>1, <2>2 DEF Good
<1>3. QED
  BY <1>1, <1>2, Threadwise

LEMMA PrimedThreadwise == TypeOK' /\ (\A t \in Threads : Good(t))' => IInv'
BY Threadwise, PTL

LEMMA InvStep ==
  ASSUME IInv, Alone, [Next]_vars
  PROVE  IInv'
BY TypeStep, ConnStep, PrimedThreadwise

\* IInv holds in every state, whatever the threads and descriptors.
THEOREM Inductive ==
  ASSUME Alone
  PROVE  Spec => []IInv
<1>1. IInv /\ [Next]_vars => IInv'
  BY InvStep
<1>2. QED
  BY InitInv, <1>1, PTL DEF Spec

\* With one thread, or where no event is readable and writable at once, the
\* activelist of a thread is exactly the set of its open connections: svc_timeout
\* finds every idle one and never a number that has been given away.
THEOREM ActivelistIsExact ==
  ASSUME Alone
  PROVE  Spec => []ListedIsOpen
<1>1. IInv => ListedIsOpen
  BY DEF IInv
<1>2. QED
  BY <1>1, Inductive, PTL

\* Under the same condition do_send's recheck of acon[fd].fd is enough: what
\* it lets through is a connection of the thread itself.
THEOREM RecheckSuffices ==
  ASSUME Alone
  PROVE  Spec => []RecheckGuards
<1>1. IInv => RecheckGuards
  BY DEF IInv, SendAfterClose, RecheckGuards
<1>2. QED
  BY <1>1, Inductive, PTL

\* And no thread ever closes a descriptor of another one.
THEOREM ClosesOnlyItsOwn ==
  ASSUME Alone
  PROVE  Spec => ClosesOwn
<1> DEFINE Own == \A t \in Threads, f \in Fds :
                    os[f] = t /\ os'[f] # t => pc[t] \in {"close", "init"} /\ fd[t] = f
<1>1. ASSUME IInv, [Next]_vars PROVE Own
  <2>1. TypeOK /\ \A t \in Threads : Good(t)
    BY <1>1, Threadwise
  <2>2. CASE UNCHANGED os
    BY <2>2
  <2>3. ASSUME NEW u \in Threads, NEW f \in Fds, os[f] = NoThread,
               os' = [os EXCEPT ![f] = u]
        PROVE  Own
    BY <2>1, <2>3, ConnAssumption DEF TypeOK
  <2>4. ASSUME NEW u \in Threads, pc[u] \in {"close", "init"},
               os' = [os EXCEPT ![fd[u]] = NoThread]
        PROVE  Own
    <3>1. os[fd[u]] = u /\ fd[u] \in Fds
      BY <2>1, <2>4 DEF Good, TypeOK
    <3>2. QED
      BY <2>1, <2>4, <3>1 DEF TypeOK
  <2>5. \/ UNCHANGED os
        \/ \E u \in Threads, f \in Fds : os[f] = NoThread /\ os' = [os EXCEPT ![f] = u]
        \/ \E u \in Threads : /\ pc[u] \in {"close", "init"}
                              /\ os' = [os EXCEPT ![fd[u]] = NoThread]
    <3>1. CASE Tick \/ UNCHANGED vars
      BY <3>1 DEF Tick, vars
    <3>2. ASSUME NEW u \in Threads, createsocket(u)
          PROVE  \E f \in Fds : os[f] = NoThread /\ os' = [os EXCEPT ![f] = u]
      BY <3>2 DEF createsocket
    <3>3. ASSUME NEW u \in Threads, svc_initconn(u) \/ close_fd(u)
          PROVE  UNCHANGED os \/ /\ pc[u] \in {"close", "init"}
                                 /\ os' = [os EXCEPT ![fd[u]] = NoThread]
      BY <3>3 DEF svc_initconn, close_fd
    <3>4. ASSUME NEW u \in Threads,
                 \/ do_process(u) \/ add_fd_2_efd(u) \/ do_recv(u) \/ do_send(u)
                 \/ svc_timeout(u) \/ close_idle(u) \/ end_timeout(u) \/ do_close(u)
                 \/ mark_closed(u)
          PROVE  UNCHANGED os
      BY <3>4 DEF do_process, add_fd_2_efd, do_recv, do_send, svc_timeout, close_idle,
                  end_timeout, do_close, mark_closed
    <3>5. QED
      BY <1>1, <3>1, <3>2, <3>3, <3>4, Steps
  <2>6. QED
    BY <2>2, <2>3, <2>4, <2>5
<1>2. IInv /\ [Next]_vars => [Own]_vars
  BY <1>1
<1>3. QED
  BY <1>2, Inductive, PTL DEF Spec, ClosesOwn
=============================================================================
