----------------------------- MODULE ConnTable -----------------------------
(***************************************************************************)
(* The connections of the protocol and http_detect threads: the event loop *)
(* of network/vfs_so.c with the svc_* callbacks of the two plugins' (equal)*)
(* vfs_data.c.  acon[] is indexed by file descriptor and shared by all the *)
(* threads; a descriptor number belongs to the thread whose socket has it, *)
(* and the kernel gives a closed number to whichever thread asks next.     *)
(* Each thread keeps its connections on its activelist, to close the idle  *)
(* ones.  Time is kept as the seconds since a connection's hbtime.         *)
(***************************************************************************)
EXTENDS Integers, SequencesExt

CONSTANTS
  Threads, NoThread,
  Fds,       \* descriptor numbers the kernel can give, lowest free one first
  Idle,      \* g_config.timeout * 10
  Request,   \* how many sends the request of do_scan can take
  Spurious,  \* bound: readable events of a connection that turn out EAGAIN
  Combined   \* whether one event may report a socket readable and writable

ASSUME ConnAssumption ==
  /\ Fds \subseteq Nat /\ Fds # {} /\ IsFiniteSet(Fds)
  /\ NoThread \notin Threads
  /\ {Idle, Request} \subseteq Nat \ {0}
  /\ Spurious \in Nat
  /\ Combined \in BOOLEAN

VARIABLES
  os,        \* the thread whose open socket the descriptor is
  live,      \* acon[fd].fd >= 0
  list,      \* activelist of a thread
  age,       \* now - peer->hbtime, as far as Idle
  unsent,    \* what is left in send_buff, in sends
  armed,     \* the descriptors with EPOLLOUT set
  again,     \* how many spurious events a connection had
  pc,        \* where a thread is
  fd,        \* the connection it is at
  outs,      \* do_process will do_send after do_recv
  back,      \* where do_close returns to
  pos        \* svc_timeout's place in activelist

vars == <<os, live, list, age, unsent, armed, again, pc, fd, outs, back, pos>>
net == <<unsent, armed, again>>
loc == <<outs, back, pos>>

Places == {"loop", "init", "add", "recv", "send", "idle", "fini", "mark", "close"}

TypeOK ==
  /\ os \in [Fds -> Threads \cup {NoThread}]
  /\ live \in [Fds -> BOOLEAN]
  /\ list \in [Threads -> Seq(Fds)]
  /\ age \in [Fds -> 0..Idle]
  /\ unsent \in [Fds -> 0..Request]
  /\ armed \in SUBSET Fds
  /\ again \in [Fds -> 0..Spurious]
  /\ pc \in [Threads -> Places]
  /\ fd \in [Threads -> Fds]
  /\ outs \in [Threads -> BOOLEAN]
  /\ back \in [Threads -> {"loop", "send", "idle"}]
  /\ pos \in [Threads -> Nat]

(* init_fdinfo(): acon is all zero, so acon[fd].fd is 0, not -1.           *)
Init ==
  /\ os = [f \in Fds |-> NoThread]
  /\ live = [f \in Fds |-> TRUE]
  /\ list = [t \in Threads |-> <<>>]
  /\ age = [f \in Fds |-> 0]
  /\ unsent = [f \in Fds |-> 0]
  /\ armed = {}
  /\ again = [f \in Fds |-> 0]
  /\ pc = [t \in Threads |-> "loop"]
  /\ fd = [t \in Threads |-> CHOOSE f \in Fds : TRUE]
  /\ outs = [t \in Threads |-> FALSE]
  /\ back = [t \in Threads |-> "loop"]
  /\ pos = [t \in Threads |-> 1]

-----------------------------------------------------------------------------
Goto(t, l) == pc' = [pc EXCEPT ![t] = l]

\* list_del_init of f, on whichever list it is.
Unlisted(f) == [u \in Threads |-> RemoveFirst(list[u], f)]

\* list_move_tail of f to the activelist of t.
MovedTail(t, f) == [Unlisted(f) EXCEPT ![t] = Append(@, f)]

Alive(f) == age' = [age EXCEPT ![f] = 0]

\* Enter do_close of the thread's connection; it goes on at l.
Close(t, l) == Goto(t, "fini") /\ back' = [back EXCEPT ![t] = l]

-----------------------------------------------------------------------------
(* active_connect: createsocket() has connected, with the lowest free      *)
(* descriptor.                                                             *)
createsocket(t) ==
  /\ pc[t] = "loop"
  /\ \E f \in Fds : /\ os[f] = NoThread
                    /\ \A g \in Fds : g < f => os[g] # NoThread
                    /\ os' = [os EXCEPT ![f] = t]
                    /\ fd' = [fd EXCEPT ![t] = f]
  /\ Goto(t, "init")
  /\ UNCHANGED <<live, list, age, net, loc>>

\* Mutant of svc_initconn: the connection is not put on activelist.
svc_initconnUnlisted(t) ==
  /\ pc[t] = "init"
  /\ Alive(fd[t])
  /\ Goto(t, "add")
  /\ UNCHANGED <<os, live, list, fd, net, loc>>

(* svc_initconn(fd); when its malloc fails the socket is closed at once.   *)
svc_initconn(t) ==
  /\ pc[t] = "init"
  /\ \/ /\ Alive(fd[t])
        /\ list' = MovedTail(t, fd[t])
        /\ Goto(t, "add")
        /\ UNCHANGED os
     \/ /\ os' = [os EXCEPT ![fd[t]] = NoThread]
        /\ Goto(t, "loop")
        /\ UNCHANGED <<age, list>>
  /\ UNCHANGED <<live, fd, net, loc>>

(* add_fd_2_efd(fd), then do_scan puts the request in send_buff.           *)
add_fd_2_efd(t) ==
  /\ pc[t] = "add"
  /\ live' = [live EXCEPT ![fd[t]] = TRUE]
  /\ unsent' = [unsent EXCEPT ![fd[t]] = Request]
  /\ armed' = armed \cup {fd[t]}
  /\ again' = [again EXCEPT ![fd[t]] = 0]
  /\ Goto(t, "loop")
  /\ UNCHANGED <<os, list, age, fd, loc>>

-----------------------------------------------------------------------------
(* epoll_wait reports an event of one of the thread's own sockets, and     *)
(* do_process looks at it: an error alone closes the connection.           *)
do_process(t) ==
  /\ pc[t] = "loop"
  /\ \E f \in Fds :
       /\ os[f] = t
       /\ fd' = [fd EXCEPT ![t] = f]
       /\ \/ /\ Close(t, "loop") /\ UNCHANGED outs
          \/ /\ Goto(t, "recv") /\ UNCHANGED back
             /\ \E o \in BOOLEAN : /\ o => f \in armed /\ Combined
                                   /\ outs' = [outs EXCEPT ![t] = o]
          \/ /\ f \in armed /\ Goto(t, "send") /\ UNCHANGED <<outs, back>>
  /\ UNCHANGED <<os, live, list, age, net, pos>>

AfterRecv(t) == IF outs[t] THEN "send" ELSE "loop"

(* do_recv: data, the peer's close and an error all end in do_close        *)
(* (svc_recv says RECV_CLOSE as soon as there is data); only a spurious    *)
(* event leaves the connection open, waiting for input.                    *)
do_recv(t) ==
  /\ pc[t] = "recv"
  /\ \/ /\ ~live[fd[t]]
        /\ Goto(t, AfterRecv(t))
        /\ UNCHANGED <<list, age, armed, again, back>>
     \/ /\ live[fd[t]]
        /\ Close(t, AfterRecv(t))
        /\ UNCHANGED <<list, age, armed, again>>
     \/ /\ live[fd[t]]
        /\ again[fd[t]] < Spurious
        /\ again' = [again EXCEPT ![fd[t]] = @ + 1]
        /\ armed' = armed \ {fd[t]}
        /\ Alive(fd[t])
        /\ list' = MovedTail(t, fd[t])
        /\ Goto(t, AfterRecv(t))
        /\ UNCHANGED back
  /\ UNCHANGED <<os, live, unsent, fd, outs, pos>>

(* do_send: the recheck of acon[fd].fd, then the send.  A part sent calls  *)
(* svc_send_once, which leaves activelist alone; the rest sent, or nothing *)
(* to send, calls svc_send.                                                *)
do_send(t) ==
  /\ pc[t] = "send"
  /\ LET f == fd[t]
     IN  \/ /\ ~live[f]
            /\ Goto(t, "loop")
            /\ UNCHANGED <<list, age, unsent, armed, back>>
         \/ /\ live[f]
            /\ unsent[f] > 0
            /\ Close(t, "loop")                              \* send failed
            /\ UNCHANGED <<list, age, unsent, armed>>
         \/ /\ live[f]
            /\ unsent[f] > 0
            /\ Goto(t, "loop")                               \* EAGAIN
            /\ armed' = armed \cup {f}
            /\ UNCHANGED <<list, age, unsent, back>>
         \/ /\ live[f]
            /\ unsent[f] > 1
            /\ unsent' = [unsent EXCEPT ![f] = @ - 1]        \* svc_send_once
            /\ armed' = armed \cup {f}
            /\ Alive(f)
            /\ Goto(t, "loop")
            /\ UNCHANGED <<list, back>>
         \/ /\ live[f]
            /\ unsent' = [unsent EXCEPT ![f] = 0]            \* svc_send
            /\ armed' = armed \ {f}
            /\ Alive(f)
            /\ list' = MovedTail(t, f)
            /\ Goto(t, "loop")
            /\ UNCHANGED back
  /\ UNCHANGED <<os, live, again, fd, outs, pos>>

-----------------------------------------------------------------------------
(* svc_timeout() walks activelist and stops at a connection that is not    *)
(* idle.                                                                   *)
svc_timeout(t) ==
  /\ pc[t] = "loop"
  /\ pos' = [pos EXCEPT ![t] = 1]
  /\ Goto(t, "idle")
  /\ UNCHANGED <<os, live, list, age, net, fd, outs, back>>

close_idle(t) ==
  /\ pc[t] = "idle"
  /\ pos[t] <= Len(list[t])
  /\ age[list[t][pos[t]]] >= Idle
  /\ fd' = [fd EXCEPT ![t] = list[t][pos[t]]]
  /\ Close(t, "idle")
  /\ UNCHANGED <<os, live, list, age, net, outs, pos>>

end_timeout(t) ==
  /\ pc[t] = "idle"
  /\ pos[t] <= Len(list[t]) => age[list[t][pos[t]]] < Idle
  /\ Goto(t, "loop")
  /\ UNCHANGED <<os, live, list, age, net, fd, loc>>

-----------------------------------------------------------------------------
\* Mutant of do_close: no svc_finiconn.
do_closeKeepsListed(t) ==
  /\ pc[t] = "fini"
  /\ IF live[fd[t]]
     THEN Goto(t, "mark") /\ UNCHANGED pos
     ELSE /\ Goto(t, back[t])
          /\ pos' = [pos EXCEPT ![t] = IF back[t] = "idle" THEN @ + 1 ELSE @]
  /\ UNCHANGED <<os, live, list, age, net, fd, outs, back>>

(* do_close: nothing for a connection already marked closed, which         *)
(* svc_timeout then passes over; svc_finiconn otherwise.                   *)
do_close(t) ==
  /\ pc[t] = "fini"
  /\ IF live[fd[t]]
     THEN list' = Unlisted(fd[t]) /\ Goto(t, "mark") /\ UNCHANGED pos
     ELSE /\ Goto(t, back[t])
          /\ pos' = [pos EXCEPT ![t] = IF back[t] = "idle" THEN @ + 1 ELSE @]
          /\ UNCHANGED list
  /\ UNCHANGED <<os, live, age, net, fd, outs, back>>

\* Mutant of mark_closed: acon[fd].fd stays what it was.
mark_closedNot(t) ==
  /\ pc[t] = "mark"
  /\ Goto(t, "close")
  /\ UNCHANGED <<os, live, list, age, net, fd, loc>>

(* curconn->fd = -1: before close(fd), so that the mark cannot hit the     *)
(* next owner of the number.                                               *)
mark_closed(t) ==
  /\ pc[t] = "mark"
  /\ live' = [live EXCEPT ![fd[t]] = FALSE]
  /\ Goto(t, "close")
  /\ UNCHANGED <<os, list, age, net, fd, loc>>

(* close(fd): from here on the kernel may give the number away.            *)
close_fd(t) ==
  /\ pc[t] = "close"
  /\ os' = [os EXCEPT ![fd[t]] = NoThread]
  /\ armed' = armed \ {fd[t]}
  /\ Goto(t, back[t])
  /\ UNCHANGED <<live, list, age, unsent, again, fd, loc>>

-----------------------------------------------------------------------------
(* A second passes.                                                        *)
Tick == /\ \E f \in Fds : age[f] < Idle
        /\ age' = [f \in Fds |-> IF age[f] < Idle THEN age[f] + 1 ELSE Idle]
        /\ UNCHANGED <<os, live, list, net, pc, fd, loc>>

\* What a thread does once it is called; the walk of svc_timeout included.
Run(t) ==
  \/ svc_initconn(t) \/ add_fd_2_efd(t)
  \/ do_recv(t) \/ do_send(t)
  \/ svc_timeout(t) \/ close_idle(t) \/ end_timeout(t)
  \/ do_close(t) \/ mark_closed(t) \/ close_fd(t)

Next == Tick \/ \E t \in Threads : createsocket(t) \/ do_process(t) \/ Run(t)

Spec == Init /\ [][Next]_vars

\* The clock runs, a thread that can run does, and its loop comes to
\* svc_timeout again and again, between events and connects.
Fairness == /\ WF_vars(Tick)
            /\ \A t \in Threads : WF_vars(Run(t)) /\ SF_vars(svc_timeout(t))

FairSpec == Spec /\ Fairness

-----------------------------------------------------------------------------
(***************************************************************************)
(* Properties                                                              *)
(***************************************************************************)

\* t is between the connect and the end of add_fd_2_efd, or in do_close.
Setting(t, f) == pc[t] \in {"init", "add"} /\ fd[t] = f
Closing(t, f) == pc[t] \in {"fini", "mark", "close"} /\ fd[t] = f

(* activelist is the set of the thread's open connections, each of them    *)
(* once: one that were open but not listed would never time out, one       *)
(* listed after its close would close a stranger's descriptor.             *)
ListedIsOpen ==
  /\ TypeOK
  /\ \A t \in Threads :
    /\ \A i \in 1..Len(list[t]) : os[list[t][i]] = t
    /\ \A i, j \in 1..Len(list[t]) : list[t][i] = list[t][j] => i = j
    /\ \A f \in Fds : os[f] = t /\ ~Setting(t, f) /\ ~Closing(t, f)
         => live[f] /\ \E i \in 1..Len(list[t]) : list[t][i] = f

(* do_send's recheck of acon[fd].fd ("recheck avoid coredump", global.h):  *)
(* when do_send passes it, the connection still is this thread's.          *)
RecheckGuards ==
  \A t \in Threads : pc[t] = "send" /\ live[fd[t]] => os[fd[t]] = t

(* A thread closes only descriptors of its own.                            *)
ClosesOwn ==
  [][\A t \in Threads, f \in Fds :
       os[f] = t /\ os'[f] # t => pc[t] \in {"close", "init"} /\ fd[t] = f]_vars

-----------------------------------------------------------------------------
(* The inductive invariant behind the three.  It needs that no thread can  *)
(* go on to do_send after its own do_close while another one opens         *)
(* connections: one thread only, or no combined events.                    *)

Alone == ~Combined \/ \A t, u \in Threads : t = u

Listed(t, f) == \E i \in 1..Len(list[t]) : list[t][i] = f

\* Whose the connection is that a thread is at, and where it is listed.
AtConnection ==
  \A t \in Threads :
    /\ pc[t] \in {"init", "add", "recv", "fini", "mark", "close"} => os[fd[t]] = t
    /\ pc[t] \in {"init", "mark", "close"} => ~Listed(t, fd[t])
    /\ pc[t] = "add" => Listed(t, fd[t])
    /\ pc[t] \in {"recv", "fini"} => live[fd[t]]
    /\ pc[t] = "close" => ~live[fd[t]]
    /\ pos[t] > 0

\* Only a combined event makes do_send follow do_close.
SendAfterClose ==
  \A t \in Threads :
    /\ pc[t] = "send" => os[fd[t]] = t \/ (~live[fd[t]] /\ \A u \in Threads : u = t)
    /\ ~Combined => ~outs[t] /\ back[t] # "send"

IInv == ListedIsOpen /\ AtConnection /\ SendAfterClose

(* Every connection is closed in the end, however its peer behaves: the    *)
(* activelist catches the ones where nothing happens, even though          *)
(* svc_send_once refreshes a connection without moving it to the tail and  *)
(* so hides the idle ones behind it.                                       *)
IdleCloses == \A f \in Fds, t \in Threads : os[f] = t ~> os[f] # t
=============================================================================
