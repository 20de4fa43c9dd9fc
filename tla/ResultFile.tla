----------------------------- MODULE ResultFile -----------------------------
(***************************************************************************)
(* The result file of a detection plugin: dump_return_msg (protocol and    *)
(* http_detect/vfs_data_base.c) and the part of svc_timeout that reloads   *)
(* the lists and rotates it. fp, last, tmpfile and the gate are static, so *)
(* the plugin's threads share them, without a lock; the lists are per      *)
(* thread. A step is one access to them or one call on a file.             *)
(*                                                                         *)
(* A FILE is never reused here: files holds, by its number, the name it    *)
(* was opened by, whether it is open, the lines in it, and its directory.  *)
(***************************************************************************)
EXTENDS Integers, Sequences, FiniteSets

CONSTANTS Threads,  \* threads of the plugin
          Minute,   \* 60 s in the units of the clock
          MaxNow,   \* bound of the clock
          MaxLines, \* bound of the answers
          Headless, \* the answers that lack the end of the head
          MaxDb     \* bound of the changes of the tables

NoFile == 0

VARIABLES now,      \* time
          fp, last, tmpfile, \* the statics of dump_return_msg
          gate,     \* the static last of svc_timeout
          files,    \* every FILE opened
          pc, line, file, \* of a thread: next step, the answer it writes (0: none), the FILE it read
          lines,    \* answers handed over, dropped ones (no file could be opened) not counted
          db,       \* version of the tables t_url and t_port
          urls, ports, \* version of the lists of a thread
          blame     \* what went on that may lose lines

results == <<now, fp, last, tmpfile, gate, files, pc, line, file, lines, db, urls, ports, blame>>

ResultInit ==
  /\ now = 1
  /\ fp = NoFile /\ last = 0 /\ tmpfile = <<>> /\ gate = 0
  /\ files = <<>>
  /\ pc = [t \in Threads |-> "idle"]
  /\ line = [t \in Threads |-> 0] /\ file = [t \in Threads |-> NoFile]
  /\ lines = 0
  /\ db = 1
  /\ urls = [t \in Threads |-> 1] /\ ports = [t \in Threads |-> 1] \* svc_init loads them
  /\ blame = {}

Tick == now < MaxNow /\ now' = now + 1
        /\ UNCHANGED <<fp, last, tmpfile, gate, files, pc, line, file, lines, db, urls, ports, blame>>

ChangeTables == /\ db < MaxDb /\ db' = db + 1
                /\ UNCHANGED <<now, fp, last, tmpfile, gate, files, pc, line, file, lines, urls, ports, blame>>

Go(t, step) == pc' = [pc EXCEPT ![t] = step]
Dumping     == {t \in Threads : pc[t] \notin {"idle", "gate"}}

\* A thread enters dump_return_msg; two at once are to blame for what follows.
Enter(t, n) ==
  /\ Go(t, "time")
  /\ line' = [line EXCEPT ![t] = n]
  /\ blame' = IF Dumping \ {t} = {} THEN blame ELSE blame \cup {"overlap"}

\* An answer that is not HTTP, or the HTTP answer of a site, has arrived: the
\* latter is not written when the end of its head is missing.
svc_recv(t) ==
  /\ pc[t] = "idle" /\ lines < MaxLines
  /\ lines' = lines + 1
  /\ Enter(t, lines + 1)
  /\ UNCHANGED <<now, fp, last, tmpfile, gate, files, file, db, urls, ports>>

----------------------------------------------------------------------------
(* svc_timeout. *)

PassGate(t) ==
  /\ pc[t] = "idle" /\ now - gate >= Minute
  /\ Go(t, "gate")
  /\ UNCHANGED <<now, fp, last, tmpfile, gate, files, line, file, lines, db, urls, ports, blame>>

\* A plausible slip: the ports are loaded although the urls were not.
reload_port_urlOn(t) ==
  \/ UNCHANGED <<urls, ports>>
  \/ ports' = [ports EXCEPT ![t] = db] /\ UNCHANGED urls
  \/ urls' = [urls EXCEPT ![t] = db] /\ ports' = [ports EXCEPT ![t] = db]

\* Either query may fail: the first leaves both lists, the second the ports.
reload_port_url(t) ==
  \/ UNCHANGED <<urls, ports>>
  \/ urls' = [urls EXCEPT ![t] = db] /\ UNCHANGED ports
  \/ urls' = [urls EXCEPT ![t] = db] /\ ports' = [ports EXCEPT ![t] = db]

svc_timeout(t) ==
  /\ pc[t] = "gate"
  /\ gate' = now
  /\ reload_port_url(t)
  /\ Enter(t, 0)
  /\ UNCHANGED <<now, fp, last, tmpfile, files, file, lines, db>>

----------------------------------------------------------------------------
(* dump_return_msg. *)

CheckTime(t) ==
  /\ pc[t] = "time"
  /\ IF last # 0 /\ now - last > Minute
     THEN last' = now /\ Go(t, "close")
     ELSE last' = (IF last = 0 THEN now ELSE last) /\ Go(t, "check")
  /\ UNCHANGED <<now, fp, tmpfile, gate, files, line, file, lines, db, urls, ports, blame>>

\* fclose of a FILE that is closed has no defined effect: nothing is lost by
\* the call itself here, but what follows is not the program's any more.
Close(t) ==
  /\ pc[t] = "close"
  /\ IF fp = NoFile
     THEN Go(t, "check") /\ UNCHANGED <<files, blame>>
     ELSE /\ Go(t, "clear")
          /\ files' = [files EXCEPT ![fp].open = FALSE]
          /\ blame' = IF files[fp].open THEN blame ELSE blame \cup {"undefined"}
  /\ UNCHANGED <<now, fp, last, tmpfile, gate, line, file, lines, db, urls, ports>>

\* A plausible slip: fp keeps pointing to the closed FILE.
ClearNot(t) ==
  /\ pc[t] = "clear"
  /\ Go(t, "rename")
  /\ UNCHANGED <<now, fp, last, tmpfile, gate, files, line, file, lines, db, urls, ports, blame>>

Clear(t) ==
  /\ pc[t] = "clear"
  /\ fp' = NoFile
  /\ Go(t, "rename")
  /\ UNCHANGED <<now, last, tmpfile, gate, files, line, file, lines, db, urls, ports, blame>>

\* The FILEs whose name is still the one in tmpdir.
InTmp(name) == {f \in DOMAIN files : files[f].name = name /\ files[f].dir = "tmpdir"}

Rename(t) ==
  /\ pc[t] = "rename"
  /\ \/ files' = [f \in DOMAIN files |->
                    IF f \in InTmp(tmpfile) THEN [files[f] EXCEPT !.dir = "outdir"] ELSE files[f]]
        /\ UNCHANGED blame
     \/ UNCHANGED files /\ blame' = blame \cup {"rename"} \* it fails, and is only logged
  /\ Go(t, "check")
  /\ UNCHANGED <<now, fp, last, tmpfile, gate, line, file, lines, db, urls, ports>>

Done(t) == Go(t, "idle") /\ line' = [line EXCEPT ![t] = 0] /\ file' = [file EXCEPT ![t] = NoFile]

Check(t) ==
  /\ pc[t] = "check"
  /\ IF line[t] = 0 THEN Done(t)
     ELSE Go(t, IF fp = NoFile THEN "name" ELSE "load") /\ UNCHANGED <<line, file>>
  /\ UNCHANGED <<now, fp, last, tmpfile, gate, files, lines, db, urls, ports, blame>>

Name(t) ==
  /\ pc[t] = "name"
  /\ tmpfile' = <<now, t>> \* the second and the thread's id
  /\ Go(t, "open")
  /\ UNCHANGED <<now, fp, last, gate, files, line, file, lines, db, urls, ports, blame>>

\* Opening a file for writing empties the one of that name in tmpdir.
Open(t) ==
  /\ pc[t] = "open"
  /\ \/ /\ files' = Append([f \in DOMAIN files |->
                              IF f \in InTmp(tmpfile) THEN [files[f] EXCEPT !.lines = {}, !.dir = "gone"]
                              ELSE files[f]],
                           [name |-> tmpfile, dir |-> "tmpdir", open |-> TRUE, lines |-> {}])
        /\ fp' = Len(files) + 1
        /\ Go(t, "load")
        /\ UNCHANGED <<line, file, blame>>
     \/ fp' = NoFile /\ Done(t) /\ blame' = blame \cup {"open"} /\ UNCHANGED files
  /\ UNCHANGED <<now, last, tmpfile, gate, lines, db, urls, ports>>

Load(t) ==
  /\ pc[t] = "load"
  /\ file' = [file EXCEPT ![t] = fp]
  /\ Go(t, "write")
  /\ UNCHANGED <<now, fp, last, tmpfile, gate, files, line, lines, db, urls, ports, blame>>

Write(t) ==
  /\ pc[t] = "write"
  /\ IF line[t] \in Headless THEN UNCHANGED <<files, blame>>
     ELSE IF file[t] # NoFile /\ files[file[t]].open
     THEN files' = [files EXCEPT ![file[t]].lines = @ \cup {line[t]}] /\ UNCHANGED blame
     ELSE blame' = blame \cup {"undefined"} /\ UNCHANGED files
  /\ Done(t)
  /\ UNCHANGED <<now, fp, last, tmpfile, gate, lines, db, urls, ports>>

ResultNext ==
  \/ Tick
  \/ ChangeTables
  \/ \E t \in Threads :
       \/ svc_recv(t) \/ PassGate(t) \/ svc_timeout(t)
       \/ CheckTime(t) \/ Close(t) \/ Clear(t) \/ Rename(t)
       \/ Check(t) \/ Name(t) \/ Open(t) \/ Load(t) \/ Write(t)

----------------------------------------------------------------------------
(* Properties *)

\* Where a line must be: in outdir, or in the file of tmpdir that fp and
\* tmpfile will rename in time.
Safe(n) == \E f \in DOMAIN files :
             /\ n \in files[f].lines
             /\ \/ files[f].dir = "outdir"
                \/ files[f].dir = "tmpdir" /\ files[f].name = tmpfile
                     /\ (fp = f \/ \E t \in Threads : pc[t] = "rename")

Underway == {line[t] : t \in Threads}

\* A line an answer left is lost, and a FILE used after it was closed, only
\* if two threads were in dump_return_msg at once, or a file could not be
\* opened or renamed.
LostOnlyInARace ==
  /\ blame = {} => \A n \in (1 .. lines) \ Headless : n \in Underway \/ Safe(n)
  /\ "undefined" \in blame => "overlap" \in blame

\* A thread's ports are never of a later version than its urls: a reload
\* that fails half-way leaves new urls with old ports.
PortsNotAhead == \A t \in Threads : ports[t] <= urls[t]

----------------------------------------------------------------------------
(* The inductive invariant behind the two. *)

Names == {<<>>} \cup (Nat \X Threads)

ResultType ==
  /\ now \in Nat /\ fp \in Nat /\ lines \in Nat /\ db \in Nat
  /\ tmpfile \in Names
  /\ files \in Seq([name : Names, dir : {"tmpdir", "outdir", "gone"},
                    open : BOOLEAN, lines : SUBSET Nat])
  /\ pc \in [Threads -> {"idle", "gate", "time", "close", "clear", "rename", "check",
                         "name", "open", "load", "write"}]
  /\ line \in [Threads -> Nat] /\ file \in [Threads -> Nat]
  /\ urls \in [Threads -> Nat] /\ ports \in [Threads -> Nat]

\* As long as threads did not overlap, fp is a file that is open, but while a
\* rotation is closing it, and that has the name and the place tmpfile says.
OneAtATime ==
  "overlap" \notin blame =>
    /\ "undefined" \notin blame
    /\ \A t, u \in Dumping : t = u
    /\ fp # NoFile =>
         /\ fp \in DOMAIN files
         /\ files[fp].name = tmpfile /\ files[fp].dir = "tmpdir"
         /\ files[fp].open \/ \E t \in Threads : pc[t] = "clear"
    /\ \A t \in Threads :
         /\ pc[t] \in {"clear", "load", "write"} => fp # NoFile
         /\ pc[t] \in {"rename", "name", "open"} => fp = NoFile
         /\ pc[t] = "write" => file[t] = fp

ResultInv ==
  /\ ResultType
  /\ \A t \in Threads : pc[t] \in {"idle", "gate"} => line[t] = 0
  /\ \A t \in Threads : urls[t] <= db
  /\ OneAtATime
  /\ LostOnlyInARace
  /\ PortsNotAhead

=============================================================================
