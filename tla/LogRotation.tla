---------------------------- MODULE LogRotation ----------------------------
(***************************************************************************)
(* lib/log.c: the files of one log, fn and fn.1 .. fn.(maxlognum-1), over  *)
(* rotations that succeed or fail, crashes in the middle of one, and       *)
(* restarts that find out from the files where to go on.                   *)
(*                                                                         *)
(* A file is the time it was last written at, 0 when there is none.  The   *)
(* log is busy: a new file is written to, in a later second than the one   *)
(* it was opened in, before it is rotated.                                 *)
(***************************************************************************)
EXTENDS Integers

CONSTANTS
  maxlognum,
  MaxClock     \* bound: seconds in which something is logged

ASSUME RotationAssumption == maxlognum \in Nat \ {0, 1} /\ MaxClock \in Nat \ {0}

Numbers == 1..(maxlognum - 1)
Gone    == maxlognum

VARIABLES
  cur,         \* mtime of fn
  num,         \* mtime of fn.n
  nextlogno,
  out,         \* the file le->fd writes to: 0 for fn, n for fn.n, or removed
  busy,        \* it was written to since it was opened
  tries,       \* rotations failed since the last that opened a new fn
  gaps,        \* numbers passed over for want of an fn, and then a restart
  clock

vars == <<cur, num, nextlogno, out, busy, tries, gaps, clock>>

TypeOK ==
  /\ cur \in 0..MaxClock
  /\ num \in [Numbers -> 0..MaxClock]
  /\ nextlogno \in Numbers
  /\ out \in {0} \cup Numbers \cup {Gone}
  /\ busy \in BOOLEAN
  /\ tries \in 0..(maxlognum + 1)
  /\ gaps \in {"none", "skipped", "restarted"}
  /\ clock \in 1..MaxClock

(* The first start, in an empty directory.                                 *)
Init ==
  /\ cur = 1 /\ clock = 1
  /\ num = [n \in Numbers |-> 0]
  /\ nextlogno = 1
  /\ out = 0 /\ busy = FALSE /\ tries = 0 /\ gaps = "none"

\* Mutant of initnextlogno: the newest file instead of the oldest.
initnextlognoNewest(files, n) ==
  IF \E m \in Numbers : files[m] = 0
  THEN files[n] = 0 /\ \A m \in Numbers : m < n => files[m] # 0
  ELSE \A m \in Numbers : files[m] <= files[n] /\ (m > n => files[m] < files[n])

(* n is the first number not in use, or else the file written longest ago, *)
(* the last of them.                                                       *)
initnextlogno(files, n) ==
  IF \E m \in Numbers : files[m] = 0
  THEN files[n] = 0 /\ \A m \in Numbers : m < n => files[m] # 0
  ELSE \A m \in Numbers : files[n] <= files[m] /\ (m > n => files[n] < files[m])

\* Mutant of After: the wrap one too early.
AfterEarly(n) == IF n + 1 >= maxlognum - 1 THEN 1 ELSE n + 1

After(n) == IF n + 1 = maxlognum THEN 1 ELSE n + 1

Unlinked == [num EXCEPT ![nextlogno] = 0]
Renamed  == [num EXCEPT ![nextlogno] = cur]
Skipped  == IF gaps = "none" /\ cur = 0 THEN "skipped" ELSE gaps

(* LOG: a second in which something is written, wherever le->fd points.    *)
Log ==
  /\ clock < MaxClock
  /\ clock' = clock + 1
  /\ cur' = IF out = 0 THEN clock' ELSE cur
  /\ num' = IF out \in Numbers THEN [num EXCEPT ![out] = clock'] ELSE num
  /\ busy' = TRUE
  /\ UNCHANGED <<nextlogno, out, tries, gaps>>

(* shiftfile: fn.next goes, fn takes its place (unless an earlier failure  *)
(* left no fn), and a new fn is opened.                                    *)
shiftfile ==
  /\ busy
  /\ num' = Renamed
  /\ nextlogno' = After(nextlogno)
  /\ cur' = clock
  /\ gaps' = Skipped
  /\ out' = 0 /\ busy' = FALSE /\ tries' = 0
  /\ UNCHANGED clock

(* The same when the open fails: le->fd stays where it is, and the next    *)
(* check of the round or the next round tries again.                       *)
shiftfile_fails ==
  /\ busy
  /\ num' = Renamed
  /\ nextlogno' = After(nextlogno)
  /\ cur' = 0
  /\ gaps' = Skipped
  /\ out' = IF out = 0 THEN nextlogno ELSE IF out = nextlogno THEN Gone ELSE out
  /\ tries' = IF tries <= maxlognum THEN tries + 1 ELSE tries
  /\ UNCHANGED <<busy, clock>>

(* The process stops and starts again: registerlog opens or creates fn.    *)
(* files and f are what it finds.                                          *)
Start(files, f) ==
  /\ num' = files
  /\ nextlogno' \in {n \in Numbers : initnextlogno(files, n)}
  /\ cur' = IF f = 0 THEN clock ELSE f
  /\ out' = 0 /\ busy' = FALSE /\ tries' = 0
  /\ gaps' = IF gaps = "none" THEN "none" ELSE "restarted"
  /\ UNCHANGED clock

Restart == Start(num, cur)

(* It stops within shiftfile, after the unlink or after the rename.        *)
CrashUnlinked == busy /\ Start(Unlinked, cur)
CrashRenamed  == busy /\ Start(Renamed, 0)

Next == Log \/ shiftfile \/ shiftfile_fails \/ Restart \/ CrashUnlinked \/ CrashRenamed

Spec == Init /\ [][Next]_vars

-----------------------------------------------------------------------------
(* Whatever number a rotation or a restart arrives at, the file it throws  *)
(* away was last written before all the numbered files it keeps.           *)
DropsOldest ==
  [][\A n \in Numbers : num[n] # 0 /\ num'[n] # num[n] /\ clock' = clock
                          /\ gaps # "restarted" =>
       \A m \in Numbers : num[m] # 0 => num[n] <= num[m]]_vars

(* The file le->fd writes to keeps a name, unless more rotations in a row  *)
(* than there are numbers fail to open a new one.                          *)
KeepsCurrent == out = Gone => tries >= maxlognum

(***************************************************************************)
(* The inductive invariant behind DropsOldest.                             *)
(***************************************************************************)
\* Numbers are overwritten from k on: m comes before n.
Before(k, m, n) == IF k <= m THEN m < n \/ n < k ELSE m < n /\ n < k

\* They are overwritten in the order their files were written in.
Ordered(files, k) ==
  \A m, n \in Numbers :
    Before(k, m, n) /\ files[m] # 0 /\ files[n] # 0 => files[m] < files[n]

\* The numbers without a file are those not reached yet, or the one a
\* rotation died at.
Filled(files, k) ==
  \/ \A n \in Numbers : files[n] = 0 <=> n >= k
  \/ \A n \in Numbers : files[n] = 0 => n = k

\* The file written to is the newest: fn, when there is one, or else the
\* number before those that later rotations left without a file.
WritesNewest ==
  /\ cur = 0 <=> out # 0
  /\ cur <= clock /\ \A n \in Numbers : num[n] <= clock
  /\ out = 0 => \A n \in Numbers : num[n] <= cur /\ (busy => num[n] < cur)
  /\ out \in Numbers => num[out] # 0 /\ \A n \in Numbers : Before(nextlogno, out, n) => num[n] = 0

OrderInv ==
  /\ TypeOK
  /\ gaps # "restarted" => Ordered(num, nextlogno)
  /\ gaps = "none" => Filled(num, nextlogno)
  /\ WritesNewest
=============================================================================
