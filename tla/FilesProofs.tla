---------------------------- MODULE FilesProofs ----------------------------
(***************************************************************************)
(* The parts of MCFiles, each from the inductive invariant                 *)
(* its module states, for every value of the constants: the order of the   *)
(* rotated logs, the lines of a result file, the records of the unfinished *)
(* tasks, the counters of the index, the times of the delay tasks.         *)
(***************************************************************************)
EXTENDS MCFiles, Sequences, FiniteSetTheorems, TLAPS

-----------------------------------------------------------------------------
(* Log rotation: for every maxlognum and however many rotations fail.      *)

\* The bounds of what a start or a new fn sets to 0.
LEMMA ZeroFits == 0 \in 0..MaxClock /\ 0 \in 0..(maxlognum + 1)
  BY RotationAssumption

(* While fn is missing, the file written to has kept the number out it got *)
(* from the first failed rotation, and nextlogno has gone tries numbers    *)
(* further, at most once around.                                           *)
Chase ==
  /\ out = 0 => tries = 0
  /\ out \in Numbers =>
       /\ tries \in 1..(maxlognum - 1)
       /\ \/ nextlogno = out + tries
          \/ nextlogno = out + tries - (maxlognum - 1)

RotationInv == TypeOK /\ Chase /\ KeepsCurrent

LEMMA RotationInit == Init => RotationInv
<1> SUFFICES ASSUME Init PROVE RotationInv
  OBVIOUS
<1> USE RotationAssumption
<1>1. 0 \in 0..MaxClock /\ 1 \in 1..MaxClock /\ 1 \in 0..MaxClock /\ 1 \in Numbers
  BY DEF Numbers
<1>2. TypeOK
  BY <1>1, ZeroFits DEF Init, TypeOK
<1>3. Chase /\ KeepsCurrent
  BY DEF Init, Chase, KeepsCurrent, Numbers, Gone
<1> QED
  BY <1>2, <1>3 DEF RotationInv

\* The next number is a number.
LEMMA AfterIsNumber == ASSUME NEW n \in Numbers PROVE After(n) \in Numbers
  BY RotationAssumption DEF After, Numbers

\* A line logged moves time on and nothing else that Chase speaks of.
LEMMA LogKeeps == RotationInv /\ Log => RotationInv'
<1> SUFFICES ASSUME RotationInv, Log PROVE RotationInv'
  OBVIOUS
<1> USE RotationAssumption DEF RotationInv
<1>1. TypeOK'
  BY DEF Log, TypeOK, Numbers, Gone
<1>2. Chase' /\ KeepsCurrent'
  BY DEF Log, Chase, KeepsCurrent, Gone
<1> QED
  BY <1>1, <1>2

\* A rotation that succeeds writes to fn again.
LEMMA ShiftKeeps == RotationInv /\ shiftfile => RotationInv'
<1> SUFFICES ASSUME RotationInv, shiftfile PROVE RotationInv'
  OBVIOUS
<1> USE RotationAssumption DEF RotationInv
<1>1. nextlogno' \in Numbers
  BY AfterIsNumber DEF shiftfile, TypeOK
<1>2. clock \in 0..MaxClock
  BY DEF TypeOK
<1>3. num' \in [Numbers -> 0..MaxClock]
  BY DEF shiftfile, TypeOK, Renamed
<1>4. TypeOK'
  BY <1>1, <1>2, <1>3, ZeroFits DEF shiftfile, TypeOK, Skipped
<1>5. Chase' /\ KeepsCurrent'
  BY DEF shiftfile, Chase, KeepsCurrent, Numbers, Gone
<1> QED
  BY <1>4, <1>5

\* A rotation that fails: nextlogno catches up with out only after it has
\* passed all the other numbers.
LEMMA FailKeeps == RotationInv /\ shiftfile_fails => RotationInv'
<1> SUFFICES ASSUME RotationInv, shiftfile_fails PROVE RotationInv'
  OBVIOUS
<1> USE RotationAssumption DEF RotationInv
<1>1. nextlogno' \in Numbers
  BY AfterIsNumber DEF shiftfile_fails, TypeOK
<1>2. TypeOK'
  BY <1>1 DEF shiftfile_fails, TypeOK, Renamed, Skipped, Numbers, Gone
<1>3. CASE out = 0
  <2>1. out' = nextlogno /\ tries' = 1 /\ nextlogno' = After(nextlogno)
    BY <1>3, RotationAssumption DEF shiftfile_fails, Chase
  <2> QED
    BY <1>2, <2>1 DEF TypeOK, Chase, KeepsCurrent, After, Numbers, Gone
<1>4. CASE out \in Numbers /\ out = nextlogno
  <2>1. tries = maxlognum - 1
    BY <1>4 DEF TypeOK, Chase, Numbers
  <2>2. out' = Gone /\ tries' = maxlognum
    BY <1>4, <2>1 DEF shiftfile_fails, Numbers, Gone
  <2> QED
    BY <1>2, <2>2 DEF Chase, KeepsCurrent, Numbers, Gone
<1>5. CASE out \in Numbers /\ out # nextlogno
  <2>1. tries \in 1..(maxlognum - 2)
    BY <1>5 DEF TypeOK, Chase, Numbers
  <2>2. out' = out /\ tries' = tries + 1 /\ nextlogno' = After(nextlogno)
    BY <1>5, <2>1 DEF shiftfile_fails, Numbers
  <2> QED
    BY <1>2, <1>5, <2>1, <2>2 DEF TypeOK, Chase, KeepsCurrent, After, Numbers, Gone
<1>6. CASE out = Gone
  BY <1>2, <1>6 DEF shiftfile_fails, TypeOK, Chase, KeepsCurrent, Numbers, Gone
<1> QED
  BY <1>3, <1>4, <1>5, <1>6 DEF TypeOK

\* A start writes to fn, whatever number it goes on with.
LEMMA StartKeeps ==
  ASSUME NEW found \in [Numbers -> 0..MaxClock], NEW f \in 0..MaxClock,
         RotationInv, Start(found, f)
  PROVE  RotationInv'
<1> USE RotationAssumption DEF RotationInv
<1>1. clock \in 0..MaxClock /\ nextlogno' \in Numbers
  BY DEF Start, TypeOK
<1>2. TypeOK'
  BY <1>1, ZeroFits DEF Start, TypeOK
<1>3. Chase' /\ KeepsCurrent'
  BY DEF Start, Chase, KeepsCurrent, Numbers, Gone
<1> QED
  BY <1>2, <1>3

LEMMA RotationStep == RotationInv /\ [Next]_vars => RotationInv'
<1> SUFFICES ASSUME RotationInv, [Next]_vars PROVE RotationInv'
  OBVIOUS
<1> USE DEF RotationInv
<1>1. CASE Log
  BY <1>1, LogKeeps
<1>2. CASE shiftfile
  BY <1>2, ShiftKeeps
<1>3. CASE shiftfile_fails
  BY <1>3, FailKeeps
<1>4. CASE Restart
  BY <1>4, StartKeeps DEF Restart, TypeOK
<1>5. CASE CrashUnlinked
  <2>1. Unlinked \in [Numbers -> 0..MaxClock]
    BY RotationAssumption DEF Unlinked, TypeOK
  <2> QED
    BY <1>5, <2>1, StartKeeps DEF CrashUnlinked, TypeOK
<1>6. CASE CrashRenamed
  <2>1. Renamed \in [Numbers -> 0..MaxClock] /\ 0 \in 0..MaxClock
    BY RotationAssumption DEF Renamed, TypeOK
  <2> QED
    BY <1>6, <2>1, StartKeeps DEF CrashRenamed
<1>7. CASE UNCHANGED vars
  BY <1>7 DEF vars, TypeOK, Chase, KeepsCurrent
<1> QED
  BY <1>1, <1>2, <1>3, <1>4, <1>5, <1>6, <1>7 DEF Next

-----------------------------------------------------------------------------
(* The order in which files are thrown away.                               *)

\* A number that has been used comes last.
LEMMA Rotated ==
  ASSUME NEW k \in Numbers, NEW m \in Numbers, NEW n \in Numbers, Before(After(k), m, n)
  PROVE  m # k /\ (n # k => Before(k, m, n))
BY RotationAssumption DEF Before, After, Numbers

LEMMA FirstComes ==
  ASSUME NEW k \in Numbers, NEW m \in Numbers
  PROVE  (m # k => Before(k, k, m)) /\ ~Before(k, m, k)
BY RotationAssumption DEF Before, Numbers

LEMMA ShiftedOrder ==
  ASSUME NEW f \in [Numbers -> Nat], NEW k \in Numbers, NEW c \in Nat, Ordered(f, k),
         c # 0 => \A n \in Numbers : f[n] < c
  PROVE  Ordered([f EXCEPT ![k] = c], After(k))
<1> DEFINE g == [f EXCEPT ![k] = c]
<1>1. g[k] = c /\ \A n \in Numbers : n # k => g[n] = f[n]
  OBVIOUS
<1> HIDE DEF g
<1>2. SUFFICES ASSUME NEW m \in Numbers, NEW n \in Numbers,
                      Before(After(k), m, n), g[m] # 0, g[n] # 0
               PROVE  g[m] < g[n]
  BY DEF Ordered, g
<1>3. m # k /\ (n # k => Before(k, m, n))
  BY <1>2, Rotated
<1>4. QED
  BY <1>1, <1>2, <1>3 DEF Ordered

LEMMA UnlinkedOrder ==
  ASSUME NEW f \in [Numbers -> Nat], NEW k \in Numbers, Ordered(f, k)
  PROVE  Ordered([f EXCEPT ![k] = 0], k)
BY DEF Ordered

LEMMA ShiftedFill ==
  ASSUME NEW f \in [Numbers -> Nat], NEW k \in Numbers, NEW c \in Nat \ {0}, Filled(f, k)
  PROVE  Filled([f EXCEPT ![k] = c], After(k))
<1> DEFINE g == [f EXCEPT ![k] = c]
<1>1. g[k] # 0 /\ \A n \in Numbers : n # k => g[n] = f[n]
  OBVIOUS
<1> HIDE DEF g
<1>2. CASE \A n \in Numbers : f[n] = 0 => n = k
  BY <1>1, <1>2 DEF Filled, g
<1>3. CASE (\A n \in Numbers : f[n] = 0 <=> n >= k) /\ k + 1 = maxlognum
  <2>1. \A n \in Numbers : g[n] # 0
    BY <1>1, <1>3, RotationAssumption DEF Numbers
  <2>2. QED
    BY <2>1 DEF Filled, g
<1>4. CASE (\A n \in Numbers : f[n] = 0 <=> n >= k) /\ k + 1 # maxlognum
  <2>1. \A n \in Numbers : g[n] = 0 <=> n >= After(k)
    BY <1>1, <1>4, RotationAssumption DEF Numbers, After
  <2>2. QED
    BY <2>1 DEF Filled, g
<1>5. QED
  BY <1>2, <1>3, <1>4 DEF Filled

LEMMA UnlinkedFill ==
  ASSUME NEW f \in [Numbers -> Nat], NEW k \in Numbers, Filled(f, k)
  PROVE  Filled([f EXCEPT ![k] = 0], k)
<1> DEFINE g == [f EXCEPT ![k] = 0]
<1>1. g[k] = 0 /\ \A n \in Numbers : n # k => g[n] = f[n]
  OBVIOUS
<1> HIDE DEF g
<1>2. CASE \A n \in Numbers : f[n] = 0 => n = k
  BY <1>1, <1>2 DEF Filled, g
<1>3. CASE \A n \in Numbers : f[n] = 0 <=> n >= k
  <2>1. \A n \in Numbers : g[n] = 0 <=> n >= k
    BY <1>1, <1>3, RotationAssumption DEF Numbers
  <2>2. QED
    BY <2>1 DEF Filled, g
<1>4. QED
  BY <1>2, <1>3 DEF Filled

\* What initnextlogno finds is where the process that stopped was.
LEMMA FoundAgain ==
  ASSUME NEW f \in [Numbers -> Nat], NEW k \in Numbers, Ordered(f, k), Filled(f, k),
         NEW n \in Numbers, initnextlogno(f, n)
  PROVE  n = k
<1>1. CASE \E m \in Numbers : f[m] = 0
  <2>1. f[n] = 0 /\ \A m \in Numbers : m < n => f[m] # 0
    BY <1>1 DEF initnextlogno
  <2>2. CASE \A m \in Numbers : f[m] = 0 => m = k
    BY <2>1, <2>2
  <2>3. CASE \A m \in Numbers : f[m] = 0 <=> m >= k
    BY <2>1, <2>3, RotationAssumption DEF Numbers
  <2>4. QED
    BY <2>2, <2>3 DEF Filled
<1>2. CASE ~\E m \in Numbers : f[m] = 0
  <2>1. f[n] <= f[k]
    BY <1>2 DEF initnextlogno
  <2>2. n # k => f[k] < f[n]
    BY <1>2, FirstComes DEF Ordered
  <2>3. QED
    BY <2>1, <2>2
<1>3. QED
  BY <1>1, <1>2

LEMMA OrderStart == Init => OrderInv
<1> SUFFICES ASSUME Init PROVE OrderInv
  OBVIOUS
<1>1. TypeOK
  BY RotationInit DEF RotationInv
<1>2. Ordered(num, nextlogno)
  BY DEF Init, Ordered
<1>3. Filled(num, nextlogno)
  BY DEF Init, Filled, Numbers
<1>4. WritesNewest
  BY <1>1 DEF Init, WritesNewest, Numbers
<1>5. QED
  BY <1>1, <1>2, <1>3, <1>4 DEF OrderInv

\* A rotation, whether it opens a new file or not.
LEMMA ShiftOrder ==
  ASSUME OrderInv, busy, num' = Renamed, nextlogno' = After(nextlogno), gaps' = Skipped
  PROVE  /\ gaps' # "restarted" => Ordered(num', nextlogno')
         /\ gaps' = "none" => Filled(num', nextlogno')
         /\ \A n \in Numbers : num'[n] <= clock
<1>1. /\ num \in [Numbers -> Nat] /\ nextlogno \in Numbers /\ cur \in Nat /\ clock \in Nat
      /\ out \in {0} \cup Numbers \cup {Gone}
  BY RotationAssumption DEF OrderInv, TypeOK
<1>2. cur # 0 => \A n \in Numbers : num[n] < cur
  BY DEF OrderInv, WritesNewest
<1>3. gaps' # "restarted" => Ordered(num', nextlogno')
  <2>1. SUFFICES ASSUME gaps' # "restarted" PROVE Ordered([num EXCEPT ![nextlogno] = cur], After(nextlogno))
    BY DEF Renamed
  <2>2. Ordered(num, nextlogno)
    BY <2>1 DEF OrderInv, Skipped
  <2>3. QED
    BY <1>1, <1>2, <2>2, ShiftedOrder
<1>4. gaps' = "none" => Filled(num', nextlogno')
  <2>1. SUFFICES ASSUME gaps' = "none" PROVE Filled([num EXCEPT ![nextlogno] = cur], After(nextlogno))
    BY DEF Renamed
  <2>2. Filled(num, nextlogno) /\ cur \in Nat \ {0}
    BY <1>1, <2>1 DEF OrderInv, Skipped
  <2>3. QED
    BY <1>1, <2>2, ShiftedFill
<1>5. \A n \in Numbers : num'[n] <= clock
  BY <1>1 DEF OrderInv, WritesNewest, Renamed
<1>6. QED
  BY <1>3, <1>4, <1>5

\* A start goes on where the files say, which is where the order goes on.
LEMMA StartOrder ==
  ASSUME NEW found \in [Numbers -> Nat], NEW f \in Nat, NEW k \in Numbers, TypeOK, TypeOK', Start(found, f),
         gaps = "none" => Ordered(found, k) /\ Filled(found, k),
         f <= clock, \A n \in Numbers : found[n] <= clock /\ (f # 0 => found[n] <= f)
  PROVE  OrderInv'
<1>1. /\ num' = found /\ nextlogno' \in Numbers /\ initnextlogno(found, nextlogno')
      /\ cur' = (IF f = 0 THEN clock ELSE f) /\ out' = 0 /\ busy' = FALSE /\ clock' = clock
      /\ gaps' = "none" \/ gaps' = "restarted"
      /\ gaps' = "none" => gaps = "none"
  BY DEF Start
<1>2. clock \in Nat \ {0}
  BY RotationAssumption DEF TypeOK
<1>3. ASSUME gaps = "none" PROVE nextlogno' = k
  BY <1>1, <1>3, FoundAgain
<1>4. WritesNewest'
  BY <1>1, <1>2, RotationAssumption DEF WritesNewest, Numbers
<1>5. QED
  BY <1>1, <1>3, <1>4 DEF OrderInv

LEMMA OrderStep == OrderInv /\ [Next]_vars /\ TypeOK' => OrderInv'
<1> SUFFICES ASSUME OrderInv, [Next]_vars, TypeOK' PROVE OrderInv'
  OBVIOUS
<1>1. /\ num \in [Numbers -> Nat] /\ nextlogno \in Numbers /\ cur \in Nat /\ clock \in Nat \ {0}
      /\ out \in {0} \cup Numbers \cup {Gone} /\ 0 \notin Numbers /\ Gone \notin Numbers /\ Gone # 0
  BY RotationAssumption DEF OrderInv, TypeOK, Numbers, Gone
<1>2. CASE Log
  <2>1. /\ clock' = clock + 1 /\ cur' = (IF out = 0 THEN clock + 1 ELSE cur)
        /\ num' = IF out \in Numbers THEN [num EXCEPT ![out] = clock + 1] ELSE num
        /\ UNCHANGED <<nextlogno, out, gaps>>
    BY <1>2 DEF Log
  <2>2. WritesNewest
    BY DEF OrderInv
  <2>3. CASE out \in Numbers
    <3>1. num'[out] = clock + 1 /\ (\A n \in Numbers : n # out => num'[n] = num[n]) /\ cur' = cur /\ cur = 0
      BY <1>1, <2>1, <2>2, <2>3 DEF WritesNewest
    <3>2. \A n \in Numbers : Before(nextlogno, out, n) => num'[n] = 0
      <4>1. ~Before(nextlogno, out, out)
        BY <1>1, <2>3, RotationAssumption DEF Before, Numbers
      <4>2. QED
        BY <2>2, <2>3, <3>1, <4>1 DEF WritesNewest
    <3>3. WritesNewest'
      BY <1>1, <2>1, <2>2, <2>3, <3>1, <3>2 DEF WritesNewest
    <3>4. ASSUME gaps # "restarted" PROVE Ordered(num', nextlogno)
      <4>1. Ordered(num, nextlogno)
        BY <3>4 DEF OrderInv
      <4>2. SUFFICES ASSUME NEW m \in Numbers, NEW n \in Numbers,
                            Before(nextlogno, m, n), num'[m] # 0, num'[n] # 0
                     PROVE  num'[m] < num'[n]
        BY DEF Ordered
      <4>3. m # out
        BY <3>2, <4>2
      <4>4. QED
        BY <1>1, <2>2, <3>1, <4>1, <4>2, <4>3 DEF Ordered, WritesNewest
    <3>5. ASSUME gaps = "none" PROVE Filled(num', nextlogno)
      <4>1. Filled(num, nextlogno)
        BY <3>5 DEF OrderInv
      <4>2. \A n \in Numbers : num'[n] = 0 <=> num[n] = 0
        BY <1>1, <2>2, <2>3, <3>1 DEF WritesNewest
      <4>3. QED
        BY <4>1, <4>2 DEF Filled
    <3>6. QED
      BY <2>1, <3>3, <3>4, <3>5 DEF OrderInv
  <2>4. CASE out \notin Numbers
    <3>1. num' = num /\ WritesNewest'
      BY <1>1, <2>1, <2>2, <2>4 DEF WritesNewest
    <3>2. QED
      BY <2>1, <3>1 DEF OrderInv
  <2>5. QED
    BY <2>3, <2>4
<1>3. CASE shiftfile
  <2>1. /\ busy /\ num' = Renamed /\ nextlogno' = After(nextlogno) /\ gaps' = Skipped
        /\ cur' = clock /\ clock' = clock /\ out' = 0 /\ busy' = FALSE
    BY <1>3 DEF shiftfile
  <2>2. \A n \in Numbers : num'[n] <= clock
    BY <2>1, ShiftOrder
  <2>3. WritesNewest'
    BY <1>1, <2>1, <2>2 DEF WritesNewest
  <2>4. QED
    BY <2>1, <2>3, ShiftOrder DEF OrderInv
<1>4. CASE shiftfile_fails
  <2>1. /\ busy /\ num' = Renamed /\ nextlogno' = After(nextlogno) /\ gaps' = Skipped
        /\ cur' = 0 /\ clock' = clock
        /\ out' = IF out = 0 THEN nextlogno ELSE IF out = nextlogno THEN Gone ELSE out
    BY <1>4 DEF shiftfile_fails
  <2>2. \A n \in Numbers : num'[n] <= clock
    BY <2>1, ShiftOrder
  <2>3. out' # 0
    BY <1>1, <2>1
  <2>4. ASSUME out' \in Numbers, NEW n \in Numbers, Before(nextlogno', out', n)
        PROVE  num'[n] = 0
    <3>1. out' # nextlogno /\ (n # nextlogno => Before(nextlogno, out', n))
      BY <1>1, <2>1, <2>4, Rotated
    <3>2. out' = out /\ out # 0
      BY <1>1, <2>1, <2>4, <3>1
    <3>3. cur = 0 /\ (n # nextlogno => num[n] = 0)
      BY <2>4, <3>1, <3>2 DEF OrderInv, WritesNewest
    <3>4. QED
      BY <1>1, <2>1, <3>3 DEF Renamed
  <2>5. out' \in Numbers => num'[out'] # 0
    <3>1. (out = 0 => cur # 0) /\ (out \in Numbers => num[out] # 0)
      BY DEF OrderInv, WritesNewest
    <3>2. QED
      BY <1>1, <2>1, <3>1 DEF Renamed
  <2>6. WritesNewest'
    BY <1>1, <2>1, <2>2, <2>3, <2>4, <2>5 DEF WritesNewest
  <2>7. QED
    BY <2>1, <2>6, ShiftOrder DEF OrderInv
<1>5. WritesNewest /\ TypeOK
  BY DEF OrderInv
<1>6. CASE Restart
  <2>1. gaps = "none" => Ordered(num, nextlogno) /\ Filled(num, nextlogno)
    BY DEF OrderInv
  <2>2. cur <= clock /\ \A n \in Numbers : num[n] <= clock /\ (cur # 0 => num[n] <= cur)
    BY <1>5 DEF WritesNewest
  <2>3. QED
    BY <1>1, <1>5, <1>6, <2>1, <2>2, StartOrder DEF Restart
<1>7. ASSUME Start(Unlinked, cur) PROVE OrderInv'
  <2>1. gaps = "none" => Ordered(Unlinked, nextlogno) /\ Filled(Unlinked, nextlogno)
    BY <1>1, UnlinkedOrder, UnlinkedFill DEF OrderInv, Unlinked
  <2>2. cur <= clock /\ \A n \in Numbers : Unlinked[n] <= clock /\ (cur # 0 => Unlinked[n] <= cur)
    BY <1>1, <1>5 DEF WritesNewest, Unlinked
  <2>3. Unlinked \in [Numbers -> Nat]
    BY <1>1 DEF Unlinked
  <2>4. QED
    BY <1>1, <1>5, <1>7, <2>1, <2>2, <2>3, StartOrder
<1>8. CASE CrashUnlinked
  BY <1>7, <1>8 DEF CrashUnlinked
<1>9. CASE CrashRenamed
  <2>1. CASE cur = 0
    <3>1. Start(Unlinked, cur)
      BY <1>9, <2>1 DEF CrashRenamed, Renamed, Unlinked
    <3>2. QED
      BY <1>7, <3>1
  <2>2. CASE cur # 0
    <3>1. /\ Renamed \in [Numbers -> Nat] /\ After(nextlogno) \in Numbers
          /\ busy /\ Start(Renamed, 0)
      BY <1>1, <1>9, AfterIsNumber DEF CrashRenamed, Renamed
    <3>2. gaps = "none" => Ordered(Renamed, After(nextlogno)) /\ Filled(Renamed, After(nextlogno))
      BY <1>1, <1>5, <2>2, <3>1, ShiftedOrder, ShiftedFill DEF OrderInv, WritesNewest, Renamed
    <3>3. \A n \in Numbers : Renamed[n] <= clock
      BY <1>1, <1>5 DEF WritesNewest, Renamed
    <3>4. QED
      BY <1>1, <1>5, <3>1, <3>2, <3>3, StartOrder
  <2>3. QED
    BY <2>1, <2>2
<1>10. CASE UNCHANGED vars
  BY <1>10 DEF vars, OrderInv, WritesNewest
<1>11. QED
  BY <1>2, <1>3, <1>4, <1>6, <1>8, <1>9, <1>10 DEF Next

LEMMA OrderInvariant == Spec => [](RotationInv /\ OrderInv)
<1>1. RotationInv' => TypeOK'
  BY DEF RotationInv
<1>2. (RotationInv /\ OrderInv) /\ [Next]_vars => (RotationInv /\ OrderInv)'
  BY <1>1, RotationStep, OrderStep
<1> QED
  BY <1>2, RotationInit, OrderStart, PTL DEF Spec

DropsOldestStep ==
  \A n \in Numbers : num[n] # 0 /\ num'[n] # num[n] /\ clock' = clock /\ gaps # "restarted" =>
    \A m \in Numbers : num[m] # 0 => num[n] <= num[m]

\* Only the number a rotation has arrived at is overwritten.
LEMMA DropStep == OrderInv /\ [Next]_vars => DropsOldestStep
<1> SUFFICES ASSUME OrderInv, [Next]_vars PROVE DropsOldestStep
  OBVIOUS
<1> SUFFICES ASSUME NEW n \in Numbers, num[n] # 0, num'[n] # num[n], clock' = clock, gaps # "restarted",
                    NEW m \in Numbers, num[m] # 0
             PROVE  num[n] <= num[m]
  BY DEF DropsOldestStep
<1>1. num \in [Numbers -> Nat] /\ nextlogno \in Numbers /\ clock \in Nat
  BY RotationAssumption DEF OrderInv, TypeOK
<1>2. n = nextlogno
  BY <1>1 DEF Next, vars, Log, shiftfile, shiftfile_fails, Restart, CrashUnlinked, CrashRenamed,
              Start, Renamed, Unlinked
<1>3. Ordered(num, nextlogno)
  BY DEF OrderInv
<1>4. QED
  BY <1>1, <1>2, <1>3, FirstComes DEF Ordered

-----------------------------------------------------------------------------
(* The result file.                                                        *)

File == [name : Result!Names, dir : {"tmpdir", "outdir", "gone"}, open : BOOLEAN, lines : SUBSET Nat]

\* A sequence each of whose items has been left or replaced by one like it.
LEMMA Mapped ==
  ASSUME NEW S, NEW s \in Seq(S), NEW r, DOMAIN r = DOMAIN s, r = [i \in DOMAIN s |-> r[i]],
         \A i \in DOMAIN s : r[i] \in S
  PROVE  r \in Seq(S) /\ Len(r) = Len(s)
OBVIOUS

LEMMA Appended ==
  ASSUME NEW n \in Nat, NEW r, DOMAIN r = 1..n, r = [i \in 1..n |-> r[i]], NEW e
  PROVE  /\ DOMAIN Append(r, e) = 1..(n + 1)
         /\ Append(r, e)[n + 1] = e
         /\ \A i \in 1..n : Append(r, e)[i] = r[i]
<1> DEFINE S == {r[i] : i \in 1..n} \cup {e}
<1>1. r \in Seq(S) /\ Len(r) = n
  OBVIOUS
<1>2. QED
  BY <1>1

\* The types of one thread's part of a step.
LEMMA ResultTypeStep ==
  ASSUME Result!ResultInv, Result!ResultNext
  PROVE  Result!ResultType'
<1> USE DEF Result!Go, Result!Done, Result!Enter, Result!NoFile, Result!Names
<1>1. Result!ResultType
  BY DEF Result!ResultInv
<1>2. CASE Result!Tick
  BY <1>1, <1>2 DEF Result!Tick, Result!ResultType
<1>3. CASE Result!ChangeTables
  BY <1>1, <1>3 DEF Result!ChangeTables, Result!ResultType
<1>4. ASSUME NEW t \in Threads, Result!svc_recv(t) \/ Result!PassGate(t) \/ Result!CheckTime(t)
                                  \/ Result!Clear(t) \/ Result!Check(t) \/ Result!Load(t)
      PROVE  Result!ResultType'
  <2>1. CASE Result!svc_recv(t)
    BY <1>1, <2>1 DEF Result!svc_recv, Result!ResultType
  <2>2. CASE Result!PassGate(t)
    BY <1>1, <2>2 DEF Result!PassGate, Result!ResultType
  <2>3. CASE Result!CheckTime(t)
    BY <1>1, <2>3 DEF Result!CheckTime, Result!ResultType
  <2>4. CASE Result!Clear(t)
    BY <1>1, <2>4 DEF Result!Clear, Result!ResultType
  <2>5. CASE Result!Check(t)
    BY <1>1, <2>5 DEF Result!Check, Result!ResultType
  <2>6. CASE Result!Load(t)
    BY <1>1, <2>6 DEF Result!Load, Result!ResultType
  <2>7. QED
    BY <1>4, <2>1, <2>2, <2>3, <2>4, <2>5, <2>6
<1>5. ASSUME NEW t \in Threads, Result!svc_timeout(t)
      PROVE  Result!ResultType'
  BY <1>1, <1>5 DEF Result!svc_timeout, Result!reload_port_url, Result!ResultType
<1>6. ASSUME NEW t \in Threads, Result!Name(t)
      PROVE  Result!ResultType'
  BY <1>1, <1>6 DEF Result!Name, Result!ResultType
<1>7. ASSUME NEW t \in Threads, Result!Close(t) \/ Result!Rename(t) \/ Result!Open(t) \/ Result!Write(t)
      PROVE  Result!ResultType'
  <2>a. files \in Seq(File) /\ line[t] \in Nat
    BY <1>1 DEF Result!ResultType, File
  <2>0. /\ files \in Seq(File) /\ DOMAIN files = 1..Len(files) /\ Len(files) \in Nat
        /\ \A f \in DOMAIN files : files[f] \in File
        /\ line[t] \in Nat
    BY <2>a
  <2>1. CASE Result!Close(t)
    <3>1. CASE fp = 0
      BY <1>1, <2>1, <3>1 DEF Result!Close, Result!ResultType
    <3>2. CASE fp # 0
      <4>1. files' = [files EXCEPT ![fp].open = FALSE] /\ UNCHANGED <<now, fp, lines, db, tmpfile, line, file, urls, ports>>
              /\ pc' = [pc EXCEPT ![t] = "clear"]
        BY <2>1, <3>2 DEF Result!Close
      <4>2. \A f \in DOMAIN files : [files[f] EXCEPT !.open = FALSE] \in File
        BY <2>0 DEF File
      <4>3. files' = [f \in DOMAIN files |-> IF f = fp THEN [files[f] EXCEPT !.open = FALSE] ELSE files[f]]
        BY <4>1, <2>0
      <4>4. files' \in Seq(File)
        BY ONLY <4>2, <4>3, <2>0, Mapped
      <4>5. QED
        BY <1>1, <4>1, <4>4 DEF Result!ResultType, File
    <3>3. QED
      BY <3>1, <3>2
  <2>2. CASE Result!Rename(t)
    <3>1. files' \in Seq(File)
      <4>1. CASE UNCHANGED files
        BY <2>0, <4>1
      <4>2. CASE files' = [f \in DOMAIN files |->
                    IF f \in Result!InTmp(tmpfile) THEN [files[f] EXCEPT !.dir = "outdir"] ELSE files[f]]
        <5>1. \A f \in DOMAIN files : [files[f] EXCEPT !.dir = "outdir"] \in File
          BY <2>0 DEF File
        <5>2. \A f \in DOMAIN files : files'[f] \in File
          BY <5>1, <4>2, <2>0
        <5>3. QED
          BY ONLY <5>2, <4>2, <2>0, Mapped
      <4>3. QED
        BY <2>2, <4>1, <4>2 DEF Result!Rename
    <3>2. QED
      BY <1>1, <2>2, <3>1 DEF Result!Rename, Result!ResultType, File
  <2>3. CASE Result!Open(t)
    <3>1. files' \in Seq(File)
      <4> DEFINE old == [f \in DOMAIN files |->
                              IF f \in Result!InTmp(tmpfile) THEN [files[f] EXCEPT !.lines = {}, !.dir = "gone"]
                              ELSE files[f]]
                 opened == [name |-> tmpfile, dir |-> "tmpdir", open |-> TRUE, lines |-> {}]
      <4>1. \A f \in DOMAIN files : [files[f] EXCEPT !.lines = {}, !.dir = "gone"] \in File
        BY <2>0 DEF File
      <4>2. old \in Seq(File) /\ Len(old) = Len(files)
        <5>1. \A f \in DOMAIN files : old[f] \in File
          BY <4>1, <2>0
        <5>2. DOMAIN old = DOMAIN files /\ old = [f \in DOMAIN files |-> old[f]]
          OBVIOUS
        <5> HIDE DEF old
        <5>3. QED
          BY ONLY <5>1, <5>2, <2>0, Mapped
      <4>3. opened \in File
        BY <1>1 DEF Result!ResultType, File
      <4>4. files' = files \/ files' = Append(old, opened)
        BY <2>3 DEF Result!Open
      <4> HIDE DEF old, opened
      <4>5. QED
        BY <2>0, <4>2, <4>3, <4>4
    <3>2. fp' \in Nat
      <4>1. fp' = Len(files) + 1 \/ fp' = 0
        BY <2>3 DEF Result!Open
      <4>2. QED
        BY <2>0, <4>1
    <3>3. pc' = [pc EXCEPT ![t] = "load"] \/ pc' = [pc EXCEPT ![t] = "idle"]
      BY <2>3 DEF Result!Open
    <3>4. /\ line' = line \/ line' = [line EXCEPT ![t] = 0]
          /\ file' = file \/ file' = [file EXCEPT ![t] = 0]
          /\ UNCHANGED <<now, tmpfile, lines, db, urls, ports>>
      BY <2>3 DEF Result!Open
    <3>5. /\ pc' \in [Threads -> {"idle", "gate", "time", "close", "clear", "rename", "check",
                                  "name", "open", "load", "write"}]
          /\ line' \in [Threads -> Nat] /\ file' \in [Threads -> Nat]
      <4>1. /\ pc \in [Threads -> {"idle", "gate", "time", "close", "clear", "rename", "check",
                                    "name", "open", "load", "write"}]
            /\ line \in [Threads -> Nat] /\ file \in [Threads -> Nat]
        BY <1>1 DEF Result!ResultType
      <4>2. QED
        BY ONLY <3>3, <3>4, <4>1
    <3>6. QED
      BY <1>1, <3>1, <3>2, <3>4, <3>5 DEF Result!ResultType, File
  <2>4. CASE Result!Write(t)
    <3>1. files' \in Seq(File)
      <4>1. CASE UNCHANGED files
        BY <2>0, <4>1
      <4>2. CASE files' = [files EXCEPT ![file[t]].lines = @ \cup {line[t]}]
        <5>1. \A f \in DOMAIN files : [files[f] EXCEPT !.lines = @ \cup {line[t]}] \in File
          BY <2>0 DEF File
        <5>2. files' = [f \in DOMAIN files |-> IF f = file[t] THEN [files[f] EXCEPT !.lines = @ \cup {line[t]}] ELSE files[f]]
          BY <4>2, <2>0
        <5>3. \A f \in DOMAIN files : files'[f] \in File
          BY <5>1, <5>2, <2>0
        <5>4. QED
          BY ONLY <5>3, <5>2, <2>0, Mapped
      <4>3. QED
        BY <2>4, <4>1, <4>2 DEF Result!Write
    <3>2. QED
      BY <1>1, <2>4, <3>1 DEF Result!Write, Result!ResultType, File
  <2>5. QED
    BY <1>7, <2>1, <2>2, <2>3, <2>4
<1>8. QED
  BY <1>2, <1>3, <1>4, <1>5, <1>6, <1>7 DEF Result!ResultNext

\* What is blamed stays blamed.
LEMMA Blamed == Result!ResultNext => blame \subseteq blame'
BY DEF Result!ResultNext, Result!Tick, Result!ChangeTables, Result!svc_recv, Result!Enter, Result!PassGate,
       Result!svc_timeout, Result!CheckTime, Result!Close, Result!Clear, Result!Rename,
       Result!Check, Result!Name, Result!Open, Result!Load, Result!Write

\* fp and the threads' places fit, when no two threads have overlapped.
Away == {"idle", "gate"}

Fits ==
  /\ "undefined" \notin blame
  /\ \A t, u \in Threads : (pc[t] \notin Away /\ pc[u] \notin Away) => t = u
  /\ fp # 0 =>
       /\ fp \in DOMAIN files
       /\ files[fp].name = tmpfile /\ files[fp].dir = "tmpdir"
       /\ files[fp].open \/ \E t \in Threads : pc[t] = "clear"
  /\ \A t \in Threads :
       /\ pc[t] \in {"clear", "load", "write"} => fp # 0
       /\ pc[t] \in {"rename", "name", "open"} => fp = 0
       /\ pc[t] = "write" => file[t] = fp

LEMMA FitsIs == Result!OneAtATime <=> ("overlap" \notin blame => Fits)
BY DEF Result!OneAtATime, Fits, Away, Result!Dumping, Result!NoFile

LEMMA FitsStep ==
  ASSUME Result!ResultInv, Result!ResultNext, "overlap" \notin blame'
  PROVE  Fits'
<1>1. Fits
  BY Blamed, FitsIs DEF Result!ResultInv
<1>2. /\ pc \in [Threads -> {"idle", "gate", "time", "close", "clear", "rename", "check",
                             "name", "open", "load", "write"}]
      /\ file \in [Threads -> Nat] /\ fp \in Nat
  BY DEF Result!ResultInv, Result!ResultType
<1>3. files \in Seq(File)
  BY DEF Result!ResultInv, Result!ResultType, File
<1>4. /\ Len(files) \in Nat /\ DOMAIN files = 1..Len(files)
      /\ \A f \in DOMAIN files : files[f] \in File
  BY <1>3
<1>5. CASE Result!Tick \/ Result!ChangeTables
  BY <1>1, <1>5 DEF Fits, Result!Tick, Result!ChangeTables
<1>6. ASSUME NEW t \in Threads, NEW n, pc[t] \in Away, Result!Enter(t, n),
             UNCHANGED <<fp, files, tmpfile, file>>
      PROVE  Fits'
  <2>1. Result!Dumping \ {t} = {} /\ blame' = blame /\ pc' = [pc EXCEPT ![t] = "time"]
    BY <1>6 DEF Result!Enter, Result!Go
  <2>2. \A u \in Threads : u # t => pc[u] \in Away
    BY <2>1 DEF Result!Dumping, Away
  <2>3. QED
    BY <1>1, <1>2, <1>6, <2>1, <2>2 DEF Fits, Away
<1>7. ASSUME NEW t \in Threads, Result!svc_recv(t) \/ Result!svc_timeout(t)
      PROVE  Fits'
  <2>1. \E n \in {0, lines + 1} : Result!Enter(t, n)
    BY <1>7 DEF Result!svc_recv, Result!svc_timeout
  <2>2. pc[t] \in Away /\ UNCHANGED <<fp, files, tmpfile, file>>
    BY <1>7 DEF Result!svc_recv, Result!svc_timeout, Away
  <2>3. QED
    BY <1>6, <2>1, <2>2
<1>8. ASSUME NEW t \in Threads, Result!PassGate(t)
      PROVE  Fits'
  BY <1>1, <1>2, <1>8 DEF Fits, Away, Result!PassGate, Result!Go
<1>9. ASSUME NEW t \in Threads, Result!CheckTime(t) \/ Result!Check(t) \/ Result!Name(t)
      PROVE  Fits'
  <2>1. CASE Result!CheckTime(t)
    BY <1>1, <1>2, <2>1 DEF Fits, Away, Result!CheckTime, Result!Go
  <2>2. CASE Result!Check(t)
    BY <1>1, <1>2, <2>2 DEF Fits, Away, Result!Check, Result!Go, Result!Done, Result!NoFile
  <2>3. CASE Result!Name(t)
    BY <1>1, <1>2, <2>3 DEF Fits, Away, Result!Name, Result!Go
  <2>4. QED
    BY <1>9, <2>1, <2>2, <2>3
<1>10. ASSUME NEW t \in Threads, Result!Close(t) \/ Result!Clear(t) \/ Result!Rename(t)
      PROVE  Fits'
  <2>1. CASE Result!Close(t)
    <3>1. CASE fp = 0
      BY <1>1, <1>2, <2>1, <3>1 DEF Fits, Away, Result!Close, Result!Go, Result!NoFile
    <3>2. CASE fp # 0
      <4>1. fp \in DOMAIN files /\ files[fp].open
        BY <1>1, <1>2, <2>1, <3>2 DEF Fits, Away, Result!Close
      <4>2. /\ files' = [files EXCEPT ![fp].open = FALSE]
            /\ UNCHANGED <<blame, fp, tmpfile, file>> /\ pc' = [pc EXCEPT ![t] = "clear"]
        BY <2>1, <3>2, <4>1 DEF Result!Close, Result!NoFile, Result!Go
      <4>3. files'[fp].name = files[fp].name /\ files'[fp].dir = files[fp].dir /\ DOMAIN files' = DOMAIN files
        BY <1>4, <4>1, <4>2 DEF File
      <4>4. pc[t] = "close" /\ pc'[t] = "clear"
        BY <1>2, <2>1, <4>2 DEF Result!Close
      <4>5. QED
        BY <1>1, <1>2, <3>2, <4>1, <4>2, <4>3, <4>4 DEF Fits, Away
    <3>3. QED
      BY <3>1, <3>2
  <2>2. CASE Result!Clear(t)
    BY <1>1, <1>2, <2>2 DEF Fits, Away, Result!Clear, Result!Go, Result!NoFile
  <2>3. CASE Result!Rename(t)
    <3>1. fp = 0 /\ pc[t] = "rename" /\ "undefined" \notin blame'
      BY <1>1, <2>3 DEF Fits, Result!Rename
    <3>2. pc' = [pc EXCEPT ![t] = "check"] /\ UNCHANGED <<fp, tmpfile, file>>
      BY <2>3 DEF Result!Rename, Result!Go
    <3>3. QED
      BY <1>1, <1>2, <3>1, <3>2 DEF Fits, Away
  <2>4. QED
    BY <1>10, <2>1, <2>2, <2>3
<1>11. ASSUME NEW t \in Threads, Result!Load(t)
      PROVE  Fits'
  BY <1>1, <1>2, <1>11 DEF Fits, Away, Result!Load, Result!Go
<1>12. ASSUME NEW t \in Threads, Result!Open(t)
      PROVE  Fits'
  <2>1. pc[t] = "open" /\ UNCHANGED tmpfile /\ "undefined" \notin blame'
    BY <1>1, <1>12 DEF Fits, Result!Open
  <2>2. CASE /\ fp' = 0 /\ pc' = [pc EXCEPT ![t] = "idle"]
             /\ file' = [file EXCEPT ![t] = 0]
    BY <1>1, <1>2, <2>1, <2>2 DEF Fits, Away
  <2> DEFINE old == [f \in DOMAIN files |->
                              IF f \in Result!InTmp(tmpfile) THEN [files[f] EXCEPT !.lines = {}, !.dir = "gone"]
                              ELSE files[f]]
             opened == [name |-> tmpfile, dir |-> "tmpdir", open |-> TRUE, lines |-> {}]
  <2>3. CASE /\ fp' = Len(files) + 1 /\ pc' = [pc EXCEPT ![t] = "load"] /\ UNCHANGED file
             /\ files' = Append(old, opened)
    <3>1. DOMAIN old = 1..Len(files) /\ old = [i \in 1..Len(files) |-> old[i]]
      BY <1>4
    <3>2. opened.name = tmpfile /\ opened.dir = "tmpdir" /\ opened.open
      OBVIOUS
    <3> HIDE DEF old, opened
    <3>3. DOMAIN files' = 1..(Len(files) + 1) /\ files'[Len(files) + 1] = opened
      BY ONLY <1>4, <2>3, <3>1, Appended
    <3>4. fp' = Len(files) + 1
      BY <2>3
    <3>5. fp' \in DOMAIN files' /\ files'[fp'] = opened /\ fp' # 0
      BY ONLY <1>4, <3>3, <3>4
    <3>6. pc' = [pc EXCEPT ![t] = "load"] /\ UNCHANGED file
      BY <2>3
    <3>7. QED
      BY ONLY <1>1, <1>2, <2>1, <3>2, <3>5, <3>6 DEF Fits, Away
  <2>4. QED
    BY <1>12, <2>2, <2>3 DEF Result!Open, Result!Go, Result!Done, Result!NoFile
<1>13. ASSUME NEW t \in Threads, Result!Write(t)
      PROVE  Fits'
  <2>1. /\ pc[t] = "write" /\ file[t] = fp /\ fp # 0 /\ fp \in DOMAIN files /\ files[fp].open
    BY <1>1, <1>2, <1>13 DEF Fits, Away, Result!Write
  <2>2. /\ pc' = [pc EXCEPT ![t] = "idle"] /\ file' = [file EXCEPT ![t] = 0] /\ UNCHANGED <<fp, tmpfile, blame>>
        /\ UNCHANGED files \/ files' = [files EXCEPT ![fp].lines = @ \cup {line[t]}]
    BY <1>13, <2>1 DEF Result!Write, Result!Done, Result!Go, Result!NoFile
  <2>3. /\ DOMAIN files' = DOMAIN files
        /\ files'[fp].name = files[fp].name /\ files'[fp].dir = files[fp].dir
        /\ files'[fp].open = files[fp].open
    <3>1. CASE files' = files
      BY <3>1
    <3>2. CASE files' = [files EXCEPT ![fp].lines = @ \cup {line[t]}]
      BY <1>4, <2>1, <3>2 DEF File
    <3>3. QED
      BY <2>2, <3>1, <3>2
  <2>4. QED
    BY <1>1, <1>2, <2>1, <2>2, <2>3 DEF Fits, Away
<1>14. QED
  BY <1>5, <1>7, <1>8, <1>9, <1>10, <1>11, <1>12, <1>13 DEF Result!ResultNext

\* A line that is in outdir, and one that is on its way there.
Delivered(n) == \E f \in DOMAIN files : n \in files[f].lines /\ files[f].dir = "outdir"
Coming(n)    == \E f \in DOMAIN files :
                  /\ n \in files[f].lines /\ files[f].dir = "tmpdir" /\ files[f].name = tmpfile
                  /\ fp = f \/ \E t \in Threads : pc[t] = "rename"
Carried(n)   == \E t \in Threads : line[t] = n

LEMMA SafeIs ==
  ASSUME NEW n
  PROVE  /\ Result!Safe(n) <=> Delivered(n) \/ Coming(n)
         /\ n \in Result!Underway <=> Carried(n)
BY DEF Result!Safe, Delivered, Coming, Result!Underway, Carried

\* What a step does to a line that has been handed over already.
LEMMA LineStep ==
  ASSUME Result!ResultInv, Result!ResultNext, blame' = {},
         NEW n \in (1..lines) \ Headless,
         Carried(n) \/ Delivered(n) \/ Coming(n)
  PROVE  Carried(n)' \/ Delivered(n)' \/ Coming(n)'
<1>1. Fits
  BY Blamed, FitsIs DEF Result!ResultInv
<1>2. /\ pc \in [Threads -> {"idle", "gate", "time", "close", "clear", "rename", "check",
                             "name", "open", "load", "write"}]
      /\ line \in [Threads -> Nat] /\ fp \in Nat /\ n \in Nat /\ n # 0
      /\ \A t \in Threads : pc[t] \in Away => line[t] = 0
  BY DEF Result!ResultInv, Result!ResultType, Away
<1>3. files \in Seq(File)
  BY DEF Result!ResultInv, Result!ResultType, File
<1>4. /\ Len(files) \in Nat /\ DOMAIN files = 1..Len(files)
      /\ \A f \in DOMAIN files : files[f] \in File
  BY <1>3
<1>5. ASSUME NEW t \in Threads, NEW k, line[t] # n, line' = [line EXCEPT ![t] = k], Carried(n)
      PROVE  Carried(n)'
  BY <1>2, <1>5 DEF Carried
<1>6. ASSUME UNCHANGED <<files, tmpfile, fp>>, NEW t \in Threads, NEW k, pc[t] # "rename",
             pc' = [pc EXCEPT ![t] = k]
      PROVE  /\ Delivered(n) => Delivered(n)'
             /\ Coming(n) => Coming(n)'
  BY <1>2, <1>6 DEF Delivered, Coming
<1>7. CASE Result!Tick \/ Result!ChangeTables
  BY <1>7 DEF Result!Tick, Result!ChangeTables, Carried, Delivered, Coming
<1>8. ASSUME NEW t \in Threads, Result!svc_recv(t) \/ Result!svc_timeout(t)
      PROVE  Carried(n)' \/ Delivered(n)' \/ Coming(n)'
  <2>1. /\ pc' = [pc EXCEPT ![t] = "time"] /\ pc[t] \in Away /\ pc[t] # "rename"
        /\ UNCHANGED <<files, tmpfile, fp>>
        /\ \E k : line' = [line EXCEPT ![t] = k]
    BY <1>8 DEF Result!svc_recv, Result!svc_timeout, Result!Enter, Result!Go, Away
  <2>2. line[t] # n
    BY <1>2, <2>1
  <2>3. QED
    BY <1>5, <1>6, <2>1, <2>2
<1>9. ASSUME NEW t \in Threads, Result!PassGate(t) \/ Result!CheckTime(t) \/ Result!Load(t)
      PROVE  Carried(n)' \/ Delivered(n)' \/ Coming(n)'
  <2>1. /\ \E k : pc' = [pc EXCEPT ![t] = k]
        /\ pc[t] # "rename" /\ UNCHANGED <<files, tmpfile, fp, line>>
    BY <1>9 DEF Result!PassGate, Result!CheckTime, Result!Load, Result!Go
  <2>2. QED
    BY <1>6, <2>1 DEF Carried
<1>10. ASSUME NEW t \in Threads, Result!Check(t)
       PROVE  Carried(n)' \/ Delivered(n)' \/ Coming(n)'
  <2>1. /\ \E k : pc' = [pc EXCEPT ![t] = k]
        /\ pc[t] # "rename" /\ UNCHANGED <<files, tmpfile, fp>>
        /\ line' = line \/ (line[t] = 0 /\ line' = [line EXCEPT ![t] = 0])
    BY <1>10 DEF Result!Check, Result!Done, Result!Go
  <2>2. Carried(n) => Carried(n)'
    BY <1>2, <1>5, <2>1 DEF Carried
  <2>3. QED
    BY <1>6, <2>1, <2>2
<1>11. ASSUME NEW t \in Threads, Result!Close(t)
       PROVE  Carried(n)' \/ Delivered(n)' \/ Coming(n)'
  <2>1. /\ \E k : pc' = [pc EXCEPT ![t] = k]
        /\ pc[t] # "rename" /\ UNCHANGED <<tmpfile, fp, line>>
        /\ UNCHANGED files \/ files' = [files EXCEPT ![fp].open = FALSE]
    BY <1>11 DEF Result!Close, Result!Go
  <2>2. CASE UNCHANGED files
    BY <1>6, <2>1, <2>2 DEF Carried
  <2>3. CASE files' = [files EXCEPT ![fp].open = FALSE]
    <3>1. /\ DOMAIN files' = DOMAIN files
          /\ \A f \in DOMAIN files : /\ files'[f].lines = files[f].lines /\ files'[f].dir = files[f].dir
                                      /\ files'[f].name = files[f].name
      BY <1>4, <2>3 DEF File
    <3>2. (\E u \in Threads : pc[u] = "rename") => \E u \in Threads : pc'[u] = "rename"
      BY <1>2, <2>1
    <3>3. QED
      BY <2>1, <3>1, <3>2 DEF Delivered, Coming, Carried
  <2>4. QED
    BY <2>1, <2>2, <2>3
<1>12. ASSUME NEW t \in Threads, Result!Clear(t)
       PROVE  Carried(n)' \/ Delivered(n)' \/ Coming(n)'
  <2>1. pc'[t] = "rename" /\ UNCHANGED <<files, tmpfile, line>>
    BY <1>2, <1>12 DEF Result!Clear, Result!Go
  <2>2. QED
    BY <2>1 DEF Delivered, Coming, Carried
<1>13. ASSUME NEW t \in Threads, Result!Rename(t)
       PROVE  Carried(n)' \/ Delivered(n)' \/ Coming(n)'
  <2>1. /\ UNCHANGED line
        /\ files' = [f \in DOMAIN files |->
                       IF f \in Result!InTmp(tmpfile) THEN [files[f] EXCEPT !.dir = "outdir"] ELSE files[f]]
    BY <1>13 DEF Result!Rename
  <2>2. ASSUME NEW f \in DOMAIN files, n \in files[f].lines, \/ files[f].dir = "outdir"
                                                           \/ f \in Result!InTmp(tmpfile)
        PROVE  f \in DOMAIN files' /\ n \in files'[f].lines /\ files'[f].dir = "outdir"
    BY <1>4, <2>1, <2>2 DEF File
  <2>3. (Delivered(n) \/ Coming(n)) => Delivered(n)'
    BY <2>2 DEF Delivered, Coming, Result!InTmp
  <2>4. QED
    BY <2>1, <2>3 DEF Carried
\* Nothing is on its way while a new file is made: fp is NoFile, and the
\* only thread in dump_return_msg does not rename.
<1>14. ASSUME NEW t \in Threads, pc[t] \in {"name", "open"}
       PROVE  ~Coming(n)
  BY <1>1, <1>2, <1>4, <1>14 DEF Fits, Away, Coming
<1>15. ASSUME NEW t \in Threads, Result!Name(t)
       PROVE  Carried(n)' \/ Delivered(n)' \/ Coming(n)'
  <2>1. pc[t] = "name" /\ UNCHANGED <<files, line>>
    BY <1>15 DEF Result!Name
  <2>2. QED
    BY <1>14, <2>1 DEF Carried, Delivered
<1>16. ASSUME NEW t \in Threads, Result!Open(t)
       PROVE  Carried(n)' \/ Delivered(n)' \/ Coming(n)'
  <2> DEFINE old == [f \in DOMAIN files |->
                              IF f \in Result!InTmp(tmpfile) THEN [files[f] EXCEPT !.lines = {}, !.dir = "gone"]
                              ELSE files[f]]
             opened == [name |-> tmpfile, dir |-> "tmpdir", open |-> TRUE, lines |-> {}]
  <2>1. pc[t] = "open" /\ UNCHANGED line /\ files' = Append(old, opened)
    BY <1>16 DEF Result!Open
  <2>2. DOMAIN old = 1..Len(files) /\ old = [i \in 1..Len(files) |-> old[i]]
    BY <1>4
  <2>3. \A f \in DOMAIN files : files[f].dir = "outdir" => old[f] = files[f]
    BY DEF Result!InTmp
  <2> HIDE DEF old, opened
  <2>4. /\ DOMAIN files' = 1..(Len(files) + 1)
        /\ \A f \in 1..Len(files) : files'[f] = old[f]
    BY ONLY <1>4, <2>1, <2>2, Appended
  <2>5. Delivered(n) => Delivered(n)'
    BY <1>4, <2>3, <2>4 DEF Delivered
  <2>6. QED
    BY <1>14, <2>1, <2>5 DEF Carried
<1>17. ASSUME NEW t \in Threads, Result!Write(t)
       PROVE  Carried(n)' \/ Delivered(n)' \/ Coming(n)'
  <2>1. /\ pc[t] = "write" /\ file[t] = fp /\ fp # 0 /\ fp \in DOMAIN files
        /\ files[fp].name = tmpfile /\ files[fp].dir = "tmpdir"
    BY <1>1, <1>2, <1>17 DEF Fits, Result!Write
  <2>2. /\ pc' = [pc EXCEPT ![t] = "idle"] /\ line' = [line EXCEPT ![t] = 0]
        /\ UNCHANGED <<fp, tmpfile>>
        /\ \/ UNCHANGED files /\ line[t] \in Headless
           \/ files' = [files EXCEPT ![fp].lines = @ \cup {line[t]}]
    BY <1>17, <2>1 DEF Result!Write, Result!Done, Result!Go
  <2>3. CASE UNCHANGED files /\ line[t] \in Headless
    <3>1. line[t] # n
      BY <2>3
    <3>2. QED
      BY <1>5, <1>6, <2>1, <2>2, <2>3, <3>1
  <2>4. CASE files' = [files EXCEPT ![fp].lines = @ \cup {line[t]}]
    <3>1. /\ DOMAIN files' = DOMAIN files
          /\ \A f \in DOMAIN files : /\ files[f].lines \subseteq files'[f].lines
                                      /\ files'[f].dir = files[f].dir /\ files'[f].name = files[f].name
          /\ line[t] \in files'[fp].lines
      BY <1>4, <2>1, <2>4 DEF File
    <3>2. (\E u \in Threads : pc[u] = "rename") => \E u \in Threads : pc'[u] = "rename"
      BY <1>2, <2>1, <2>2
    <3>3. (Delivered(n) => Delivered(n)') /\ (Coming(n) => Coming(n)')
      BY <2>2, <3>1, <3>2 DEF Delivered, Coming
    <3>4. line[t] = n => Coming(n)'
      BY <2>1, <2>2, <3>1 DEF Coming
    <3>5. QED
      BY <1>5, <2>2, <3>3, <3>4
  <2>5. QED
    BY <2>2, <2>3, <2>4
<1>18. QED
  BY <1>7, <1>8, <1>9, <1>10, <1>11, <1>12, <1>13, <1>15, <1>16, <1>17 DEF Result!ResultNext

LEMMA LostStep ==
  ASSUME Result!ResultInv, Result!ResultNext
  PROVE  Result!LostOnlyInARace'
<1>1. ASSUME blame' = {}, NEW n \in (1..lines') \ Headless
      PROVE  (n \in Result!Underway \/ Result!Safe(n))'
  <2>1. lines \in Nat
    BY DEF Result!ResultInv, Result!ResultType
  <2>2. blame = {}
    BY <1>1, Blamed
  <2>3. CASE n \in 1..lines
    <3>1. Carried(n) \/ Delivered(n) \/ Coming(n)
      BY <1>1, <2>2, <2>3, SafeIs DEF Result!ResultInv, Result!LostOnlyInARace
    <3>2. Carried(n)' \/ Delivered(n)' \/ Coming(n)'
      BY <1>1, <2>3, <3>1, LineStep
    <3>3. QED
      BY <3>2 DEF Result!Safe, Delivered, Coming, Result!Underway, Carried
  <2>4. CASE n \notin 1..lines
    <3>1. PICK t \in Threads : Result!svc_recv(t)
      BY <1>1, <2>1, <2>4 DEF Result!ResultNext, Result!Tick, Result!ChangeTables,
           Result!PassGate, Result!svc_timeout, Result!CheckTime, Result!Close, Result!Clear,
           Result!Rename, Result!Check, Result!Name, Result!Open, Result!Load, Result!Write
    <3>2. n = lines + 1 /\ line' = [line EXCEPT ![t] = n]
      <4>1. lines' = lines + 1 /\ line' = [line EXCEPT ![t] = lines + 1]
        BY <3>1 DEF Result!svc_recv, Result!Enter
      <4>2. n = lines + 1
        BY <1>1, <2>1, <2>4, <4>1
      <4>3. QED
        BY <4>1, <4>2
    <3>3. line'[t] = n
      BY <3>2 DEF Result!ResultInv, Result!ResultType
    <3>4. QED
      BY <3>3 DEF Result!Underway
  <2>5. QED
    BY <2>3, <2>4
<1>2. "overlap" \notin blame' => "undefined" \notin blame'
  BY FitsStep DEF Fits
<1>3. QED
  BY <1>1, <1>2 DEF Result!LostOnlyInARace

\* The lists a thread has, against the tables.
LEMMA VersionStep ==
  ASSUME Result!ResultInv, Result!ResultNext
  PROVE  (/\ \A t \in Threads : urls[t] <= db
          /\ Result!PortsNotAhead)'
<1>1. /\ db \in Nat /\ urls \in [Threads -> Nat] /\ ports \in [Threads -> Nat]
      /\ \A t \in Threads : urls[t] <= db /\ ports[t] <= urls[t]
  BY DEF Result!ResultInv, Result!ResultType, Result!PortsNotAhead
<1>2. CASE Result!ChangeTables
  BY <1>1, <1>2 DEF Result!ChangeTables, Result!PortsNotAhead
<1>3. ASSUME NEW t \in Threads, Result!svc_timeout(t)
      PROVE  (/\ \A u \in Threads : urls[u] <= db
              /\ Result!PortsNotAhead)'
  <2>1. db' = db /\ Result!reload_port_url(t)
    BY <1>3 DEF Result!svc_timeout
  <2>2. QED
    BY <1>1, <2>1 DEF Result!reload_port_url, Result!PortsNotAhead
<1>4. CASE UNCHANGED <<db, urls, ports>>
  BY <1>1, <1>4 DEF Result!PortsNotAhead
<1>5. \/ Result!ChangeTables \/ UNCHANGED <<db, urls, ports>>
      \/ \E t \in Threads : Result!svc_timeout(t)
  BY DEF Result!ResultNext, Result!Tick, Result!svc_recv, Result!PassGate, Result!CheckTime,
         Result!Close, Result!Clear, Result!Rename, Result!Check, Result!Name, Result!Open,
         Result!Load, Result!Write
<1>6. QED
  BY <1>2, <1>3, <1>4, <1>5

\* A thread outside dump_return_msg has no answer in its hands.
LEMMA IdleStep ==
  ASSUME Result!ResultInv, Result!ResultNext
  PROVE  (\A t \in Threads : pc[t] \in Away => line[t] = 0)'
<1>1. /\ line \in [Threads -> Nat]
      /\ pc \in [Threads -> {"idle", "gate", "time", "close", "clear", "rename", "check",
                             "name", "open", "load", "write"}]
      /\ \A t \in Threads : pc[t] \in Away => line[t] = 0
  BY DEF Result!ResultInv, Result!ResultType, Away
<1>2. CASE UNCHANGED <<pc, line>>
  BY <1>1, <1>2
<1>3. ASSUME NEW t \in Threads, Result!PassGate(t)
      PROVE  (\A u \in Threads : pc[u] \in Away => line[u] = 0)'
  BY <1>1, <1>3 DEF Result!PassGate, Result!Go, Away
<1>4. ASSUME NEW t \in Threads, NEW step, step \notin Away, NEW n,
             pc' = [pc EXCEPT ![t] = step],
             line' = line \/ line' = [line EXCEPT ![t] = n]
      PROVE  (\A u \in Threads : pc[u] \in Away => line[u] = 0)'
  BY <1>1, <1>4
<1>5. ASSUME NEW t \in Threads, Result!Done(t)
      PROVE  (\A u \in Threads : pc[u] \in Away => line[u] = 0)'
  BY <1>1, <1>5 DEF Result!Done, Result!Go
<1>6. \/ UNCHANGED <<pc, line>>
      \/ \E t \in Threads :
           \/ Result!PassGate(t) \/ Result!Done(t)
           \/ \E step \in {"time", "close", "clear", "rename", "check", "name", "open", "load", "write"},
                 n \in {0, lines + 1} :
                /\ pc' = [pc EXCEPT ![t] = step]
                /\ line' = line \/ line' = [line EXCEPT ![t] = n]
  BY DEF Result!ResultNext, Result!Tick, Result!ChangeTables, Result!svc_recv, Result!svc_timeout,
         Result!Enter, Result!CheckTime, Result!Close, Result!Clear, Result!Rename, Result!Check,
         Result!Name, Result!Open, Result!Load, Result!Write, Result!Go
<1>7. QED
  BY <1>2, <1>3, <1>4, <1>5, <1>6 DEF Away

LEMMA ResultStep ==
  ASSUME Result!ResultInv, Result!ResultNext
  PROVE  Result!ResultInv'
<1>1. Result!OneAtATime'
  BY FitsStep DEF Fits, Result!OneAtATime, Away, Result!Dumping, Result!NoFile
<1>2. QED
  BY <1>1, ResultTypeStep, IdleStep, LostStep, VersionStep DEF Result!ResultInv, Away

LEMMA ResultStart == Result!ResultInit => Result!ResultInv
<1> SUFFICES ASSUME Result!ResultInit PROVE Result!ResultInv
  OBVIOUS
<1>1. Result!ResultType
  <2>1. files \in Seq(File)
    BY DEF Result!ResultInit
  <2>2. tmpfile \in Result!Names
    BY DEF Result!ResultInit, Result!Names
  <2>3. QED
    BY <2>1, <2>2 DEF Result!ResultInit, Result!ResultType, Result!NoFile, File
<1>2. Result!OneAtATime
  BY DEF Result!ResultInit, Result!OneAtATime, Result!Dumping, Result!NoFile
<1>3. Result!LostOnlyInARace
  BY DEF Result!ResultInit, Result!LostOnlyInARace
<1>4. QED
  BY <1>1, <1>2, <1>3 DEF Result!ResultInit, Result!ResultInv, Result!PortsNotAhead

-----------------------------------------------------------------------------
(* The unfinished tasks.                                                   *)

NoRepeat(s) == \A i, j \in DOMAIN s : s[i] = s[j] => i = j

\* idletmp with one more position, and with one less.
LEMMA Freed ==
  ASSUME NEW S, NEW s \in Seq(S), NEW p \in S
  PROVE  /\ <<p>> \o s \in Seq(S)
         /\ Tmp!Range(<<p>> \o s) = {p} \cup Tmp!Range(s)
         /\ NoRepeat(s) /\ p \notin Tmp!Range(s) => NoRepeat(<<p>> \o s)
<1> DEFINE r == <<p>> \o s
<1>1. /\ r \in Seq(S) /\ Len(r) = Len(s) + 1 /\ Len(s) \in Nat
      /\ DOMAIN s = 1..Len(s) /\ DOMAIN r = 1..(Len(s) + 1)
      /\ r[1] = p
  OBVIOUS
<1>2. \A i \in 1..Len(s) : r[i + 1] = s[i]
  OBVIOUS
<1> HIDE DEF r
<1>3. \A i \in DOMAIN r : i = 1 \/ (i - 1 \in DOMAIN s /\ r[i] = s[i - 1])
  BY <1>1, <1>2
<1>4. Tmp!Range(r) = {p} \cup Tmp!Range(s)
  <2>1. ASSUME NEW x \in Tmp!Range(r) PROVE x \in {p} \cup Tmp!Range(s)
    BY <1>1, <1>3, <2>1 DEF Tmp!Range
  <2>2. p \in Tmp!Range(r)
    BY <1>1 DEF Tmp!Range
  <2>3. ASSUME NEW x \in Tmp!Range(s) PROVE x \in Tmp!Range(r)
    <3>1. PICK i \in DOMAIN s : x = s[i]
      BY <2>3 DEF Tmp!Range
    <3>2. i + 1 \in DOMAIN r /\ r[i + 1] = x
      BY <1>1, <1>2, <3>1
    <3>3. QED
      BY <3>2 DEF Tmp!Range
  <2>4. QED
    BY <2>1, <2>2, <2>3
<1>5. ASSUME NoRepeat(s), p \notin Tmp!Range(s) PROVE NoRepeat(r)
  <2>1. \A i \in DOMAIN s : s[i] # p
    BY <1>5 DEF Tmp!Range
  <2>2. SUFFICES ASSUME NEW i \in DOMAIN r, NEW j \in DOMAIN r, r[i] = r[j] PROVE i = j
    BY DEF NoRepeat
  <2>3. QED
    BY <1>1, <1>3, <1>5, <2>1, <2>2 DEF NoRepeat
<1>6. QED
  BY <1>1, <1>4, <1>5 DEF r

LEMMA Taken ==
  ASSUME NEW S, NEW s \in Seq(S), s # <<>>
  PROVE  /\ Head(s) \in S /\ Head(s) \in Tmp!Range(s)
         /\ Tail(s) \in Seq(S)
         /\ Tmp!Range(Tail(s)) \subseteq Tmp!Range(s)
         /\ NoRepeat(s) => NoRepeat(Tail(s)) /\ Head(s) \notin Tmp!Range(Tail(s))
<1> DEFINE r == Tail(s)
<1>1. /\ r \in Seq(S) /\ Len(r) = Len(s) - 1 /\ Len(s) \in Nat /\ Len(s) > 0
      /\ DOMAIN s = 1..Len(s) /\ DOMAIN r = 1..(Len(s) - 1)
      /\ Head(s) = s[1] /\ s[1] \in S
  OBVIOUS
<1>2. \A i \in DOMAIN r : i + 1 \in DOMAIN s /\ r[i] = s[i + 1]
  OBVIOUS
<1> HIDE DEF r
<1>3. \A x \in Tmp!Range(r) : \E i \in DOMAIN s : x = s[i] /\ i # 1
  BY <1>1, <1>2 DEF Tmp!Range
<1>4. Head(s) \in Tmp!Range(s) /\ Tmp!Range(r) \subseteq Tmp!Range(s)
  <2>1. 1 \in DOMAIN s
    BY <1>1
  <2>2. QED
    BY <1>1, <1>3, <2>1 DEF Tmp!Range
<1>5. ASSUME NoRepeat(s) PROVE NoRepeat(r) /\ Head(s) \notin Tmp!Range(r)
  <2>1. Head(s) \notin Tmp!Range(r)
    BY <1>1, <1>3, <1>5 DEF NoRepeat
  <2>2. NoRepeat(r)
    BY <1>1, <1>2, <1>5 DEF NoRepeat
  <2>3. QED
    BY <2>1, <2>2
<1>6. QED
  BY <1>1, <1>4, <1>5 DEF r

LEMMA Larger ==
  ASSUME NEW a \in Nat, NEW b \in Nat
  PROVE  Tmp!Max({a, b}) = IF a <= b THEN b ELSE a
<1> DEFINE m == IF a <= b THEN b ELSE a
<1>1. m \in {a, b} /\ \A y \in {a, b} : m >= y
  OBVIOUS
<1>2. \A x \in {a, b} : (\A y \in {a, b} : x >= y) => x = m
  OBVIOUS
<1>3. QED
  BY <1>1, <1>2 DEF Tmp!Max

\* The file after a write at pos.
LEMMA PutIs ==
  ASSUME NEW S, Blank \in S, NEW f \in Seq(S), NEW pos \in Nat \ {0}, NEW w \in S
  PROVE  /\ Tmp!Put(f, pos, w) \in Seq(S)
         /\ Len(f) <= pos => Len(Tmp!Put(f, pos, w)) = pos
         /\ pos <= Len(f) => Len(Tmp!Put(f, pos, w)) = Len(f)
         /\ Tmp!Put(f, pos, w)[pos] = w
         /\ \A i \in DOMAIN f : i # pos => /\ i \in DOMAIN Tmp!Put(f, pos, w)
                                         /\ Tmp!Put(f, pos, w)[i] = f[i]
<1> DEFINE n == IF Len(f) <= pos THEN pos ELSE Len(f)
<1>1. Tmp!Put(f, pos, w) = [i \in 1..n |-> IF i = pos THEN w ELSE IF i \in DOMAIN f THEN f[i] ELSE Blank]
  BY Larger DEF Tmp!Put
<1>2. n \in Nat /\ Len(f) \in Nat /\ DOMAIN f = 1..Len(f) /\ pos \in 1..n
      /\ \A i \in DOMAIN f : i \in 1..n /\ f[i] \in S
  OBVIOUS
<1> HIDE DEF n
<1>3. \A i \in 1..n : (IF i = pos THEN w ELSE IF i \in DOMAIN f THEN f[i] ELSE Blank) \in S
  BY <1>2
<1>4. Tmp!Put(f, pos, w) \in Seq(S) /\ Len(Tmp!Put(f, pos, w)) = n
  BY <1>1, <1>2, <1>3
<1>5. (Len(f) <= pos => n = pos) /\ (pos <= Len(f) => n = Len(f))
  <2>1. Len(f) \in Nat /\ pos \in Nat
    BY <1>2
  <2>2. QED
    BY ONLY <2>1 DEF n
<1>6. QED
  BY <1>1, <1>2, <1>4, <1>5

Texts == Tasks \cup {Blank}

\* The types, after a record has been blanked and after one was written.
LEMMA BlankedTypes ==
  ASSUME Tmp!TmpInv, NEW p \in Nat \ {0}, Tmp!set_tmp_blank(p)
  PROVE  /\ records' \in Seq(Texts) /\ idletmp' \in Seq(Nat \ {0})
         /\ records' = Tmp!Put(records, p, Blank)
         /\ Tmp!Range(idletmp') = {p} \cup Tmp!Range(idletmp)
         /\ NoRepeat(idletmp) /\ p \notin Tmp!Range(idletmp) => NoRepeat(idletmp')
<1>1. records \in Seq(Texts) /\ idletmp \in Seq(Nat \ {0}) /\ Blank \in Texts
  BY DEF Tmp!TmpInv, Tmp!TmpType, Texts
<1>2. records' = Tmp!Put(records, p, Blank) /\ idletmp' = <<p>> \o idletmp
  BY DEF Tmp!set_tmp_blank
<1>3. records' \in Seq(Texts)
  BY <1>1, <1>2, PutIs
<1>4. QED
  BY ONLY <1>1, <1>2, <1>3, Freed, p \in Nat \ {0}

LEMMA PlaceIs ==
  ASSUME Tmp!TmpInv
  PROVE  /\ Tmp!Place.pos \in Nat \ {0} /\ Tmp!Place.idle \in Seq(Nat \ {0})
         /\ Tmp!Range(Tmp!Place.idle) \subseteq Tmp!Range(idletmp)
         /\ NoRepeat(idletmp) => NoRepeat(Tmp!Place.idle) /\ Tmp!Place.pos \notin Tmp!Range(Tmp!Place.idle)
         /\ idletmp = <<>> => Tmp!Place.pos = Len(records) + 1
         /\ idletmp # <<>> => Tmp!Place.pos \in Tmp!Range(idletmp)
<1>1. records \in Seq(Texts) /\ idletmp \in Seq(Nat \ {0})
  BY DEF Tmp!TmpInv, Tmp!TmpType, Texts
<1>2. CASE idletmp = <<>>
  <2>1. Tmp!Place = [pos |-> Len(records) + 1, idle |-> <<>>]
    BY <1>2 DEF Tmp!Place
  <2>2. Tmp!Range(<<>>) = {} /\ NoRepeat(<<>>)
    BY DEF Tmp!Range, NoRepeat
  <2>3. QED
    BY <1>1, <1>2, <2>1, <2>2
<1>3. CASE idletmp # <<>>
  <2>1. Tmp!Place = [pos |-> Head(idletmp), idle |-> Tail(idletmp)]
    BY <1>3 DEF Tmp!Place
  <2>2. Tmp!Place.pos = Head(idletmp) /\ Tmp!Place.idle = Tail(idletmp)
    BY <2>1
  <2>3. QED
    BY ONLY <1>1, <1>3, <2>2, Taken
<1>4. QED
  BY <1>2, <1>3

LEMMA TmpTypeStep ==
  ASSUME Tmp!TmpInv, Tmp!TmpNext
  PROVE  Tmp!TmpType'
<1> USE FilesAssumption
<1>1. Tmp!TmpType
  BY DEF Tmp!TmpInv
<1>2. CASE Tmp!init_load_tmp_status
  <2>1. [i \in 1..DEFAULT_ITEMS |-> Blank] \in Seq(Tasks \cup {Blank})
    OBVIOUS
  <2>2. QED
    BY <1>1, <1>2, <2>1 DEF Tmp!init_load_tmp_status, Tmp!TmpType
<1>3. ASSUME NEW p \in Nat \ {0}, Tmp!set_tmp_blank(p),
             UNCHANGED <<copy, overran>>, reading' = reading, next' \in Nat \ {0},
             queued' \subseteq queued, accepted' \subseteq accepted
      PROVE  Tmp!TmpType'
  BY <1>1, <1>3, BlankedTypes DEF Tmp!TmpType, Texts
<1>4. ASSUME NEW t \in Tasks, Tmp!set_task_to_tmp(t),
             UNCHANGED <<copy, reading>>, overran' \in BOOLEAN, next' \in Nat \ {0},
             accepted' \subseteq Tasks
      PROVE  Tmp!TmpType'
  <2>1. Tmp!Place.pos \in Nat \ {0} /\ Tmp!Place.idle \in Seq(Nat \ {0})
    BY PlaceIs
  <2>2. records' \in Seq(Texts)
    <3>1. records \in Seq(Texts) /\ t \in Texts /\ Blank \in Texts
      BY <1>1 DEF Tmp!TmpType, Texts
    <3>2. QED
      BY <1>4, <2>1, <3>1, PutIs DEF Tmp!set_task_to_tmp
  <2>3. idletmp' = Tmp!Place.idle /\ queued' = queued \cup {[task |-> t, pos |-> Tmp!Place.pos]}
    BY <1>4 DEF Tmp!set_task_to_tmp
  <2>4. QED
    BY <1>1, <1>4, <2>1, <2>2, <2>3 DEF Tmp!TmpType, Texts
<1>5. CASE Tmp!LoadBlank
  BY <1>1, <1>3, <1>5 DEF Tmp!LoadBlank, Tmp!TmpType
<1>6. CASE Tmp!LoadTask
  <2>1. copy[next] \in Tasks /\ next' \in Nat \ {0} /\ next \in Nat \ {0}
          /\ UNCHANGED <<copy, reading>>
    BY <1>1, <1>6 DEF Tmp!LoadTask, Tmp!TmpType
  <2>2. CASE /\ Tmp!set_task_to_tmp(copy[next])
             /\ overran' = (overran \/ idletmp = <<>>) /\ UNCHANGED accepted
    BY <1>1, <1>4, <2>1, <2>2 DEF Tmp!TmpType
  <2>3. CASE /\ Tmp!set_tmp_blank(next)
             /\ accepted' = accepted \ {copy[next]} /\ UNCHANGED <<queued, overran>>
    BY <1>1, <1>3, <2>1, <2>3
  <2>4. QED
    BY <1>6, <2>2, <2>3 DEF Tmp!LoadTask
<1>7. CASE Tmp!EndLoad
  BY <1>1, <1>7 DEF Tmp!EndLoad, Tmp!TmpType, Tmp!Source
<1>8. ASSUME NEW t \in Tasks, Tmp!Register(t)
      PROVE  Tmp!TmpType'
  BY <1>1, <1>4, <1>8 DEF Tmp!Register, Tmp!TmpType
<1>9. ASSUME NEW q \in queued, Tmp!Complete(q)
      PROVE  Tmp!TmpType'
  BY <1>1, <1>3, <1>9 DEF Tmp!Complete, Tmp!TmpType
<1>10. CASE Tmp!Halt
  BY <1>1, <1>10 DEF Tmp!Halt, Tmp!TmpType
<1>11. QED
  BY <1>2, <1>5, <1>6, <1>7, <1>8, <1>9, <1>10 DEF Tmp!TmpNext

Kept(x) == \E i \in DOMAIN records : Tmp!Keeps(i, x)

\* A position that becomes blank is nobody's, and keeps no task.
LEMMA BlankKeeps ==
  ASSUME Tmp!TmpInv, ~overran, reading # "off", NEW p \in Nat \ {0}, Tmp!set_tmp_blank(p),
         UNCHANGED <<copy, reading>>, next' \in Nat, next <= next',
         queued' \subseteq queued,
         p \notin Tmp!Range(idletmp), \A q \in queued' : q.pos # p,
         IF Tmp!Loading THEN p < next' ELSE p <= Len(records)
  PROVE  /\ Tmp!Placed'
         /\ \A x \in accepted, i \in DOMAIN records :
              Tmp!Keeps(i, x) /\ i # p => i \in DOMAIN records' /\ Tmp!Keeps(i, x)'
<1>1. /\ records \in Seq(Texts) /\ idletmp \in Seq(Nat \ {0}) /\ Blank \in Texts /\ next \in Nat
      /\ queued \subseteq [task : Tasks, pos : Nat \ {0}]
  BY DEF Tmp!TmpInv, Tmp!TmpType, Texts
<1>2. /\ Tmp!Range(idletmp') = {p} \cup Tmp!Range(idletmp)
      /\ NoRepeat(idletmp) => NoRepeat(idletmp')
      /\ records' = Tmp!Put(records, p, Blank)
  BY BlankedTypes
<1>3. Tmp!Placed
  BY DEF Tmp!TmpInv
<1>4. /\ Len(records) <= Len(records') /\ Len(records) \in Nat /\ Len(records') \in Nat
      /\ \A i \in DOMAIN records : i # p => i \in DOMAIN records' /\ records'[i] = records[i]
  <2>1. /\ records' \in Seq(Texts)
        /\ Len(records) <= p => Len(records') = p
        /\ p <= Len(records) => Len(records') = Len(records)
        /\ \A i \in DOMAIN records : i # p => i \in DOMAIN records' /\ records'[i] = records[i]
    BY ONLY <1>1, <1>2, PutIs, p \in Nat \ {0}
  <2>2. QED
    BY <1>1, <2>1
<1>5. Tmp!Placed'
  <2>1. NoRepeat(idletmp')
    BY <1>2, <1>3 DEF Tmp!Placed, NoRepeat
  <2>2. \A q, r \in queued' : q.pos = r.pos => q = r
    BY <1>3 DEF Tmp!Placed
  <2>3. Tmp!Positions' \subseteq Tmp!Positions /\ p \notin Tmp!Positions'
    BY DEF Tmp!Positions
  <2>4. (Tmp!Range(idletmp) \cap Tmp!Positions)' = {}
    BY <1>2, <1>3, <2>3 DEF Tmp!Placed
  <2>5. \A x \in Tmp!Range(idletmp') \cup Tmp!Positions' :
           IF Tmp!Loading' THEN x < next' ELSE x <= Len(records')
    <3>1. Tmp!Loading' = Tmp!Loading
      BY DEF Tmp!Loading
    <3>2. SUFFICES ASSUME NEW x \in Tmp!Range(idletmp') \cup Tmp!Positions'
                   PROVE  IF Tmp!Loading THEN x < next' ELSE x <= Len(records')
      BY <3>1
    <3>3. x \in Nat
      <4>1. Tmp!Range(idletmp) \subseteq Nat /\ Tmp!Positions \subseteq Nat
        BY <1>1 DEF Tmp!Range, Tmp!Positions
      <4>2. QED
        BY <1>2, <2>3, <3>2, <4>1
    <3>4. CASE x = p
      BY <1>4, <3>4
    <3>5. CASE x # p
      <4>1. x \in Tmp!Range(idletmp) \cup Tmp!Positions
        BY <1>2, <2>3, <3>2, <3>5
      <4>2. IF Tmp!Loading THEN x < next ELSE x <= Len(records)
        BY <1>3, <4>1 DEF Tmp!Placed
      <4>3. QED
        BY <1>1, <1>4, <3>3, <4>2
    <3>6. QED
      BY <3>4, <3>5
  <2>6. QED
    BY <2>1, <2>2, <2>4, <2>5 DEF Tmp!Placed, NoRepeat
<1>6. ASSUME NEW x \in accepted, NEW i \in DOMAIN records, Tmp!Keeps(i, x), i # p
      PROVE  i \in DOMAIN records' /\ Tmp!Keeps(i, x)'
  BY <1>2, <1>4, <1>6 DEF Tmp!Keeps
<1>7. QED
  BY <1>5, <1>6

\* A task that is written to its place disturbs no other one.
LEMMA PlaceKeeps ==
  ASSUME Tmp!TmpInv, ~overran, reading # "off", NEW t \in Tasks, Tmp!set_task_to_tmp(t),
         UNCHANGED <<copy, reading>>, next' \in Nat, next <= next',
         Tmp!Loading => idletmp # <<>>
  PROVE  /\ Tmp!Placed'
         /\ \A x \in accepted, i \in DOMAIN records :
              Tmp!Keeps(i, x) => i \in DOMAIN records' /\ Tmp!Keeps(i, x)'
         /\ ~Tmp!Loading => \E i \in DOMAIN records' : Tmp!Keeps(i, t)'
<1>0. PICK p \in Nat \ {0} : p = Tmp!Place.pos
  BY PlaceIs
<1>1. /\ records \in Seq(Texts) /\ idletmp \in Seq(Nat \ {0}) /\ Blank \in Texts /\ next \in Nat
      /\ t \in Texts
      /\ queued \subseteq [task : Tasks, pos : Nat \ {0}]
  BY DEF Tmp!TmpInv, Tmp!TmpType, Texts
<1>2. /\ p \in Nat \ {0}
      /\ Tmp!Range(idletmp') \subseteq Tmp!Range(idletmp)
      /\ NoRepeat(idletmp) => NoRepeat(idletmp') /\ p \notin Tmp!Range(idletmp')
      /\ idletmp = <<>> => p = Len(records) + 1
      /\ idletmp # <<>> => p \in Tmp!Range(idletmp)
      /\ records' = Tmp!Put(records, p, t)
      /\ queued' = queued \cup {[task |-> t, pos |-> p]}
  BY <1>0, PlaceIs DEF Tmp!set_task_to_tmp
<1>3. Tmp!Placed
  BY DEF Tmp!TmpInv
<1>4. /\ Len(records) <= Len(records') /\ Len(records) \in Nat /\ Len(records') \in Nat
      /\ p <= Len(records') /\ p \in DOMAIN records' /\ records'[p] = t
      /\ \A i \in DOMAIN records : i # p => i \in DOMAIN records' /\ records'[i] = records[i]
  <2>1. /\ records' \in Seq(Texts)
        /\ Len(records) <= p => Len(records') = p
        /\ p <= Len(records) => Len(records') = Len(records)
        /\ records'[p] = t
        /\ \A i \in DOMAIN records : i # p => i \in DOMAIN records' /\ records'[i] = records[i]
    <3>1. records \in Seq(Texts) /\ Blank \in Texts /\ t \in Texts
      BY <1>1
    <3>2. Tmp!Put(records, p, t)[p] = t
      BY ONLY <3>1, PutIs, p \in Nat \ {0}
    <3>3. /\ Len(records) <= p => Len(Tmp!Put(records, p, t)) = p
          /\ p <= Len(records) => Len(Tmp!Put(records, p, t)) = Len(records)
      BY ONLY <3>1, PutIs, p \in Nat \ {0}
    <3>4. /\ Tmp!Put(records, p, t) \in Seq(Texts)
          /\ \A i \in DOMAIN records : i # p => /\ i \in DOMAIN Tmp!Put(records, p, t)
                                             /\ Tmp!Put(records, p, t)[i] = records[i]
      BY ONLY <3>1, PutIs, p \in Nat \ {0}
    <3>5. QED
      BY <1>2, <3>2, <3>3, <3>4
  <2>2. QED
    BY <1>1, <1>2, <2>1
<1>5. \A q \in queued : q.pos # p
  <2>1. CASE idletmp = <<>>
    <3>1. ~Tmp!Loading /\ p = Len(records) + 1
      BY <1>2, <2>1
    <3>2. ASSUME NEW q \in queued PROVE q.pos # p
      <4>1. q.pos \in Tmp!Positions
        BY DEF Tmp!Positions
      <4>2. q.pos <= Len(records)
        BY <1>3, <3>1, <4>1 DEF Tmp!Placed
      <4>3. QED
        BY <1>1, <1>4, <3>1, <4>2
    <3>3. QED
      BY <3>2
  <2>2. CASE idletmp # <<>>
    BY <1>2, <1>3, <2>2 DEF Tmp!Placed, Tmp!Positions
  <2>3. QED
    BY <2>1, <2>2
<1>6. NoRepeat(idletmp') /\ p \notin Tmp!Range(idletmp')
  BY <1>2, <1>3 DEF Tmp!Placed, NoRepeat
<1>7. Tmp!Placed'
  <2>1. \A q, r \in queued' : q.pos = r.pos => q = r
    BY <1>2, <1>3, <1>5 DEF Tmp!Placed
  <2>2. Tmp!Positions' = Tmp!Positions \cup {p}
    <3>1. [task |-> t, pos |-> p].pos = p
      OBVIOUS
    <3>2. {q.pos : q \in queued \cup {[task |-> t, pos |-> p]}} = {q.pos : q \in queued} \cup {p}
      BY <3>1
    <3>3. QED
      BY <1>2, <3>2 DEF Tmp!Positions
  <2>3. (Tmp!Range(idletmp) \cap Tmp!Positions)' = {}
    BY <1>2, <1>3, <1>6, <2>2 DEF Tmp!Placed
  <2>4. \A x \in Tmp!Range(idletmp') \cup Tmp!Positions' :
           IF Tmp!Loading' THEN x < next' ELSE x <= Len(records')
    <3>1. Tmp!Loading' = Tmp!Loading
      BY DEF Tmp!Loading
    <3>2. SUFFICES ASSUME NEW x \in Tmp!Range(idletmp') \cup Tmp!Positions'
                   PROVE  IF Tmp!Loading THEN x < next' ELSE x <= Len(records')
      BY <3>1
    <3>3. x \in Nat
      <4>1. Tmp!Range(idletmp) \subseteq Nat /\ Tmp!Positions \subseteq Nat
        BY <1>1 DEF Tmp!Range, Tmp!Positions
      <4>2. QED
        BY <1>2, <2>2, <3>2, <4>1
    <3>4. CASE x \in Tmp!Range(idletmp) \cup Tmp!Positions
      <4>1. IF Tmp!Loading THEN x < next ELSE x <= Len(records)
        BY <1>3, <3>4 DEF Tmp!Placed
      <4>2. QED
        BY <1>1, <1>4, <3>3, <4>1
    <3>5. CASE x = p /\ idletmp = <<>>
      BY <1>4, <3>5
    <3>6. QED
      BY <1>2, <2>2, <3>2, <3>4, <3>5
  <2>5. QED
    BY <1>6, <2>1, <2>3, <2>4 DEF Tmp!Placed, NoRepeat
<1>8. ASSUME NEW x \in accepted, NEW i \in DOMAIN records, Tmp!Keeps(i, x)
      PROVE  i \in DOMAIN records' /\ Tmp!Keeps(i, x)'
  <2>1. i # p
    BY <1>1, <1>2, <1>8 DEF Tmp!Keeps
  <2>2. QED
    BY <1>2, <1>4, <1>8, <2>1 DEF Tmp!Keeps
<1>9. ASSUME ~Tmp!Loading PROVE Tmp!Keeps(p, t)'
  <2>1. reading' = "no"
    BY <1>9 DEF Tmp!Loading, Tmp!TmpInv, Tmp!TmpType
  <2>2. \A q \in queued' : q.pos = p => q.task = t
    BY <1>2, <1>5
  <2>3. QED
    BY <1>4, <1>6, <2>1, <2>2 DEF Tmp!Keeps
<1>10. QED
  BY <1>4, <1>7, <1>8, <1>9

\* What a start and the calls after it leave true of the places.
Sound ==
  ~overran =>
    /\ reading = "new" => accepted = {}
    /\ reading = "copy" => Len(copy) = Len(records)
    /\ reading # "off" => Tmp!Placed /\ \A x \in accepted : Kept(x)

\* A position read from next on is nobody's yet.
LEMMA Unread ==
  ASSUME Tmp!TmpInv, ~overran, Tmp!Loading
  PROVE  next \notin Tmp!Range(idletmp) /\ \A q \in queued : q.pos # next
<1>1. /\ Tmp!Placed /\ next \in Nat
  BY DEF Tmp!TmpInv, Tmp!TmpType, Tmp!Loading
<1>2. \A p \in Tmp!Range(idletmp) \cup Tmp!Positions : p < next
  BY <1>1 DEF Tmp!Placed
<1>3. ~(next < next)
  BY <1>1
<1>4. QED
  BY <1>2, <1>3 DEF Tmp!Positions

\* The length of the file after a write within it.
LEMMA SameLength ==
  ASSUME NEW S, Blank \in S, NEW f \in Seq(S), NEW pos \in Nat \ {0}, NEW w \in S, pos <= Len(f)
  PROVE  Len(Tmp!Put(f, pos, w)) = Len(f)
BY PutIs

LEMMA SoundStep ==
  ASSUME Tmp!TmpInv, Tmp!TmpNext
  PROVE  Sound'
<1>1. /\ records \in Seq(Texts) /\ copy \in Seq(Texts) /\ idletmp \in Seq(Nat \ {0})
      /\ Blank \in Texts /\ Blank \notin Tasks /\ next \in Nat \ {0}
      /\ queued \subseteq [task : Tasks, pos : Nat \ {0}] /\ accepted \subseteq Tasks
      /\ reading \in {"off", "new", "copy", "no"} /\ overran \in BOOLEAN
  BY FilesAssumption DEF Tmp!TmpInv, Tmp!TmpType, Texts
<1>2. /\ reading \in {"off", "new"} => queued = {}
      /\ Tmp!Loading => next <= Len(Tmp!Source) + 1
      /\ Sound /\ Tmp!NoTaskLost
  BY DEF Tmp!TmpInv, Sound, Kept
<1>3. SUFFICES ASSUME ~overran'
               PROVE  /\ reading' = "new" => accepted' = {}
                      /\ reading' = "copy" => Len(copy') = Len(records')
                      /\ reading' # "off" => Tmp!Placed' /\ \A x \in accepted' : Kept(x)'
  BY DEF Sound
<1>4. CASE Tmp!init_load_tmp_status
  <2>1. /\ queued' = {} /\ idletmp' = <<>> /\ ~overran /\ UNCHANGED accepted
    BY <1>2, <1>3, <1>4 DEF Tmp!init_load_tmp_status
  <2>2. Tmp!Range(idletmp') = {} /\ Tmp!Positions' = {} /\ DOMAIN idletmp' = {}
    BY <2>1 DEF Tmp!Range, Tmp!Positions
  <2>3. Tmp!Placed'
    BY <2>1, <2>2 DEF Tmp!Placed
  <2>4. CASE records = <<>>
    <3>1. accepted = {}
      BY <1>2, <2>1, <2>4 DEF Tmp!NoTaskLost, Tmp!Range
    <3>2. reading' = "new"
      BY <1>4, <2>4 DEF Tmp!init_load_tmp_status
    <3>3. QED
      BY <2>1, <2>3, <3>1, <3>2
  <2>5. CASE records # <<>>
    <3>1. copy' = records /\ records' = records /\ reading' = "copy"
      BY <1>4, <2>5 DEF Tmp!init_load_tmp_status
    <3>2. ASSUME NEW x \in accepted PROVE Kept(x)'
      <4>1. PICK i \in DOMAIN records : records[i] = x
        BY <1>2, <2>1, <3>2 DEF Tmp!NoTaskLost, Tmp!Range
      <4>2. Tmp!Keeps(i, x)'
        BY <2>1, <2>2, <3>1, <4>1 DEF Tmp!Keeps
      <4>3. QED
        BY <3>1, <4>1, <4>2 DEF Kept
    <3>3. QED
      BY <2>1, <2>3, <3>1, <3>2
  <2>6. QED
    BY <2>4, <2>5
<1>5. ASSUME Tmp!Loading, Tmp!set_tmp_blank(next), next <= Len(Tmp!Source), next' = next + 1,
             UNCHANGED <<copy, reading, queued, overran>>, accepted' \subseteq accepted,
             \A x \in accepted' : reading = "copy" => copy[next] # x
      PROVE  /\ reading' = "new" => accepted' = {}
             /\ reading' = "copy" => Len(copy') = Len(records')
             /\ reading' # "off" => Tmp!Placed' /\ \A x \in accepted' : Kept(x)'
  <2>1. ~overran /\ reading # "off" /\ reading # "no"
    BY <1>3, <1>5 DEF Tmp!Loading
  <2>2. /\ next \notin Tmp!Range(idletmp) /\ \A q \in queued : q.pos # next
        /\ next < next' /\ next <= next' /\ next' \in Nat
    BY <1>1, <1>5, <2>1, Unread
  <2>3. PICK n \in Nat \ {0} : n = next
    BY <1>1
  <2>4. /\ Tmp!Placed'
        /\ \A x \in accepted, i \in DOMAIN records :
              Tmp!Keeps(i, x) /\ i # n => i \in DOMAIN records' /\ Tmp!Keeps(i, x)'
    <3>1. Tmp!set_tmp_blank(n) /\ n \notin Tmp!Range(idletmp) /\ \A q \in queued' : q.pos # n
      BY <1>5, <2>2, <2>3
    <3>2. IF Tmp!Loading THEN n < next' ELSE n <= Len(records)
      BY <1>5, <2>2, <2>3
    <3>3. QED
      BY <1>5, <2>1, <2>2, <3>1, <3>2, BlankKeeps
  <2>5. reading = "new" => accepted' = {}
    BY <1>2, <1>5, <2>1 DEF Sound
  <2>6. ASSUME reading = "copy" PROVE Len(copy') = Len(records')
    <3>1. n <= Len(records) /\ Len(records) = Len(copy)
      BY <1>2, <1>5, <2>1, <2>3, <2>6 DEF Tmp!Source, Sound
    <3>2. records' = Tmp!Put(records, n, Blank)
      BY <1>5, <2>3 DEF Tmp!set_tmp_blank
    <3>3. Len(Tmp!Put(records, n, Blank)) = Len(records)
      BY <1>1, <3>1, SameLength
    <3>4. QED
      BY <1>5, <3>1, <3>2, <3>3
  <2>7. ASSUME NEW x \in accepted' PROVE Kept(x)'
    <3>1. reading = "copy" /\ x \in accepted
      BY <1>5, <2>5, <2>1, <2>7 DEF Tmp!Loading
    <3>2. PICK i \in DOMAIN records : Tmp!Keeps(i, x)
      BY <1>2, <2>1, <3>1 DEF Sound, Kept
    <3>3. i # n
      BY <1>5, <2>3, <2>7, <3>1, <3>2 DEF Tmp!Keeps
    <3>4. QED
      BY <2>4, <3>1, <3>2, <3>3 DEF Kept
  <2>8. QED
    BY <1>5, <2>4, <2>5, <2>6, <2>7
<1>6. CASE Tmp!LoadBlank
  <2>1. /\ Tmp!Loading /\ Tmp!set_tmp_blank(next) /\ next <= Len(Tmp!Source) /\ next' = next + 1
        /\ UNCHANGED <<copy, reading, queued, overran, accepted>>
        /\ Tmp!Source[next] = Blank
    BY <1>6 DEF Tmp!LoadBlank, Tmp!Loading
  <2>2. \A x \in accepted' : reading = "copy" => copy[next] # x
    BY <1>1, <2>1 DEF Tmp!Source
  <2>3. QED
    BY <1>5, <2>1, <2>2
<1>7. CASE Tmp!LoadTask
  <2>1. /\ reading = "copy" /\ next <= Len(copy) /\ copy[next] # Blank /\ next' = next + 1
        /\ UNCHANGED <<copy, reading>> /\ Tmp!Loading /\ Tmp!Source = copy
    BY <1>7 DEF Tmp!LoadTask, Tmp!Loading, Tmp!Source
  <2>2. CASE /\ Tmp!set_tmp_blank(next)
             /\ accepted' = accepted \ {copy[next]} /\ UNCHANGED <<queued, overran>>
    BY <1>5, <2>1, <2>2
  <2>3. CASE /\ Tmp!set_task_to_tmp(copy[next])
             /\ overran' = (overran \/ idletmp = <<>>) /\ UNCHANGED accepted
    <3>1. ~overran /\ idletmp # <<>>
      BY <1>3, <2>3
    <3>2. PICK t \in Tasks : t = copy[next]
      BY <1>1, <2>1 DEF Texts
    <3>3. /\ Tmp!Placed'
          /\ \A x \in accepted, i \in DOMAIN records :
                Tmp!Keeps(i, x) => i \in DOMAIN records' /\ Tmp!Keeps(i, x)'
      <4>1. Tmp!set_task_to_tmp(t) /\ next' \in Nat /\ next <= next'
        BY <1>1, <2>1, <2>3, <3>2
      <4>2. QED
        BY <2>1, <3>1, <4>1, PlaceKeeps
    <3>4. Len(copy') = Len(records')
      <4>1. PICK p \in Nat \ {0} : p = Tmp!Place.pos
        BY PlaceIs
      <4>2. p \in Tmp!Range(idletmp)
        BY <3>1, <4>1, PlaceIs
      <4>3. p < next
        BY <1>2, <2>1, <3>1, <4>2 DEF Sound, Tmp!Placed
      <4>4. Len(copy) = Len(records) /\ Len(records) \in Nat
        BY <1>1, <1>2, <2>1, <3>1 DEF Sound
      <4>5. p <= Len(records)
        BY <1>1, <2>1, <4>3, <4>4
      <4>6. Len(Tmp!Put(records, p, t)) = Len(records)
        BY <1>1, <3>2, <4>5, SameLength DEF Texts
      <4>7. records' = Tmp!Put(records, p, t)
        BY <2>3, <3>2, <4>1 DEF Tmp!set_task_to_tmp
      <4>8. QED
        BY <2>1, <4>4, <4>6, <4>7
    <3>5. \A x \in accepted' : Kept(x)'
      BY <1>2, <2>1, <2>3, <3>1, <3>3 DEF Sound, Kept
    <3>6. QED
      BY <2>1, <3>3, <3>4, <3>5
  <2>4. QED
    BY <1>7, <2>2, <2>3 DEF Tmp!LoadTask
<1>8. CASE Tmp!EndLoad
  <2>1. /\ Tmp!Loading /\ next > Len(Tmp!Source) /\ records' = Tmp!Source /\ reading' = "no"
        /\ UNCHANGED <<idletmp, queued, accepted, overran>>
    BY <1>8 DEF Tmp!EndLoad, Tmp!Loading
  <2>2. ~overran /\ Tmp!Source \in Seq(Texts)
    BY <1>1, <1>3, <2>1 DEF Tmp!Source
  <2>3. Tmp!Placed /\ Len(Tmp!Source) = Len(records) /\ Len(records) \in Nat
    BY <1>1, <1>2, <2>1, <2>2 DEF Sound, Tmp!Loading, Tmp!Source
  <2>4. ~Tmp!Loading' /\ Tmp!Positions' = Tmp!Positions
    BY <2>1 DEF Tmp!Loading, Tmp!Positions
  <2>5. Tmp!Placed'
    <3>1. SUFFICES ASSUME NEW p \in Tmp!Range(idletmp) \cup Tmp!Positions PROVE p <= Len(records')
      BY <2>1, <2>3, <2>4 DEF Tmp!Placed
    <3>2. p < next /\ p \in Nat
      <4>1. Tmp!Range(idletmp) \subseteq Nat /\ Tmp!Positions \subseteq Nat
        BY <1>1 DEF Tmp!Range, Tmp!Positions
      <4>2. QED
        BY <2>1, <2>3, <3>1, <4>1 DEF Tmp!Placed
    <3>3. next = Len(records') + 1
      BY <1>1, <1>2, <2>1, <2>3
    <3>4. QED
      BY <2>1, <2>3, <3>2, <3>3
  <2>6. ASSUME NEW x \in accepted' PROVE Kept(x)'
    <3>1. reading = "copy" /\ x \in accepted
      BY <1>2, <2>1, <2>2, <2>6 DEF Sound, Tmp!Loading
    <3>2. PICK i \in DOMAIN records : Tmp!Keeps(i, x)
      BY <1>2, <2>2, <3>1 DEF Sound, Kept
    <3>3. records' = copy /\ i \in DOMAIN records' /\ records'[i] = x
      <4>1. records' = copy /\ DOMAIN copy = DOMAIN records
        BY <1>1, <2>1, <2>3, <3>1 DEF Tmp!Source
      <4>2. QED
        BY <3>1, <3>2, <4>1 DEF Tmp!Keeps
    <3>4. QED
      BY <2>1, <3>1, <3>2, <3>3 DEF Kept, Tmp!Keeps
  <2>7. QED
    BY <2>1, <2>5, <2>6
<1>9. ASSUME NEW t \in Tasks, Tmp!Register(t)
      PROVE  /\ reading' = "new" => accepted' = {}
             /\ reading' = "copy" => Len(copy') = Len(records')
             /\ reading' # "off" => Tmp!Placed' /\ \A x \in accepted' : Kept(x)'
  <2>1. /\ reading = "no" /\ Tmp!set_task_to_tmp(t) /\ accepted' = accepted \cup {t} /\ ~overran
        /\ UNCHANGED <<copy, reading, next>> /\ ~Tmp!Loading /\ next <= next' /\ next' \in Nat
    BY <1>1, <1>3, <1>9 DEF Tmp!Register, Tmp!Loading
  <2>2. /\ Tmp!Placed'
        /\ \A x \in accepted, i \in DOMAIN records :
              Tmp!Keeps(i, x) => i \in DOMAIN records' /\ Tmp!Keeps(i, x)'
        /\ \E i \in DOMAIN records' : Tmp!Keeps(i, t)'
    BY <2>1, PlaceKeeps
  <2>3. \A x \in accepted' : Kept(x)'
    BY <1>2, <2>1, <2>2 DEF Sound, Kept
  <2>4. QED
    BY <2>1, <2>2, <2>3
<1>10. ASSUME NEW q \in queued, Tmp!Complete(q)
      PROVE  /\ reading' = "new" => accepted' = {}
             /\ reading' = "copy" => Len(copy') = Len(records')
             /\ reading' # "off" => Tmp!Placed' /\ \A x \in accepted' : Kept(x)'
  <2>1. /\ reading = "no" /\ Tmp!set_tmp_blank(q.pos) /\ accepted' = accepted \ {q.task} /\ ~overran
        /\ queued' = queued \ {q}
        /\ UNCHANGED <<copy, reading, next>> /\ ~Tmp!Loading /\ next <= next' /\ next' \in Nat
    BY <1>1, <1>3, <1>10 DEF Tmp!Complete, Tmp!Loading
  <2>2. Tmp!Placed /\ q.pos \in Nat \ {0} /\ q.pos \in Tmp!Positions
    BY <1>1, <1>2, <2>1 DEF Sound, Tmp!Positions
  <2>3. /\ q.pos \notin Tmp!Range(idletmp) /\ q.pos <= Len(records)
        /\ \A r \in queued' : r.pos # q.pos
    BY <2>1, <2>2 DEF Tmp!Placed
  <2>4. /\ Tmp!Placed'
        /\ \A x \in accepted, i \in DOMAIN records :
              Tmp!Keeps(i, x) /\ i # q.pos => i \in DOMAIN records' /\ Tmp!Keeps(i, x)'
    BY <2>1, <2>2, <2>3, BlankKeeps
  <2>5. ASSUME NEW x \in accepted' PROVE Kept(x)'
    <3>1. PICK i \in DOMAIN records : Tmp!Keeps(i, x)
      BY <1>2, <2>1 DEF Sound, Kept
    <3>2. i # q.pos
      BY <2>1, <3>1 DEF Tmp!Keeps
    <3>3. QED
      BY <2>1, <2>4, <3>1, <3>2 DEF Kept
  <2>6. QED
    BY <2>1, <2>4, <2>5
<1>11. CASE Tmp!Halt
  BY <1>11 DEF Tmp!Halt
<1>12. QED
  BY <1>4, <1>6, <1>7, <1>8, <1>9, <1>10, <1>11 DEF Tmp!TmpNext

LEMMA TmpStep ==
  ASSUME Tmp!TmpInv, Tmp!TmpNext
  PROVE  Tmp!TmpInv'
<1>1. /\ Tmp!TmpType /\ Sound /\ Tmp!NoTaskLost
      /\ reading \in {"off", "new"} => queued = {}
      /\ Tmp!Loading => next <= Len(Tmp!Source) + 1
  BY DEF Tmp!TmpInv, Sound, Kept
<1>2. Sound' /\ Tmp!TmpType'
  BY SoundStep, TmpTypeStep
<1>3. (reading \in {"off", "new"} => queued = {})'
  <2>1. CASE Tmp!init_load_tmp_status
    BY <1>1, <2>1 DEF Tmp!init_load_tmp_status
  <2>2. CASE Tmp!LoadBlank
    BY <1>1, <2>2 DEF Tmp!LoadBlank
  <2>3. CASE Tmp!LoadTask
    BY <2>3 DEF Tmp!LoadTask
  <2>4. CASE Tmp!EndLoad
    BY <2>4 DEF Tmp!EndLoad
  <2>5. ASSUME NEW t \in Tasks, Tmp!Register(t)
        PROVE  (reading \in {"off", "new"} => queued = {})'
    BY <2>5 DEF Tmp!Register
  <2>6. ASSUME NEW q \in queued, Tmp!Complete(q)
        PROVE  (reading \in {"off", "new"} => queued = {})'
    BY <2>6 DEF Tmp!Complete
  <2>7. CASE Tmp!Halt
    BY <2>7 DEF Tmp!Halt
  <2>8. QED
    BY <2>1, <2>2, <2>3, <2>4, <2>5, <2>6, <2>7 DEF Tmp!TmpNext
<1>4. (Tmp!Loading => next <= Len(Tmp!Source) + 1)'
  <2>1. next \in Nat /\ records \in Seq(Texts) /\ copy \in Seq(Texts)
          /\ Len(records) \in Nat /\ Len(copy) \in Nat
    <3>1. records \in Seq(Texts) /\ copy \in Seq(Texts)
      BY <1>1 DEF Tmp!TmpType, Texts
    <3>2. QED
      BY <1>1, <3>1 DEF Tmp!TmpType
  <2>2. CASE Tmp!init_load_tmp_status
    <3>1. next' = 1 /\ records' \in Seq(Texts) /\ copy' \in Seq(Texts)
      BY <1>2, <2>2 DEF Tmp!init_load_tmp_status, Tmp!TmpType, Texts
    <3>2. Tmp!Source' \in Seq(Texts)
      BY <3>1 DEF Tmp!Source
    <3>3. Len(Tmp!Source') \in Nat
      BY <3>2
    <3>4. QED
      BY <3>1, <3>3
  <2>3. CASE Tmp!LoadBlank
    <3>1. /\ next <= Len(Tmp!Source) /\ next' = next + 1 /\ reading' = reading /\ copy' = copy
          /\ records' = Tmp!Put(records, next, Blank)
      BY <2>3 DEF Tmp!LoadBlank, Tmp!set_tmp_blank
    <3>2. CASE reading = "new"
      <4>1. Len(Tmp!Put(records, next, Blank)) = Len(records)
        <5>1. next \in Nat \ {0} /\ Blank \in Texts /\ next <= Len(records)
          BY <1>1, <3>1, <3>2 DEF Tmp!TmpType, Texts, Tmp!Source
        <5>2. QED
          BY <2>1, <5>1, SameLength
      <4>2. Len(Tmp!Source') = Len(Tmp!Source)
        BY <3>1, <3>2, <4>1 DEF Tmp!Source
      <4>3. QED
        BY <2>1, <3>1, <3>2, <4>2 DEF Tmp!Source
    <3>3. CASE reading # "new"
      BY <2>1, <3>1, <3>3 DEF Tmp!Source
    <3>4. QED
      BY <3>2, <3>3
  <2>4. CASE Tmp!LoadTask
    <3>1. next <= Len(copy) /\ next' = next + 1 /\ reading' = reading /\ copy' = copy /\ reading = "copy"
      BY <2>4 DEF Tmp!LoadTask
    <3>2. QED
      BY <2>1, <3>1 DEF Tmp!Source
  <2>5. CASE Tmp!EndLoad
    BY <2>5 DEF Tmp!EndLoad, Tmp!Loading
  <2>6. ASSUME NEW t \in Tasks, Tmp!Register(t)
        PROVE  ~Tmp!Loading'
    BY <2>6 DEF Tmp!Register, Tmp!Loading
  <2>7. ASSUME NEW q \in queued, Tmp!Complete(q)
        PROVE  ~Tmp!Loading'
    BY <2>7 DEF Tmp!Complete, Tmp!Loading
  <2>8. CASE Tmp!Halt
    BY <2>8 DEF Tmp!Halt, Tmp!Loading
  <2>9. QED
    BY <2>2, <2>3, <2>4, <2>5, <2>6, <2>7, <2>8 DEF Tmp!TmpNext
<1>5. Tmp!NoTaskLost'
  <2>1. CASE reading' # "off"
    BY <1>2, <2>1 DEF Sound, Kept, Tmp!Keeps, Tmp!NoTaskLost, Tmp!Range
  <2>2. CASE reading' = "off"
    <3>1. Tmp!Halt
      BY <2>2 DEF Tmp!TmpNext, Tmp!init_load_tmp_status, Tmp!LoadBlank, Tmp!LoadTask, Tmp!EndLoad,
                  Tmp!Register, Tmp!Complete
    <3>2. QED
      BY <1>1, <3>1 DEF Tmp!Halt, Tmp!NoTaskLost
  <2>3. QED
    BY <2>1, <2>2
<1>6. QED
  BY <1>2, <1>3, <1>4, <1>5 DEF Tmp!TmpInv, Sound, Kept

LEMMA TmpStart == Tmp!TmpInit => Tmp!TmpInv
<1> SUFFICES ASSUME Tmp!TmpInit PROVE Tmp!TmpInv
  OBVIOUS
<1>1. records = <<>> /\ copy = <<>> /\ idletmp = <<>> /\ reading = "off" /\ next = 1 /\ queued = {} /\ accepted = {}
        /\ overran = FALSE
  BY DEF Tmp!TmpInit
<1>2. Tmp!TmpType
  <2>1. records \in Seq(Tasks \cup {Blank}) /\ copy \in Seq(Tasks \cup {Blank}) /\ idletmp \in Seq(Nat \ {0})
    BY <1>1
  <2>2. reading \in {"off", "new", "copy", "no"} /\ next \in Nat \ {0}
    BY ONLY <1>1
  <2>3. /\ queued \subseteq [task : Tasks, pos : Nat \ {0}] /\ accepted \subseteq Tasks
        /\ overran \in BOOLEAN
    BY ONLY <1>1, Zenon
  <2>4. QED
    BY ONLY <2>1, <2>2, <2>3 DEF Tmp!TmpType
<1>3. QED
  BY <1>1, <1>2 DEF Tmp!TmpInv, Tmp!Loading, Tmp!NoTaskLost

-----------------------------------------------------------------------------
(* The index of tasks.                                                     *)

\* The nodes a start finds free, as a list.
LEMMA AllFree ==
  /\ Index!SetToSeq(Nodes) \in Seq(Nodes)
  /\ Len(Index!SetToSeq(Nodes)) = Index!Cardinality(Nodes)
  /\ Index!Once(Index!SetToSeq(Nodes))
  /\ Index!Cardinality(Nodes) \in Nat
<1>1. Index!Cardinality(Nodes) = Cardinality(Nodes)
  BY DEF Index!Cardinality, Cardinality
<1> DEFINE n == Cardinality(Nodes)
           C == {f \in [1..n -> Nodes] : \A a, b \in DOMAIN f : f[a] = f[b] => a = b}
<1>2. n \in Nat /\ ExistsBijection(1..n, Nodes)
  BY FilesAssumption, FS_CardinalityType
<1>3. PICK f : f \in Bijection(1..n, Nodes)
  BY <1>2 DEF ExistsBijection
<1>4. f \in [1..n -> Nodes] /\ \A a, b \in 1..n : f[a] = f[b] => a = b
  BY <1>3 DEF Bijection, Injection, IsInjective
<1>5. Index!SetToSeq(Nodes) = CHOOSE g \in [1..n -> Nodes] : Index!IsInjective(g)
  BY <1>1 DEF Index!SetToSeq
<1>6. Index!IsInjective(f)
  BY <1>4 DEF Index!IsInjective
<1>7. Index!SetToSeq(Nodes) \in [1..n -> Nodes] /\ Index!IsInjective(Index!SetToSeq(Nodes))
  BY <1>4, <1>5, <1>6
<1>8. QED
  BY <1>1, <1>2, <1>7 DEF Index!IsInjective, Index!Once

\* A list without repetitions after list_del_init of x.
LEMMA TakenOff ==
  ASSUME NEW S, NEW s \in Seq(S), Index!Once(s), NEW x
  PROVE  /\ Index!RemoveFirst(s, x) \in Seq(S)
         /\ Index!Once(Index!RemoveFirst(s, x))
         /\ x \notin Index!Range(Index!RemoveFirst(s, x))
         /\ x \in Index!Range(s) => Len(Index!RemoveFirst(s, x)) = Len(s) - 1
         /\ x \notin Index!Range(s) => Index!RemoveFirst(s, x) = s
<1> DEFINE r == Index!RemoveFirst(s, x)
<1>1. DOMAIN s = 1..Len(s) /\ Len(s) \in Nat
  OBVIOUS
<1>2. CASE x \notin Index!Range(s)
  <2>1. r = s
    BY <1>1, <1>2 DEF Index!RemoveFirst, Index!Range
  <2>2. QED
    BY <1>2, <2>1
<1>3. CASE x \in Index!Range(s)
  <2>1. PICK k \in 1..Len(s) : s[k] = x
    BY <1>1, <1>3 DEF Index!Range
  <2>2. {i \in 1..Len(s) : s[i] = x} = {k}
    BY <1>1, <2>1 DEF Index!Once
  <2>3. Index!Min({k}) = k
    BY <2>1 DEF Index!Min
  <2>4. Index!SelectInSeq(s, LAMBDA v : v = x) = k
    BY <2>2, <2>3 DEF Index!SelectInSeq
  <2>5. r = SubSeq(s, 1, k - 1) \o SubSeq(s, k + 1, Len(s))
    BY <2>1, <2>4 DEF Index!RemoveFirst, Index!RemoveAt
  <2>6. /\ r \in Seq(S) /\ Len(r) = Len(s) - 1
        /\ \A j \in 1..(Len(s) - 1) : r[j] = IF j < k THEN s[j] ELSE s[j + 1]
    <3> DEFINE a == SubSeq(s, 1, k - 1)
               b == SubSeq(s, k + 1, Len(s))
    <3>1. k \in Int /\ 1 <= k /\ k <= Len(s) /\ Len(s) \in Nat
      BY <2>1
    <3>2. /\ a \in Seq(S) /\ Len(a) = k - 1
          /\ \A j \in 1..(k - 1) : a[j] = s[j]
      BY <3>1
    <3>3. /\ b \in Seq(S) /\ Len(b) = Len(s) - k
          /\ \A j \in 1..(Len(s) - k) : b[j] = s[k + j]
      BY <3>1
    <3> HIDE DEF a, b
    <3>4. r = a \o b
      BY <2>5 DEF a, b
    <3> HIDE DEF r
    <3>5. r \in Seq(S) /\ Len(r) = Len(s) - 1
      <4>1. a \in Seq(S) /\ b \in Seq(S)
        BY <3>2, <3>3
      <4>2. a \o b \in Seq(S)
        BY <4>1
      <4>3. Len(a \o b) = Len(a) + Len(b)
        BY <4>1
      <4>4. QED
        BY <3>1, <3>2, <3>3, <3>4, <4>2, <4>3
    <3>6. ASSUME NEW j \in 1..(Len(s) - 1)
          PROVE  r[j] = IF j < k THEN s[j] ELSE s[j + 1]
      <4>1. r[j] = IF j <= Len(a) THEN a[j] ELSE b[j - Len(a)]
        BY <3>1, <3>2, <3>3, <3>4, <3>6
      <4>2. CASE j < k
        BY <3>1, <3>2, <3>6, <4>1, <4>2
      <4>3. CASE ~(j < k)
        <5>1. j - (k - 1) \in 1..(Len(s) - k) /\ k + (j - (k - 1)) = j + 1
          BY <3>1, <3>6, <4>3
        <5>2. QED
          BY <3>1, <3>2, <3>3, <3>6, <4>1, <4>3, <5>1
      <4>4. QED
        BY <4>2, <4>3
    <3>7. QED
      BY <3>5, <3>6
  <2> HIDE DEF r
  <2>7. DOMAIN r = 1..(Len(s) - 1)
    BY <1>1, <2>6
  <2>8. Index!Once(r)
    <3>1. SUFFICES ASSUME NEW i \in 1..(Len(s) - 1), NEW j \in 1..(Len(s) - 1), r[i] = r[j]
                   PROVE  i = j
      BY <2>7 DEF Index!Once
    <3>2. PICK i2 \in DOMAIN s : r[i] = s[i2] /\ i2 = IF i < k THEN i ELSE i + 1
      BY <1>1, <2>1, <2>6
    <3>3. PICK j2 \in DOMAIN s : r[j] = s[j2] /\ j2 = IF j < k THEN j ELSE j + 1
      BY <1>1, <2>1, <2>6
    <3>4. i2 = j2
      BY <3>1, <3>2, <3>3 DEF Index!Once
    <3>5. QED
      BY <2>1, <3>2, <3>3, <3>4
  <2>9. x \notin Index!Range(r)
    BY <1>1, <2>1, <2>6, <2>7 DEF Index!Once, Index!Range
  <2>10. QED
    BY <1>3, <2>6, <2>8, <2>9 DEF r
<1>4. QED
  BY <1>2, <1>3

\* The same list with x at either end.
LEMMA Linked ==
  ASSUME NEW S, NEW s \in Seq(S), Index!Once(s), NEW x \in S, x \notin Index!Range(s)
  PROVE  /\ Append(s, x) \in Seq(S) /\ Len(Append(s, x)) = Len(s) + 1
         /\ Index!Once(Append(s, x))
         /\ <<x>> \o s \in Seq(S) /\ Index!Once(<<x>> \o s)
<1>1. /\ Append(s, x) \in Seq(S) /\ Len(Append(s, x)) = Len(s) + 1 /\ Len(s) \in Nat
      /\ DOMAIN s = 1..Len(s) /\ DOMAIN Append(s, x) = 1..(Len(s) + 1)
      /\ Append(s, x)[Len(s) + 1] = x
      /\ \A i \in 1..Len(s) : Append(s, x)[i] = s[i]
  OBVIOUS
<1>2. \A i \in 1..Len(s) : s[i] # x
  BY <1>1 DEF Index!Range
<1>3. Index!Once(Append(s, x))
  <2> DEFINE r == Append(s, x)
  <2>1. SUFFICES ASSUME NEW i \in DOMAIN r, NEW j \in DOMAIN r, r[i] = r[j] PROVE i = j
    BY DEF Index!Once
  <2>2. \A l \in DOMAIN r : l = Len(s) + 1 \/ l \in 1..Len(s)
    BY <1>1
  <2> HIDE DEF r
  <2>3. r[Len(s) + 1] = x /\ \A l \in 1..Len(s) : r[l] = s[l]
    BY <1>1 DEF r
  <2>4. QED
    BY <1>1, <1>2, <2>1, <2>2, <2>3 DEF Index!Once
<1>4. <<x>> \o s \in Seq(S) /\ Index!Once(<<x>> \o s)
  BY Freed DEF NoRepeat, Index!Once, Index!Range, Tmp!Range
<1>5. QED
  BY <1>1, <1>3, <1>4

LEMMA IndexStart == Index!IndexInit => Index!IndexInv
<1> SUFFICES ASSUME Index!IndexInit PROVE Index!IndexInv
  OBVIOUS
<1>1. /\ <<>> \in Seq(Nodes) /\ Index!Once(<<>>) /\ Len(<<>>) = 0
  BY DEF Index!Once
<1>2. /\ vfstask = [s \in Index!All |-> IF s = 0 THEN Index!SetToSeq(Nodes) ELSE <<>>]
      /\ taskcount = [s \in Index!All |-> 0] /\ strayed = [s \in Index!All |-> 0]
      /\ alltask = <<>>
  BY DEF Index!IndexInit, Index!TASK_HOME
<1> HIDE DEF Index!All
<1>3. vfstask \in [Index!All -> Seq(Nodes)] /\ \A s \in Index!All : Index!Once(vfstask[s])
  BY <1>1, <1>2, AllFree
<1>4. Index!CountsTheCancelled
  BY <1>1, <1>2, AllFree DEF Index!CountsTheCancelled, Index!get_task_count, Index!TASK_HOME
<1>5. QED
  BY <1>1, <1>2, <1>3, <1>4 DEF Index!IndexInv

\* A task put on a list, wherever it was.
LEMMA SetTaskKeeps ==
  ASSUME Index!IndexInv, NEW x \in Nodes, NEW s \in Index!All, Index!SetTask(x, s)
  PROVE  /\ vfstask' \in [Index!All -> Seq(Nodes)] /\ \A q \in Index!All : Index!Once(vfstask'[q])
         /\ taskcount' \in [Index!All -> Int] /\ strayed' \in [Index!All -> Nat]
         /\ Index!CountsTheCancelled'
<1>1. /\ vfstask \in [Index!All -> Seq(Nodes)] /\ \A q \in Index!All : Index!Once(vfstask[q])
      /\ taskcount \in [Index!All -> Int] /\ strayed \in [Index!All -> Nat]
      /\ Index!CountsTheCancelled
  BY DEF Index!IndexInv
<1> DEFINE less(q) == Index!RemoveFirst(vfstask[q], x)
           hit(q)  == x \in Index!Range(vfstask[q])
<1>2. ASSUME NEW q \in Index!All
      PROVE  /\ less(q) \in Seq(Nodes) /\ Index!Once(less(q))
             /\ Len(less(q)) = IF hit(q) THEN Len(vfstask[q]) - 1 ELSE Len(vfstask[q])
             /\ Append(less(q), x) \in Seq(Nodes) /\ Index!Once(Append(less(q), x))
             /\ Len(Append(less(q), x)) = Len(less(q)) + 1
             /\ Len(vfstask[q]) \in Nat
  <2>1. vfstask[q] \in Seq(Nodes) /\ Index!Once(vfstask[q])
    BY <1>1
  <2>2. /\ less(q) \in Seq(Nodes) /\ Index!Once(less(q)) /\ x \notin Index!Range(less(q))
        /\ hit(q) => Len(less(q)) = Len(vfstask[q]) - 1
        /\ ~hit(q) => less(q) = vfstask[q]
    BY <2>1, TakenOff
  <2>3. Len(vfstask[q]) \in Nat
    BY <2>1
  <2> HIDE DEF less, hit
  <2>4. /\ Append(less(q), x) \in Seq(Nodes) /\ Index!Once(Append(less(q), x))
        /\ Len(Append(less(q), x)) = Len(less(q)) + 1
    BY <2>2, Linked
  <2>5. QED
    BY <2>2, <2>3, <2>4
<1>3. /\ vfstask' = [q \in Index!All |-> IF q = s THEN Append(less(q), x) ELSE less(q)]
      /\ taskcount' = [taskcount EXCEPT ![s] = @ + 1]
      /\ strayed' = [q \in Index!All |-> IF hit(q) THEN strayed[q] + 1 ELSE strayed[q]]
  BY DEF Index!SetTask, Index!On
<1> HIDE DEF less, hit
<1>4. vfstask' \in [Index!All -> Seq(Nodes)] /\ \A q \in Index!All : Index!Once(vfstask'[q])
  BY <1>2, <1>3
<1>5. taskcount' \in [Index!All -> Int] /\ strayed' \in [Index!All -> Nat]
  BY <1>1, <1>3
<1>6. ASSUME NEW q \in Index!All
      PROVE  taskcount'[q] = Len(vfstask'[q]) + strayed'[q]
                               - (IF q = 0 THEN Index!Cardinality(Nodes) ELSE 0)
  <2> DEFINE home == IF q = 0 THEN Index!Cardinality(Nodes) ELSE 0
  <2>1. taskcount[q] = Len(vfstask[q]) + strayed[q] - home
    BY <1>1 DEF Index!CountsTheCancelled, Index!get_task_count, Index!TASK_HOME
  <2>2. home \in Nat
    BY AllFree
  <2> HIDE DEF home
  <2>3. Len(vfstask'[q]) = (IF hit(q) THEN Len(vfstask[q]) - 1 ELSE Len(vfstask[q]))
                             + (IF q = s THEN 1 ELSE 0)
    <3>1. /\ Len(less(q)) = IF hit(q) THEN Len(vfstask[q]) - 1 ELSE Len(vfstask[q])
          /\ Len(Append(less(q), x)) = Len(less(q)) + 1
          /\ Len(vfstask[q]) \in Nat
      BY <1>2
    <3>2. vfstask'[q] = IF q = s THEN Append(less(q), x) ELSE less(q)
      BY <1>3
    <3>3. QED
      <4>1. CASE q = s
        BY ONLY <3>1, <3>2, <4>1
      <4>2. CASE q # s
        BY ONLY <3>1, <3>2, <4>2
      <4>3. QED
        BY <4>1, <4>2
  <2>4. taskcount'[q] = taskcount[q] + (IF q = s THEN 1 ELSE 0)
    BY <1>1, <1>3
  <2>5. strayed'[q] = strayed[q] + (IF hit(q) THEN 1 ELSE 0)
    BY <1>1, <1>3
  <2>6. taskcount[q] \in Int /\ strayed[q] \in Nat /\ Len(vfstask[q]) \in Nat
    BY <1>1, <1>2
  <2>7. taskcount'[q] = Len(vfstask'[q]) + strayed'[q] - home
    <3>1. CASE hit(q) /\ q = s
      <4>1. /\ taskcount'[q] = taskcount[q] + 1 /\ strayed'[q] = strayed[q] + 1
            /\ Len(vfstask'[q]) = Len(vfstask[q])
        BY ONLY <2>3, <2>4, <2>5, <2>6, <3>1
      <4>2. QED
        BY ONLY <2>1, <2>2, <2>6, <4>1
    <3>2. CASE hit(q) /\ q # s
      <4>1. /\ taskcount'[q] = taskcount[q] /\ strayed'[q] = strayed[q] + 1
            /\ Len(vfstask'[q]) = Len(vfstask[q]) - 1
        BY ONLY <2>3, <2>4, <2>5, <2>6, <3>2
      <4>2. QED
        BY ONLY <2>1, <2>2, <2>6, <4>1
    <3>3. CASE ~hit(q) /\ q = s
      <4>1. /\ taskcount'[q] = taskcount[q] + 1 /\ strayed'[q] = strayed[q]
            /\ Len(vfstask'[q]) = Len(vfstask[q]) + 1
        BY ONLY <2>3, <2>4, <2>5, <2>6, <3>3
      <4>2. QED
        BY ONLY <2>1, <2>2, <2>6, <4>1
    <3>4. CASE ~hit(q) /\ q # s
      <4>1. /\ taskcount'[q] = taskcount[q] /\ strayed'[q] = strayed[q]
            /\ Len(vfstask'[q]) = Len(vfstask[q])
        BY ONLY <2>3, <2>4, <2>5, <2>6, <3>4
      <4>2. QED
        BY ONLY <2>1, <2>2, <2>6, <4>1
    <3>5. QED
      BY <3>1, <3>2, <3>3, <3>4
  <2>8. QED
    BY <2>7 DEF home
<1>7. QED
  BY <1>4, <1>5, <1>6 DEF Index!CountsTheCancelled, Index!get_task_count, Index!TASK_HOME

LEMMA IndexStep ==
  ASSUME Index!IndexInv, Index!IndexNext
  PROVE  Index!IndexInv'
<1>1. /\ vfstask \in [Index!All -> Seq(Nodes)] /\ \A q \in Index!All : Index!Once(vfstask[q])
      /\ taskcount \in [Index!All -> Int] /\ strayed \in [Index!All -> Nat]
      /\ alltask \in Seq(Nodes) /\ Index!Once(alltask)
      /\ Index!CountsTheCancelled
  BY DEF Index!IndexInv
<1>2. ASSUME NEW s \in Index!All, Index!vfs_get_task(s)
      PROVE  Index!IndexInv'
  <2>1. vfstask[s] \in Seq(Nodes) /\ Index!Once(vfstask[s]) /\ vfstask[s] # <<>>
    BY <1>1, <1>2 DEF Index!vfs_get_task
  <2>2. /\ Tail(vfstask[s]) \in Seq(Nodes) /\ Index!Once(Tail(vfstask[s]))
        /\ Len(Tail(vfstask[s])) = Len(vfstask[s]) - 1 /\ Len(vfstask[s]) \in Nat
    <3>1. Tail(vfstask[s]) \in Seq(Nodes) /\ Index!Once(Tail(vfstask[s]))
      BY <2>1, Taken DEF NoRepeat, Index!Once
    <3>2. QED
      BY <2>1, <3>1
  <2>3. /\ vfstask' = [vfstask EXCEPT ![s] = Tail(vfstask[s])]
        /\ taskcount' = [taskcount EXCEPT ![s] = taskcount[s] - 1]
        /\ UNCHANGED <<alltask, strayed>>
    BY <1>2 DEF Index!vfs_get_task
  <2>4. vfstask' \in [Index!All -> Seq(Nodes)] /\ \A q \in Index!All : Index!Once(vfstask'[q])
    BY <1>1, <2>2, <2>3
  <2>5. taskcount' \in [Index!All -> Int]
    BY <1>1, <2>3
  <2>6. ASSUME NEW q \in Index!All
        PROVE  taskcount'[q] = Len(vfstask'[q]) + strayed'[q]
                                 - (IF q = 0 THEN Index!Cardinality(Nodes) ELSE 0)
    <3> DEFINE home == IF q = 0 THEN Index!Cardinality(Nodes) ELSE 0
    <3>1. taskcount[q] = Len(vfstask[q]) + strayed[q] - home
      BY <1>1 DEF Index!CountsTheCancelled, Index!get_task_count, Index!TASK_HOME
    <3>2. home \in Nat /\ taskcount[q] \in Int /\ strayed[q] \in Nat
      BY <1>1, AllFree
    <3> HIDE DEF home
    <3>3. CASE q = s
      <4>1. taskcount'[q] = taskcount[q] - 1 /\ Len(vfstask'[q]) = Len(vfstask[q]) - 1 /\ strayed'[q] = strayed[q]
        BY <1>1, <2>2, <2>3, <3>3
      <4>2. QED
        BY <2>2, <3>1, <3>2, <3>3, <4>1 DEF home
    <3>4. CASE q # s
      <4>1. taskcount'[q] = taskcount[q] /\ vfstask'[q] = vfstask[q] /\ strayed'[q] = strayed[q]
        BY <1>1, <2>3, <3>4
      <4>2. QED
        BY <3>1, <4>1 DEF home
    <3>5. QED
      BY <3>3, <3>4
  <2>7. QED
    BY <1>1, <2>3, <2>4, <2>5, <2>6 DEF Index!IndexInv, Index!CountsTheCancelled, Index!get_task_count, Index!TASK_HOME
<1>3. ASSUME NEW x \in Nodes, NEW s \in Index!All, Index!vfs_set_task(x, s)
      PROVE  Index!IndexInv'
  BY <1>1, <1>3, SetTaskKeeps DEF Index!vfs_set_task, Index!IndexInv
<1>4. ASSUME UNCHANGED <<vfstask, taskcount, strayed>>,
             alltask' \in Seq(Nodes), Index!Once(alltask')
      PROVE  Index!IndexInv'
  BY <1>1, <1>4 DEF Index!IndexInv, Index!CountsTheCancelled, Index!get_task_count
<1>5. ASSUME NEW x \in Nodes, Index!add_task_to_alltask(x)
      PROVE  Index!IndexInv'
  <2>1. alltask' = <<x>> \o Index!RemoveFirst(alltask, x) /\ UNCHANGED <<vfstask, taskcount, strayed>>
    BY <1>5 DEF Index!add_task_to_alltask
  <2>2. /\ Index!RemoveFirst(alltask, x) \in Seq(Nodes) /\ Index!Once(Index!RemoveFirst(alltask, x))
        /\ x \notin Index!Range(Index!RemoveFirst(alltask, x))
    BY <1>1, TakenOff
  <2>3. <<x>> \o Index!RemoveFirst(alltask, x) \in Seq(Nodes) /\ Index!Once(<<x>> \o Index!RemoveFirst(alltask, x))
    BY <2>2, Linked
  <2>4. QED
    BY <1>4, <2>1, <2>3
<1>6. CASE Index!get_timeout_task_from_alltask
  BY <1>4, <1>6 DEF Index!get_timeout_task_from_alltask, Index!Once
<1>7. CASE Index!mod_task_level
  <2>1. PICK x \in Index!Range(alltask) : Index!get_task_from_alltask(x) /\ Index!SetTask(x, Index!TASK_HOME)
    BY <1>7 DEF Index!mod_task_level
  <2>2. x \in Nodes /\ Index!TASK_HOME \in Index!All
    BY <1>1 DEF Index!Range, Index!All
  <2>3. alltask # <<>> /\ alltask' = Tail(alltask)
    BY <2>1 DEF Index!get_task_from_alltask
  <2>4. Tail(alltask) \in Seq(Nodes) /\ Index!Once(Tail(alltask))
    BY <1>1, <2>3, Taken DEF NoRepeat, Index!Once
  <2>5. QED
    BY <2>1, <2>2, <2>3, <2>4, SetTaskKeeps DEF Index!IndexInv
<1>8. QED
  BY <1>2, <1>3, <1>5, <1>6, <1>7 DEF Index!IndexNext

-----------------------------------------------------------------------------
(* The delay tasks.                                                         *)

LEMMA TimerStart == Timer!TimerInit => Timer!TimerInv
<1> SUFFICES ASSUME Timer!TimerInit PROVE Timer!TimerInv
  OBVIOUS
<1>1. seconds = 1 /\ added = <<>> /\ ran = <<>> /\ delay_active = {}
  BY DEF Timer!TimerInit
<1>2. added \in Seq([at : Nat, span : Nat, loop : BOOLEAN]) /\ ran \in Seq(Nat)
      /\ Len(ran) = Len(added) /\ DOMAIN ran = {}
  BY <1>1
<1>3. QED
  BY <1>1, <1>2 DEF Timer!TimerInv

\* A task that is added is on the list, and disturbs none that is.
LEMMA DelayAdded ==
  ASSUME Timer!TimerInv, NEW span \in Nat, NEW loop \in BOOLEAN, Timer!add_to_delay_task(span, loop)
  PROVE  Timer!TimerInv'
<1> DEFINE n == Len(added) + 1
           a == [at |-> seconds, span |-> span, loop |-> loop]
           x == [id |-> n, next_time |-> seconds + span, span_time |-> span, loop |-> loop]
<1>1. /\ delay_active' = delay_active \cup {x} /\ added' = Append(added, a) /\ ran' = Append(ran, 0)
      /\ seconds' = seconds
  BY DEF Timer!add_to_delay_task
<1>2. /\ seconds \in Nat \ {0} /\ added \in Seq([at : Nat, span : Nat, loop : BOOLEAN])
      /\ ran \in Seq(Nat) /\ Len(ran) = Len(added) /\ Len(added) \in Nat
      /\ DOMAIN ran = 1..(n - 1) /\ DOMAIN added = 1..(n - 1)
      /\ delay_active \subseteq [id : DOMAIN ran, next_time : Nat, span_time : Nat, loop : BOOLEAN]
  BY DEF Timer!TimerInv
<1>3. a \in [at : Nat, span : Nat, loop : BOOLEAN] /\ a.at = seconds /\ a.span = span /\ a.loop = loop
  BY <1>2
<1>4. /\ added' \in Seq([at : Nat, span : Nat, loop : BOOLEAN]) /\ ran' \in Seq(Nat)
      /\ Len(ran') = Len(added') /\ DOMAIN ran' = 1..n
      /\ ran'[n] = 0 /\ added'[n] = a
      /\ \A i \in 1..(n - 1) : ran'[i] = ran[i] /\ added'[i] = added[i]
  BY <1>1, <1>2, <1>3
<1>5. /\ x \in [id : 1..n, next_time : Nat, span_time : Nat, loop : BOOLEAN]
      /\ x.id = n /\ x.next_time = seconds + span /\ x.span_time = span /\ x.loop = loop
  BY <1>2
<1> HIDE DEF a, x
<1>6. delay_active' \subseteq [id : DOMAIN ran', next_time : Nat, span_time : Nat, loop : BOOLEAN]
  BY <1>1, <1>2, <1>4, <1>5
<1>7. ASSUME NEW y \in delay_active'
      PROVE  /\ y.next_time = Timer!Expected(y.id)'
             /\ y.span_time = added'[y.id].span /\ y.loop = added'[y.id].loop
             /\ ran'[y.id] # 0 => y.loop
  <2>1. CASE y = x
    BY <1>3, <1>4, <1>5, <2>1 DEF Timer!Expected
  <2>2. CASE y \in delay_active
    BY <1>2, <1>4, <2>2 DEF Timer!Expected, Timer!TimerInv
  <2>3. QED
    BY <1>1, <2>1, <2>2
<1>8. ASSUME NEW i \in DOMAIN ran', ran'[i] = 0 PROVE \E y \in delay_active' : y.id = i
  <2>1. CASE i = n
    BY <1>1, <1>5, <2>1
  <2>2. CASE i # n
    <3>1. i \in 1..(n - 1)
      BY ONLY <1>2, <1>4, <1>8, <2>2
    <3>2. i \in DOMAIN ran /\ ran[i] = 0
      BY ONLY <1>2, <1>4, <1>8, <3>1
    <3>3. QED
      BY <1>1, <3>2 DEF Timer!TimerInv
  <2>3. QED
    BY <2>1, <2>2
<1>9. QED
  BY <1>1, <1>2, <1>4, <1>6, <1>7, <1>8 DEF Timer!TimerInv

\* What a scan does to one task: the tasks of one id are one task.
LEMMA OneTask ==
  ASSUME Timer!TimerInv, NEW x \in delay_active, NEW y \in delay_active, x.id = y.id
  PROVE  x = y
<1>1. /\ x \in [id : DOMAIN ran, next_time : Nat, span_time : Nat, loop : BOOLEAN]
      /\ y \in [id : DOMAIN ran, next_time : Nat, span_time : Nat, loop : BOOLEAN]
  BY DEF Timer!TimerInv
<1>2. /\ x.next_time = Timer!Expected(x.id) /\ y.next_time = Timer!Expected(y.id)
      /\ x.span_time = added[x.id].span /\ y.span_time = added[y.id].span
      /\ x.loop = added[x.id].loop /\ y.loop = added[y.id].loop
  BY DEF Timer!TimerInv
<1>3. x.next_time = y.next_time /\ x.span_time = y.span_time /\ x.loop = y.loop
  BY ONLY <1>2, x.id = y.id
<1>4. QED
  BY ONLY <1>1, <1>3, x.id = y.id

\* A scan runs the tasks that are due, and leaves those of a loop.
LEMMA Scanned ==
  ASSUME Timer!TimerInv, Timer!scan_delay_task
  PROVE  /\ Timer!TimerInv'
         /\ \A i \in DOMAIN ran : ran'[i] # ran[i] =>
              (ran[i] # 0 => added[i].loop) /\ seconds > Timer!Expected(i)
         /\ \A i \in DOMAIN ran :
              ran[i] = 0 /\ seconds > Timer!Expected(i) => ran'[i] = seconds
<1>1. /\ ran' = [i \in DOMAIN ran |->
                   IF \E x \in delay_active : x.id = i /\ Timer!Due(x) THEN seconds ELSE ran[i]]
      /\ delay_active' = UNION {Timer!After(x) : x \in delay_active}
      /\ seconds' = seconds /\ added' = added
  BY DEF Timer!scan_delay_task
<1>2. /\ seconds \in Nat \ {0} /\ added \in Seq([at : Nat, span : Nat, loop : BOOLEAN])
      /\ ran \in Seq(Nat) /\ Len(ran) = Len(added) /\ DOMAIN ran = 1..Len(ran) /\ Len(ran) \in Nat
      /\ DOMAIN added = DOMAIN ran
      /\ delay_active \subseteq [id : DOMAIN ran, next_time : Nat, span_time : Nat, loop : BOOLEAN]
  BY DEF Timer!TimerInv
<1>3. ASSUME NEW x \in delay_active
      PROVE  /\ x.id \in DOMAIN ran /\ x.next_time \in Nat /\ x.span_time \in Nat
             /\ x.next_time = Timer!Expected(x.id) /\ x.span_time = added[x.id].span
             /\ x.loop = added[x.id].loop /\ (ran[x.id] # 0 => x.loop)
             /\ Timer!Due(x) => ran'[x.id] = seconds
             /\ ~Timer!Due(x) => ran'[x.id] = ran[x.id]
  <2>1. /\ x.id \in DOMAIN ran /\ x.next_time \in Nat /\ x.span_time \in Nat
        /\ x.next_time = Timer!Expected(x.id) /\ x.span_time = added[x.id].span
        /\ x.loop = added[x.id].loop /\ (ran[x.id] # 0 => x.loop)
    BY DEF Timer!TimerInv
  <2>2. Timer!Due(x) => ran'[x.id] = seconds
    BY <1>1, <2>1
  <2>3. ~Timer!Due(x) => ran'[x.id] = ran[x.id]
    <3>1. \A y \in delay_active : y.id = x.id => y = x
      BY OneTask
    <3>2. QED
      BY <1>1, <2>1, <3>1
  <2>4. QED
    BY <2>1, <2>2, <2>3
<1>4. ran' \in Seq(Nat) /\ Len(ran') = Len(ran) /\ DOMAIN ran' = DOMAIN ran
  <2>1. \A i \in DOMAIN ran : ran[i] \in Nat
    BY <1>2
  <2>2. ran' \in [1..Len(ran) -> Nat]
    BY <1>1, <1>2, <2>1
  <2>3. PICK r, n : n \in Nat /\ r = ran' /\ n = Len(ran) /\ r \in [1..n -> Nat]
    BY <1>2, <2>2
  <2>4. r \in Seq(Nat) /\ DOMAIN r = 1..n /\ Len(r) = n
    BY ONLY <2>3
  <2>5. QED
    BY <1>2, <2>3, <2>4
<1>5. ASSUME NEW y \in delay_active'
      PROVE  \E x \in delay_active :
               \/ ~Timer!Due(x) /\ y = x
               \/ Timer!Due(x) /\ x.loop /\ y = [x EXCEPT !.next_time = seconds + x.span_time]
  <2>1. PICK x \in delay_active : y \in Timer!After(x)
    BY <1>1
  <2>2. QED
    BY <2>1 DEF Timer!After
<1>6. ASSUME NEW y \in delay_active'
      PROVE  /\ y \in [id : DOMAIN ran, next_time : Nat, span_time : Nat, loop : BOOLEAN]
             /\ y.next_time = Timer!Expected(y.id)'
             /\ y.span_time = added[y.id].span /\ y.loop = added[y.id].loop
             /\ ran'[y.id] # 0 => y.loop
  <2>1. PICK x \in delay_active :
               \/ ~Timer!Due(x) /\ y = x
               \/ Timer!Due(x) /\ x.loop /\ y = [x EXCEPT !.next_time = seconds + x.span_time]
    BY <1>5
  <2>2. x \in [id : DOMAIN ran, next_time : Nat, span_time : Nat, loop : BOOLEAN]
    BY <1>2
  <2>3. CASE ~Timer!Due(x) /\ y = x
    BY <1>1, <1>3, <2>2, <2>3 DEF Timer!Expected
  <2>4. CASE Timer!Due(x) /\ x.loop /\ y = [x EXCEPT !.next_time = seconds + x.span_time]
    <3>1. /\ y \in [id : DOMAIN ran, next_time : Nat, span_time : Nat, loop : BOOLEAN]
          /\ y.id = x.id /\ y.next_time = seconds + x.span_time /\ y.span_time = x.span_time
          /\ y.loop = x.loop
      <4>1. seconds + x.span_time \in Nat
        BY <1>2, <1>3
      <4>2. QED
        BY <2>2, <2>4, <4>1
    <3>2. Timer!Expected(y.id)' = seconds + x.span_time
      BY <1>1, <1>2, <1>3, <2>4, <3>1 DEF Timer!Expected
    <3>3. QED
      BY <1>3, <2>4, <3>1, <3>2
  <2>5. QED
    BY <2>1, <2>3, <2>4
<1>7. ASSUME NEW i \in DOMAIN ran, ran'[i] = 0 PROVE \E y \in delay_active' : y.id = i
  <2>1. ran[i] = 0
    BY <1>1, <1>2, <1>7
  <2>2. PICK x \in delay_active : x.id = i
    BY <2>1 DEF Timer!TimerInv
  <2>3. ~Timer!Due(x)
    BY <1>2, <1>3, <1>7, <2>2
  <2>4. x \in Timer!After(x)
    BY <2>3 DEF Timer!After
  <2>5. QED
    BY <1>1, <2>2, <2>4
<1>8. Timer!TimerInv'
  BY <1>1, <1>2, <1>4, <1>6, <1>7 DEF Timer!TimerInv
<1>9. ASSUME NEW i \in DOMAIN ran, ran'[i] # ran[i]
      PROVE  (ran[i] # 0 => added[i].loop) /\ seconds > Timer!Expected(i)
  <2>1. PICK x \in delay_active : x.id = i /\ Timer!Due(x)
    BY <1>1, <1>9
  <2>2. QED
    BY <1>3, <2>1 DEF Timer!Due
<1>10. ASSUME NEW i \in DOMAIN ran, ran[i] = 0, seconds > Timer!Expected(i)
       PROVE  ran'[i] = seconds
  <2>1. PICK x \in delay_active : x.id = i
    BY <1>10 DEF Timer!TimerInv
  <2>2. Timer!Due(x)
    BY <1>3, <1>10, <2>1 DEF Timer!Due
  <2>3. QED
    BY <1>3, <2>1, <2>2
<1>11. QED
  BY <1>8, <1>9, <1>10

DelayStep ==
  /\ \A i \in DOMAIN ran :
       ran'[i] # ran[i] =>
         /\ ran[i] # 0 => added[i].loop
         /\ seconds > (IF ran[i] = 0 THEN added[i].at ELSE ran[i]) + added[i].span
  /\ Timer!scan_delay_task =>
       \A i \in DOMAIN ran :
         (ran[i] = 0 /\ seconds > added[i].at + added[i].span) => ran'[i] = seconds

LEMMA TimerStep == Timer!TimerInv /\ [Timer!TimerNext]_delayed => Timer!TimerInv' /\ [DelayStep]_delayed
<1> SUFFICES ASSUME Timer!TimerInv, [Timer!TimerNext]_delayed PROVE Timer!TimerInv' /\ [DelayStep]_delayed
  OBVIOUS
<1>1. ASSUME NEW span \in Spans, NEW loop \in BOOLEAN, Timer!add_to_delay_task(span, loop)
      PROVE  Timer!TimerInv' /\ DelayStep
  <2>1. Timer!TimerInv'
    BY <1>1, FilesAssumption, DelayAdded
  <2>2. ran \in Seq(Nat) /\ ran' = Append(ran, 0) /\ Len(added') # Len(added)
    BY <1>1 DEF Timer!TimerInv, Timer!add_to_delay_task
  <2>3. \A i \in DOMAIN ran : ran'[i] = ran[i]
    BY <2>2
  <2>4. ~Timer!scan_delay_task
    BY <2>2 DEF Timer!scan_delay_task
  <2>5. QED
    BY <2>1, <2>3, <2>4 DEF DelayStep
<1>2. CASE Timer!scan_delay_task
  BY <1>2, Scanned DEF DelayStep, Timer!Expected
<1>3. CASE Timer!Tick
  <2>1. /\ UNCHANGED <<delay_active, added, ran>> /\ seconds' = seconds + 1 /\ seconds \in Nat \ {0}
    BY <1>3 DEF Timer!Tick, Timer!TimerInv
  <2>2. ~Timer!scan_delay_task
    BY <2>1 DEF Timer!scan_delay_task
  <2>3. Timer!TimerInv'
    BY <2>1 DEF Timer!TimerInv, Timer!Expected
  <2>4. QED
    BY <2>1, <2>2, <2>3 DEF DelayStep
<1>4. CASE UNCHANGED delayed
  BY <1>4 DEF delayed, Timer!TimerInv, Timer!Expected
<1>5. QED
  BY <1>1, <1>2, <1>3, <1>4 DEF Timer!TimerNext

-----------------------------------------------------------------------------
(* The parts together.                                                     *)

\* A behaviour of the whole is one of each part.
LEMMA Parts ==
  FilesSpec => /\ Spec
               /\ Result!ResultInit /\ [][Result!ResultNext]_results
               /\ Tmp!TmpInit /\ [][Tmp!TmpNext]_tmp_status
               /\ Index!IndexInit /\ [][Index!IndexNext]_indexed
               /\ Timer!TimerInit /\ [][Timer!TimerNext]_delayed
<1>1. FilesInit => Init /\ Result!ResultInit /\ Tmp!TmpInit /\ Index!IndexInit /\ Timer!TimerInit
  BY DEF FilesInit
<1>2. ASSUME [FilesNext]_<<part, rotation, results, tmp_status, indexed, delayed>>
      PROVE  /\ [Next]_vars /\ [Result!ResultNext]_results /\ [Tmp!TmpNext]_tmp_status
             /\ [Index!IndexNext]_indexed /\ [Timer!TimerNext]_delayed
  <2>1. CASE FilesNext
    <3>1. [Next]_vars
      BY <2>1 DEF FilesNext, rotation, vars
    <3>2. /\ [Result!ResultNext]_results /\ [Tmp!TmpNext]_tmp_status
          /\ [Index!IndexNext]_indexed /\ [Timer!TimerNext]_delayed
      BY <2>1 DEF FilesNext
    <3>3. QED
      BY <3>1, <3>2
  <2>2. CASE UNCHANGED <<part, rotation, results, tmp_status, indexed, delayed>>
    BY <2>2 DEF rotation, vars
  <2>3. QED
    BY <1>2, <2>1, <2>2
<1>3. QED
  BY <1>1, <1>2, PTL DEF FilesSpec, Spec

LEMMA ResultInvariant == FilesSpec => []Result!ResultInv
<1>1. ASSUME Result!ResultInv, UNCHANGED results PROVE Result!ResultInv'
  <2>1. UNCHANGED <<now, fp, last, tmpfile, gate, files, pc, line, file, lines, db, urls, ports, blame>>
    BY <1>1 DEF results
  <2>2. Result!ResultType'
    BY <1>1, <2>1 DEF Result!ResultInv, Result!ResultType
  <2>3. Result!OneAtATime'
    BY <1>1, <2>1 DEF Result!ResultInv, Result!OneAtATime, Result!Dumping
  <2>4. Result!LostOnlyInARace'
    BY <1>1, <2>1 DEF Result!ResultInv, Result!LostOnlyInARace, Result!Safe, Result!Underway
  <2>5. QED
    BY <1>1, <2>1, <2>2, <2>3, <2>4 DEF Result!ResultInv, Result!PortsNotAhead
<1>2. Result!ResultInv /\ [Result!ResultNext]_results => Result!ResultInv'
  BY <1>1, ResultStep
<1> QED
  BY <1>2, Parts, ResultStart, PTL

LEMMA TmpInvariant == FilesSpec => []Tmp!TmpInv
<1>1. Tmp!TmpInv /\ UNCHANGED tmp_status => Tmp!TmpInv'
  BY DEF tmp_status, Tmp!TmpInv, Tmp!TmpType, Tmp!Placed, Tmp!Keeps, Tmp!Positions, Tmp!Loading,
         Tmp!Source, Tmp!NoTaskLost
<1>2. Tmp!TmpInv /\ [Tmp!TmpNext]_tmp_status => Tmp!TmpInv'
  BY <1>1, TmpStep
<1> QED
  BY <1>2, Parts, TmpStart, PTL

LEMMA IndexInvariant == FilesSpec => []Index!IndexInv
<1>1. Index!IndexInv /\ UNCHANGED indexed => Index!IndexInv'
  BY DEF indexed, Index!IndexInv, Index!CountsTheCancelled, Index!get_task_count
<1>2. Index!IndexInv /\ [Index!IndexNext]_indexed => Index!IndexInv'
  BY <1>1, IndexStep
<1> QED
  BY <1>2, Parts, IndexStart, PTL

(* Type correctness of the rotation: nextlogno stays a number and le->fd   *)
(* one of the files, shiftfile and initnextlogno of lib/log.c.             *)
THEOREM RotationTypes == FilesSpec => []TypeOK
<1>1. RotationInv => TypeOK
  BY DEF RotationInv
<1> QED
  BY <1>1, OrderInvariant, Parts, PTL

(* The file in use keeps a name for as long as fewer rotations in a row    *)
(* fail than there are files, for every maxlognum.                         *)
THEOREM CurrentKept == FilesSpec => []KeepsCurrent
<1>1. RotationInv => KeepsCurrent
  BY DEF RotationInv
<1> QED
  BY <1>1, OrderInvariant, Parts, PTL

(* What a rotation or a restart throws away is the oldest of the numbered  *)
(* files, for every maxlognum, unless a restart found numbers passed over. *)
THEOREM OldestGoes == FilesSpec => DropsOldest
<1>1. OrderInv /\ [Next]_vars => [DropsOldestStep]_vars
  BY DropStep
<1> QED
  BY <1>1, OrderInvariant, Parts, PTL DEF Spec, DropsOldest, DropsOldestStep

(* Without a race in dump_return_msg and a failed open or rename, each     *)
(* line of an answer is in outdir, in the file that goes there next, or in *)
(* the hands of a thread; a closed FILE is used in a race only: for any    *)
(* number of threads, lines and minutes.                                   *)
THEOREM LinesArrive == FilesSpec => []LostOnlyInARace
<1>1. Result!ResultInv => LostOnlyInARace
  BY DEF Result!ResultInv, LostOnlyInARace
<1> QED
  BY <1>1, ResultInvariant, PTL

(* The ports a plugin's thread has are never of a later version of the     *)
(* tables than its urls, whenever they are read.                           *)
THEOREM PortsFollow == FilesSpec => []PortsNotAhead
<1>1. Result!ResultInv => PortsNotAhead
  BY DEF Result!ResultInv, PortsNotAhead
<1> QED
  BY <1>1, ResultInvariant, PTL

(* A task taken in and not finished is in the file of unfinished tasks at  *)
(* every moment, for any number of tasks, starts and stops in the middle   *)
(* of a start, until a start finds no blank record for a task.             *)
THEOREM TasksKept == FilesSpec => []NoTaskLost
<1>1. Tmp!TmpInv => NoTaskLost
  BY DEF Tmp!TmpInv, NoTaskLost
<1> QED
  BY <1>1, TmpInvariant, PTL

(* get_task_count counts each cancelled task for ever, for any number of   *)
(* tasks and queues.                                                       *)
THEOREM CancelledCounted == FilesSpec => []CountsTheCancelled
<1>1. Index!IndexInv => CountsTheCancelled
  BY DEF Index!IndexInv, CountsTheCancelled
<1> QED
  BY <1>1, IndexInvariant, PTL

(* A delay task runs when its span is over and not before, at the first    *)
(* scan after that, and only one in a loop runs again: for any number of   *)
(* tasks and spans, add_to_delay_task and scan_delay_task of vfs_timer.c.  *)
THEOREM DelaysRun == FilesSpec => RunsOnTime
  BY Parts, TimerStart, TimerStep, PTL DEF RunsOnTime, Timer!RunsOnTime, Timer!timer, delayed, DelayStep
=============================================================================
