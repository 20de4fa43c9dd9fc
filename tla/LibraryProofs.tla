---------------------------- MODULE LibraryProofs ----------------------------
(***************************************************************************)
(* The parts of MCLibraries whose operations change a state: the lists,    *)
(* for every number of items and heads; the buffers, for every             *)
(* init_buff_size and every sequence of calls; the time stamps; the        *)
(* configuration, for every file of lines read again; and the shared       *)
(* memory of the monitor, for every number of threads and of slots.  The   *)
(* first lemmas are about induction, which recursive functions need.       *)
(***************************************************************************)
EXTENDS MyBuff, TimeStamp, ConfigStore, ShmMonitor, ListHead, SequencesExt,
        FiniteSetTheorems, WellFoundedInduction, TLAPS

-----------------------------------------------------------------------------
(* Induction, without an operator as the predicate, and what it gives of   *)
(* recursive functions.                                                    *)

\* Induction with the predicate as a set: 0 is in S, and with n its successor.
LEMMA SetInduction ==
  ASSUME NEW S, 0 \in S, \A n \in Nat : n \in S => n + 1 \in S
  PROVE  \A n \in Nat : n \in S
<1> DEFINE R == OpToRel(<, Nat)
           T == {n \in Nat : n \notin S}
<1>1. IsWellFoundedOn(R, Nat)
  BY NatLessThanWellFounded
<1>2. \A m \in Nat, n \in Nat : m < n => <<m, n>> \in R
  BY DEF OpToRel
<1> HIDE DEF R
<1>3. SUFFICES ASSUME T # {} PROVE FALSE
  OBVIOUS
<1>4. PICK x \in T : \A y \in T : ~(<<y, x>> \in R)
  BY <1>1, <1>3, WFMin
<1>5. x # 0 /\ x - 1 \in Nat /\ x - 1 \notin S
  OBVIOUS
<1>6. x \in Nat /\ x - 1 \in T /\ x - 1 < x
  BY <1>4, <1>5
<1>7. <<x - 1, x>> \in R
  BY <1>2, <1>5, <1>6
<1>8. QED
  BY <1>4, <1>6, <1>7

\* What is computed step by step exists.
CanGo(X, n, s, G) ==
  \E f \in [0..n -> X] : f[0] = s /\ \A i \in 1..n : f[i] = G[<<f[i - 1], i>>]

LEMMA Steps ==
  ASSUME NEW X, NEW n \in Nat, NEW s \in X, NEW G \in [X \X (1..n) -> X]
  PROVE  CanGo(X, n, s, G)
<1> DEFINE Done(f, m) == f[0] = s /\ \A i \in 1..m : f[i] = G[<<f[i - 1], i>>]
           S == {m \in Nat : m <= n => \E f \in [0..m -> X] : Done(f, m)}
<1>1. 0 \in S
  <2>1. [i \in 0..0 |-> s] \in [0..0 -> X] /\ Done([i \in 0..0 |-> s], 0)
    OBVIOUS
  <2>2. QED
    BY <2>1
<1>2. ASSUME NEW m \in Nat, m \in S PROVE m + 1 \in S
  <2>1. SUFFICES ASSUME m + 1 <= n PROVE \E f \in [0..(m + 1) -> X] : Done(f, m + 1)
    OBVIOUS
  <2>2. PICK f \in [0..m -> X] : Done(f, m)
    BY <1>2, <2>1
  <2>3. f[m] \in X /\ m + 1 \in 1..n
    BY <2>1, <2>2
  <2>4. PICK v \in X : v = G[<<f[m], m + 1>>]
    BY <2>3
  <2> DEFINE g == [i \in 0..(m + 1) |-> IF i = m + 1 THEN v ELSE f[i]]
  <2>5. g \in [0..(m + 1) -> X]
    BY <2>2
  <2>6. g[0] = s
    BY <2>2
  <2>7. ASSUME NEW i \in 1..(m + 1) PROVE g[i] = G[<<g[i - 1], i>>]
    <3>1. g[i - 1] = f[i - 1]
      BY <2>2
    <3>2. CASE i = m + 1
      <4>1. g[i] = v /\ f[i - 1] = f[m]
        BY <3>2
      <4>2. QED
        BY <2>4, <3>1, <3>2, <4>1
    <3>3. CASE i # m + 1
      <4>1. i \in 1..m /\ g[i] = f[i]
        BY <3>3
      <4>2. QED
        BY <2>2, <3>1, <4>1
    <3>4. QED
      BY <3>2, <3>3
  <2>8. QED
    BY <2>5, <2>6, <2>7
<1> HIDE DEF S
<1>3. n \in S
  BY <1>1, <1>2, SetInduction
<1>4. QED
  BY <1>3 DEF S, CanGo

\* A nonempty set of naturals has a least one, and Min is it.
LEMMA Least ==
  ASSUME NEW L, L \subseteq Nat, L # {}
  PROVE  Min(L) \in L /\ \A i \in L : Min(L) <= i
<1> DEFINE S == {n \in Nat : \A i \in L : i <= n => \E m \in L : \A j \in L : m <= j}
<1>1. 0 \in S
  OBVIOUS
<1>2. ASSUME NEW n \in Nat, n \in S PROVE n + 1 \in S
  <2>1. SUFFICES ASSUME NEW i \in L, i <= n + 1 PROVE \E m \in L : \A j \in L : m <= j
    OBVIOUS
  <2>2. CASE \E j \in L : j <= n
    BY <1>2, <2>2
  <2>3. CASE \A j \in L : n < j
    <3>1. \A j \in L : i <= j
      BY <2>1, <2>3
    <3>2. QED
      BY <3>1
  <2>4. QED
    BY <2>2, <2>3
<1> HIDE DEF S
<1>3. \A n \in Nat : n \in S
  BY <1>1, <1>2, SetInduction
<1>4. PICK i \in L : TRUE
  OBVIOUS
<1>5. i \in Nat /\ i \in S
  BY <1>3
<1>6. \E m \in L : \A j \in L : m <= j
  BY <1>4, <1>5 DEF S
<1>7. QED
  BY <1>6 DEF Min

-----------------------------------------------------------------------------
(* The places of the rings.                                                *)

\* x is on none of the lists.
Off(L, x) == \A h \in Heads : \A i \in 0..Len(L[h]) : Sits(L, h, i) # x

\* Who sits where in a ring.
LEMMA SitsIs ==
  ASSUME ListAssumption, NEW L \in [Heads -> Seq(Items)], NEW h \in Heads
  PROVE  /\ L[h] \in Seq(Items) /\ Len(L[h]) \in Nat
         /\ Sits(L, h, 0) = h /\ Sits(L, h, Len(L[h]) + 1) = h
         /\ \A i \in 1..Len(L[h]) : Sits(L, h, i) = L[h][i] /\ Sits(L, h, i) \in Items
         /\ \A i \in 0..Len(L[h]) + 1 : Sits(L, h, i) \in ListHeads
<1>1. L[h] \in Seq(Items) /\ Len(L[h]) \in Nat /\ \A i \in 1..Len(L[h]) : L[h][i] \in Items
  OBVIOUS
<1>2. Sits(L, h, 0) = h /\ Sits(L, h, Len(L[h]) + 1) = h
  BY <1>1 DEF Sits
<1>3. QED
  BY <1>1, <1>2 DEF Sits, ListHeads

\* The rings have no place in common, counted from the one behind the head.
LEMMA ApartBehind ==
  ASSUME ListAssumption, NEW L \in [Heads -> Seq(Items)], Apart(L)
  PROVE  \A g, h \in Heads : \A i \in 1..Len(L[g]) + 1, j \in 1..Len(L[h]) + 1 :
           Sits(L, g, i) = Sits(L, h, j) => g = h /\ i = j
<1> SUFFICES ASSUME NEW g \in Heads, NEW h \in Heads,
                    NEW i \in 1..Len(L[g]) + 1, NEW j \in 1..Len(L[h]) + 1,
                    Sits(L, g, i) = Sits(L, h, j)
             PROVE  g = h /\ i = j
  OBVIOUS
<1>1. /\ Len(L[g]) \in Nat /\ Len(L[h]) \in Nat
      /\ Sits(L, g, 0) = Sits(L, g, Len(L[g]) + 1) /\ Sits(L, h, 0) = Sits(L, h, Len(L[h]) + 1)
  BY SitsIs
<1>2. PICK a \in 0..Len(L[g]), b \in 0..Len(L[h]) :
        /\ a = IF i = Len(L[g]) + 1 THEN 0 ELSE i
        /\ b = IF j = Len(L[h]) + 1 THEN 0 ELSE j
  BY <1>1
<1>3. Sits(L, g, a) = Sits(L, g, i) /\ Sits(L, h, b) = Sits(L, h, j)
  BY <1>1, <1>2
<1>4. g = h /\ a = b
  BY <1>3 DEF Apart
<1>5. QED
  BY <1>1, <1>2, <1>4

\* A place behind has a place that is not.
LEMMA BehindIs ==
  ASSUME ListAssumption, NEW L \in [Heads -> Seq(Items)], NEW h \in Heads, NEW i \in 0..Len(L[h]) + 1
  PROVE  \E j \in 0..Len(L[h]) : Sits(L, h, j) = Sits(L, h, i)
<1>1. Len(L[h]) \in Nat /\ Sits(L, h, 0) = Sits(L, h, Len(L[h]) + 1)
  BY SitsIs
<1>2. CASE i = Len(L[h]) + 1
  BY <1>1, <1>2
<1>3. CASE i # Len(L[h]) + 1
  <2>1. i \in 0..Len(L[h])
    BY <1>1, <1>3
  <2>2. QED
    BY <2>1
<1>4. QED
  BY <1>2, <1>3

-----------------------------------------------------------------------------
(* What each macro does to the pointers and to the places.                 *)

\* K is L with x behind place p of h.
Inserted(L, h, p, x, K) ==
  /\ \A g \in Heads : g # h => K[g] = L[g]
  /\ Len(K[h]) = Len(L[h]) + 1
  /\ \A i \in 1..Len(L[h]) + 1 :
       K[h][i] = IF i <= p THEN L[h][i] ELSE IF i = p + 1 THEN x ELSE L[h][i - 1]

\* __list_add behind place p.
LEMMA InsertIs ==
  ASSUME ListAssumption, NEW m, NEW L, Stands(m, L), NEW x \in Items, Off(L, x), NEW h \in Heads,
         NEW p \in 0..Len(L[h]), NEW K \in [Heads -> Seq(Items)], Inserted(L, h, p, x, K)
  PROVE  Stands(__list_add(m, x, Sits(L, h, p), Sits(L, h, p + 1)), K)
<1>1. /\ \A g \in Heads : g # h => K[g] = L[g]
      /\ Len(K[h]) = Len(L[h]) + 1
      /\ \A i \in 1..Len(L[h]) + 1 :
           K[h][i] = IF i <= p THEN L[h][i] ELSE IF i = p + 1 THEN x ELSE L[h][i - 1]
  BY DEF Inserted
<1>2. L \in [Heads -> Seq(Items)] /\ m \in Maps /\ Apart(L) /\ Rings(m, L) /\ Alone(m, L)
  BY DEF Stands
<1>3. PICK n \in Nat : n = Len(L[h])
  BY <1>2, SitsIs
<1>4. /\ p \in 0..n /\ Sits(L, h, 0) = h /\ Sits(L, h, n + 1) = h
      /\ \A i \in 1..n : Sits(L, h, i) = L[h][i]
  <2>1. Sits(L, h, 0) = h /\ Sits(L, h, Len(L[h]) + 1) = h
    BY <1>2, SitsIs
  <2>2. \A i \in 1..n : Sits(L, h, i) = L[h][i]
    BY <1>1, <1>3 DEF Sits
  <2>3. QED
    BY <1>1, <1>3, <2>1, <2>2
<1>5. ASSUME NEW i \in 0..n + 2
      PROVE  Sits(K, h, i) = IF i <= p THEN Sits(L, h, i) ELSE IF i = p + 1 THEN x ELSE Sits(L, h, i - 1)
  <2>1. CASE i = 0
    BY <1>4, <2>1 DEF Sits
  <2>2. CASE i = n + 2
    <3>1. Sits(K, h, i) = h
      BY <1>1, <1>3, <2>2 DEF Sits
    <3>2. ~(i <= p) /\ i # p + 1 /\ i - 1 = n + 1
      BY <1>4, <2>2
    <3>3. QED
      BY <1>4, <3>1, <3>2
  <2>3. CASE i \in 1..n + 1
    <3>1. Sits(K, h, i) = K[h][i] /\ K[h][i] = IF i <= p THEN L[h][i] ELSE IF i = p + 1 THEN x ELSE L[h][i - 1]
      BY <1>1, <1>3, <2>3 DEF Sits
    <3>2. i <= p => i \in 1..n
      BY <1>4, <2>3
    <3>3. ~(i <= p) /\ i # p + 1 => i - 1 \in 1..n
      BY <1>4, <2>3
    <3>4. QED
      BY <1>4, <3>1, <3>2, <3>3
  <2>4. QED
    BY <2>1, <2>2, <2>3
<1>6. \A g \in Heads : g # h => K[g] = L[g] /\ \A i : Sits(K, g, i) = Sits(L, g, i)
  BY <1>1 DEF Sits
<1>7. PICK a, b : a = Sits(L, h, p) /\ b = Sits(L, h, p + 1)
  OBVIOUS
<1>8. a \in ListHeads /\ b \in ListHeads /\ x \in ListHeads /\ a # x /\ b # x
  <2>1. p \in 0..n + 1 /\ p + 1 \in 0..n + 1
    BY <1>1, <1>3, <1>4
  <2>2. PICK j \in 0..n : Sits(L, h, j) = b
    <3>1. L \in [Heads -> Seq(Items)] /\ p + 1 \in 0..Len(L[h]) + 1
      BY <1>2, <1>3, <2>1
    <3>2. \E j \in 0..Len(L[h]) : Sits(L, h, j) = Sits(L, h, p + 1)
      BY <3>1, BehindIs
    <3>3. QED
      BY <1>3, <1>7, <3>2
  <2>3. a # x /\ b # x
    BY <1>1, <1>3, <1>7, <2>2 DEF Off
  <2>4. QED
    BY <1>2, <1>3, <1>7, <2>1, <2>3, SitsIs DEF ListHeads
<1>9. PICK N \in [ListHeads -> ListHeads], P \in [ListHeads -> ListHeads] :
        N = [m.next EXCEPT ![x] = b, ![a] = x] /\ P = [m.prev EXCEPT ![b] = x, ![x] = a]
  BY <1>2, <1>8 DEF Maps
<1>10. /\ \A y \in ListHeads : N[y] = IF y = a THEN x ELSE IF y = x THEN b ELSE m.next[y]
      /\ \A y \in ListHeads : P[y] = IF y = x THEN a ELSE IF y = b THEN x ELSE m.prev[y]
  BY <1>2, <1>8, <1>9 DEF Maps
<1>11. PICK w \in Maps : w = __list_add(m, x, a, b) /\ w.next = N /\ w.prev = P
  <2>1. __list_add(m, x, a, b) = [next |-> N, prev |-> P]
    BY <1>9 DEF __list_add
  <2>2. [next |-> N, prev |-> P] \in Maps
    BY DEF Maps
  <2>3. QED
    BY <2>1, <2>2
<1>12. ASSUME NEW g \in Heads, NEW i \in 0..Len(K[g])
       PROVE  /\ w.next[Sits(K, g, i)] = Sits(K, g, i + 1)
              /\ w.prev[Sits(K, g, i + 1)] = Sits(K, g, i)
  <2>1. ASSUME NEW f \in Heads, NEW j \in 0..Len(L[f]), ~(f = h /\ j = p)
        PROVE  /\ N[Sits(L, f, j)] = Sits(L, f, j + 1)
               /\ P[Sits(L, f, j + 1)] = Sits(L, f, j)
    <3>1. /\ j + 1 \in 0..Len(L[f]) + 1 /\ j \in 0..Len(L[f]) + 1 /\ j + 1 \in 1..Len(L[f]) + 1
          /\ p + 1 \in 1..Len(L[h]) + 1 /\ p \in Int /\ j \in Int
      BY <1>2, <1>3, SitsIs
    <3>2. Sits(L, f, j) \in ListHeads /\ Sits(L, f, j + 1) \in ListHeads
      BY <1>2, <3>1, SitsIs
    <3>3. Sits(L, f, j) # a
      BY <1>2, <1>7, <2>1 DEF Apart
    <3>4. Sits(L, f, j + 1) # b
      <4>1. SUFFICES ASSUME Sits(L, f, j + 1) = Sits(L, h, p + 1) PROVE FALSE
        BY <1>7
      <4>2. PICK c \in 1..Len(L[f]) + 1, d \in 1..Len(L[h]) + 1 : c = j + 1 /\ d = p + 1
        BY <3>1
      <4>3. Sits(L, f, c) = Sits(L, h, d)
        BY <4>1, <4>2
      <4>4. \A g1, h1 \in Heads : \A i1 \in 1..Len(L[g1]) + 1, j1 \in 1..Len(L[h1]) + 1 :
              Sits(L, g1, i1) = Sits(L, h1, j1) => g1 = h1 /\ i1 = j1
        BY <1>2, ApartBehind
      <4>5. f = h /\ c = d
        BY <4>3, <4>4
      <4>6. QED
        BY <2>1, <3>1, <4>2, <4>5
    <3>5. Sits(L, f, j) # x /\ Sits(L, f, j + 1) # x
      <4>1. PICK k \in 0..Len(L[f]) : Sits(L, f, k) = Sits(L, f, j + 1)
        BY <1>2, <3>1, BehindIs
      <4>2. QED
        BY <4>1 DEF Off
    <3>6. /\ m.next[Sits(L, f, j)] = Sits(L, f, j + 1)
          /\ m.prev[Sits(L, f, j + 1)] = Sits(L, f, j)
      BY <1>2 DEF Rings
    <3>7. QED
      BY <1>10, <3>2, <3>3, <3>4, <3>5, <3>6
  <2>2. CASE g # h
    <3>1. K[g] = L[g] /\ \A k : Sits(K, g, k) = Sits(L, g, k)
      BY <1>6, <2>2
    <3>2. i \in 0..Len(L[g]) /\ ~(g = h /\ i = p)
      BY <2>2, <3>1
    <3>3. /\ N[Sits(L, g, i)] = Sits(L, g, i + 1)
          /\ P[Sits(L, g, i + 1)] = Sits(L, g, i)
      BY <2>1, <3>2
    <3>4. QED
      BY <1>11, <3>1, <3>3
  <2>3. CASE g = h
    <3>1. i \in 0..n + 1 /\ i \in 0..n + 2 /\ i + 1 \in 0..n + 2
      BY <1>1, <1>3, <2>3
    <3>2. CASE i < p
      <4>1. i \in 0..Len(L[h]) /\ i <= p /\ i + 1 <= p /\ i # p
        BY <1>1, <1>3, <1>4, <3>1, <3>2
      <4>2. Sits(K, h, i) = Sits(L, h, i) /\ Sits(K, h, i + 1) = Sits(L, h, i + 1)
        BY <1>5, <3>1, <4>1
      <4>3. QED
        BY <1>11, <2>1, <2>3, <4>1, <4>2
    <3>3. CASE i = p
      <4>1. Sits(K, h, i) = a /\ Sits(K, h, i + 1) = x
        BY <1>4, <1>5, <1>7, <3>1, <3>3
      <4>2. QED
        BY <1>8, <1>10, <1>11, <2>3, <4>1
    <3>4. CASE i = p + 1
      <4>1. Sits(K, h, i) = x /\ Sits(K, h, i + 1) = b
        <5>1. ~(i <= p) /\ ~(i + 1 <= p) /\ i + 1 # p + 1 /\ i + 1 - 1 = p + 1
          BY <1>4, <3>4
        <5>2. QED
          BY <1>5, <1>7, <3>1, <3>4, <5>1
      <4>2. QED
        BY <1>8, <1>10, <1>11, <2>3, <4>1
    <3>5. CASE i > p + 1
      <4>1. /\ i - 1 \in 0..Len(L[h]) /\ i - 1 # p /\ (i - 1) + 1 = i
            /\ ~(i <= p) /\ i # p + 1 /\ ~(i + 1 <= p) /\ i + 1 # p + 1 /\ (i + 1) - 1 = i
        <5>1. p \in Nat /\ Len(L[h]) = n /\ i \in Int /\ i <= n + 1
          BY <1>3, <1>4, <3>1
        <5>2. QED
          BY <3>5, <5>1
      <4>2. Sits(K, h, i) = Sits(L, h, i - 1) /\ Sits(K, h, i + 1) = Sits(L, h, i)
        BY <1>5, <3>1, <4>1
      <4>3. N[Sits(L, h, i - 1)] = Sits(L, h, (i - 1) + 1) /\ P[Sits(L, h, (i - 1) + 1)] = Sits(L, h, i - 1)
        BY <2>1, <4>1
      <4>4. QED
        BY <1>11, <2>3, <4>1, <4>2, <4>3
    <3>6. QED
      BY <1>4, <3>1, <3>2, <3>3, <3>4, <3>5
  <2>4. QED
    BY <2>2, <2>3
\* Every place of K is one of L, or that of x.
<1> DEFINE old(g, i) == IF g = h /\ i > p THEN i - 1 ELSE i
<1>13. ASSUME NEW g \in Heads, NEW i \in 0..Len(K[g])
       PROVE  \/ g = h /\ i = p + 1 /\ Sits(K, g, i) = x
              \/ /\ ~(g = h /\ i = p + 1)
                 /\ old(g, i) \in 0..Len(L[g]) /\ Sits(K, g, i) = Sits(L, g, old(g, i)) /\ Sits(K, g, i) # x
  <2>1. CASE g # h
    BY <1>6, <2>1 DEF Off
  <2>2. CASE g = h
    <3>1. i \in 0..n + 1 /\ i \in 0..n + 2
      BY <1>1, <1>3, <2>2
    <3>2. CASE i = p + 1
      BY <1>4, <1>5, <2>2, <3>1, <3>2
    <3>3. CASE i # p + 1
      <4>1. old(g, i) \in 0..Len(L[g])
        BY <1>1, <1>3, <1>4, <2>2, <3>1, <3>3
      <4>2. Sits(K, g, i) = Sits(L, g, old(g, i))
        BY <1>4, <1>5, <2>2, <3>1, <3>3
      <4>3. QED
        BY <3>3, <4>1, <4>2 DEF Off
    <3>4. QED
      BY <3>2, <3>3
  <2>3. QED
    BY <2>1, <2>2
<1>14. Apart(K)
  <2>1. SUFFICES ASSUME NEW g \in Heads, NEW f \in Heads, NEW i \in 0..Len(K[g]), NEW j \in 0..Len(K[f]),
                        Sits(K, g, i) = Sits(K, f, j)
                 PROVE  g = f /\ i = j
    BY DEF Apart
  <2>2. CASE g = h /\ i = p + 1
    BY <1>13, <2>1, <2>2
  <2>3. CASE ~(g = h /\ i = p + 1)
    <3>1. ~(f = h /\ j = p + 1)
      BY <1>13, <2>1, <2>3
    <3>2. /\ old(g, i) \in 0..Len(L[g]) /\ old(f, j) \in 0..Len(L[f])
          /\ Sits(L, g, old(g, i)) = Sits(L, f, old(f, j))
      BY <1>13, <2>1, <2>3, <3>1
    <3>3. g = f /\ old(g, i) = old(f, j)
      BY <1>2, <3>2 DEF Apart
    <3>4. QED
      BY <1>4, <2>3, <3>1, <3>3
  <2>4. QED
    BY <2>2, <2>3
<1>15. Alone(w, K)
  <2>1. SUFFICES ASSUME NEW y \in Items, Off(K, y) PROVE w.next[y] = y /\ w.prev[y] = y
    BY DEF Alone, Off
  <2>2. y # x
    <3>1. p + 1 \in 0..Len(K[h]) /\ p + 1 \in 0..n + 2 /\ ~(p + 1 <= p)
      BY <1>1, <1>3, <1>4
    <3>2. Sits(K, h, p + 1) = x
      BY <1>5, <3>1
    <3>3. QED
      BY <2>1, <3>1, <3>2 DEF Off
  <2>3. ASSUME NEW g \in Heads, NEW i \in 0..Len(L[g]) PROVE Sits(L, g, i) # y
    <3>1. CASE g # h
      BY <1>6, <2>1, <3>1 DEF Off
    <3>2. CASE g = h
      <4>1. i \in 0..n /\ Len(K[h]) = n + 1 /\ p \in Nat
        BY <1>1, <1>3, <1>4, <3>2
      <4>2. PICK j \in 0..Len(K[h]) : j \in 0..n + 2 /\ j = IF i <= p THEN i ELSE i + 1
        BY <4>1
      <4>3. Sits(K, h, j) = Sits(L, h, i)
        BY <1>1, <1>3, <1>4, <1>5, <3>2, <4>2
      <4>4. QED
        BY <2>1, <3>2, <4>2, <4>3 DEF Off
    <3>3. QED
      BY <3>1, <3>2
  <2>4. m.next[y] = y /\ m.prev[y] = y
    BY <1>2, <2>3 DEF Alone
  <2>5. y # a /\ y # b
    <3>1. p + 1 \in 0..Len(L[h]) + 1
      BY <1>1, <1>3, <1>4
    <3>2. PICK j \in 0..Len(L[h]) : Sits(L, h, j) = b
      <4>1. L \in [Heads -> Seq(Items)]
        BY <1>2
      <4>2. \E j \in 0..Len(L[h]) : Sits(L, h, j) = Sits(L, h, p + 1)
        BY <3>1, <4>1, BehindIs
      <4>3. QED
        BY <1>7, <4>2
    <3>3. QED
      BY <1>7, <2>3, <3>2
  <2>6. QED
    BY <1>10, <1>11, <2>2, <2>4, <2>5 DEF ListHeads
<1>16. Stands(w, K)
  BY <1>11, <1>12, <1>14, <1>15 DEF Stands, Rings
<1>17. QED
  BY <1>7, <1>11, <1>16

\* list_del_init of the item at place p.
LEMMA TakeOffIs ==
  ASSUME ListAssumption, NEW m, NEW L, Stands(m, L), NEW h \in Heads,
         NEW p \in 1..Len(L[h]), NEW x, x = L[h][p], NEW K \in [Heads -> Seq(Items)],
         \A g \in Heads : g # h => K[g] = L[g],
         Len(K[h]) = Len(L[h]) - 1,
         \A i \in 1..Len(L[h]) - 1 : K[h][i] = IF i < p THEN L[h][i] ELSE L[h][i + 1]
  PROVE  Stands(list_del_init(m, x), K) /\ Off(K, x)
<1>1. L \in [Heads -> Seq(Items)] /\ m \in Maps /\ Apart(L) /\ Rings(m, L) /\ Alone(m, L)
  BY DEF Stands
<1>2. PICK n \in Nat : n = Len(L[h])
  BY <1>1, SitsIs
<1>3. /\ p \in 1..n /\ Sits(L, h, 0) = h /\ Sits(L, h, n + 1) = h
      /\ \A i \in 1..n : Sits(L, h, i) = L[h][i]
  <2>1. Sits(L, h, 0) = h /\ Sits(L, h, Len(L[h]) + 1) = h
    BY <1>1, SitsIs
  <2>2. \A i \in 1..n : Sits(L, h, i) = L[h][i]
    BY <1>2 DEF Sits
  <2>3. QED
    BY <1>2, <2>1, <2>2
<1>4. ASSUME NEW i \in 0..n
      PROVE  Sits(K, h, i) = Sits(L, h, IF i < p THEN i ELSE i + 1)
  <2>1. CASE i = 0
    BY <1>3, <2>1 DEF Sits
  <2>2. CASE i = n
    <3>1. Sits(K, h, i) = h
      BY <1>2, <2>2 DEF Sits
    <3>2. ~(i < p)
      BY <1>3, <2>2
    <3>3. QED
      BY <1>3, <2>2, <3>1, <3>2
  <2>3. CASE i \in 1..n - 1
    <3>1. Sits(K, h, i) = IF i < p THEN L[h][i] ELSE L[h][i + 1]
      BY <1>2, <2>3 DEF Sits
    <3>2. i \in 1..n /\ i + 1 \in 1..n
      BY <2>3
    <3>3. QED
      BY <1>3, <3>1, <3>2
  <2>4. QED
    BY <2>1, <2>2, <2>3
<1>5. \A g \in Heads : g # h => K[g] = L[g] /\ \A i : Sits(K, g, i) = Sits(L, g, i)
  BY DEF Sits
<1>6. PICK a, b : a = Sits(L, h, p - 1) /\ b = Sits(L, h, p + 1)
  OBVIOUS
<1>7. x \in Items /\ x = Sits(L, h, p) /\ m.next[x] = b /\ m.prev[x] = a
  <2>1. x \in Items /\ x = Sits(L, h, p)
    <3>1. L[h] \in Seq(Items)
      BY <1>1
    <3>2. QED
      BY <1>2, <1>3, <3>1
  <2>2. p \in 0..Len(L[h]) /\ p - 1 \in 0..Len(L[h]) /\ (p - 1) + 1 = p
    BY <1>2, <1>3
  <2>3. /\ m.next[Sits(L, h, p)] = Sits(L, h, p + 1)
        /\ m.prev[Sits(L, h, (p - 1) + 1)] = Sits(L, h, p - 1)
    BY <1>1, <2>2 DEF Rings
  <2>4. QED
    BY <1>6, <2>1, <2>2, <2>3
<1>8. a \in ListHeads /\ b \in ListHeads /\ x \in ListHeads /\ a # x /\ b # x
  <2>1. p - 1 \in 0..Len(L[h]) + 1 /\ p + 1 \in 0..Len(L[h]) + 1 /\ p - 1 \in 0..Len(L[h])
        /\ p \in 0..Len(L[h]) /\ p + 1 \in 1..Len(L[h]) + 1 /\ p \in 1..Len(L[h]) + 1
    BY <1>2, <1>3
  <2>2. a # x
    BY <1>1, <1>3, <1>6, <1>7, <2>1 DEF Apart
  <2>3. b # x
    <3>1. \A g, f \in Heads : \A i \in 1..Len(L[g]) + 1, j \in 1..Len(L[f]) + 1 :
           Sits(L, g, i) = Sits(L, f, j) => g = f /\ i = j
      BY <1>1, ApartBehind
    <3>2. QED
      BY <1>3, <1>6, <1>7, <2>1, <3>1
  <2>4. QED
    BY <1>1, <1>6, <1>7, <2>1, <2>2, <2>3, SitsIs DEF ListHeads
<1>9. PICK N \in [ListHeads -> ListHeads], P \in [ListHeads -> ListHeads] :
        N = [[m.next EXCEPT ![a] = b] EXCEPT ![x] = x] /\ P = [[m.prev EXCEPT ![b] = a] EXCEPT ![x] = x]
  BY <1>1, <1>8 DEF Maps
<1>10. /\ \A y \in ListHeads : N[y] = IF y = x THEN x ELSE IF y = a THEN b ELSE m.next[y]
       /\ \A y \in ListHeads : P[y] = IF y = x THEN x ELSE IF y = b THEN a ELSE m.prev[y]
  BY <1>1, <1>8, <1>9 DEF Maps
<1>11. PICK w \in Maps : w = list_del_init(m, x) /\ w.next = N /\ w.prev = P
  <2>1. list_del_init(m, x) = [next |-> N, prev |-> P]
    BY <1>7, <1>9 DEF list_del_init, INIT_LIST_HEAD, __list_del
  <2>2. [next |-> N, prev |-> P] \in Maps
    BY DEF Maps
  <2>3. QED
    BY <2>1, <2>2
<1>12. ASSUME NEW f \in Heads, NEW j \in 0..Len(L[f]), ~(f = h /\ j = p), ~(f = h /\ j = p - 1)
       PROVE  /\ N[Sits(L, f, j)] = Sits(L, f, j + 1)
              /\ P[Sits(L, f, j + 1)] = Sits(L, f, j)
  <2>1. /\ j + 1 \in 0..Len(L[f]) + 1 /\ j \in 0..Len(L[f]) + 1 /\ j + 1 \in 1..Len(L[f]) + 1
        /\ p + 1 \in 1..Len(L[h]) + 1 /\ p \in 1..Len(L[h]) + 1 /\ p \in Int /\ j \in Int
        /\ p \in 0..Len(L[h]) /\ p - 1 \in 0..Len(L[h])
    BY <1>1, <1>2, <1>3, SitsIs
  <2>2. Sits(L, f, j) \in ListHeads /\ Sits(L, f, j + 1) \in ListHeads
    BY <1>1, <2>1, SitsIs
  <2>3. Sits(L, f, j) # a /\ Sits(L, f, j) # x
    BY <1>1, <1>6, <1>7, <1>12, <2>1 DEF Apart
  <2>4. Sits(L, f, j + 1) # b /\ Sits(L, f, j + 1) # x
    <3>1. \A g, k \in Heads : \A i \in 1..Len(L[g]) + 1, o \in 1..Len(L[k]) + 1 :
           Sits(L, g, i) = Sits(L, k, o) => g = k /\ i = o
      BY <1>1, ApartBehind
    <3>2. ~(f = h /\ j + 1 = p + 1) /\ ~(f = h /\ j + 1 = p)
      BY <1>12, <2>1
    <3>3. QED
      BY <1>6, <1>7, <2>1, <3>1, <3>2
  <2>5. /\ m.next[Sits(L, f, j)] = Sits(L, f, j + 1)
        /\ m.prev[Sits(L, f, j + 1)] = Sits(L, f, j)
    BY <1>1 DEF Rings
  <2>6. QED
    BY <1>10, <2>2, <2>3, <2>4, <2>5
<1>13. ASSUME NEW g \in Heads, NEW i \in 0..Len(K[g])
       PROVE  /\ w.next[Sits(K, g, i)] = Sits(K, g, i + 1)
              /\ w.prev[Sits(K, g, i + 1)] = Sits(K, g, i)
  <2>1. CASE g # h
    <3>1. K[g] = L[g] /\ \A j : Sits(K, g, j) = Sits(L, g, j)
      BY <1>5, <2>1
    <3>2. i \in 0..Len(L[g]) /\ ~(g = h /\ i = p) /\ ~(g = h /\ i = p - 1)
      BY <2>1, <3>1
    <3>3. /\ N[Sits(L, g, i)] = Sits(L, g, i + 1)
          /\ P[Sits(L, g, i + 1)] = Sits(L, g, i)
      BY <1>12, <3>2
    <3>4. QED
      BY <1>11, <3>1, <3>3
  <2>2. CASE g = h
    <3>1. i \in 0..n - 1 /\ i \in 0..n /\ i + 1 \in 0..n
      BY <1>2, <2>2
    <3>2. CASE i < p - 1
      <4>1. i \in 0..Len(L[h]) /\ i < p /\ i + 1 < p /\ i # p /\ i # p - 1
        BY <1>2, <1>3, <3>1, <3>2
      <4>2. Sits(K, h, i) = Sits(L, h, i) /\ Sits(K, h, i + 1) = Sits(L, h, i + 1)
        BY <1>4, <3>1, <4>1
      <4>3. QED
        BY <1>11, <1>12, <2>2, <4>1, <4>2
    <3>3. CASE i = p - 1
      <4>1. i < p /\ ~(i + 1 < p) /\ (i + 1) + 1 = p + 1
        BY <1>3, <3>3
      <4>2. Sits(K, h, i) = a /\ Sits(K, h, i + 1) = b
        BY <1>4, <1>6, <3>1, <3>3, <4>1
      <4>3. QED
        BY <1>8, <1>10, <1>11, <2>2, <4>2
    <3>4. CASE i > p - 1
      <4>1. i + 1 \in 0..Len(L[h]) /\ ~(i < p) /\ ~(i + 1 < p) /\ i + 1 # p /\ i + 1 # p - 1
        BY <1>2, <1>3, <3>1, <3>4
      <4>2. Sits(K, h, i) = Sits(L, h, i + 1) /\ Sits(K, h, i + 1) = Sits(L, h, (i + 1) + 1)
        BY <1>4, <3>1, <4>1
      <4>3. N[Sits(L, h, i + 1)] = Sits(L, h, (i + 1) + 1) /\ P[Sits(L, h, (i + 1) + 1)] = Sits(L, h, i + 1)
        BY <1>12, <4>1
      <4>4. QED
        BY <1>11, <2>2, <4>2, <4>3
    <3>5. QED
      BY <1>3, <3>1, <3>2, <3>3, <3>4
  <2>3. QED
    BY <2>1, <2>2
<1> DEFINE old(g, i) == IF g = h /\ i >= p THEN i + 1 ELSE i
<1>14. ASSUME NEW g \in Heads, NEW i \in 0..Len(K[g])
       PROVE  old(g, i) \in 0..Len(L[g]) /\ Sits(K, g, i) = Sits(L, g, old(g, i)) /\ ~(g = h /\ old(g, i) = p)
  <2>1. CASE g # h
    BY <1>5, <2>1
  <2>2. CASE g = h
    <3>1. i \in 0..n - 1 /\ i \in 0..n
      BY <1>2, <2>2
    <3>2. QED
      BY <1>2, <1>3, <1>4, <2>2, <3>1
  <2>3. QED
    BY <2>1, <2>2
<1>15. Apart(K)
  <2>1. SUFFICES ASSUME NEW g \in Heads, NEW f \in Heads, NEW i \in 0..Len(K[g]), NEW j \in 0..Len(K[f]),
                        Sits(K, g, i) = Sits(K, f, j)
                 PROVE  g = f /\ i = j
    BY DEF Apart
  <2>2. /\ old(g, i) \in 0..Len(L[g]) /\ old(f, j) \in 0..Len(L[f])
        /\ Sits(L, g, old(g, i)) = Sits(L, f, old(f, j))
    BY <1>14, <2>1
  <2>3. g = f /\ old(g, i) = old(f, j)
    BY <1>1, <2>2 DEF Apart
  <2>4. QED
    BY <1>3, <2>3
<1>16. Off(K, x)
  <2>1. SUFFICES ASSUME NEW g \in Heads, NEW i \in 0..Len(K[g]) PROVE Sits(K, g, i) # x
    BY DEF Off
  <2>2. old(g, i) \in 0..Len(L[g]) /\ Sits(K, g, i) = Sits(L, g, old(g, i)) /\ ~(g = h /\ old(g, i) = p)
    BY <1>14
  <2>3. p \in 0..Len(L[h])
    BY <1>2, <1>3
  <2>4. QED
    BY <1>1, <1>7, <2>2, <2>3 DEF Apart
<1>17. Alone(w, K)
  <2>1. SUFFICES ASSUME NEW y \in Items, Off(K, y), y # x PROVE w.next[y] = y /\ w.prev[y] = y
    BY <1>8, <1>10, <1>11 DEF Alone, Off
  <2>2. ASSUME NEW g \in Heads, NEW i \in 0..Len(L[g]) PROVE Sits(L, g, i) # y
    <3>1. CASE g # h
      BY <1>5, <2>1, <3>1 DEF Off
    <3>2. CASE g = h /\ i = p
      BY <1>7, <2>1, <3>2
    <3>3. CASE g = h /\ i # p
      <4>1. PICK j \in 0..n - 1 : j = IF i < p THEN i ELSE i - 1
        BY <1>2, <1>3, <3>3
      <4>2. j \in 0..n /\ j \in 0..Len(K[h]) /\ i = IF j < p THEN j ELSE j + 1
        BY <1>2, <1>3, <3>3, <4>1
      <4>3. Sits(K, h, j) = Sits(L, h, i)
        BY <1>4, <4>2
      <4>4. QED
        BY <2>1, <3>3, <4>2, <4>3 DEF Off
    <3>4. QED
      BY <3>1, <3>2, <3>3
  <2>3. m.next[y] = y /\ m.prev[y] = y
    BY <1>1, <2>2 DEF Alone
  <2>4. y # a /\ y # b
    <3>1. p + 1 \in 0..Len(L[h]) + 1 /\ p - 1 \in 0..Len(L[h])
      BY <1>2, <1>3
    <3>2. PICK c \in 0..Len(L[h]) + 1 : c = p + 1
      BY <3>1
    <3>3. PICK j \in 0..Len(L[h]) : Sits(L, h, j) = Sits(L, h, c)
      BY <1>1, BehindIs
    <3>4. QED
      BY <1>6, <2>2, <3>1, <3>2, <3>3
  <2>5. QED
    BY <1>10, <1>11, <2>1, <2>3, <2>4 DEF ListHeads
<1>18. Stands(w, K)
  BY <1>11, <1>13, <1>15, <1>17 DEF Stands, Rings
<1>19. QED
  BY <1>11, <1>16, <1>18

\* list_del_init of an item on no list.
LEMMA OffStays ==
  ASSUME ListAssumption, NEW m, NEW L, Stands(m, L), NEW x \in Items, Off(L, x)
  PROVE  list_del_init(m, x) = m
<1>1. m \in Maps /\ m.next[x] = x /\ m.prev[x] = x
  BY DEF Stands, Alone, Off
<1>2. PICK N \in [ListHeads -> ListHeads], P \in [ListHeads -> ListHeads] : m = [next |-> N, prev |-> P]
  BY <1>1 DEF Maps
<1>3. N[x] = x /\ P[x] = x /\ x \in ListHeads
  BY <1>1, <1>2 DEF ListHeads
<1>4. [N EXCEPT ![x] = x] = N /\ [P EXCEPT ![x] = x] = P
  BY <1>3
<1>5. QED
  BY <1>2, <1>3, <1>4 DEF list_del_init, INIT_LIST_HEAD, __list_del

\* list_splice_init: the items of f go in front of those of h.
Joined(L, f, h, K) ==
  /\ f # h /\ Len(L[f]) # 0
  /\ Len(K[f]) = 0
  /\ \A g \in Heads : g # f /\ g # h => K[g] = L[g]
  /\ Len(K[h]) = Len(L[f]) + Len(L[h])
  /\ \A i \in 1..Len(L[f]) : K[h][i] = L[f][i]
  /\ \A i \in 1..Len(L[h]) : K[h][Len(L[f]) + i] = L[h][i]

LEMMA SpliceIs ==
  ASSUME ListAssumption, NEW m, NEW L, Stands(m, L), NEW f \in Heads, NEW h \in Heads,
         NEW K \in [Heads -> Seq(Items)], Joined(L, f, h, K)
  PROVE  Stands(list_splice_init(m, f, h), K)
<1>1. L \in [Heads -> Seq(Items)] /\ m \in Maps /\ Apart(L) /\ Rings(m, L) /\ Alone(m, L)
  BY DEF Stands
<1>2. PICK n \in Nat : n = Len(L[f]) /\ n # 0
  BY <1>1, SitsIs DEF Joined
<1>3. PICK k \in Nat : k = Len(L[h])
  BY <1>1, SitsIs
<1>4. /\ Len(K[h]) = n + k /\ f # h
      /\ \A i \in 1..n : K[h][i] = L[f][i]
      /\ \A i \in 1..k : K[h][n + i] = L[h][i]
      /\ Len(K[f]) = 0
      /\ \A g \in Heads : g # f /\ g # h => K[g] = L[g]
  BY <1>2, <1>3 DEF Joined
<1>5. /\ Sits(L, h, 0) = h /\ Sits(L, h, k + 1) = h
      /\ Sits(L, f, 0) = f /\ Sits(L, f, n + 1) = f
      /\ \A i \in 1..n : Sits(L, f, i) = L[f][i] /\ Sits(L, f, i) \in Items
      /\ \A i \in 1..k : Sits(L, h, i) = L[h][i]
  <2>1. Sits(L, h, 0) = h /\ Sits(L, h, Len(L[h]) + 1) = h
    BY <1>1, SitsIs
  <2>2. Sits(L, f, 0) = f /\ Sits(L, f, Len(L[f]) + 1) = f
    BY <1>1, SitsIs
  <2>3. \A i \in 1..k : Sits(L, h, i) = L[h][i]
    BY <1>2, <1>3 DEF Sits
  <2>4. L[f] \in Seq(Items)
    BY <1>1
  <2>5. \A i \in 1..n : Sits(L, f, i) = L[f][i] /\ Sits(L, f, i) \in Items
    BY <1>2, <1>3, <2>4 DEF Sits
  <2>6. QED
    BY <1>2, <1>3, <2>1, <2>2, <2>3, <2>5
<1>6. ASSUME NEW i \in 0..n + k + 1
      PROVE  Sits(K, h, i) = IF i = 0 THEN h ELSE IF i <= n THEN Sits(L, f, i) ELSE Sits(L, h, i - n)
  <2>1. CASE i = 0
    BY <1>4, <2>1 DEF Sits
  <2>2. CASE i \in 1..n
    <3>1. Sits(K, h, i) = K[h][i]
      BY <1>4, <2>2 DEF Sits
    <3>2. QED
      BY <1>4, <1>5, <2>2, <3>1
  <2>3. CASE i \in n + 1..n + k
    <3>1. Sits(K, h, i) = K[h][i] /\ i - n \in 1..k /\ i # 0 /\ ~(i <= n)
      BY <1>4, <2>3 DEF Sits
    <3>2. PICK j \in 1..k : j = i - n /\ i = n + j
      BY <3>1
    <3>3. K[h][i] = L[h][j]
      BY <1>4, <3>2
    <3>4. QED
      BY <1>5, <3>1, <3>2, <3>3
  <2>4. CASE i = n + k + 1
    <3>1. Sits(K, h, i) = h /\ i - n = k + 1 /\ i # 0 /\ ~(i <= n)
      BY <1>4, <2>4 DEF Sits
    <3>2. QED
      BY <1>5, <3>1
  <2>5. QED
    BY <2>1, <2>2, <2>3, <2>4
<1>7. /\ \A g \in Heads : g # f /\ g # h => K[g] = L[g] /\ \A i : Sits(K, g, i) = Sits(L, g, i)
      /\ \A i : Sits(K, f, i) = f
  BY <1>4 DEF Sits
<1>8. PICK b, c, d : b = Sits(L, h, 1) /\ c = Sits(L, f, 1) /\ d = Sits(L, f, n)
  OBVIOUS
<1>9. m.next[f] = c /\ m.prev[f] = d /\ m.next[h] = b
  <2>1. 0 \in 0..Len(L[f]) /\ n \in 0..Len(L[f]) /\ 0 \in 0..Len(L[h]) /\ 0 + 1 = 1
    BY <1>2, <1>3
  <2>2. /\ m.next[Sits(L, f, 0)] = Sits(L, f, 0 + 1)
        /\ m.prev[Sits(L, f, n + 1)] = Sits(L, f, n)
        /\ m.next[Sits(L, h, 0)] = Sits(L, h, 0 + 1)
    BY <1>1, <2>1 DEF Rings
  <2>3. QED
    BY <1>5, <1>8, <2>1, <2>2
<1>10. \A g, e \in Heads : \A i \in 1..Len(L[g]) + 1, j \in 1..Len(L[e]) + 1 :
        Sits(L, g, i) = Sits(L, e, j) => g = e /\ i = j
  BY <1>1, ApartBehind
<1>11. /\ 1 \in 1..Len(L[h]) + 1 /\ 1 \in 1..Len(L[f]) + 1 /\ n + 1 \in 1..Len(L[f]) + 1 /\ n \in 1..Len(L[f]) + 1
       /\ k + 1 \in 1..Len(L[h]) + 1
       /\ 1 \in 0..Len(L[h]) + 1 /\ n \in 1..n /\ 1 \in 1..n /\ n \in 0..Len(L[f]) /\ 0 \in 0..Len(L[f]) /\ 0 \in 0..Len(L[h])
  BY <1>2, <1>3
<1>12. /\ b \in ListHeads /\ c \in ListHeads /\ d \in ListHeads /\ f \in ListHeads /\ h \in ListHeads
       /\ h # d /\ f # d /\ c # b /\ c # f /\ b # f /\ c \in Items /\ d \in Items
  <2>1. b \in ListHeads
    BY <1>1, <1>8, <1>11, SitsIs
  <2>2. c \in Items /\ d \in Items
    BY <1>5, <1>8, <1>11
  <2>3. h # d /\ f # d /\ c # f
    BY <2>2, ListAssumption
  <2>4. c # b
    BY <1>4, <1>8, <1>10, <1>11
  <2>5. b # f
    BY <1>4, <1>5, <1>8, <1>10, <1>11
  <2>6. QED
    BY <2>1, <2>2, <2>3, <2>4, <2>5 DEF ListHeads
<1>13. PICK N \in [ListHeads -> ListHeads], P \in [ListHeads -> ListHeads] :
        /\ N = [[m.next EXCEPT ![h] = c, ![d] = b] EXCEPT ![f] = f]
        /\ P = [[m.prev EXCEPT ![c] = h, ![b] = d] EXCEPT ![f] = f]
  BY <1>1, <1>12 DEF Maps
<1>14. /\ \A y \in ListHeads : N[y] = IF y = f THEN f ELSE IF y = d THEN b ELSE IF y = h THEN c ELSE m.next[y]
       /\ \A y \in ListHeads : P[y] = IF y = f THEN f ELSE IF y = b THEN d ELSE IF y = c THEN h ELSE m.prev[y]
  BY <1>1, <1>12, <1>13 DEF Maps
<1>15. PICK w \in Maps : w = list_splice_init(m, f, h) /\ w.next = N /\ w.prev = P
  <2>1. ~list_empty(m, f)
    BY <1>9, <1>12 DEF list_empty
  <2>2. list_splice_init(m, f, h) = [next |-> N, prev |-> P]
    BY <1>9, <1>13, <2>1 DEF list_splice_init, INIT_LIST_HEAD, __list_splice
  <2>3. [next |-> N, prev |-> P] \in Maps
    BY DEF Maps
  <2>4. QED
    BY <2>2, <2>3
<1>16. ASSUME NEW g \in Heads, NEW j \in 0..Len(L[g]),
              ~(g = h /\ j = 0), ~(g = f /\ j = 0), ~(g = f /\ j = n)
       PROVE  /\ N[Sits(L, g, j)] = Sits(L, g, j + 1)
              /\ P[Sits(L, g, j + 1)] = Sits(L, g, j)
  <2>1. /\ j + 1 \in 0..Len(L[g]) + 1 /\ j \in 0..Len(L[g]) + 1 /\ j + 1 \in 1..Len(L[g]) + 1 /\ j \in Int
    BY <1>1, SitsIs
  <2>2. Sits(L, g, j) \in ListHeads /\ Sits(L, g, j + 1) \in ListHeads
    BY <1>1, <2>1, SitsIs
  <2>3. Sits(L, g, j) # h /\ Sits(L, g, j) # f /\ Sits(L, g, j) # d
    BY <1>1, <1>5, <1>8, <1>11, <1>16 DEF Apart
  <2>4. Sits(L, g, j + 1) # b /\ Sits(L, g, j + 1) # c /\ Sits(L, g, j + 1) # f
    <3>1. ~(g = h /\ j + 1 = 1) /\ ~(g = f /\ j + 1 = 1) /\ ~(g = f /\ j + 1 = n + 1)
      BY <1>16, <2>1
    <3>2. PICK o \in 1..Len(L[g]) + 1 :
            o = j + 1 /\ ~(g = h /\ o = 1) /\ ~(g = f /\ o = 1) /\ ~(g = f /\ o = n + 1)
      BY <2>1, <3>1
    <3>3. Sits(L, g, o) # Sits(L, h, 1)
      BY <1>10, <1>11, <3>2
    <3>4. Sits(L, g, o) # Sits(L, f, 1)
      BY <1>10, <1>11, <3>2
    <3>5. Sits(L, g, o) # Sits(L, f, n + 1)
      BY <1>10, <1>11, <3>2
    <3>6. QED
      BY <1>5, <1>8, <3>2, <3>3, <3>4, <3>5
  <2>5. /\ m.next[Sits(L, g, j)] = Sits(L, g, j + 1)
        /\ m.prev[Sits(L, g, j + 1)] = Sits(L, g, j)
    BY <1>1 DEF Rings
  <2>6. QED
    BY <1>14, <2>2, <2>3, <2>4, <2>5
<1>17. ASSUME NEW g \in Heads, NEW i \in 0..Len(K[g])
       PROVE  /\ w.next[Sits(K, g, i)] = Sits(K, g, i + 1)
              /\ w.prev[Sits(K, g, i + 1)] = Sits(K, g, i)
  <2>1. CASE g # h /\ g # f
    BY <1>7, <1>15, <1>16, <2>1
  <2>2. CASE g = f
    BY <1>7, <1>12, <1>14, <1>15, <2>2
  <2>3. CASE g = h
    <3>1. i \in 0..n + k /\ i \in 0..n + k + 1 /\ i + 1 \in 0..n + k + 1 /\ i + 1 # 0
      BY <1>4, <2>3
    <3>2. CASE i = 0
      <4>1. Sits(K, h, i) = h /\ Sits(K, h, i + 1) = c
        <5>1. i + 1 = 1 /\ i + 1 <= n /\ i + 1 # 0
          BY <1>2, <3>2
        <5>2. QED
          BY <1>6, <1>8, <3>1, <3>2, <5>1
      <4>2. QED
        BY <1>4, <1>12, <1>14, <1>15, <2>3, <4>1
    <3>3. CASE i \in 1..n - 1
      <4>1. i \in 0..Len(L[f]) /\ i # 0 /\ i # n /\ i <= n /\ i + 1 <= n
        BY <1>2, <1>3, <3>3
      <4>2. Sits(K, h, i) = Sits(L, f, i) /\ Sits(K, h, i + 1) = Sits(L, f, i + 1)
        BY <1>6, <3>1, <4>1
      <4>3. N[Sits(L, f, i)] = Sits(L, f, i + 1) /\ P[Sits(L, f, i + 1)] = Sits(L, f, i)
        BY <1>16, <4>1
      <4>4. QED
        BY <1>15, <2>3, <4>2, <4>3
    <3>4. CASE i = n
      <4>1. ~(i + 1 <= n) /\ (i + 1) - n = 1 /\ i # 0 /\ i <= n
        BY <1>2, <3>4
      <4>2. Sits(K, h, i) = d /\ Sits(K, h, i + 1) = b
        BY <1>6, <1>8, <3>1, <3>4, <4>1
      <4>3. QED
        BY <1>12, <1>14, <1>15, <2>3, <4>2
    <3>5. CASE i > n
      <4>1. i - n \in 0..Len(L[h]) /\ i - n # 0 /\ i # 0 /\ ~(i <= n) /\ ~(i + 1 <= n) /\ (i + 1) - n = (i - n) + 1
        <5>1. i \in 0..n + k /\ i > n /\ k = Len(L[h])
          BY <1>3, <3>1, <3>5
        <5>2. PICK q \in Nat : q = i
          BY <5>1
        <5>3. QED
          BY <5>1, <5>2
      <4>2. Sits(K, h, i) = Sits(L, h, i - n) /\ Sits(K, h, i + 1) = Sits(L, h, (i - n) + 1)
        BY <1>6, <3>1, <4>1
      <4>3. N[Sits(L, h, i - n)] = Sits(L, h, (i - n) + 1) /\ P[Sits(L, h, (i - n) + 1)] = Sits(L, h, i - n)
        BY <1>4, <1>16, <4>1
      <4>4. QED
        BY <1>15, <2>3, <4>2, <4>3
    <3>6. QED
      BY <3>1, <3>2, <3>3, <3>4, <3>5
  <2>4. QED
    BY <2>1, <2>2, <2>3
<1> DEFINE from(g, i) == IF g = h /\ i \in 1..n THEN f ELSE g
           old(g, i) == IF g = h /\ i > n THEN i - n ELSE i
<1>18. ASSUME NEW g \in Heads, NEW i \in 0..Len(K[g])
       PROVE  /\ from(g, i) \in Heads /\ old(g, i) \in 0..Len(L[from(g, i)])
              /\ Sits(K, g, i) = Sits(L, from(g, i), old(g, i))
              /\ g = f => i = 0
              /\ g = h /\ i > n => old(g, i) # 0
  <2>1. CASE g # h /\ g # f
    BY <1>7, <2>1
  <2>2. CASE g = f
    <3>1. i = 0
      BY <1>4, <2>2
    <3>2. QED
      BY <1>5, <1>7, <1>11, <2>2, <3>1
  <2>3. CASE g = h
    <3>1. i \in 0..n + k /\ i \in 0..n + k + 1
      BY <1>4, <2>3
    <3>2. CASE i = 0
      <4>1. from(g, i) = h /\ old(g, i) = 0
        BY <2>3, <3>2
      <4>2. Sits(K, h, i) = Sits(L, h, 0)
        BY <1>5, <1>6, <3>1, <3>2
      <4>3. QED
        BY <1>4, <1>11, <2>3, <3>2, <4>1, <4>2
    <3>3. CASE i \in 1..n
      <4>1. from(g, i) = f /\ old(g, i) = i /\ i \in 0..Len(L[f])
        BY <1>2, <2>3, <3>3
      <4>2. Sits(K, h, i) = Sits(L, f, i)
        BY <1>6, <3>1, <3>3
      <4>3. QED
        BY <1>4, <2>3, <3>3, <4>1, <4>2
    <3>4. CASE i > n
      <4>1. from(g, i) = h /\ old(g, i) = i - n
        BY <2>3, <3>4
      <4>2. i - n \in 0..Len(L[h]) /\ i - n # 0
        BY <1>3, <3>1, <3>4
      <4>3. Sits(K, h, i) = Sits(L, h, i - n)
        BY <1>6, <3>1, <3>4
      <4>4. QED
        BY <1>4, <2>3, <4>1, <4>2, <4>3
    <3>5. QED
      BY <3>1, <3>2, <3>3, <3>4
  <2>4. QED
    BY <2>1, <2>2, <2>3
<1>19. Apart(K)
  <2>1. SUFFICES ASSUME NEW g \in Heads, NEW e \in Heads, NEW i \in 0..Len(K[g]), NEW j \in 0..Len(K[e]),
                        Sits(K, g, i) = Sits(K, e, j)
                 PROVE  g = e /\ i = j
    BY DEF Apart
  <2>2. /\ from(g, i) \in Heads /\ from(e, j) \in Heads
        /\ old(g, i) \in 0..Len(L[from(g, i)]) /\ old(e, j) \in 0..Len(L[from(e, j)])
        /\ Sits(L, from(g, i), old(g, i)) = Sits(L, from(e, j), old(e, j))
    BY <1>18, <2>1
  <2>3. from(g, i) = from(e, j) /\ old(g, i) = old(e, j)
    <3>1. PICK u \in Heads, v \in Heads : u = from(g, i) /\ v = from(e, j)
      BY <2>2
    <3>2. PICK o \in 0..Len(L[u]), r \in 0..Len(L[v]) : o = old(g, i) /\ r = old(e, j)
      BY <2>2, <3>1
    <3>3. Sits(L, u, o) = Sits(L, v, r)
      BY <2>2, <3>1, <3>2
    <3>4. u = v /\ o = r
      BY <1>1, <3>3 DEF Apart
    <3>5. QED
      BY <3>1, <3>2, <3>4
  <2>4. /\ g = f => i = 0
        /\ e = f => j = 0
        /\ g = h /\ i > n => old(g, i) # 0
        /\ e = h /\ j > n => old(e, j) # 0
    BY <1>18
  <2>5. i \in Nat /\ j \in Nat
    OBVIOUS
  <2>6. QED
    BY <2>3, <2>4, <2>5
<1>20. Alone(w, K)
  <2>1. SUFFICES ASSUME NEW y \in Items, Off(K, y) PROVE w.next[y] = y /\ w.prev[y] = y
    BY DEF Alone, Off
  <2>2. y # f /\ y # h
    BY ListAssumption
  <2>3. ASSUME NEW g \in Heads, NEW i \in 0..Len(L[g]) PROVE Sits(L, g, i) # y
    <3>1. CASE g # h /\ g # f
      BY <1>7, <2>1, <3>1 DEF Off
    <3>2. CASE g = f /\ i # 0
      <4>1. i \in 0..Len(K[h]) /\ i \in 0..n + k + 1 /\ i <= n
        <5>1. i \in 0..n /\ Len(K[h]) = n + k
          BY <1>2, <1>4, <3>2
        <5>2. QED
          BY <5>1
      <4>2. Sits(K, h, i) = Sits(L, f, i)
        BY <1>6, <3>2, <4>1
      <4>3. QED
        BY <2>1, <3>2, <4>1, <4>2 DEF Off
    <3>3. CASE g = h /\ i # 0
      <4>1. n + i \in 0..Len(K[h]) /\ n + i \in 0..n + k + 1 /\ n + i # 0 /\ ~(n + i <= n) /\ (n + i) - n = i
        <5>1. i \in 0..k /\ i # 0 /\ Len(K[h]) = n + k
          BY <1>3, <1>4, <3>3
        <5>2. PICK q \in Nat : q = i /\ q \in 0..k /\ q # 0
          BY <5>1
        <5>3. QED
          BY <5>1, <5>2
      <4>2. Sits(K, h, n + i) = Sits(L, h, i)
        BY <1>6, <4>1
      <4>3. QED
        BY <2>1, <3>3, <4>1, <4>2 DEF Off
    <3>4. CASE i = 0
      <4>1. Sits(L, g, i) = g
        BY <1>1, <3>4, SitsIs
      <4>2. QED
        BY <4>1, ListAssumption
    <3>5. QED
      BY <3>1, <3>2, <3>3, <3>4
  <2>4. m.next[y] = y /\ m.prev[y] = y
    BY <1>1, <2>3 DEF Alone
  <2>5. y # b /\ y # c /\ y # d
    <3>1. PICK j \in 0..Len(L[h]) : Sits(L, h, j) = Sits(L, h, 1)
      BY <1>1, <1>11, BehindIs
    <3>2. 1 \in 0..Len(L[f])
      BY <1>2, <1>3
    <3>3. QED
      BY <1>8, <1>11, <2>3, <3>1, <3>2
  <2>6. QED
    BY <1>14, <1>15, <2>2, <2>4, <2>5 DEF ListHeads
<1>21. Stands(w, K)
  BY <1>15, <1>17, <1>19, <1>20 DEF Stands, Rings
<1>22. QED
  BY <1>15, <1>21

-----------------------------------------------------------------------------
(* The walks of Listed find the items of the rings.                        *)

\* A list has no more items than there are.
LEMMA ListIsShort ==
  ASSUME ListAssumption, NEW L \in [Heads -> Seq(Items)], Apart(L), NEW h \in Heads
  PROVE  Cardinality(Items) \in Nat /\ Len(L[h]) <= Cardinality(Items)
<1>1. PICK n \in Nat : n = Len(L[h])
  BY SitsIs
<1>2. Cardinality(Items) \in Nat /\ IsFiniteSet(Items)
  BY FS_CardinalityType, ListAssumption
<1>3. PICK f \in [1..n -> Items] : \A i \in 1..n : f[i] = Sits(L, h, i)
  <2>1. [i \in 1..n |-> Sits(L, h, i)] \in [1..n -> Items]
    BY <1>1, SitsIs
  <2>2. QED
    BY <2>1
<1>4. f \in Injection(1..n, Items)
  <2>1. ASSUME NEW i \in 1..n, NEW j \in 1..n, f[i] = f[j] PROVE i = j
    <3>1. i \in 0..Len(L[h]) /\ j \in 0..Len(L[h]) /\ Sits(L, h, i) = Sits(L, h, j)
      BY <1>1, <1>3, <2>1
    <3>2. QED
      BY <3>1 DEF Apart
  <2>2. QED
    BY <2>1 DEF Injection, IsInjective
<1>5. Cardinality(1..n) <= Cardinality(Items)
  BY ONLY <1>2, <1>4, FS_Injection
<1>6. n \in Int /\ 1 \in Int /\ (1 > n <=> n = 0)
  OBVIOUS
<1>7. Cardinality(1..n) = n
  BY <1>6, FS_Interval
<1>8. QED
  BY <1>1, <1>2, <1>5, <1>7

\* The walk from a place of a ring meets what the list has from there on.
LEMMA WalkIs ==
  ASSUME ListAssumption, NEW m, NEW L, Stands(m, L), NEW h \in Heads, NEW p \in 1..Len(L[h]) + 1
  PROVE  Walk(m, Sits(L, h, p), h) = [k \in 1..Len(L[h]) + 1 - p |-> L[h][p + k - 1]]
<1>1. L \in [Heads -> Seq(Items)] /\ m \in Maps /\ Apart(L) /\ Rings(m, L)
  BY DEF Stands
<1>2. PICK n \in Nat : n = Len(L[h])
  BY <1>1, SitsIs
<1>3. PICK N \in Nat : N = Cardinality(Items) /\ n <= N
  BY <1>1, <1>2, ListIsShort
<1>4. /\ p \in 1..n + 1 /\ Sits(L, h, n + 1) = h
      /\ \A i \in 1..n : Sits(L, h, i) = L[h][i] /\ Sits(L, h, i) # h
      /\ \A i \in 0..n + 1 : Sits(L, h, i) \in ListHeads
  <2>1. Sits(L, h, Len(L[h]) + 1) = h
    BY <1>1, SitsIs
  <2>2. \A i \in 1..Len(L[h]) : Sits(L, h, i) = L[h][i] /\ Sits(L, h, i) \in Items
    BY <1>1, SitsIs
  <2>3. \A i \in 0..Len(L[h]) + 1 : Sits(L, h, i) \in ListHeads
    BY <1>1, SitsIs
  <2>4. h \notin Items
    BY ListAssumption
  <2>5. QED
    BY <1>2, <2>1, <2>2, <2>3, <2>4
<1>5. PICK x \in ListHeads : x = Sits(L, h, p)
  BY <1>4
<1> DEFINE at[i \in 0..N] == IF i = 0 THEN x ELSE m.next[at[i - 1]]
           ends == {i \in 0..N : at[i] = h}
           dist == IF ends = {} THEN N + 1 ELSE Min(ends)
<1>6. Walk(m, x, h) = [k \in 1..dist |-> IF k > N THEN h ELSE at[k - 1]]
  BY <1>3 DEF Walk
<1>7. PICK f \in [0..N -> ListHeads] : f[0] = x /\ \A i \in 1..N : f[i] = m.next[f[i - 1]]
  <2> DEFINE G == [q \in ListHeads \X (1..N) |-> m.next[q[1]]]
  <2>1. G \in [ListHeads \X (1..N) -> ListHeads]
    BY <1>1 DEF Maps
  <2>2. PICK X, H : X = ListHeads /\ H = G
    OBVIOUS
  <2>3. \A y \in X, i \in 1..N : H[<<y, i>>] = m.next[y]
    BY <2>2
  <2> HIDE DEF G
  <2>4. H \in [X \X (1..N) -> X] /\ x \in X
    BY <2>1, <2>2
  <2>5. CanGo(X, N, x, H)
    BY ONLY <2>4, N \in Nat, Steps
  <2>6. PICK f \in [0..N -> X] : f[0] = x /\ \A i \in 1..N : f[i] = H[<<f[i - 1], i>>]
    BY <2>5 DEF CanGo
  <2>7. \A i \in 1..N : f[i - 1] \in X
    BY <2>6
  <2>8. \A i \in 1..N : f[i] = m.next[f[i - 1]]
    BY <2>3, <2>6, <2>7
  <2>9. f \in [0..N -> ListHeads]
    BY <2>2, <2>6
  <2>10. QED
    BY ONLY <2>6, <2>8, <2>9
<1>8. f = [i \in 0..N |-> IF i = 0 THEN x ELSE m.next[f[i - 1]]]
  BY <1>7
<1>9. at = [i \in 0..N |-> IF i = 0 THEN x ELSE m.next[at[i - 1]]]
  BY <1>8
<1> HIDE DEF at
<1>10. at[0] = x /\ \A i \in 1..N : at[i] = m.next[at[i - 1]]
  BY <1>9
<1> DEFINE S == {i \in Nat : i <= n + 1 - p => at[i] = Sits(L, h, p + i)}
<1>11. 0 \in S
  BY <1>4, <1>5, <1>10
<1>12. ASSUME NEW i \in Nat, i \in S PROVE i + 1 \in S
  <2>1. SUFFICES ASSUME i + 1 <= n + 1 - p PROVE at[i + 1] = Sits(L, h, p + (i + 1))
    OBVIOUS
  <2>2. at[i] = Sits(L, h, p + i)
    BY <1>4, <1>12, <2>1
  <2>3. i + 1 \in 1..N /\ (i + 1) - 1 = i /\ p + i \in 0..Len(L[h]) /\ (p + i) + 1 = p + (i + 1)
    BY <1>2, <1>3, <1>4, <2>1
  <2>4. at[i + 1] = m.next[at[i]]
    BY <1>10, <2>3
  <2>5. m.next[Sits(L, h, p + i)] = Sits(L, h, (p + i) + 1)
    BY <1>1, <2>3 DEF Rings
  <2>6. QED
    BY <2>2, <2>3, <2>4, <2>5
<1> HIDE DEF S
<1>13. \A i \in Nat : i \in S
  BY <1>11, <1>12, SetInduction
<1>14. PICK c \in Nat : c = n + 1 - p /\ c <= n /\ c <= N
  BY <1>3, <1>4
<1>15. \A i \in 0..c : at[i] = Sits(L, h, p + i)
  BY <1>13, <1>14 DEF S
<1>16. dist = c
  <2>1. c \in ends
    <3>1. c \in 0..c /\ c \in 0..N /\ p + c = n + 1
      BY <1>4, <1>14
    <3>2. QED
      BY <1>4, <1>15, <3>1
  <2>2. ASSUME NEW i \in ends PROVE c <= i
    <3>1. SUFFICES ASSUME i < c PROVE FALSE
      BY <1>14
    <3>2. i \in 0..c /\ p + i \in 1..n
      BY <1>4, <1>14, <3>1
    <3>3. at[i] = h /\ at[i] = Sits(L, h, p + i)
      BY <1>15, <3>2
    <3>4. QED
      BY <1>4, <3>2, <3>3
  <2>3. ends \subseteq Nat /\ ends # {}
    BY <2>1
  <2>4. Min(ends) \in ends /\ \A i \in ends : Min(ends) <= i
    <3> HIDE DEF ends
    <3>1. QED
      BY ONLY <2>3, Least
  <2>5. Min(ends) = c
    <3>1. PICK e \in Nat : e = Min(ends)
      BY <2>3, <2>4
    <3>2. e <= c /\ c <= e
      BY <2>1, <2>2, <2>4, <3>1
    <3>3. QED
      BY <3>1, <3>2
  <2>6. QED
    BY <2>3, <2>5
<1> HIDE DEF ends, dist
<1>17. \A k \in 1..c : (IF k > N THEN h ELSE at[k - 1]) = L[h][p + k - 1]
  <2>1. SUFFICES ASSUME NEW k \in 1..c PROVE (IF k > N THEN h ELSE at[k - 1]) = L[h][p + k - 1]
    OBVIOUS
  <2>2. ~(k > N) /\ k - 1 \in 0..c /\ p + (k - 1) \in 1..n /\ p + (k - 1) = p + k - 1
    BY <1>4, <1>14
  <2>3. at[k - 1] = Sits(L, h, p + (k - 1)) /\ Sits(L, h, p + (k - 1)) = L[h][p + (k - 1)]
    BY <1>4, <1>15, <2>2
  <2>4. QED
    BY <2>2, <2>3
<1>18. [k \in 1..c |-> IF k > N THEN h ELSE at[k - 1]] = [k \in 1..c |-> L[h][p + k - 1]]
  BY <1>17
<1>19. QED
  BY <1>2, <1>5, <1>6, <1>14, <1>16, <1>18

\* What the pointers list is what stands there.
LEMMA ListedIs ==
  ASSUME ListAssumption, NEW m, NEW L, Stands(m, L)
  PROVE  Listed(m) = L
<1>1. L \in [Heads -> Seq(Items)] /\ Rings(m, L)
  BY DEF Stands
<1>2. ASSUME NEW h \in Heads PROVE Walk(m, m.next[h], h) = L[h]
  <2>1. PICK n \in Nat : n = Len(L[h])
    BY <1>1, SitsIs
  <2>2. 0 \in 0..Len(L[h]) /\ 1 \in 1..Len(L[h]) + 1 /\ 0 + 1 = 1
    BY <2>1
  <2>3. m.next[h] = Sits(L, h, 1)
    <3>1. m.next[Sits(L, h, 0)] = Sits(L, h, 0 + 1)
      BY <1>1, <2>2 DEF Rings
    <3>2. QED
      BY <1>1, <2>2, <3>1, SitsIs
  <2>4. Walk(m, Sits(L, h, 1), h) = [k \in 1..Len(L[h]) + 1 - 1 |-> L[h][1 + k - 1]]
    BY <2>2, WalkIs
  <2>5. [k \in 1..Len(L[h]) + 1 - 1 |-> L[h][1 + k - 1]] = L[h]
    <3>1. L[h] \in Seq(Items)
      BY <1>1
    <3>2. PICK s \in Seq(Items) : s = L[h]
      BY <3>1
    <3>3. Len(s) + 1 - 1 = Len(s) /\ \A k \in 1..Len(s) : 1 + k - 1 = k
      BY <3>2
    <3>4. [k \in 1..Len(s) + 1 - 1 |-> s[1 + k - 1]] = [k \in 1..Len(s) |-> s[k]]
      BY <3>3
    <3>5. [k \in 1..Len(s) |-> s[k]] = s
      BY <3>2
    <3>6. QED
      BY <3>2, <3>4, <3>5
  <2>6. QED
    BY <2>3, <2>4, <2>5
<1>3. [h \in Heads |-> Walk(m, m.next[h], h)] = [h \in Heads |-> L[h]]
  BY <1>2
<1>4. [h \in Heads |-> L[h]] = L
  BY <1>1
<1>5. QED
  BY <1>3, <1>4 DEF Listed

-----------------------------------------------------------------------------
(* What each call does to the lists.                                       *)

\* RemoveFirst takes the one item x out.
LEMMA WithoutIs ==
  ASSUME NEW S, NEW s \in Seq(S), NEW p \in 1..Len(s), NEW x, s[p] = x,
         \A i \in 1..Len(s) : s[i] = x => i = p
  PROVE  /\ RemoveFirst(s, x) \in Seq(S) /\ Len(RemoveFirst(s, x)) = Len(s) - 1
         /\ \A i \in 1..Len(s) - 1 : RemoveFirst(s, x)[i] = IF i < p THEN s[i] ELSE s[i + 1]
<1>1. {i \in 1..Len(s) : s[i] = x} = {p}
  OBVIOUS
<1>2. Min({p}) = p
  BY DEF Min
<1>3. SelectInSeq(s, LAMBDA v : v = x) = p
  BY <1>1, <1>2 DEF SelectInSeq
<1>4. RemoveFirst(s, x) = SubSeq(s, 1, p - 1) \o SubSeq(s, p + 1, Len(s))
  BY <1>3 DEF RemoveFirst, RemoveAt
<1>5. p \in Int /\ 1 <= p /\ p <= Len(s) /\ Len(s) \in Nat
  OBVIOUS
<1> DEFINE a == SubSeq(s, 1, p - 1)
           b == SubSeq(s, p + 1, Len(s))
<1>6. a \in Seq(S) /\ Len(a) = p - 1 /\ \A j \in 1..(p - 1) : a[j] = s[j]
  BY <1>5
<1>7. b \in Seq(S) /\ Len(b) = Len(s) - p /\ \A j \in 1..(Len(s) - p) : b[j] = s[p + j]
  BY <1>5
<1>8. RemoveFirst(s, x) = a \o b
  BY <1>4
<1> HIDE DEF a, b
<1>9. a \o b \in Seq(S) /\ Len(a \o b) = Len(s) - 1
  <2>1. a \in Seq(S) /\ b \in Seq(S)
    BY <1>6, <1>7
  <2>2. a \o b \in Seq(S)
    BY <2>1
  <2>3. Len(a \o b) = Len(a) + Len(b)
    BY <2>1
  <2>4. QED
    BY <1>5, <1>6, <1>7, <2>2, <2>3
<1>10. ASSUME NEW j \in 1..(Len(s) - 1)
      PROVE  (a \o b)[j] = IF j < p THEN s[j] ELSE s[j + 1]
  <2>1. (a \o b)[j] = IF j <= Len(a) THEN a[j] ELSE b[j - Len(a)]
    BY <1>5, <1>6, <1>7
  <2>2. CASE j < p
    BY <1>5, <1>6, <1>10, <2>1, <2>2
  <2>3. CASE ~(j < p)
    <3>1. j - (p - 1) \in 1..(Len(s) - p) /\ p + (j - (p - 1)) = j + 1
      BY <1>5, <1>10, <2>3
    <3>2. QED
      BY <1>5, <1>6, <1>7, <1>10, <2>1, <2>3, <3>1
  <2>4. QED
    BY <2>2, <2>3
<1>11. QED
  BY <1>8, <1>9, <1>10

Taken(L, x) == [h \in Heads |-> RemoveFirst(L[h], x)]

\* Off in terms of the sequences.
LEMMA OffIs ==
  ASSUME ListAssumption, NEW L \in [Heads -> Seq(Items)], NEW x \in Items
  PROVE  /\ Off(L, x) <=> \A h \in Heads : \A i \in 1..Len(L[h]) : L[h][i] # x
         /\ Off(L, x) => Taken(L, x) = L
<1>1. Off(L, x) => \A h \in Heads : \A i \in 1..Len(L[h]) : L[h][i] # x
  <2>1. SUFFICES ASSUME Off(L, x), NEW h \in Heads, NEW i \in 1..Len(L[h]) PROVE L[h][i] # x
    OBVIOUS
  <2>2. i \in 0..Len(L[h]) /\ Sits(L, h, i) = L[h][i]
    BY SitsIs
  <2>3. QED
    BY <2>1, <2>2 DEF Off
<1>2. (\A h \in Heads : \A i \in 1..Len(L[h]) : L[h][i] # x) => Off(L, x)
  <2>1. SUFFICES ASSUME \A h \in Heads : \A i \in 1..Len(L[h]) : L[h][i] # x,
                        NEW h \in Heads, NEW i \in 0..Len(L[h])
                 PROVE  Sits(L, h, i) # x
    BY DEF Off
  <2>2. CASE i = 0
    <3>1. Sits(L, h, i) = h
      BY <2>2, SitsIs
    <3>2. QED
      BY <3>1, ListAssumption
  <2>3. CASE i # 0
    <3>1. i \in 1..Len(L[h])
      BY <2>3
    <3>2. Sits(L, h, i) = L[h][i]
      BY <3>1, SitsIs
    <3>3. QED
      BY <2>1, <3>1, <3>2
  <2>4. QED
    BY <2>2, <2>3
<1>3. ASSUME \A h \in Heads : \A i \in 1..Len(L[h]) : L[h][i] # x PROVE Taken(L, x) = L
  <2>1. \A h \in Heads : RemoveFirst(L[h], x) = L[h]
    BY <1>3 DEF RemoveFirst
  <2>2. Taken(L, x) = [h \in Heads |-> L[h]]
    BY <2>1 DEF Taken
  <2>3. QED
    BY <2>2
<1>4. QED
  BY <1>1, <1>2, <1>3

\* list_del_init takes an item off the list it is on, if any.
LEMMA DelIs ==
  ASSUME ListAssumption, NEW m, NEW L, Stands(m, L), NEW x \in Items
  PROVE  /\ Stands(list_del_init(m, x), Taken(L, x)) /\ Off(Taken(L, x), x)
         /\ \A h \in Heads : \A p \in 1..Len(L[h]) : L[h][p] = x =>
              /\ Len(Taken(L, x)[h]) = Len(L[h]) - 1
              /\ \A i \in 1..Len(L[h]) - 1 : Taken(L, x)[h][i] = IF i < p THEN L[h][i] ELSE L[h][i + 1]
<1>1. L \in [Heads -> Seq(Items)] /\ Apart(L)
  BY DEF Stands
<1>2. CASE Off(L, x)
  <2>1. Taken(L, x) = L /\ list_del_init(m, x) = m
    BY <1>1, <1>2, OffIs, OffStays
  <2>2. \A h \in Heads : \A i \in 1..Len(L[h]) : L[h][i] # x
    BY <1>1, <1>2, OffIs
  <2>3. QED
    BY <1>2, <2>1, <2>2
<1>3. CASE ~Off(L, x)
  <2>1. ~(\A h \in Heads : \A i \in 1..Len(L[h]) : L[h][i] # x)
    BY <1>1, <1>3, OffIs
  <2>2. PICK h \in Heads : \E i \in 1..Len(L[h]) : L[h][i] = x
    BY <2>1
  <2>3. PICK p \in 1..Len(L[h]) : L[h][p] = x
    BY <2>2
  <2>4. ASSUME NEW g \in Heads, NEW i \in 1..Len(L[g]), L[g][i] = x PROVE g = h /\ i = p
    <3>1. Sits(L, g, i) = L[g][i] /\ Sits(L, h, p) = L[h][p]
      BY <1>1, SitsIs
    <3>2. i \in 0..Len(L[g]) /\ p \in 0..Len(L[h])
      OBVIOUS
    <3>3. QED
      BY <1>1, <2>3, <2>4, <3>1, <3>2 DEF Apart
  <2>5. \A g \in Heads : g # h => RemoveFirst(L[g], x) = L[g]
    BY <2>4 DEF RemoveFirst
  <2>6. PICK s \in Seq(Items) : s = L[h]
    BY <1>1
  <2>7. PICK r : r = RemoveFirst(s, x)
    OBVIOUS
  <2>8. /\ r \in Seq(Items) /\ Len(r) = Len(s) - 1
        /\ \A i \in 1..Len(s) - 1 : r[i] = IF i < p THEN s[i] ELSE s[i + 1]
    <3>1. p \in 1..Len(s) /\ s[p] = x /\ \A i \in 1..Len(s) : s[i] = x => i = p
      BY <2>3, <2>4, <2>6
    <3>2. QED
      BY ONLY <2>7, <3>1, s \in Seq(Items), WithoutIs
  <2>9. PICK K \in [Heads -> Seq(Items)] : K = Taken(L, x) /\ K[h] = r /\ \A g \in Heads : g # h => K[g] = L[g]
    <3>1. [g \in Heads |-> RemoveFirst(L[g], x)] \in [Heads -> Seq(Items)]
      <4>1. \A g \in Heads : RemoveFirst(L[g], x) \in Seq(Items)
        BY <1>1, <2>5, <2>6, <2>7, <2>8
      <4>2. QED
        BY <4>1
    <3>2. QED
      BY <2>5, <2>6, <2>7, <3>1 DEF Taken
  <2>10. /\ Len(K[h]) = Len(L[h]) - 1
        /\ \A i \in 1..Len(L[h]) - 1 : K[h][i] = IF i < p THEN L[h][i] ELSE L[h][i + 1]
    BY <2>6, <2>8, <2>9
  <2>11. Stands(list_del_init(m, x), K) /\ Off(K, x)
    <3>1. \A g \in Heads : g # h => K[g] = L[g]
      BY <2>9
    <3>2. QED
      BY ONLY ListAssumption, Stands(m, L), h \in Heads, p \in 1..Len(L[h]), <2>3, <2>10, <3>1,
              K \in [Heads -> Seq(Items)], TakeOffIs
  <2>12. QED
    BY <2>4, <2>9, <2>10, <2>11
<1>4. QED
  BY <1>2, <1>3

\* list_add_head puts an item that is on no list in front.
LEMMA AddHeadIs ==
  ASSUME ListAssumption, NEW m, NEW L, Stands(m, L), NEW x \in Items, Off(L, x), NEW h \in Heads
  PROVE  Stands(list_add_head(m, x, h), [L EXCEPT ![h] = <<x>> \o @])
<1>1. L \in [Heads -> Seq(Items)] /\ Rings(m, L)
  BY DEF Stands
<1>2. PICK s \in Seq(Items), n \in Nat : s = L[h] /\ n = Len(s)
  BY <1>1
<1>3. PICK q \in Seq(Items) : q = <<x>> \o s /\ Len(q) = n + 1 /\ \A i \in 1..n + 1 : q[i] = IF i = 1 THEN x ELSE s[i - 1]
  <2>1. <<x>> \in Seq(Items) /\ Len(<<x>>) = 1 /\ <<x>>[1] = x
    OBVIOUS
  <2>2. PICK o \in Seq(Items) : o = <<x>> /\ Len(o) = 1 /\ o[1] = x
    BY <2>1
  <2>3. o \o s \in Seq(Items) /\ Len(o \o s) = n + 1
    BY <1>2, <2>2
  <2>4. \A i \in 1..n + 1 : (o \o s)[i] = IF i <= 1 THEN o[i] ELSE s[i - 1]
    BY <1>2, <2>2
  <2>5. \A i \in 1..n + 1 : i <= 1 <=> i = 1
    OBVIOUS
  <2>6. QED
    BY <2>2, <2>3, <2>4, <2>5
<1>4. PICK K \in [Heads -> Seq(Items)] : K = [L EXCEPT ![h] = q]
  BY <1>1
<1>5. K[h] = q /\ \A g \in Heads : g # h => K[g] = L[g]
  BY <1>1, <1>4
<1>6. /\ Len(K[h]) = Len(L[h]) + 1
      /\ \A i \in 1..Len(L[h]) + 1 :
           K[h][i] = IF i <= 0 THEN L[h][i] ELSE IF i = 0 + 1 THEN x ELSE L[h][i - 1]
  BY <1>2, <1>3, <1>5
<1>7. PICK p \in 0..Len(L[h]) : p = 0
  BY <1>2
<1>8. Stands(__list_add(m, x, Sits(L, h, p), Sits(L, h, p + 1)), K)
  <2>1. Inserted(L, h, p, x, K)
    BY <1>5, <1>6, <1>7 DEF Inserted
  <2>2. QED
    BY <2>1, InsertIs
<1>9. Sits(L, h, p) = h /\ m.next[h] = Sits(L, h, p + 1)
  <2>1. Sits(L, h, p) = h
    BY <1>1, <1>7, SitsIs
  <2>2. m.next[Sits(L, h, p)] = Sits(L, h, p + 1)
    BY <1>1 DEF Rings
  <2>3. QED
    BY <2>1, <2>2
<1>10. QED
  BY <1>2, <1>3, <1>4, <1>8, <1>9 DEF list_add_head

\* list_add_tail puts it at the end.
LEMMA AddTailIs ==
  ASSUME ListAssumption, NEW m, NEW L, Stands(m, L), NEW x \in Items, Off(L, x), NEW h \in Heads
  PROVE  Stands(list_add_tail(m, x, h), [L EXCEPT ![h] = Append(@, x)])
<1>1. L \in [Heads -> Seq(Items)] /\ Rings(m, L)
  BY DEF Stands
<1>2. PICK s \in Seq(Items), n \in Nat : s = L[h] /\ n = Len(s)
  BY <1>1
<1>3. PICK q \in Seq(Items) : q = Append(s, x) /\ Len(q) = n + 1 /\ q[n + 1] = x /\ \A i \in 1..n : q[i] = s[i]
  <2>1. Append(s, x) \in Seq(Items) /\ Len(Append(s, x)) = n + 1
    BY <1>2
  <2>2. Append(s, x)[n + 1] = x /\ \A i \in 1..n : Append(s, x)[i] = s[i]
    BY <1>2
  <2>3. QED
    BY <2>1, <2>2
<1>4. PICK K \in [Heads -> Seq(Items)] : K = [L EXCEPT ![h] = q]
  BY <1>1
<1>5. K[h] = q /\ \A g \in Heads : g # h => K[g] = L[g]
  BY <1>1, <1>4
<1>6. ASSUME NEW i \in 1..n + 1
      PROVE  q[i] = IF i <= n THEN s[i] ELSE IF i = n + 1 THEN x ELSE s[i - 1]
  BY <1>3
<1>7. /\ Len(K[h]) = Len(L[h]) + 1 /\ n \in 0..Len(L[h])
      /\ \A i \in 1..Len(L[h]) + 1 :
           K[h][i] = IF i <= n THEN L[h][i] ELSE IF i = n + 1 THEN x ELSE L[h][i - 1]
  BY <1>2, <1>3, <1>5, <1>6
<1>8. Stands(__list_add(m, x, Sits(L, h, n), Sits(L, h, n + 1)), K)
  <2>1. Inserted(L, h, n, x, K)
    BY <1>5, <1>7 DEF Inserted
  <2>2. n \in 0..Len(L[h])
    BY <1>7
  <2>3. QED
    BY <2>1, <2>2, InsertIs
<1>9. Sits(L, h, n + 1) = h /\ m.prev[h] = Sits(L, h, n)
  <2>1. Sits(L, h, n + 1) = h
    BY <1>1, <1>2, SitsIs
  <2>2. m.prev[Sits(L, h, n + 1)] = Sits(L, h, n)
    BY <1>1, <1>7 DEF Rings
  <2>3. QED
    BY <2>1, <2>2
<1>10. QED
  BY <1>2, <1>3, <1>4, <1>8, <1>9 DEF list_add_tail

\* A move is a removal and an addition: what INIT_LIST_HEAD would write in
\* the entry, __list_add writes over.
LEMMA MoveIs ==
  ASSUME ListAssumption, NEW m \in Maps, NEW x \in Items, NEW h \in Heads
  PROVE  /\ list_move(m, x, h) = list_add_head(list_del_init(m, x), x, h)
         /\ list_move_tail(m, x, h) = list_add_tail(list_del_init(m, x), x, h)
<1>1. PICK d \in Maps : d = __list_del(m, m.prev[x], m.next[x])
  <2>1. m.prev[x] \in ListHeads /\ m.next[x] \in ListHeads
    BY DEF Maps, ListHeads
  <2>2. [m.next EXCEPT ![m.prev[x]] = m.next[x]] \in [ListHeads -> ListHeads]
    BY <2>1 DEF Maps
  <2>3. [m.prev EXCEPT ![m.next[x]] = m.prev[x]] \in [ListHeads -> ListHeads]
    BY <2>1 DEF Maps
  <2>4. QED
    BY <2>2, <2>3 DEF Maps, __list_del
<1>2. PICK N \in [ListHeads -> ListHeads], P \in [ListHeads -> ListHeads] : d = [next |-> N, prev |-> P]
  BY DEF Maps
<1>3. PICK A \in [ListHeads -> ListHeads], B \in [ListHeads -> ListHeads] :
        /\ A = [N EXCEPT ![x] = x] /\ B = [P EXCEPT ![x] = x]
        /\ list_del_init(m, x) = [next |-> A, prev |-> B]
  <2>1. x \in ListHeads
    BY DEF ListHeads
  <2>2. list_del_init(m, x) = [next |-> [N EXCEPT ![x] = x], prev |-> [P EXCEPT ![x] = x]]
    BY <1>1, <1>2 DEF list_del_init, INIT_LIST_HEAD
  <2>3. QED
    BY <2>1, <2>2
<1>4. x \in ListHeads /\ h \in ListHeads /\ x # h
  BY ListAssumption DEF ListHeads
<1>5. A[h] = N[h] /\ B[h] = P[h] /\ N[h] \in ListHeads /\ P[h] \in ListHeads
  BY <1>3, <1>4
<1>6. ASSUME NEW a \in ListHeads, NEW b \in ListHeads
      PROVE  __list_add([next |-> A, prev |-> B], x, a, b) = __list_add([next |-> N, prev |-> P], x, a, b)
  <2>1. [[A EXCEPT ![x] = b] EXCEPT ![a] = x] = [[N EXCEPT ![x] = b] EXCEPT ![a] = x]
    BY <1>3, <1>4
  <2>2. [[B EXCEPT ![b] = x] EXCEPT ![x] = a] = [[P EXCEPT ![b] = x] EXCEPT ![x] = a]
    BY <1>3, <1>4
  <2>3. QED
    BY <2>1, <2>2 DEF __list_add
<1>7. list_move(m, x, h) = __list_add([next |-> N, prev |-> P], x, h, N[h])
  BY <1>1, <1>2 DEF list_move, list_add_head
<1>8. list_move_tail(m, x, h) = __list_add([next |-> N, prev |-> P], x, P[h], h)
  BY <1>1, <1>2 DEF list_move_tail, list_add_tail
<1>9. list_add_head(list_del_init(m, x), x, h) = __list_add([next |-> A, prev |-> B], x, h, N[h])
  BY <1>3, <1>5 DEF list_add_head
<1>10. list_add_tail(list_del_init(m, x), x, h) = __list_add([next |-> A, prev |-> B], x, P[h], h)
  BY <1>3, <1>5 DEF list_add_tail
<1>11. QED
  BY <1>4, <1>5, <1>6, <1>7, <1>8, <1>9, <1>10

\* list_splice_init, also of an empty list.
LEMMA JoinIs ==
  ASSUME ListAssumption, NEW m, NEW L, Stands(m, L), NEW f \in Heads, NEW h \in Heads, f # h
  PROVE  Stands(list_splice_init(m, f, h), [L EXCEPT ![f] = <<>>, ![h] = L[f] \o @])
<1>1. L \in [Heads -> Seq(Items)] /\ Rings(m, L)
  BY DEF Stands
<1>2. PICK s \in Seq(Items), t \in Seq(Items) : s = L[f] /\ t = L[h]
  BY <1>1
<1>3. PICK q \in Seq(Items) : q = s \o t /\ Len(q) = Len(s) + Len(t)
                              /\ \A i \in 1..Len(s) : q[i] = s[i]
                              /\ \A j \in 1..Len(t) : q[Len(s) + j] = t[j]
  <2>1. s \o t \in Seq(Items)
    OBVIOUS
  <2>2. Len(s \o t) = Len(s) + Len(t)
    OBVIOUS
  <2>3. s \o t \in Seq(Items) /\ Len(s \o t) = Len(s) + Len(t)
    BY <2>1, <2>2
  <2>4. \A i \in 1..Len(s) + Len(t) : (s \o t)[i] = IF i <= Len(s) THEN s[i] ELSE t[i - Len(s)]
    OBVIOUS
  <2>5. Len(s) \in Nat /\ Len(t) \in Nat
    OBVIOUS
  <2>6. \A i \in 1..Len(s) : (s \o t)[i] = s[i]
    BY <2>4, <2>5
  <2>7. ASSUME NEW i \in 1..Len(t) PROVE (s \o t)[Len(s) + i] = t[i]
    <3>1. Len(s) + i \in 1..Len(s) + Len(t) /\ ~(Len(s) + i <= Len(s)) /\ (Len(s) + i) - Len(s) = i
      BY <2>5
    <3>2. QED
      BY <2>4, <3>1
  <2>8. QED
    BY <2>3, <2>6, <2>7
<1>4. PICK K \in [Heads -> Seq(Items)] :
        /\ K = [L EXCEPT ![f] = <<>>, ![h] = L[f] \o @]
        /\ K[f] = <<>> /\ K[h] = q /\ \A g \in Heads : g # f /\ g # h => K[g] = L[g]
  <2>1. <<>> \in Seq(Items)
    OBVIOUS
  <2>2. PICK e \in Seq(Items) : e = <<>>
    BY <2>1
  <2>3. [L EXCEPT ![f] = e, ![h] = q] \in [Heads -> Seq(Items)]
    BY <1>1
  <2>4. PICK K \in [Heads -> Seq(Items)] : K = [L EXCEPT ![f] = e, ![h] = q]
    BY <2>3
  <2>5. [L EXCEPT ![f] = <<>>, ![h] = L[f] \o @] = K
    BY <1>1, <1>2, <1>3, <2>2, <2>4
  <2>6. K[f] = e /\ K[h] = q /\ \A g \in Heads : g # f /\ g # h => K[g] = L[g]
    BY <1>1, <2>4
  <2>7. QED
    BY <2>2, <2>5, <2>6
<1>5. CASE Len(L[f]) # 0
  <2>1. Joined(L, f, h, K)
    BY <1>2, <1>3, <1>4, <1>5 DEF Joined
  <2>2. Stands(list_splice_init(m, f, h), K)
    BY <2>1, SpliceIs
  <2>3. QED
    BY <1>4, <2>2
<1>6. CASE Len(L[f]) = 0
  <2>1. L[f] = <<>> /\ q = L[h]
    <3>1. s = <<>>
      BY <1>2, <1>6
    <3>2. <<>> \o t = t
      OBVIOUS
    <3>3. QED
      BY <1>2, <1>3, <3>1, <3>2
  <2>2. K = L
    BY <1>1, <1>4, <2>1
  <2>3. m.next[f] = f
    <3>1. 0 \in 0..Len(L[f]) /\ Sits(L, f, 0) = f /\ Sits(L, f, 0 + 1) = f
      BY <1>1, <1>6, SitsIs
    <3>2. QED
      BY <1>1, <3>1 DEF Rings
  <2>4. list_splice_init(m, f, h) = m
    BY <2>3 DEF list_splice_init, list_empty
  <2>5. QED
    BY <1>4, <2>2, <2>4
<1>7. QED
  BY <1>5, <1>6

\* list_empty of an entry says it is on no list, of a head that its list is
\* empty.
LEMMA EmptyIs ==
  ASSUME ListAssumption, NEW m, NEW L, Stands(m, L)
  PROVE  /\ \A x \in Items : list_empty(m, x) => Off(L, x)
         /\ \A h \in Heads : list_empty(m, h) <=> L[h] = <<>>
<1>1. L \in [Heads -> Seq(Items)] /\ Rings(m, L) /\ Apart(L)
  BY DEF Stands
<1>2. ASSUME NEW x \in Items, list_empty(m, x) PROVE Off(L, x)
  <2>1. SUFFICES ASSUME NEW h \in Heads, NEW i \in 1..Len(L[h]), L[h][i] = x PROVE FALSE
    BY <1>1, OffIs
  <2>2. i \in 0..Len(L[h]) /\ i \in 1..Len(L[h]) + 1 /\ i + 1 \in 1..Len(L[h]) + 1 /\ i # i + 1
    BY <1>1
  <2>3. Sits(L, h, i) = x
    BY <1>1, <2>1, SitsIs
  <2>4. m.next[x] = Sits(L, h, i + 1)
    BY <1>1, <2>2, <2>3 DEF Rings
  <2>5. Sits(L, h, i + 1) = Sits(L, h, i)
    BY <1>2, <2>3, <2>4 DEF list_empty
  <2>6. QED
    BY <1>1, <2>2, <2>5, ApartBehind
<1>3. ASSUME NEW h \in Heads PROVE list_empty(m, h) <=> L[h] = <<>>
  <2>1. PICK s \in Seq(Items) : s = L[h]
    BY <1>1
  <2>2. 0 \in 0..Len(s) /\ 0 + 1 = 1
    BY <2>1
  <2>3. m.next[h] = Sits(L, h, 1)
    <3>1. m.next[Sits(L, h, 0)] = Sits(L, h, 0 + 1)
      BY <1>1, <2>1, <2>2 DEF Rings
    <3>2. Sits(L, h, 0) = h
      BY <1>1, SitsIs
    <3>3. QED
      BY <2>2, <3>1, <3>2
  <2>4. CASE s = <<>>
    <3>1. Len(L[h]) = 0
      BY <2>1, <2>4
    <3>2. Sits(L, h, 0 + 1) = h
      BY <1>1, <3>1, SitsIs
    <3>3. QED
      BY <2>1, <2>2, <2>3, <2>4, <3>2 DEF list_empty
  <2>5. CASE s # <<>>
    <3>1. 1 \in 1..Len(s)
      BY <2>5
    <3>2. Sits(L, h, 1) \in Items
      BY <1>1, <2>1, <3>1, SitsIs
    <3>3. QED
      BY <2>1, <2>3, <2>5, <3>2, ListAssumption DEF list_empty
  <2>6. QED
    BY <2>4, <2>5
<1>4. QED
  BY <1>2, <1>3

-----------------------------------------------------------------------------
(* The steps.                                                              *)

\* The heads and items of the start make empty lists.
LEMMA ListStart == ListInit => ListInv /\ Seqs!Init
<1> SUFFICES ASSUME ListInit PROVE ListInv /\ Seqs!Init
  OBVIOUS
<1>1. PICK m : m = [next |-> Self, prev |-> Self]
  OBVIOUS
<1>2. PICK L \in [Heads -> Seq(Items)] : L = [h \in Heads |-> <<>>]
  <2>1. <<>> \in Seq(Items)
    OBVIOUS
  <2>2. [h \in Heads |-> <<>>] \in [Heads -> Seq(Items)]
    BY <2>1
  <2>3. QED
    BY <2>2
<1>3. \A h \in Heads : Len(L[h]) = 0
  BY <1>2
<1>4. \A h \in Heads, i \in 0..1 : Sits(L, h, i) = h
  BY <1>3 DEF Sits
<1>5. m \in Maps /\ \A x \in ListHeads : m.next[x] = x /\ m.prev[x] = x
  BY <1>1 DEF Maps, ListHeads, Self
<1>6. Rings(m, L)
  BY <1>3, <1>4, <1>5 DEF Rings, ListHeads
<1>7. Apart(L)
  BY <1>3, <1>4 DEF Apart
<1>8. Alone(m, L)
  BY <1>5 DEF Alone, ListHeads
<1>9. Stands(m, L)
  BY <1>5, <1>6, <1>7, <1>8 DEF Stands
<1>10. Lists = L /\ links = m
  BY <1>1, <1>9, ListedIs, ListAssumption DEF ListInit, Lists
<1>11. Ahead = <<>>
  BY DEF ListInit, Ahead
<1>12. QED
  BY <1>2, <1>9, <1>10, <1>11 DEF ListInit, ListInv, Scanning, Seqs!Init

\* From place e on, list h of K is what list h of L is behind place i.
SameRest(L, i, K, e, h) ==
  /\ Len(K[h]) - e = Len(L[h]) - (i + 1)
  /\ \A k \in 0..Len(K[h]) - e : K[h][e + k] = L[h][i + 1 + k]

\* A scan at place i goes on to the next one: in the list as the body left
\* it, K, that is place e.
LEMMA GoOnIs ==
  ASSUME ListAssumption, NEW m, NEW L, Stands(m, L), NEW w, NEW K, Stands(w, K),
         NEW h \in Heads, NEW i \in 1..Len(L[h]), NEW e \in 1..Len(K[h]) + 1,
         SameRest(L, i, K, e, h)
  PROVE  /\ Sits(L, h, i + 1) = h <=> Walk(m, Sits(L, h, i + 1), h) = <<>>
         /\ Sits(L, h, i + 1) # h =>
              /\ e \in 1..Len(K[h]) /\ Sits(L, h, i + 1) = Sits(K, h, e)
              /\ Sits(L, h, i + 1) = Head(Walk(m, Sits(L, h, i + 1), h))
              /\ w.next[Sits(K, h, e)] = Sits(K, h, e + 1)
              /\ Walk(w, Sits(K, h, e + 1), h) = Tail(Walk(m, Sits(L, h, i + 1), h))
<1>1. L \in [Heads -> Seq(Items)] /\ K \in [Heads -> Seq(Items)] /\ Rings(w, K)
  BY DEF Stands
<1>2. PICK n \in Nat : n = Len(L[h])
  BY <1>1, SitsIs
<1>3. PICK c \in Nat : c = Len(K[h])
  BY <1>1, SitsIs
<1>4. i \in 1..n /\ e \in 1..c + 1 /\ c - e = n - (i + 1) /\ \A k \in 0..c - e : K[h][e + k] = L[h][i + 1 + k]
  BY <1>2, <1>3 DEF SameRest
<1>5. i + 1 \in 1..Len(L[h]) + 1
  BY <1>2, <1>4
<1>6. PICK t : t = Walk(m, Sits(L, h, i + 1), h)
  OBVIOUS
<1>7. t = [k \in 1..n - i |-> L[h][i + k]]
  <2>1. PICK p \in 1..Len(L[h]) + 1 : p = i + 1
    BY <1>5
  <2>2. Walk(m, Sits(L, h, p), h) = [k \in 1..Len(L[h]) + 1 - p |-> L[h][p + k - 1]]
    BY WalkIs
  <2>3. n + 1 - p = n - i /\ \A k \in Int : p + k - 1 = i + k
    BY <1>4, <2>1
  <2>4. Len(L[h]) + 1 - p = n - i /\ \A k \in 1..n - i : p + k - 1 = i + k
    BY <1>2, <2>3
  <2>5. QED
    BY <1>6, <2>1, <2>2, <2>4
<1>8. \A k \in 1..n - i : L[h][i + k] \in Items
  <2>1. L[h] \in Seq(Items)
    BY <1>1
  <2>2. \A k \in 1..n - i : i + k \in 1..n
    BY <1>4
  <2>3. QED
    BY <1>2, <2>1, <2>2
<1>9. t \in Seq(Items) /\ Len(t) = n - i
  BY <1>4, <1>7, <1>8
<1>10. CASE i = n
  <2>1. Sits(L, h, i + 1) = h
    BY <1>1, <1>2, <1>10, SitsIs
  <2>2. t = <<>>
    BY <1>9, <1>10
  <2>3. QED
    BY <1>6, <2>1, <2>2
<1>11. CASE i # n
  <2>1. i + 1 \in 1..n /\ n - i \in Nat /\ n - i # 0 /\ e \in 1..c /\ e + 1 \in 1..c + 1 /\ 0 \in 0..c - e
    BY <1>4, <1>11
  <2>2. Sits(L, h, i + 1) = L[h][i + 1] /\ Sits(L, h, i + 1) \in Items
    BY <1>1, <1>2, <2>1, SitsIs
  <2>3. Sits(L, h, i + 1) # h /\ t # <<>>
    BY <1>9, <2>1, <2>2, ListAssumption
  <2>4. Sits(K, h, e) = K[h][e] /\ K[h][e] = L[h][i + 1]
    <3>1. Sits(K, h, e) = K[h][e]
      <4>1. \A j \in 1..Len(K[h]) : Sits(K, h, j) = K[h][j]
        BY DEF Sits
      <4>2. QED
        BY <1>3, <2>1, <4>1
    <3>2. K[h][e + 0] = L[h][i + 1 + 0] /\ e + 0 = e /\ i + 1 + 0 = i + 1
      BY <1>4, <2>1
    <3>3. QED
      BY <3>1, <3>2
  <2>5. w.next[Sits(K, h, e)] = Sits(K, h, e + 1)
    <3>1. e \in 0..Len(K[h])
      BY <1>3, <2>1
    <3>2. QED
      BY <1>1, <3>1 DEF Rings
  <2>6. Head(t) = L[h][i + 1]
    <3>1. t[1] = L[h][i + 1]
      BY <1>7, <2>1
    <3>2. QED
      BY <1>9, <2>3, <3>1
  <2>7. Walk(w, Sits(K, h, e + 1), h) = [k \in 1..c - e |-> K[h][e + k]]
    <3>1. PICK p \in 1..Len(K[h]) + 1 : p = e + 1
      BY <1>3, <2>1
    <3>2. Walk(w, Sits(K, h, p), h) = [k \in 1..Len(K[h]) + 1 - p |-> K[h][p + k - 1]]
      BY WalkIs
    <3>3. c + 1 - p = c - e /\ \A k \in Int : p + k - 1 = e + k
      BY <1>4, <3>1
    <3>4. Len(K[h]) + 1 - p = c - e /\ \A k \in 1..c - e : p + k - 1 = e + k
      BY <1>3, <3>3
    <3>5. QED
      BY <3>1, <3>2, <3>4
  <2>8. Tail(t) = [k \in 1..n - i - 1 |-> t[k + 1]]
    <3>1. PICK s \in Seq(Items) : s = t /\ s # <<>> /\ Len(s) = n - i
      BY <1>9, <2>3
    <3>2. Tail(s) = [k \in 1..Len(s) - 1 |-> s[k + 1]]
      <4>1. Tail(s) \in Seq(Items)
        BY <3>1
      <4>2. Len(Tail(s)) = Len(s) - 1
        BY <3>1
      <4>3. \A k \in 1..Len(s) - 1 : Tail(s)[k] = s[k + 1]
        BY <3>1
      <4>4. PICK r \in Seq(Items) : r = Tail(s)
        BY <4>1
      <4>5. r = [k \in 1..Len(r) |-> r[k]]
        OBVIOUS
      <4>6. QED
        BY <4>2, <4>3, <4>4, <4>5
    <3>3. QED
      BY <3>1, <3>2
  <2>9. c - e = n - i - 1 /\ \A k \in 1..c - e : K[h][e + k] = t[k + 1]
    <3>1. c - e = n - i - 1
      BY <1>4
    <3>2. ASSUME NEW k \in 1..c - e PROVE K[h][e + k] = t[k + 1]
      <4>1. k \in 0..c - e /\ k + 1 \in 1..n - i /\ i + 1 + k = i + (k + 1)
        BY <1>4, <3>1
      <4>2. QED
        BY <1>4, <1>7, <4>1
    <3>3. QED
      BY <3>1, <3>2
  <2>10. QED
    BY <1>6, <2>1, <2>2, <2>3, <2>4, <2>5, <2>6, <2>7, <2>8, <2>9, <1>3
<1>12. QED
  BY <1>10, <1>11

\* The instance has definitions of its own of what it extends.
LEMMA RemovedIs == \A s, x : Seqs!RemoveFirst(s, x) = RemoveFirst(s, x)
  BY DEF Seqs!RemoveFirst, RemoveFirst, Seqs!RemoveAt, RemoveAt, Seqs!SelectInSeq, SelectInSeq, Seqs!Min, Min

\* The lists K that a call can make of L.
Called(L, K) ==
  \/ \E x \in Items :
       \/ K = Taken(L, x)
       \/ \E h \in Heads :
            \/ Off(L, x) /\ K = [L EXCEPT ![h] = <<x>> \o @]
            \/ Off(L, x) /\ K = [L EXCEPT ![h] = Append(@, x)]
            \/ K = [Taken(L, x) EXCEPT ![h] = <<x>> \o @]
            \/ K = [Taken(L, x) EXCEPT ![h] = Append(@, x)]
  \/ \E f, h \in Heads : f # h /\ K = [L EXCEPT ![f] = <<>>, ![h] = L[f] \o @]

\* A call outside a scan.
LEMMA ListCallIs ==
  ASSUME ListInv, Call
  PROVE  ListInv' /\ Seqs!Next
<1>1. PICK L, m, w : L = Lists /\ m = links /\ w = links'
  OBVIOUS
<1>2. Stands(m, L) /\ L \in [Heads -> Seq(Items)] /\ m \in Maps
  BY <1>1 DEF ListInv, Stands
<1>3. head = None /\ pos = None /\ head' = None /\ pos' = None
  BY ListAssumption DEF Call, ListInv, Scanning
<1>4. Seqs!Idle
  BY <1>3 DEF Seqs!Idle, Ahead
<1>5. \A x : Seqs!Removed(x) = Taken(L, x)
  BY <1>1, RemovedIs DEF Seqs!Removed, Taken
<1>6. SUFFICES \E K : Stands(w, K) /\ Called(L, K)
  <2>1. PICK K : Stands(w, K) /\ Called(L, K)
    BY <1>6
  <2>2. Lists' = K /\ links' = w
    BY <1>1, <2>1, ListedIs, ListAssumption DEF Lists
  <2>3. ListInv'
    BY <1>3, <2>1, <2>2 DEF ListInv, Scanning
  <2>4. ASSUME NEW x \in Items, K = Taken(L, x) PROVE Seqs!Next
    BY <1>4, <1>5, <2>2, <2>4 DEF Seqs!Next, Seqs!Delete
  <2>5. ASSUME NEW x \in Items, Off(L, x) PROVE Seqs!Free(x)
    <3>1. \A h \in Heads : \A i \in 1..Len(L[h]) : L[h][i] # x
      BY <1>2, <2>5, OffIs, ListAssumption
    <3>2. \A h \in Heads : DOMAIN L[h] = 1..Len(L[h])
      BY <1>2
    <3>3. QED
      BY <1>1, <3>1, <3>2 DEF Seqs!Free
  <2>6. ASSUME NEW x \in Items, NEW h \in Heads, Off(L, x), K = [L EXCEPT ![h] = <<x>> \o @] PROVE Seqs!Next
    BY <1>1, <1>4, <2>2, <2>5, <2>6 DEF Seqs!Next, Seqs!AddHead
  <2>7. ASSUME NEW x \in Items, NEW h \in Heads, Off(L, x), K = [L EXCEPT ![h] = Append(@, x)] PROVE Seqs!Next
    BY <1>1, <1>4, <2>2, <2>5, <2>7 DEF Seqs!Next, Seqs!AddTail
  <2>8. ASSUME NEW x \in Items, NEW h \in Heads, K = [Taken(L, x) EXCEPT ![h] = <<x>> \o @] PROVE Seqs!Next
    BY <1>4, <1>5, <2>2, <2>8 DEF Seqs!Next, Seqs!MoveHead
  <2>9. ASSUME NEW x \in Items, NEW h \in Heads, K = [Taken(L, x) EXCEPT ![h] = Append(@, x)] PROVE Seqs!Next
    BY <1>4, <1>5, <2>2, <2>9 DEF Seqs!Next, Seqs!MoveTail
  <2>10. ASSUME NEW f \in Heads, NEW h \in Heads, f # h, K = [L EXCEPT ![f] = <<>>, ![h] = L[f] \o @] PROVE Seqs!Next
    BY <1>1, <1>4, <2>2, <2>10 DEF Seqs!Next, Seqs!Splice
  <2>11. Seqs!Next
    BY <2>1, <2>4, <2>6, <2>7, <2>8, <2>9, <2>10 DEF Called
  <2>12. QED
    BY <2>3, <2>11
<1>7. ASSUME NEW x \in Items, w = list_del_init(m, x) PROVE Stands(w, Taken(L, x))
  BY <1>2, <1>7, DelIs, ListAssumption
<1>8. ASSUME NEW x \in Items, NEW h \in Heads, list_empty(m, x), w = list_add_head(m, x, h)
      PROVE  Off(L, x) /\ Stands(w, [L EXCEPT ![h] = <<x>> \o @])
  <2>1. Off(L, x)
    BY <1>2, <1>8, EmptyIs, ListAssumption
  <2>2. QED
    BY <1>2, <1>8, <2>1, AddHeadIs, ListAssumption
<1>9. ASSUME NEW x \in Items, NEW h \in Heads, list_empty(m, x), w = list_add_tail(m, x, h)
      PROVE  Off(L, x) /\ Stands(w, [L EXCEPT ![h] = Append(@, x)])
  <2>1. Off(L, x)
    BY <1>2, <1>9, EmptyIs, ListAssumption
  <2>2. QED
    BY <1>2, <1>9, <2>1, AddTailIs, ListAssumption
<1>10. ASSUME NEW x \in Items, NEW h \in Heads, w = list_move(m, x, h)
       PROVE  Stands(w, [Taken(L, x) EXCEPT ![h] = <<x>> \o @])
  <2>1. PICK d, T : d = list_del_init(m, x) /\ T = Taken(L, x)
    OBVIOUS
  <2>2. Stands(d, T) /\ Off(T, x)
    BY <1>2, <2>1, DelIs, ListAssumption
  <2>3. w = list_add_head(d, x, h)
    BY <1>2, <1>10, <2>1, MoveIs, ListAssumption
  <2>4. QED
    BY <2>1, <2>2, <2>3, AddHeadIs, ListAssumption
<1>11. ASSUME NEW x \in Items, NEW h \in Heads, w = list_move_tail(m, x, h)
       PROVE  Stands(w, [Taken(L, x) EXCEPT ![h] = Append(@, x)])
  <2>1. PICK d, T : d = list_del_init(m, x) /\ T = Taken(L, x)
    OBVIOUS
  <2>2. Stands(d, T) /\ Off(T, x)
    BY <1>2, <2>1, DelIs, ListAssumption
  <2>3. w = list_add_tail(d, x, h)
    BY <1>2, <1>11, <2>1, MoveIs, ListAssumption
  <2>4. QED
    BY <2>1, <2>2, <2>3, AddTailIs, ListAssumption
<1>12. ASSUME NEW f \in Heads, NEW h \in Heads, f # h, w = list_splice_init(m, f, h)
       PROVE  Stands(w, [L EXCEPT ![f] = <<>>, ![h] = L[f] \o @])
  BY <1>2, <1>12, JoinIs, ListAssumption
<1>13. \/ \E x \in Items :
            \/ w = list_del_init(m, x)
            \/ \E h \in Heads : \/ list_empty(m, x) /\ w = list_add_head(m, x, h)
                                \/ list_empty(m, x) /\ w = list_add_tail(m, x, h)
                                \/ w = list_move(m, x, h)
                                \/ w = list_move_tail(m, x, h)
       \/ \E f, h \in Heads : f # h /\ w = list_splice_init(m, f, h)
  BY <1>1 DEF Call
<1>14. CASE \E x \in Items : w = list_del_init(m, x)
  BY <1>7, <1>14 DEF Called
<1>15. CASE \E x \in Items, h \in Heads : list_empty(m, x) /\ w = list_add_head(m, x, h)
  BY <1>8, <1>15 DEF Called
<1>16. CASE \E x \in Items, h \in Heads : list_empty(m, x) /\ w = list_add_tail(m, x, h)
  BY <1>9, <1>16 DEF Called
<1>17. CASE \E x \in Items, h \in Heads : w = list_move(m, x, h)
  BY <1>10, <1>17 DEF Called
<1>18. CASE \E x \in Items, h \in Heads : w = list_move_tail(m, x, h)
  BY <1>11, <1>18 DEF Called
<1>19. CASE \E f, h \in Heads : f # h /\ w = list_splice_init(m, f, h)
  BY <1>12, <1>19 DEF Called
<1>20. QED
  <2>1. \/ \E x \in Items : w = list_del_init(m, x)
        \/ \E x \in Items, h \in Heads : list_empty(m, x) /\ w = list_add_head(m, x, h)
        \/ \E x \in Items, h \in Heads : list_empty(m, x) /\ w = list_add_tail(m, x, h)
        \/ \E x \in Items, h \in Heads : w = list_move(m, x, h)
        \/ \E x \in Items, h \in Heads : w = list_move_tail(m, x, h)
        \/ \E f, h \in Heads : f # h /\ w = list_splice_init(m, f, h)
    BY <1>13
  <2>2. QED
    BY <2>1, <1>14, <1>15, <1>16, <1>17, <1>18, <1>19

\* The start of a scan.
LEMMA ScanIs ==
  ASSUME ListInv, NEW h \in Heads, StartScan(h)
  PROVE  ListInv' /\ Seqs!StartScan(h)
<1>1. PICK L, m : L = Lists /\ m = links
  OBVIOUS
<1>2. Stands(m, L) /\ L \in [Heads -> Seq(Items)] /\ Rings(m, L)
  BY <1>1 DEF ListInv, Stands
<1>3. PICK s \in Seq(Items) : s = L[h]
  BY <1>2
<1>4. links' = m /\ Lists' = L
  BY <1>1 DEF StartScan, Lists
<1>5. s # <<>>
  BY <1>1, <1>2, <1>3, EmptyIs, ListAssumption DEF StartScan
<1>6. 1 \in 1..Len(s) /\ 0 \in 0..Len(s) /\ 0 + 1 = 1 /\ 1 + 1 = 2 /\ Len(s) + 1 - 2 = Len(s) - 1 /\ 1 \in 0..Len(s)
      /\ 2 \in 1..Len(s) + 1
  BY <1>5
<1>7. pos' = Sits(L, h, 1) /\ l' = Sits(L, h, 2) /\ head' = h
  <2>1. Sits(L, h, 0) = h
    BY <1>2, SitsIs, ListAssumption
  <2>2. m.next[Sits(L, h, 0)] = Sits(L, h, 0 + 1) /\ m.next[Sits(L, h, 1)] = Sits(L, h, 1 + 1)
    BY <1>2, <1>3, <1>6 DEF Rings
  <2>3. QED
    BY <1>1, <1>6, <2>1, <2>2 DEF StartScan
<1>8. Scanning'
  <2>1. \E i \in 1..Len(L[h]) : pos' = Sits(L, h, i) /\ l' = Sits(L, h, i + 1)
    BY <1>3, <1>6, <1>7
  <2>2. QED
    BY <1>4, <1>7, <2>1 DEF Scanning
<1>9. ListInv'
  BY <1>2, <1>4, <1>8 DEF ListInv
<1>10. pos' = Head(s)
  <2>1. Sits(L, h, 1) = s[1]
    BY <1>3, <1>6 DEF Sits
  <2>2. Head(s) = s[1]
    BY <1>5
  <2>3. QED
    BY <1>7, <2>1, <2>2
<1>11. Ahead' = Tail(s)
  <2>1. Walk(m, Sits(L, h, 2), h) = [k \in 1..Len(L[h]) + 1 - 2 |-> L[h][2 + k - 1]]
    BY <1>2, <1>3, <1>6, WalkIs, ListAssumption
  <2>2. Ahead' = Walk(m, Sits(L, h, 2), h)
    BY <1>4, <1>7, ListAssumption DEF Ahead
  <2>3. \A k \in 1..Len(s) - 1 : 2 + k - 1 = k + 1
    OBVIOUS
  <2>4. [k \in 1..Len(s) + 1 - 2 |-> s[2 + k - 1]] = [k \in 1..Len(s) - 1 |-> s[k + 1]]
    BY <1>6, <2>3
  <2>5. Tail(s) = [k \in 1..Len(s) - 1 |-> s[k + 1]]
    <3>1. Tail(s) \in Seq(Items)
      BY <1>5
    <3>2. Len(Tail(s)) = Len(s) - 1
      BY <1>5
    <3>3. \A k \in 1..Len(s) - 1 : Tail(s)[k] = s[k + 1]
      BY <1>5
    <3>4. PICK r \in Seq(Items) : r = Tail(s)
      BY <3>1
    <3>5. r = [k \in 1..Len(r) |-> r[k]]
      OBVIOUS
    <3>6. QED
      BY <3>2, <3>3, <3>4, <3>5
  <2>6. QED
    BY <1>3, <2>1, <2>2, <2>4, <2>5
<1>12. head = None
  BY DEF StartScan
<1>13. QED
  BY <1>1, <1>3, <1>4, <1>5, <1>7, <1>9, <1>10, <1>11, <1>12 DEF Seqs!StartScan

\* A visit of a scan.
LEMMA VisitIs ==
  ASSUME ListInv, Visit
  PROVE  ListInv' /\ Seqs!Visit
<1>1. PICK L, m, w : L = Lists /\ m = links /\ w = links'
  OBVIOUS
<1>2. \A x : Seqs!Removed(x) = Taken(L, x)
  BY <1>1, RemovedIs DEF Seqs!Removed, Taken
<1>3. Stands(m, L) /\ L \in [Heads -> Seq(Items)] /\ m \in Maps
  BY <1>1 DEF ListInv, Stands
<1>4. head # None /\ head \in Heads
  BY DEF Visit, ListInv, Scanning
<1>5. PICK h \in Heads : h = head
  BY <1>4
<1>6. PICK i \in 1..Len(L[h]) : pos = Sits(L, h, i) /\ l = Sits(L, h, i + 1)
  BY <1>1, <1>4, <1>5 DEF ListInv, Scanning
<1>7. PICK x \in Items : x = pos /\ x = L[h][i]
  <2>1. Sits(L, h, i) = L[h][i] /\ Sits(L, h, i) \in Items
    BY <1>3, SitsIs, ListAssumption
  <2>2. QED
    BY <1>6, <2>1
<1>8. PICK n \in Nat : n = Len(L[h])
  BY <1>3
\* What the body leaves.
<1>9. PICK T : T = Taken(L, x)
  OBVIOUS
<1>10. /\ Stands(list_del_init(m, x), T) /\ Off(T, x) /\ T \in [Heads -> Seq(Items)]
       /\ Len(T[h]) = n - 1
       /\ \A j \in 1..n - 1 : T[h][j] = IF j < i THEN L[h][j] ELSE L[h][j + 1]
  <2>1. Stands(list_del_init(m, x), T) /\ Off(T, x)
    BY <1>3, <1>9, DelIs, ListAssumption
  <2>2. /\ Len(T[h]) = Len(L[h]) - 1
        /\ \A j \in 1..Len(L[h]) - 1 : T[h][j] = IF j < i THEN L[h][j] ELSE L[h][j + 1]
    <3>1. \A g \in Heads : \A p \in 1..Len(L[g]) : L[g][p] = x =>
            /\ Len(T[g]) = Len(L[g]) - 1
            /\ \A j \in 1..Len(L[g]) - 1 : T[g][j] = IF j < p THEN L[g][j] ELSE L[g][j + 1]
      <4>1. \A g \in Heads : \A p \in 1..Len(L[g]) : L[g][p] = x =>
              /\ Len(Taken(L, x)[g]) = Len(L[g]) - 1
              /\ \A j \in 1..Len(L[g]) - 1 :
                   Taken(L, x)[g][j] = IF j < p THEN L[g][j] ELSE L[g][j + 1]
        <5>1. Stands(m, L)
          BY <1>3
        <5>2. QED
          BY <5>1, DelIs, ListAssumption
      <4>2. QED
        BY <1>9, <4>1
    <3>2. QED
      BY <1>7, <3>1
  <2>3. QED
    BY <1>8, <2>1, <2>2 DEF Stands
<1>11. PICK K : /\ Stands(w, K)
                /\ \/ K = L
                   \/ K = T
                   \/ \E g \in Heads : g # h /\ K = [T EXCEPT ![g] = Append(@, x)]
  <2>1. \/ w = m
        \/ w = list_del_init(m, x)
        \/ \E g \in Heads : g # h /\ \/ w = list_move_tail(m, x, g)
                                     \/ w = list_add_tail(list_del_init(m, x), x, g)
    BY <1>1, <1>5, <1>7 DEF Visit
  <2>2. CASE w = m
    BY <1>3, <2>2
  <2>3. CASE w = list_del_init(m, x)
    BY <1>10, <2>3
  <2>4. ASSUME NEW g \in Heads, g # h,
               w = list_move_tail(m, x, g) \/ w = list_add_tail(list_del_init(m, x), x, g)
        PROVE  Stands(w, [T EXCEPT ![g] = Append(@, x)])
    <3>1. PICK d : d = list_del_init(m, x)
      OBVIOUS
    <3>2. w = list_add_tail(d, x, g)
      BY <1>3, <2>4, <3>1, MoveIs, ListAssumption
    <3>3. Stands(d, T)
      BY <1>10, <3>1
    <3>4. QED
      BY <1>10, <3>2, <3>3, AddTailIs, ListAssumption
  <2>5. QED
    BY <2>1, <2>2, <2>3, <2>4
<1>12. PICK e \in 1..Len(K[h]) + 1 :
         SameRest(L, i, K, e, h)
  <2>1. i \in 1..n
    BY <1>8
  <2>2. CASE K = L
    <3>1. i + 1 \in 1..Len(K[h]) + 1 /\ Len(K[h]) - (i + 1) = Len(L[h]) - (i + 1)
      BY <1>8, <2>1, <2>2
    <3>2. QED
      BY <2>2, <3>1 DEF SameRest
  <2>3. CASE K[h] = T[h]
    <3>1. i \in 1..Len(K[h]) + 1 /\ Len(K[h]) - i = Len(L[h]) - (i + 1) /\ Len(K[h]) - i = n - 1 - i
      BY <1>8, <1>10, <2>1, <2>3
    <3>2. ASSUME NEW k \in 0..n - 1 - i PROVE T[h][i + k] = L[h][i + 1 + k]
      <4>1. i + k \in 1..n - 1 /\ ~(i + k < i) /\ (i + k) + 1 = i + 1 + k
        BY <2>1, <3>2
      <4>2. QED
        BY <1>10, <4>1
    <3>3. QED
      BY <2>3, <3>1, <3>2 DEF SameRest
  <2>4. ASSUME NEW g \in Heads, g # h, K = [T EXCEPT ![g] = Append(@, x)] PROVE K[h] = T[h]
    BY <1>10, <2>4
  <2>5. QED
    BY <1>11, <2>2, <2>3, <2>4
<1>13. PICK y, t : y = l /\ t = Walk(m, y, h)
  OBVIOUS
<1>14. /\ y = h <=> t = <<>>
       /\ y # h =>
            /\ e \in 1..Len(K[h]) /\ y = Sits(K, h, e)
            /\ y = Head(t)
            /\ w.next[y] = Sits(K, h, e + 1)
            /\ Walk(w, Sits(K, h, e + 1), h) = Tail(t)
  <2>1. y = Sits(L, h, i + 1)
    BY <1>6, <1>13
  <2>2. /\ Sits(L, h, i + 1) = h <=> Walk(m, Sits(L, h, i + 1), h) = <<>>
        /\ Sits(L, h, i + 1) # h =>
             /\ e \in 1..Len(K[h]) /\ Sits(L, h, i + 1) = Sits(K, h, e)
             /\ Sits(L, h, i + 1) = Head(Walk(m, Sits(L, h, i + 1), h))
             /\ w.next[Sits(K, h, e)] = Sits(K, h, e + 1)
             /\ Walk(w, Sits(K, h, e + 1), h) = Tail(Walk(m, Sits(L, h, i + 1), h))
    BY <1>3, <1>11, <1>12, GoOnIs, ListAssumption
  <2>3. QED
    BY <1>13, <2>1, <2>2
<1>15. Lists' = K /\ links' = w
  BY <1>1, <1>11, ListedIs, ListAssumption DEF Lists
<1>16. Ahead = t
  BY <1>1, <1>4, <1>5, <1>13 DEF Ahead
<1>17. IF y = h THEN head' = None /\ pos' = None /\ l' = None
       ELSE head' = h /\ pos' = y /\ l' = w.next[y]
  BY <1>1, <1>5, <1>13 DEF Visit
<1>18. Scanning'
  <2>1. CASE y = h
    BY <1>17, <2>1 DEF Scanning
  <2>2. CASE y # h
    <3>1. \E j \in 1..Len(K[h]) : pos' = Sits(K, h, j) /\ l' = Sits(K, h, j + 1)
      BY <1>14, <1>17, <2>2
    <3>2. QED
      BY <1>15, <1>17, <2>2, <3>1 DEF Scanning
  <2>3. QED
    BY <2>1, <2>2
<1>19. ListInv'
  BY <1>11, <1>15, <1>18 DEF ListInv
<1>20. Seqs!Advance
  <2>1. CASE y = h
    <3>1. Ahead' = <<>>
      BY <1>17, <2>1 DEF Ahead
    <3>2. QED
      BY <1>14, <1>16, <1>17, <2>1, <3>1 DEF Seqs!Advance
  <2>2. CASE y # h
    <3>1. Ahead' = Walk(w, Sits(K, h, e + 1), h)
      BY <1>14, <1>15, <1>17, <2>2, ListAssumption DEF Ahead
    <3>2. QED
      BY <1>5, <1>14, <1>16, <1>17, <2>2, <3>1 DEF Seqs!Advance
  <2>3. QED
    BY <2>1, <2>2
<1>21. \/ UNCHANGED Lists
       \/ Lists' = Seqs!Removed(pos)
       \/ \E g \in Heads \ {head} : Lists' = [Seqs!Removed(pos) EXCEPT ![g] = Append(@, pos)]
  BY <1>1, <1>5, <1>7, <1>2, <1>9, <1>11, <1>15
<1>22. QED
  BY <1>4, <1>19, <1>20, <1>21 DEF Seqs!Visit

\* Each step keeps ListInv and is one of SeqLists.
LEMMA ListStep ==
  ASSUME ListInv, [ListNext]_listVars
  PROVE  ListInv' /\ [Seqs!Next]_(Seqs!vars)
<1>1. CASE Call
  <2>1. ListInv' /\ Seqs!Next
    BY <1>1, ListCallIs
  <2>2. QED
    BY <2>1
<1>2. ASSUME NEW h \in Heads, StartScan(h) PROVE ListInv' /\ Seqs!Next
  BY <1>2, ScanIs DEF Seqs!Next
<1>3. CASE Visit
  BY <1>3, VisitIs DEF Seqs!Next
<1>4. CASE UNCHANGED listVars
  <2>1. links' = links /\ head' = head /\ pos' = pos /\ l' = l
    BY <1>4 DEF listVars
  <2>2. Lists' = Lists
    BY <2>1 DEF Lists
  <2>3. Ahead' = Ahead
    BY <2>1 DEF Ahead
  <2>4. ListInv'
    BY <2>1, <2>2 DEF ListInv, Scanning
  <2>5. QED
    BY <2>1, <2>2, <2>3, <2>4 DEF Seqs!vars
<1>5. QED
  BY <1>1, <1>2, <1>3, <1>4 DEF ListNext

\* The pointers implement the sequences.
THEOREM ListsAreSequences == ListSpec => SeqSpec
<1>1. ListInit => ListInv /\ Seqs!Init
  BY ListStart
<1>2. ListInv /\ [ListNext]_listVars => ListInv' /\ [Seqs!Next]_(Seqs!vars)
  BY ListStep
<1>3. QED
  BY <1>1, <1>2, PTL DEF ListSpec, SeqSpec, Seqs!Spec
-----------------------------------------------------------------------------
(* mybuff.c: a byte to spare, and the files.                               *)

\* The two invariants need each other's types only: TypeOK with SpareByte
\* and OneFile is inductive as it stands.
BuffInv == TypeOK /\ SpareByte /\ OneFile

\* One call keeps the type.
LEMMA BuffType == BuffInv /\ [Next]_vars => TypeOK'
<1> SUFFICES ASSUME BuffInv, [Next]_vars PROVE TypeOK'
  OBVIOUS
<1> USE BuffAssumption DEF BuffInv, TypeOK
<1>1. ASSUME NEW n \in Lens, mybuff_setdata(n) PROVE TypeOK'
  BY <1>1 DEF mybuff_setdata
<1>2. ASSUME NEW n \in Lens, mybuff_skipdata(n) PROVE TypeOK'
  BY <1>2 DEF mybuff_skipdata
<1>3. ASSUME NEW n \in Lens, mybuff_skipfile(n) PROVE TypeOK'
  BY <1>3 DEF mybuff_skipfile
<1>4. ASSUME NEW n \in Lens, NEW f \in Files, mybuff_setfile(f, n) PROVE TypeOK'
  BY <1>4 DEF mybuff_setfile
<1>5. CASE mybuff_reinit
  BY <1>5 DEF mybuff_reinit
<1>6. CASE UNCHANGED vars
  BY <1>6 DEF vars
<1> QED
  BY <1>1, <1>2, <1>3, <1>4, <1>5, <1>6 DEF Next

\* One call leaves a byte to spare: a write that does not fit reallocates
\* to len + n + 1, everything else makes len smaller or size unchanged; a
\* shrunk buffer is an empty one.
LEMMA BuffSpare == BuffInv /\ [Next]_vars => SpareByte'
<1> SUFFICES ASSUME BuffInv, [Next]_vars PROVE SpareByte'
  OBVIOUS
<1> USE BuffAssumption DEF BuffInv, TypeOK, SpareByte
<1>1. ASSUME NEW n \in Lens, mybuff_setdata(n) PROVE SpareByte'
  BY <1>1 DEF mybuff_setdata
<1>2. ASSUME NEW n \in Lens, mybuff_skipdata(n) PROVE SpareByte'
  BY <1>2 DEF mybuff_skipdata
<1>3. ASSUME NEW n \in Lens, mybuff_skipfile(n) PROVE SpareByte'
  BY <1>3 DEF mybuff_skipfile
<1>4. ASSUME NEW n \in Lens, NEW f \in Files, mybuff_setfile(f, n) PROVE SpareByte'
  BY <1>4 DEF mybuff_setfile
<1>5. CASE mybuff_reinit
  BY <1>5 DEF mybuff_reinit
<1>6. CASE UNCHANGED vars
  BY <1>6 DEF vars
<1> QED
  BY <1>1, <1>2, <1>3, <1>4, <1>5, <1>6 DEF Next

\* One call opens and closes in step with mybuff->fd.
LEMMA BuffFile == BuffInv /\ [Next]_vars => OneFile'
<1> SUFFICES ASSUME BuffInv, [Next]_vars PROVE OneFile'
  OBVIOUS
<1> USE BuffAssumption DEF BuffInv, TypeOK, OneFile
<1>1. ASSUME NEW n \in Lens, mybuff_setdata(n) PROVE OneFile'
  BY <1>1 DEF mybuff_setdata
<1>2. ASSUME NEW n \in Lens, mybuff_skipdata(n) PROVE OneFile'
  BY <1>2 DEF mybuff_skipdata
<1>3. ASSUME NEW n \in Lens, mybuff_skipfile(n) PROVE OneFile'
  BY <1>3 DEF mybuff_skipfile
<1>4. ASSUME NEW n \in Lens, NEW f \in Files, mybuff_setfile(f, n) PROVE OneFile'
  BY <1>4 DEF mybuff_setfile
<1>5. CASE mybuff_reinit
  BY <1>5 DEF mybuff_reinit
<1>6. CASE UNCHANGED vars
  BY <1>6 DEF vars
<1> QED
  BY <1>1, <1>2, <1>3, <1>4, <1>5, <1>6 DEF Next

\* The three together hold in every reachable state.
THEOREM BuffInductive == Spec => []BuffInv
<1>1. Init => BuffInv
  <2> SUFFICES ASSUME Init PROVE BuffInv
    OBVIOUS
  <2>1. TypeOK
    BY DEF Init, TypeOK
  <2>2. SpareByte
    BY DEF Init, SpareByte
  <2>3. OneFile
    BY DEF Init, OneFile
  <2> QED
    BY <2>1, <2>2, <2>3 DEF BuffInv
<1>2. BuffInv /\ [Next]_vars => BuffInv'
  BY BuffType, BuffSpare, BuffFile DEF BuffInv
<1> QED
  BY <1>1, <1>2, PTL DEF Spec

(* The NUL that check_req writes behind the received data stays inside the *)
(* buffer, for every initial size and every sequence of calls.             *)
THEOREM RoomForNul == Spec => []SpareByte
<1>1. BuffInv => SpareByte
  BY DEF BuffInv
<1> QED
  BY <1>1, BuffInductive, PTL

(* No file handed to a connection is leaked or closed twice.               *)
THEOREM FileClosedOnce == Spec => []OneFile
<1>1. BuffInv => OneFile
  BY DEF BuffInv
<1> QED
  BY <1>1, BuffInductive, PTL

-----------------------------------------------------------------------------
(* Time stamps, for any number of directories, sources and files.          *)

\* Position a in row b of a table with rows of n.
LEMMA Flat ==
  ASSUME NEW m \in Nat \ {0}, NEW n \in Nat \ {0},
         NEW a \in 0..(m - 1), NEW b \in 0..(n - 1), NEW c \in 0..(m - 1), NEW d \in 0..(n - 1)
  PROVE  /\ m * n \in Nat
         /\ a * n + b \in 0..(m * n - 1)
         /\ a * n + b = c * n + d => a = c /\ b = d
<1>1. \A x \in Nat, y \in Nat : x < y => x * n + n <= y * n
  <2>1. SUFFICES ASSUME NEW x \in Nat, NEW y \in Nat, x < y PROVE x * n + n <= y * n
    OBVIOUS
  <2>2. PICK k \in Nat : y = x + 1 + k
    <3>1. y - x - 1 \in Nat /\ y = x + 1 + (y - x - 1)
      BY <2>1
    <3>2. QED
      BY <3>1
  <2>3. y * n = x * n + n + k * n
    BY <2>2
  <2>4. k * n \in Nat /\ x * n \in Nat
    OBVIOUS
  <2>5. QED
    BY <2>3, <2>4
<1>2. a * n \in Nat /\ c * n \in Nat /\ m * n \in Nat
  OBVIOUS
<1>3. a * n + n <= m * n
  BY <1>1
<1>4. a * n + b \in 0..(m * n - 1)
  BY <1>2, <1>3
<1>5. a < c => a * n + n <= c * n
  BY <1>1
<1>6. c < a => c * n + n <= a * n
  BY <1>1
<1>7. ASSUME a * n + b = c * n + d PROVE a = c /\ b = d
  <2>1. ~(a < c)
    BY <1>2, <1>5, <1>7
  <2>2. ~(c < a)
    BY <1>2, <1>6, <1>7
  <2>3. a = c
    BY <2>1, <2>2
  <2>4. a * n = c * n
    BY <2>3
  <2>5. QED
    BY <1>2, <1>7, <2>3, <2>4
<1>8. QED
  BY <1>2, <1>4, <1>7

\* A directory's position, and that of a source in it, is theirs alone.
LEMMA Places ==
  ASSUME NEW t \in Received, HasDirs(t.path), NEW u \in Received, HasDirs(u.path)
  PROVE  /\ FcsPos(t) \in 0..(DIR1 * DIR2 - 1)
         /\ FcsPos(t) = FcsPos(u) <=> get_dir1_dir2(t.path) = get_dir1_dir2(u.path)
         /\ CsPos(t) \in 0..(DIR1 * DIR2 * MAXFCS - 1)
         /\ CsPos(t) = CsPos(u) <=> /\ get_dir1_dir2(t.path) = get_dir1_dir2(u.path)
                                    /\ t.domain % MAXFCS = u.domain % MAXFCS
<1> DEFINE a(x) == x.path[Len(x.path) - 2] % DIR1
           b(x) == x.path[Len(x.path) - 1] % DIR2
<1>1. DIR1 \in Nat \ {0} /\ DIR2 \in Nat \ {0} /\ MAXFCS \in Nat \ {0}
  BY StampAssumption
<1>2. ASSUME NEW x \in Received, HasDirs(x.path)
      PROVE  /\ a(x) \in 0..(DIR1 - 1) /\ b(x) \in 0..(DIR2 - 1)
             /\ x.domain % MAXFCS \in 0..(MAXFCS - 1)
  <2>1. x.path \in Seq(Int) /\ x.domain \in Int
    BY StampAssumption
  <2>2. Len(x.path) \in Nat /\ Len(x.path) >= 4
    BY <1>2, <2>1 DEF HasDirs
  <2>3. x.path[Len(x.path) - 2] \in Int /\ x.path[Len(x.path) - 1] \in Int
    BY <2>1, <2>2
  <2>4. \A i \in Int, n \in Nat \ {0} : i % n \in 0..(n - 1)
    OBVIOUS
  <2>5. QED
    BY <1>1, <2>1, <2>3, <2>4
<1>3. \A x : /\ FcsPos(x) = a(x) * DIR2 + b(x)
             /\ CsPos(x) = FcsPos(x) * MAXFCS + (x.domain % MAXFCS)
             /\ get_dir1_dir2(x.path) = <<a(x), b(x)>>
  BY DEF FcsPos, CsPos, get_dir1_dir2
<1>4. /\ a(t) \in 0..(DIR1 - 1) /\ b(t) \in 0..(DIR2 - 1) /\ t.domain % MAXFCS \in 0..(MAXFCS - 1)
      /\ a(u) \in 0..(DIR1 - 1) /\ b(u) \in 0..(DIR2 - 1) /\ u.domain % MAXFCS \in 0..(MAXFCS - 1)
  BY <1>2
<1> HIDE DEF a, b
<1>5. /\ DIR1 * DIR2 \in Nat \ {0}
      /\ FcsPos(t) \in 0..(DIR1 * DIR2 - 1) /\ FcsPos(u) \in 0..(DIR1 * DIR2 - 1)
      /\ FcsPos(t) = FcsPos(u) => a(t) = a(u) /\ b(t) = b(u)
  <2>1. PICK c \in Int, d \in Int, e \in Int, f \in Int :
          /\ c = a(t) /\ d = b(t) /\ e = a(u) /\ f = b(u)
          /\ {c, e} \subseteq 0..(DIR1 - 1) /\ {d, f} \subseteq 0..(DIR2 - 1)
    BY <1>1, <1>4
  <2>2. /\ DIR1 * DIR2 \in Nat
        /\ c * DIR2 + d \in 0..(DIR1 * DIR2 - 1)
        /\ c * DIR2 + d = e * DIR2 + f => c = e /\ d = f
    BY ONLY <1>1, <2>1, Flat
  <2>3. e * DIR2 + f \in 0..(DIR1 * DIR2 - 1)
    BY ONLY <1>1, <2>1, Flat
  <2>4. DIR1 * DIR2 # 0
    BY ONLY <2>2
  <2>5. QED
    BY <1>3, <2>1, <2>2, <2>3, <2>4
<1>7. /\ CsPos(t) \in 0..(DIR1 * DIR2 * MAXFCS - 1)
      /\ CsPos(t) = CsPos(u) => FcsPos(t) = FcsPos(u) /\ t.domain % MAXFCS = u.domain % MAXFCS
  <2>1. PICK n \in Nat \ {0}, p \in Nat, q \in Nat, i \in Int, j \in Int :
          /\ n = DIR1 * DIR2 /\ p = FcsPos(t) /\ q = FcsPos(u) /\ i = t.domain % MAXFCS /\ j = u.domain % MAXFCS
          /\ {p, q} \subseteq 0..(n - 1) /\ {i, j} \subseteq 0..(MAXFCS - 1)
    BY <1>4, <1>5
  <2>2. /\ p * MAXFCS + i \in 0..(n * MAXFCS - 1)
        /\ p * MAXFCS + i = q * MAXFCS + j => p = q /\ i = j
    BY ONLY <1>1, <2>1, Flat
  <2>3. QED
    BY <1>3, <2>1, <2>2
<1>8. get_dir1_dir2(t.path) = get_dir1_dir2(u.path) <=> a(t) = a(u) /\ b(t) = b(u)
  BY <1>3
<1>9. a(t) = a(u) /\ b(t) = b(u) => FcsPos(t) = FcsPos(u)
  BY <1>3
<1>10. FcsPos(t) = FcsPos(u) /\ t.domain % MAXFCS = u.domain % MAXFCS => CsPos(t) = CsPos(u)
  BY <1>3
<1>11. QED
  BY <1>5, <1>7, <1>8, <1>9, <1>10

\* What is newer than the newest is the newest with it, and what is not
\* changes nothing.
LEMMA Newer1 ==
  ASSUME NEW S, NEW m, NEW t, IsNewest(m, S), m \in Nat, t.ctime \in Nat, \A u \in S : u.ctime \in Nat
  PROVE  IsNewest(IF m < t.ctime THEN t.ctime ELSE m, S \cup {t})
<1>1. CASE m < t.ctime
  BY <1>1 DEF IsNewest
<1>2. CASE ~(m < t.ctime)
  BY <1>2 DEF IsNewest
<1>3. QED
  BY <1>1, <1>2

\* Newest is what IsNewest says.
LEMMA NewestIs ==
  ASSUME NEW S, NEW m \in Nat, IsNewest(m, S), \A u \in S : u.ctime \in Nat
  PROVE  Newest(S) = m
<1> DEFINE C == {t.ctime : t \in S} \cup {0}
<1>1. m \in C /\ \A y \in C : m >= y /\ y \in Nat
  BY DEF IsNewest
<1> HIDE DEF C
<1>2. \A x \in C : (\A y \in C : x >= y) => x = m
  BY <1>1
<1>3. Max(C) = m
  BY <1>1, <1>2 DEF Max
<1>4. QED
  BY <1>3 DEF Newest, C

LEMMA StampStart == StampInit => StampInv
<1> SUFFICES ASSUME StampInit PROVE StampInv
  OBVIOUS
<1>1. recorded = {} /\ (\A p \in DOMAIN fcs : fcs[p] = 0) /\ (\A p \in DOMAIN cs : cs[p] = 0)
  BY DEF StampInit
<1>2. Of("fcs") = {} /\ Of("cs") = {}
  BY <1>1 DEF Of
<1>3. \A p \in DOMAIN fcs : IsNewest(fcs[p], {t \in Of("fcs") : FcsPos(t) = p})
  BY <1>1, <1>2 DEF IsNewest
<1>4. \A p \in DOMAIN cs : IsNewest(cs[p], {t \in Of("cs") : CsPos(t) = p})
  BY <1>1, <1>2 DEF IsNewest
<1>5. QED
  BY <1>1, <1>3, <1>4 DEF StampInit, StampInv

\* A time taken note of at its position, in either file.  F[p] and G[p] are
\* what was and is noted for position p.
Notes(D, f, F, g, G, place, t) ==
  /\ f \in [D -> Nat] /\ place \in D /\ t.ctime \in Nat
  /\ \A p \in D : \A u \in F[p] : u.ctime \in Nat
  /\ \A p \in D : IsNewest(f[p], F[p])
  /\ \A p \in D : G[p] = IF p = place THEN F[p] \cup {t} ELSE F[p]
  /\ g = IF f[place] < t.ctime THEN [f EXCEPT ![place] = t.ctime] ELSE f

LEMMA Noted ==
  ASSUME NEW D, NEW f, NEW F, NEW g, NEW G, NEW place, NEW t, Notes(D, f, F, g, G, place, t)
  PROVE  g \in [D -> Nat] /\ \A p \in D : IsNewest(g[p], G[p])
<1> USE DEF Notes
<1>1. g \in [D -> Nat]
  OBVIOUS
<1>2. ASSUME NEW p \in D PROVE IsNewest(g[p], G[p])
  <2>1. CASE p = place
    <3>1. g[p] = IF f[p] < t.ctime THEN t.ctime ELSE f[p]
      BY <2>1
    <3>2. PICK m \in Nat : m = f[p] /\ IsNewest(m, F[p])
      OBVIOUS
    <3>3. IsNewest(IF m < t.ctime THEN t.ctime ELSE m, F[p] \cup {t})
      BY <3>2, Newer1
    <3>4. QED
      BY <2>1, <3>1, <3>2, <3>3
  <2>2. CASE p # place
    BY <2>2
  <2>3. QED
    BY <2>1, <2>2
<1>3. QED
  BY <1>1, <1>2

LEMMA OfMore ==
  ASSUME NEW t, NEW f \in {"fcs", "cs"}, NEW g \in {"fcs", "cs"}, recorded' = recorded \cup {<<f, t>>}
  PROVE  Of(g)' = IF g = f THEN Of(g) \cup {t} ELSE Of(g)
<1>1. ASSUME NEW u, u \in Of(g)' PROVE u \in Of(g) \/ (g = f /\ u = t)
  <2>1. PICK r \in recorded' : r[1] = g /\ u = r[2]
    BY <1>1 DEF Of
  <2>2. CASE r \in recorded
    BY <2>1, <2>2 DEF Of
  <2>3. CASE r = <<f, t>>
    BY <2>1, <2>3
  <2>4. QED
    BY <2>2, <2>3
<1>2. ASSUME NEW u \in Of(g) PROVE u \in Of(g)'
  BY <1>2 DEF Of
<1>3. g = f => t \in Of(g)'
  <2>1. <<f, t>> \in recorded' /\ <<f, t>>[1] = f /\ <<f, t>>[2] = t
    OBVIOUS
  <2>2. QED
    BY <2>1 DEF Of
<1>4. QED
  BY <1>1, <1>2, <1>3

\* A call that takes note of t.
LEMMA NotedFcs ==
  ASSUME StampInv, NEW t \in Received, set_fcs_time_stamp(t)
  PROVE  StampInv'
<1> DEFINE D == 0..(DIR1 * DIR2 - 1)
<1>1. HasDirs(t.path) /\ t.ctime \in Nat /\ FcsPos(t) \in D
  BY Places, StampAssumption DEF set_fcs_time_stamp
<1>2. /\ fcs' = (IF fcs[FcsPos(t)] < t.ctime THEN [fcs EXCEPT ![FcsPos(t)] = t.ctime] ELSE fcs)
      /\ recorded' = recorded \cup {<<"fcs", t>>} /\ cs' = cs
  BY DEF set_fcs_time_stamp, Newer
<1>3. Of("fcs")' = Of("fcs") \cup {t} /\ Of("cs")' = Of("cs")
  BY <1>2, OfMore
<1>4. PICK F, G, f, g, place :
        /\ F = [p \in D |-> {u \in Of("fcs") : FcsPos(u) = p}]
        /\ G = [p \in D |-> {u \in Of("fcs")' : FcsPos(u) = p}]
        /\ f = fcs /\ g = fcs' /\ place = FcsPos(t)
  OBVIOUS
<1>5. \A u \in Of("fcs") : u.ctime \in Nat
  BY StampAssumption DEF Of, StampInv
<1>6. f \in [D -> Nat] /\ \A p \in D : IsNewest(f[p], F[p])
  BY <1>4 DEF StampInv
<1>7. \A p \in D : G[p] = IF p = place THEN F[p] \cup {t} ELSE F[p]
  BY <1>3, <1>4
<1>8. \A p \in D : \A u \in F[p] : u.ctime \in Nat
  BY <1>4, <1>5
<1>9. place \in D /\ g = IF f[place] < t.ctime THEN [f EXCEPT ![place] = t.ctime] ELSE f
  BY <1>1, <1>2, <1>4
<1> HIDE DEF D
<1>10. g \in [D -> Nat] /\ \A p \in D : IsNewest(g[p], G[p])
  <2>1. Notes(D, f, F, g, G, place, t)
    BY ONLY <1>1, <1>6, <1>7, <1>8, <1>9 DEF Notes
  <2>2. QED
    BY ONLY <2>1, Noted
<1>11. \A p \in D : IsNewest(fcs'[p], {u \in Of("fcs")' : FcsPos(u) = p})
  BY <1>4, <1>10
<1>12. \A r \in recorded' : /\ r[2] \in Received /\ HasDirs(r[2].path)
                            /\ r[1] = "cs" => r[2].domain >= 0
  BY <1>1, <1>2 DEF StampInv
<1>13. QED
  BY <1>2, <1>3, <1>4, <1>10, <1>11, <1>12 DEF StampInv, D
LEMMA NotedCs ==
  ASSUME StampInv, NEW t \in Received, set_cs_time_stamp(t), self_stat = "ON_LINE"
  PROVE  StampInv'
<1> DEFINE D == 0..(DIR1 * DIR2 * MAXFCS - 1)
<1>1. HasDirs(t.path) /\ t.domain >= 0 /\ t.ctime \in Nat /\ CsPos(t) \in D
  BY Places, StampAssumption DEF set_cs_time_stamp
<1>2. /\ cs' = (IF cs[CsPos(t)] < t.ctime THEN [cs EXCEPT ![CsPos(t)] = t.ctime] ELSE cs)
      /\ recorded' = recorded \cup {<<"cs", t>>} /\ fcs' = fcs
  BY DEF set_cs_time_stamp, Newer
<1>3. Of("cs")' = Of("cs") \cup {t} /\ Of("fcs")' = Of("fcs")
  BY <1>2, OfMore
<1>4. PICK F, G, f, g, place :
        /\ F = [p \in D |-> {u \in Of("cs") : CsPos(u) = p}]
        /\ G = [p \in D |-> {u \in Of("cs")' : CsPos(u) = p}]
        /\ f = cs /\ g = cs' /\ place = CsPos(t)
  OBVIOUS
<1>5. \A u \in Of("cs") : u.ctime \in Nat
  BY StampAssumption DEF Of, StampInv
<1>6. f \in [D -> Nat] /\ \A p \in D : IsNewest(f[p], F[p])
  BY <1>4 DEF StampInv
<1>7. \A p \in D : G[p] = IF p = place THEN F[p] \cup {t} ELSE F[p]
  BY <1>3, <1>4
<1>8. \A p \in D : \A u \in F[p] : u.ctime \in Nat
  BY <1>4, <1>5
<1>9. place \in D /\ g = IF f[place] < t.ctime THEN [f EXCEPT ![place] = t.ctime] ELSE f
  BY <1>1, <1>2, <1>4
<1> HIDE DEF D
<1>10. g \in [D -> Nat] /\ \A p \in D : IsNewest(g[p], G[p])
  <2>1. Notes(D, f, F, g, G, place, t)
    BY ONLY <1>1, <1>6, <1>7, <1>8, <1>9 DEF Notes
  <2>2. QED
    BY ONLY <2>1, Noted
<1>11. \A p \in D : IsNewest(cs'[p], {u \in Of("cs")' : CsPos(u) = p})
  BY <1>4, <1>10
<1>12. \A r \in recorded' : /\ r[2] \in Received /\ HasDirs(r[2].path)
                            /\ r[1] = "cs" => r[2].domain >= 0
  BY <1>1, <1>2 DEF StampInv
<1>13. QED
  BY <1>2, <1>3, <1>4, <1>10, <1>11, <1>12 DEF StampInv, D

LEMMA StampStep == StampInv /\ [StampNext]_stamps => StampInv'
<1> SUFFICES ASSUME StampInv, [StampNext]_stamps PROVE StampInv'
  OBVIOUS
<1>1. ASSUME UNCHANGED <<fcs, cs, recorded>> PROVE StampInv'
  BY <1>1 DEF StampInv, Of
<1>2. ASSUME NEW t \in Received, set_fcs_time_stamp(t) PROVE StampInv'
  BY <1>2, NotedFcs
<1>3. ASSUME NEW t \in Received, set_cs_time_stamp(t) PROVE StampInv'
  <2>1. CASE self_stat = "ON_LINE"
    BY <1>3, <2>1, NotedCs
  <2>2. CASE self_stat # "ON_LINE"
    BY <1>1, <1>3, <2>2 DEF set_cs_time_stamp
  <2>3. QED
    BY <2>1, <2>2
<1>4. CASE check_self_stat \/ GoOnLine
  BY <1>1, <1>4 DEF check_self_stat, GoOnLine
<1>5. CASE UNCHANGED stamps
  BY <1>1, <1>5 DEF stamps
<1>6. QED
  BY <1>2, <1>3, <1>4, <1>5 DEF StampNext

\* What the files have by position is what they have by directory and source.
LEMMA ByPosition == StampInv => StampsAreNewest
<1> SUFFICES ASSUME StampInv, NEW t \in Received, HasDirs(t.path)
             PROVE  LET Same(u) == get_dir1_dir2(u.path) = get_dir1_dir2(t.path)
                    IN  /\ fcs[FcsPos(t)] = Newest({u \in Of("fcs") : Same(u)})
                        /\ t.domain >= 0 =>
                             cs[CsPos(t)] = Newest({u \in Of("cs") :
                                              Same(u) /\ u.domain % MAXFCS = t.domain % MAXFCS})
  BY DEF StampsAreNewest
<1> DEFINE Same(u) == get_dir1_dir2(u.path) = get_dir1_dir2(t.path)
<1>1. \A k, u : u \in Of(k) => u \in Received /\ HasDirs(u.path) /\ u.ctime \in Nat
  BY StampAssumption DEF Of, StampInv
<1>2. FcsPos(t) \in DOMAIN fcs /\ CsPos(t) \in DOMAIN cs
  BY Places DEF StampInv
<1>3. \A u \in Of("fcs") : FcsPos(u) = FcsPos(t) <=> Same(u)
  BY <1>1, Places
<1>4. \A u \in Of("cs") :
        CsPos(u) = CsPos(t) <=> Same(u) /\ u.domain % MAXFCS = t.domain % MAXFCS
  BY <1>1, Places
<1> HIDE DEF Same
<1>5. fcs[FcsPos(t)] = Newest({u \in Of("fcs") : Same(u)})
  <2>1. PICK m \in Nat, S \in SUBSET Of("fcs") :
          /\ m = fcs[FcsPos(t)]
          /\ S = {u \in Of("fcs") : Same(u)}
          /\ IsNewest(m, S)
    <3>1. {u \in Of("fcs") : FcsPos(u) = FcsPos(t)} = {u \in Of("fcs") : Same(u)}
      BY <1>3
    <3>2. IsNewest(fcs[FcsPos(t)], {u \in Of("fcs") : FcsPos(u) = FcsPos(t)}) /\ fcs[FcsPos(t)] \in Nat
      BY <1>2 DEF StampInv
    <3>3. QED
      BY <3>1, <3>2
  <2>2. \A u \in S : u.ctime \in Nat
    BY <1>1, <2>1
  <2>3. Newest(S) = m
    BY <2>1, <2>2, NewestIs
  <2>4. QED
    BY <2>1, <2>3
<1>6. cs[CsPos(t)] = Newest({u \in Of("cs") : Same(u) /\ u.domain % MAXFCS = t.domain % MAXFCS})
  <2>1. PICK m \in Nat, S \in SUBSET Of("cs") :
          /\ m = cs[CsPos(t)]
          /\ S = {u \in Of("cs") : Same(u) /\ u.domain % MAXFCS = t.domain % MAXFCS}
          /\ IsNewest(m, S)
    <3>1. {u \in Of("cs") : CsPos(u) = CsPos(t)}
            = {u \in Of("cs") : Same(u) /\ u.domain % MAXFCS = t.domain % MAXFCS}
      BY <1>4
    <3>2. IsNewest(cs[CsPos(t)], {u \in Of("cs") : CsPos(u) = CsPos(t)}) /\ cs[CsPos(t)] \in Nat
      BY <1>2 DEF StampInv
    <3>3. QED
      BY <3>1, <3>2
  <2>2. \A u \in S : u.ctime \in Nat
    BY <1>1, <2>1
  <2>3. Newest(S) = m
    BY <2>1, <2>2, NewestIs
  <2>4. QED
    BY <2>1, <2>3
<1>7. QED
  BY <1>5, <1>6 DEF Same

(* A time stamp is that of the newest file recorded for it, whatever the   *)
(* number of directories and sources and the order of the files.           *)
THEOREM NewestStamps == StampSpec => []StampsAreNewest
<1>1. StampInit => StampInv
  BY StampStart
<1>2. StampInv /\ [StampNext]_stamps => StampInv'
  BY StampStep
<1>3. StampInv => StampsAreNewest
  BY ByPosition
<1>4. QED
  BY <1>1, <1>2, <1>3, PTL DEF StampSpec

-----------------------------------------------------------------------------
-----------------------------------------------------------------------------
\* Where a call puts a value: in front, with no integer yet.
LEMMA PutIs ==
  ASSUME NEW s \in Stores, NEW x \in Lines \cup Arguments
  PROVE  /\ myconfig_put_value(s, x) \in Stores
         /\ myconfig_put_value(s, x)[x.key] # <<>>
         /\ Head(myconfig_put_value(s, x)[x.key]) = [val |-> x.val, intval |-> -1]
         /\ Len(myconfig_put_value(s, x)[x.key]) = Len(s[x.key]) + 1
         /\ \A k \in AnyKey : k # x.key => myconfig_put_value(s, x)[k] = s[k]
<1> DEFINE e == [val |-> x.val, intval |-> -1]
<1>1. e \in Entry /\ x.key \in AnyKey
  BY DEF Entry, AnyVal, AnyKey
<1> HIDE DEF e
<1>2. s[x.key] \in Seq(Entry)
  BY <1>1 DEF Stores
<1>3. PICK q \in Seq(Entry) : q = s[x.key]
  BY <1>2
<1>4. <<e>> \o q \in Seq(Entry) /\ <<e>> \o q # <<>> /\ Head(<<e>> \o q) = e /\ Len(<<e>> \o q) = Len(q) + 1
  BY <1>1
<1>5. /\ myconfig_put_value(s, x) = [s EXCEPT ![x.key] = <<e>> \o q]
      /\ myconfig_put_value(s, x)[x.key] = <<e>> \o q
  BY <1>1, <1>3 DEF myconfig_put_value, Stores, e
<1>6. myconfig_put_value(s, x) \in Stores
  BY <1>1, <1>4, <1>5 DEF Stores
<1>7. QED
  BY <1>3, <1>4, <1>5, <1>6 DEF e, Stores

LEMMA DeleteIs ==
  ASSUME NEW s \in Stores, NEW x \in Lines \cup Arguments
  PROVE  /\ myconfig_delete_value(s, x) \in Stores
         /\ \A k \in AnyKey : k # x.key => myconfig_delete_value(s, x)[k] = s[k]
         /\ \A k \in AnyKey : myconfig_delete_value(s, x)[k] \in {s[k], <<>>}
         /\ ~x.capital => myconfig_delete_value(s, x)[x.key] = <<>>
<1>1. x.key \in AnyKey
  BY DEF AnyKey
<1>2. <<>> \in Seq(Entry)
  OBVIOUS
<1>3. CASE x.capital
  BY <1>1, <1>2, <1>3 DEF myconfig_delete_value, Stores
<1>4. CASE ~x.capital
  BY <1>1, <1>2, <1>4 DEF myconfig_delete_value, Stores
<1>5. QED
  BY <1>3, <1>4

\* A line read again puts its value in the place of the others, or nothing.
LEMMA LineIs ==
  ASSUME NEW s \in Stores, NEW x \in Lines, inited
  PROVE  /\ load_line(s, x) \in Stores
         /\ \A k \in AnyKey : ~(x.reloads /\ x.key = k) => load_line(s, x)[k] = s[k]
         /\ x.reloads =>
              /\ load_line(s, x)[x.key] # <<>>
              /\ Head(load_line(s, x)[x.key]) = [val |-> x.val, intval |-> -1]
              /\ ~x.capital => Len(load_line(s, x)[x.key]) = 1
<1>1. load_line(s, x) = IF x.reloads THEN myconfig_put_value(myconfig_delete_value(s, x), x) ELSE s
  BY DEF load_line, reload_line
<1>2. PICK d \in Stores : d = myconfig_delete_value(s, x)
  BY DeleteIs
<1>3. /\ \A k \in AnyKey : k # x.key => d[k] = s[k]
      /\ ~x.capital => d[x.key] = <<>>
  BY <1>2, DeleteIs
<1>4. /\ myconfig_put_value(d, x) \in Stores
      /\ myconfig_put_value(d, x)[x.key] # <<>>
      /\ Head(myconfig_put_value(d, x)[x.key]) = [val |-> x.val, intval |-> -1]
      /\ Len(myconfig_put_value(d, x)[x.key]) = Len(d[x.key]) + 1
      /\ \A k \in AnyKey : k # x.key => myconfig_put_value(d, x)[k] = d[k]
  BY PutIs
<1>5. CASE x.reloads
  <2>1. load_line(s, x) = myconfig_put_value(d, x)
    BY <1>1, <1>2, <1>5
  <2>2. \A k \in AnyKey : k # x.key => load_line(s, x)[k] = s[k]
    BY <1>3, <1>4, <2>1
  <2>3. Len(load_line(s, x)[x.key]) = Len(d[x.key]) + 1
    BY <1>4, <2>1
  <2>4. ~x.capital => Len(load_line(s, x)[x.key]) = 1
    <3>1. CASE ~x.capital
      <4>1. d[x.key] = <<>>
        BY <1>3, <3>1
      <4>2. QED
        BY <2>3, <4>1
    <3>2. CASE x.capital
      BY <3>2
    <3>3. QED
      BY <3>1, <3>2
  <2>5. QED
    BY <1>4, <1>5, <2>1, <2>2, <2>4
<1>6. CASE ~x.reloads
  <2>1. load_line(s, x) = s
    BY <1>1, <1>6
  <2>2. QED
    BY <1>6, <2>1
<1>7. QED
  BY <1>5, <1>6

\* What m lines of a file have made of s, for the key k.
Again(lines, m, k) == {i \in 1..m : lines[i].reloads /\ lines[i].key = k}
Made(t, s, lines, m, k) ==
  /\ Again(lines, m, k) = {} => t[k] = s[k]
  /\ Again(lines, m, k) # {} => t[k] # <<>> /\ Head(t[k]).intval = -1
  /\ \A i \in Again(lines, m, k) : (\A j \in Again(lines, m, k) : j <= i) =>
       /\ t[k] # <<>> /\ Head(t[k]).val = lines[i].val
       /\ ~lines[i].capital => Len(t[k]) = 1

\* One line more.
LEMMA OneLine ==
  ASSUME inited, NEW lines \in Seq(Lines), NEW m \in Nat, m + 1 <= Len(lines),
         NEW s \in Stores, NEW t \in Stores, NEW k \in AnyKey, Made(t, s, lines, m, k)
  PROVE  Made(load_line(t, lines[m + 1]), s, lines, m + 1, k)
<1>1. PICK x \in Lines : x = lines[m + 1]
  OBVIOUS
<1>2. PICK u \in Stores : u = load_line(t, x)
  BY LineIs
<1>3. /\ \A c \in AnyKey : ~(x.reloads /\ x.key = c) => u[c] = t[c]
      /\ x.reloads => /\ u[x.key] # <<>>
                      /\ Head(u[x.key]) = [val |-> x.val, intval |-> -1]
                      /\ ~x.capital => Len(u[x.key]) = 1
  BY <1>2, LineIs
<1>4. CASE x.reloads /\ x.key = k
  <2>1. m + 1 \in Again(lines, m + 1, k) /\ \A i \in Again(lines, m + 1, k) : i <= m + 1
    BY <1>1, <1>4 DEF Again
  <2>2. u[k] # <<>> /\ Head(u[k]).intval = -1 /\ Head(u[k]).val = x.val
    BY <1>3, <1>4
  <2>3. ~x.capital => Len(u[k]) = 1
    BY <1>3, <1>4
  <2>4. ASSUME NEW i \in Again(lines, m + 1, k), \A j \in Again(lines, m + 1, k) : j <= i
        PROVE  i = m + 1
    BY <2>1, <2>4 DEF Again
  <2>5. Made(u, s, lines, m + 1, k)
    BY <1>1, <2>1, <2>2, <2>3, <2>4 DEF Made
  <2>6. QED
    BY <1>1, <1>2, <2>5
<1>5. CASE ~(x.reloads /\ x.key = k)
  <2>1. Again(lines, m + 1, k) = Again(lines, m, k)
    BY <1>1, <1>5 DEF Again
  <2>2. u[k] = t[k]
    BY <1>3, <1>5
  <2>3. Made(u, s, lines, m + 1, k)
    BY <2>1, <2>2 DEF Made
  <2>4. QED
    BY <1>1, <1>2, <2>3
<1>6. QED
  BY <1>4, <1>5


LEMMA LineFits ==
  ASSUME NEW s \in Stores, NEW x \in Lines
  PROVE  load_line(s, x) \in Stores
<1>1. CASE inited
  BY <1>1, LineIs
<1>2. CASE ~inited
  BY <1>2, PutIs DEF load_line
<1>3. QED
  BY <1>1, <1>2

\* A file is read line by line.
LEMMA FileSteps ==
  ASSUME NEW lines \in Seq(Lines), NEW s \in Stores
  PROVE  \E f \in [0..Len(lines) -> Stores] :
           /\ f[0] = s
           /\ \A i \in 1..Len(lines) : f[i] = load_line(f[i - 1], lines[i])
           /\ myconfig_loadfile0(s, lines) = f[Len(lines)]
<1> DEFINE n == Len(lines)
           upto[i \in 0..n] == IF i = 0 THEN s ELSE load_line(upto[i - 1], lines[i])
           G == [p \in Stores \X (1..n) |-> load_line(p[1], lines[p[2]])]
<1>1. n \in Nat
  OBVIOUS
<1>2. \A i \in 1..n : lines[i] \in Lines
  OBVIOUS
<1>3. G \in [Stores \X (1..n) -> Stores]
  BY <1>2, LineFits
<1>4. \A t \in Stores, i \in 1..n : G[<<t, i>>] = load_line(t, lines[i])
  OBVIOUS
<1>5. PICK f \in [0..n -> Stores] : f[0] = s /\ \A i \in 1..n : f[i] = G[<<f[i - 1], i>>]
  <2>1. \E H : H = G
    OBVIOUS
  <2>2. PICK H : H = G
    BY <2>1
  <2> HIDE DEF G, n
  <2>3. H \in [Stores \X (1..n) -> Stores]
    BY <1>3, <2>2
  <2>4. CanGo(Stores, n, s, H)
    BY ONLY n \in Nat, s \in Stores, <1>1, <2>3, Steps
  <2>5. QED
    BY <2>2, <2>4 DEF CanGo
<1>6. \A i \in 1..n : f[i - 1] \in Stores /\ f[i] = load_line(f[i - 1], lines[i])
  <2> HIDE DEF G
  <2>1. \A i \in 1..n : f[i - 1] \in Stores
    BY <1>1, <1>5
  <2>2. QED
    BY <1>4, <1>5, <2>1
<1>7. f = [i \in 0..n |-> IF i = 0 THEN s ELSE load_line(f[i - 1], lines[i])]
  <2> HIDE DEF G, n
  <2>1. QED
    BY <1>1, <1>5, <1>6
<1>8. upto = [i \in 0..n |-> IF i = 0 THEN s ELSE load_line(upto[i - 1], lines[i])]
  BY <1>7
<1>9. myconfig_loadfile0(s, lines) = upto[n]
  BY DEF myconfig_loadfile0
<1> HIDE DEF upto, G, n
<1>10. ASSUME NEW g, g = [i \in 0..n |-> IF i = 0 THEN s ELSE load_line(g[i - 1], lines[i])]
       PROVE  g \in [0..n -> Stores]
  <2> DEFINE S == {m \in Nat : m <= n => g[m] \in Stores}
  <2>1. 0 \in S
    BY <1>1, <1>10
  <2>2. ASSUME NEW m \in Nat, m \in S PROVE m + 1 \in S
    <3>1. SUFFICES ASSUME m + 1 <= n PROVE g[m + 1] \in Stores
      OBVIOUS
    <3>2. g[m] \in Stores /\ lines[m + 1] \in Lines
      BY <1>1, <1>2, <2>2, <3>1
    <3>3. g[m + 1] = load_line(g[m], lines[m + 1])
      <4>1. m + 1 \in 0..n /\ m + 1 # 0 /\ (m + 1) - 1 = m
        BY <1>1, <3>1
      <4>2. g[m + 1] = load_line(g[(m + 1) - 1], lines[m + 1])
        BY <1>10, <4>1
      <4>3. QED
        BY <4>1, <4>2
    <3>4. QED
      BY <3>2, <3>3, LineFits
  <2> HIDE DEF S
  <2>3. \A m \in Nat : m \in S
    BY <2>1, <2>2, SetInduction
  <2>4. QED
    BY <1>1, <1>10, <2>3 DEF S
<1>11. PICK g \in [0..n -> Stores] : g = upto
  BY <1>8, <1>10
<1>12. g[0] = s /\ \A i \in 1..n : g[i] = load_line(g[i - 1], lines[i])
  BY <1>1, <1>8, <1>11
<1>13. QED
  BY <1>9, <1>11, <1>12 DEF n

\* A file read again.
LEMMA FileIs ==
  ASSUME inited, NEW lines \in Seq(Lines), NEW s \in Stores
  PROVE  /\ myconfig_loadfile0(s, lines) \in Stores
         /\ \A k \in AnyKey : Made(myconfig_loadfile0(s, lines), s, lines, Len(lines), k)
<1>1. PICK n \in Nat : n = Len(lines)
  OBVIOUS
<1>2. PICK f \in [0..n -> Stores] :
        /\ f[0] = s
        /\ \A i \in 1..n : f[i] = load_line(f[i - 1], lines[i])
        /\ myconfig_loadfile0(s, lines) = f[n]
  BY <1>1, FileSteps
<1> DEFINE S == {m \in Nat : m <= n => \A k \in AnyKey : Made(f[m], s, lines, m, k)}
<1>3. 0 \in S
  <2>1. ASSUME NEW k \in AnyKey PROVE Made(f[0], s, lines, 0, k)
    BY <1>2 DEF Made, Again
  <2>2. QED
    BY <2>1
<1>4. ASSUME NEW m \in Nat, m \in S PROVE m + 1 \in S
  <2>1. SUFFICES ASSUME m + 1 <= n, NEW k \in AnyKey PROVE Made(f[m + 1], s, lines, m + 1, k)
    OBVIOUS
  <2>2. PICK t \in Stores : t = f[m]
    BY <1>2, <2>1
  <2>3. Made(t, s, lines, m, k) /\ m + 1 <= Len(lines)
    BY <1>1, <1>4, <2>1, <2>2
  <2>4. Made(load_line(t, lines[m + 1]), s, lines, m + 1, k)
    BY <2>3, OneLine
  <2>5. m + 1 \in 1..n /\ (m + 1) - 1 = m
    BY <2>1
  <2>6. f[m + 1] = load_line(t, lines[m + 1])
    BY <1>2, <2>2, <2>5
  <2>7. QED
    BY <2>4, <2>6
<1> HIDE DEF S
<1>5. n \in S
  BY <1>3, <1>4, SetInduction
<1>6. QED
  BY <1>1, <1>2, <1>5 DEF S

\* Nothing has been asked for while the configuration is first read.
Fresh(t) == \A k \in AnyKey : t[k] # <<>> => Head(t[k]).intval = -1

LEMMA FreshLine ==
  ASSUME ~inited, NEW s \in Stores, Fresh(s), NEW x \in Lines
  PROVE  Fresh(load_line(s, x))
<1>1. load_line(s, x) = myconfig_put_value(s, x)
  BY DEF load_line
<1>2. PICK u \in Stores : u = myconfig_put_value(s, x)
  BY PutIs
<1>3. /\ Head(u[x.key]) = [val |-> x.val, intval |-> -1]
      /\ \A k \in AnyKey : k # x.key => u[k] = s[k]
  BY <1>2, PutIs
<1>4. Fresh(u)
  BY <1>3 DEF Fresh
<1>5. QED
  BY <1>1, <1>2, <1>4

LEMMA FreshFile ==
  ASSUME ~inited, NEW lines \in Seq(Lines), NEW s \in Stores, Fresh(s)
  PROVE  myconfig_loadfile0(s, lines) \in Stores /\ Fresh(myconfig_loadfile0(s, lines))
<1>1. PICK n \in Nat : n = Len(lines)
  OBVIOUS
<1>2. PICK f \in [0..n -> Stores] :
        /\ f[0] = s
        /\ \A i \in 1..n : f[i] = load_line(f[i - 1], lines[i])
        /\ myconfig_loadfile0(s, lines) = f[n]
  BY <1>1, FileSteps
<1> DEFINE S == {m \in Nat : m <= n => Fresh(f[m])}
<1>3. 0 \in S
  BY <1>2
<1>4. ASSUME NEW m \in Nat, m \in S PROVE m + 1 \in S
  <2>1. SUFFICES ASSUME m + 1 <= n PROVE Fresh(f[m + 1])
    OBVIOUS
  <2>2. PICK t \in Stores : t = f[m] /\ Fresh(t)
    BY <1>2, <1>4, <2>1
  <2>3. m + 1 \in 1..n /\ (m + 1) - 1 = m
    BY <2>1
  <2>4. f[m + 1] = load_line(t, lines[m + 1]) /\ lines[m + 1] \in Lines
    BY <1>1, <1>2, <2>2, <2>3
  <2>5. QED
    BY <2>2, <2>4, FreshLine
<1> HIDE DEF S
<1>5. n \in S
  BY <1>3, <1>4, SetInduction
<1>6. QED
  BY <1>1, <1>2, <1>5 DEF S

\* The same of the arguments.
LEMMA ArgumentFits ==
  ASSUME NEW s \in Stores, NEW x \in Arguments
  PROVE  argument(s, x) \in Stores /\ (Fresh(s) => Fresh(argument(s, x)))
<1>1. PICK d \in Stores : d = IF x.replace THEN myconfig_delete_value(s, x) ELSE s
  BY DeleteIs
<1>2. Fresh(s) => Fresh(d)
  <2>1. \A k \in AnyKey : d[k] \in {s[k], <<>>}
    BY <1>1, DeleteIs
  <2>2. QED
    BY <2>1 DEF Fresh
<1>3. argument(s, x) = IF x.val = NULL THEN d ELSE myconfig_put_value(d, x)
  BY <1>1 DEF argument
<1>4. PICK u \in Stores : u = myconfig_put_value(d, x)
  BY PutIs
<1>5. /\ Head(u[x.key]) = [val |-> x.val, intval |-> -1]
      /\ \A k \in AnyKey : k # x.key => u[k] = d[k]
  BY <1>4, PutIs
<1>6. Fresh(d) => Fresh(u)
  BY <1>5 DEF Fresh
<1>7. QED
  BY <1>2, <1>3, <1>4, <1>6

LEMMA FreshArguments ==
  ASSUME NEW argv \in Seq(Arguments), NEW s \in Stores, Fresh(s)
  PROVE  arguments(s, argv) \in Stores /\ Fresh(arguments(s, argv))
<1> DEFINE n == Len(argv)
           X == {t \in Stores : Fresh(t)}
           upto[i \in 0..n] == IF i = 0 THEN s ELSE argument(upto[i - 1], argv[i])
           G == [p \in X \X (1..n) |-> argument(p[1], argv[p[2]])]
<1>1. n \in Nat /\ s \in X
  OBVIOUS
<1>2. \A i \in 1..n : argv[i] \in Arguments
  OBVIOUS
<1>3. G \in [X \X (1..n) -> X]
  BY <1>2, ArgumentFits
<1>4. \A t \in X, i \in 1..n : G[<<t, i>>] = argument(t, argv[i])
  OBVIOUS
<1>5. \A t \in X, i \in 1..n : argument(t, argv[i]) \in X
  BY <1>2, ArgumentFits
<1>6. PICK f \in [0..n -> X] : f[0] = s /\ \A i \in 1..n : f[i] = G[<<f[i - 1], i>>]
  <2>1. \E H, Y : H = G /\ Y = X
    OBVIOUS
  <2>2. PICK H, Y : H = G /\ Y = X
    BY <2>1
  <2> HIDE DEF G, n, X
  <2>3. H \in [Y \X (1..n) -> Y] /\ s \in Y
    BY <1>1, <1>3, <2>2
  <2>4. CanGo(Y, n, s, H)
    BY ONLY <1>1, <2>3, Steps
  <2>5. QED
    BY <2>2, <2>4 DEF CanGo
<1>7. \A i \in 1..n : f[i] = argument(f[i - 1], argv[i])
  <2> HIDE DEF G, X
  <2>1. \A i \in 1..n : f[i - 1] \in X
    BY <1>1, <1>6
  <2>2. QED
    BY <1>4, <1>6, <2>1
<1>8. f = [i \in 0..n |-> IF i = 0 THEN s ELSE argument(f[i - 1], argv[i])]
  <2> HIDE DEF G, n, X
  <2>1. QED
    BY <1>1, <1>6, <1>7
<1>9. upto = [i \in 0..n |-> IF i = 0 THEN s ELSE argument(upto[i - 1], argv[i])]
  BY <1>8
<1>10. arguments(s, argv) = upto[n]
  BY DEF arguments
<1> HIDE DEF upto, G, n, X
<1> DEFINE S == {m \in Nat : m <= n => upto[m] \in X}
<1>11. 0 \in S
  BY <1>1, <1>9
<1>12. ASSUME NEW m \in Nat, m \in S PROVE m + 1 \in S
  <2>1. SUFFICES ASSUME m + 1 <= n PROVE upto[m + 1] \in X
    OBVIOUS
  <2>2. m + 1 \in 1..n /\ m + 1 # 0 /\ (m + 1) - 1 = m /\ m + 1 \in 0..n /\ upto[m] \in X
    BY <1>1, <1>12, <2>1
  <2>3. upto[m + 1] = argument(upto[(m + 1) - 1], argv[m + 1])
    BY <1>9, <2>2
  <2>4. QED
    BY <1>5, <2>2, <2>3
<1> HIDE DEF S
<1>13. n \in S
  BY <1>1, <1>11, <1>12, SetInduction
<1>14. QED
  BY <1>1, <1>10, <1>13 DEF S, X

LEMMA ConfigStart == ConfigInit => ConfigInv
<1>1. <<>> \in Seq(Entry)
  OBVIOUS
<1>2. QED
  BY <1>1 DEF ConfigInit, ConfigInv, Stores

\* What is read as an integer is one, whatever the default.
LEMMA Integers1 ==
  ASSUME NEW v \in AnyVal, NEW def \in Int
  PROVE  /\ AsInteger(v, def) \in Int
         /\ AsInteger(v, def) = def \/ \A d \in Int : AsInteger(v, def) = AsInteger(v, d)
<1>1. v.num \in Int
  BY ConfigAssumption DEF AnyVal
<1>2. CASE v.word = ""
  BY <1>1, <1>2 DEF AsInteger
<1>3. CASE v.word \in {"on", "yes", "true", "enable", "enabled"}
  BY <1>3 DEF AsInteger
<1>4. CASE v.word \in {"off", "no", "false", "disable", "disabled"}
  BY <1>4 DEF AsInteger
<1>5. CASE ~(\/ v.word = "" \/ v.word \in {"on", "yes", "true", "enable", "enabled"}
            \/ v.word \in {"off", "no", "false", "disable", "disabled"})
  BY <1>5 DEF AsInteger
<1>6. QED
  BY <1>2, <1>3, <1>4, <1>5

\* The first value of a key is another one, or has an integer now.
LEMMA FirstIs ==
  ASSUME NEW q \in Seq(Entry), q # <<>>, NEW v \in AnyVal, NEW n \in Int
  PROVE  /\ Head(q) = q[1] /\ Head(q) \in Entry
         /\ [q EXCEPT ![1].val = v] \in Seq(Entry)
         /\ [q EXCEPT ![1].intval = n] \in Seq(Entry)
         /\ [q EXCEPT ![1].intval = n] # <<>>
         /\ Head([q EXCEPT ![1].intval = n]) = [val |-> Head(q).val, intval |-> n]
<1>1. q[1] \in Entry /\ Len(q) \in Nat \ {0} /\ Head(q) = q[1]
  OBVIOUS
<1>2. [q[1] EXCEPT !.val = v] \in Entry /\ [q[1] EXCEPT !.intval = n] \in Entry
  BY <1>1 DEF Entry
<1>3. PICK a \in Entry, b \in Entry : a = [q[1] EXCEPT !.val = v] /\ b = [q[1] EXCEPT !.intval = n]
  BY <1>2
<1>4. [q EXCEPT ![1].val = v] = [q EXCEPT ![1] = a] /\ [q EXCEPT ![1].intval = n] = [q EXCEPT ![1] = b]
  BY <1>1, <1>3
<1>5. [q EXCEPT ![1] = a] \in Seq(Entry)
  BY <1>1
<1>6. [q EXCEPT ![1] = b] \in Seq(Entry) /\ [q EXCEPT ![1] = b] # <<>> /\ Head([q EXCEPT ![1] = b]) = b
  BY <1>1
<1>7. b = [val |-> q[1].val, intval |-> n]
  BY <1>1, <1>3 DEF Entry
<1>8. QED
  BY <1>1, <1>4, <1>5, <1>6, <1>7

LEMMA ConfigStep == ConfigInv /\ [ConfigNext]_config => ConfigInv'
<1> SUFFICES ASSUME ConfigInv, [ConfigNext]_config PROVE ConfigInv'
  OBVIOUS
<1> USE DEF ConfigInv
<1>1. ASSUME NEW k \in Asked, myconfig_get_intval(k) PROVE ConfigInv'
  <2>1. k \in AnyKey
    BY DEF AnyKey
  <2>2. PICK q \in Seq(Entry) : q = store[k]
    BY <2>1 DEF Stores
  <2>3. q # <<>> /\ inited /\ UNCHANGED <<inited, updated>>
    BY <1>1, <2>2 DEF myconfig_get_intval
  <2>4. Head(q) \in Entry
    BY <2>3
  <2>5. PICK e \in Entry : e = Head(q)
    BY <2>4
  <2>6. e.val \in AnyVal /\ e.intval \in Int
    BY <2>5 DEF Entry
  <2>7. intval_of(store, k, -1) = IF e.intval = -1 THEN AsInteger(e.val, -1) ELSE e.intval
    BY <2>2, <2>3, <2>5 DEF intval_of
  <2>8. PICK n \in Int : n = intval_of(store, k, -1)
    BY <2>6, <2>7, Integers1
  <2>9. PICK r \in Seq(Entry) : /\ r = [q EXCEPT ![1].intval = n]
                               /\ r # <<>> /\ Head(r) = [val |-> e.val, intval |-> n]
    BY <2>3, <2>5, <2>6, FirstIs
  <2>10. store' = [store EXCEPT ![k] = r]
    BY <1>1, <2>1, <2>2, <2>8, <2>9 DEF myconfig_get_intval, Stores
  <2>11. store' \in Stores /\ store'[k] = r /\ \A c \in AnyKey : c # k => store'[c] = store[c]
    BY <2>1, <2>10 DEF Stores
  <2>12. k \notin updated => Current(Head(r))
    <3>1. SUFFICES ASSUME Current(e) PROVE Current(Head(r))
      BY <2>1, <2>2, <2>3, <2>5
    <3>2. Head(r).intval = n /\ Head(r).val = e.val
      BY <2>9
    <3>3. n = -1 \/ \A d \in Int : n = AsInteger(e.val, d)
      <4>1. CASE e.intval = -1
        BY <2>6, <2>7, <2>8, <4>1, Integers1
      <4>2. CASE e.intval # -1
        BY <2>7, <2>8, <3>1, <4>2 DEF Current
      <4>3. QED
        BY <4>1, <4>2
    <3>4. QED
      BY <3>2, <3>3 DEF Current
  <2>13. QED
    BY <2>3, <2>11, <2>12
<1>2. ASSUME NEW x \in Arguments, myconfig_update_value(x) PROVE ConfigInv'
  <2>1. x.key \in AnyKey /\ x.val \in AnyVal /\ inited /\ inited' = inited
    BY <1>2 DEF AnyKey, AnyVal, myconfig_update_value
  <2>2. CASE x.capital \/ store[x.key] = <<>>
    <3>1. PICK u \in Stores : u = myconfig_put_value(store, x)
      BY PutIs
    <3>2. /\ Head(u[x.key]) = [val |-> x.val, intval |-> -1]
          /\ \A k \in AnyKey : k # x.key => u[k] = store[k]
      BY <3>1, PutIs
    <3>3. store' = u /\ updated' = updated \ {x.key}
      BY <1>2, <2>2, <3>1 DEF myconfig_update_value
    <3>4. QED
      BY <2>1, <3>2, <3>3 DEF Current
  <2>3. CASE ~(x.capital \/ store[x.key] = <<>>)
    <3>1. store' = [store EXCEPT ![x.key][1].val = x.val] /\ updated' = updated \cup {x.key}
      BY <1>2, <2>3 DEF myconfig_update_value
    <3>2. PICK q \in Seq(Entry) : q = store[x.key] /\ q # <<>>
      BY <2>1, <2>3 DEF Stores
    <3>3. 0 \in Int
      OBVIOUS
    <3>4. PICK r \in Seq(Entry) : r = [q EXCEPT ![1].val = x.val]
      BY <2>1, <3>2, <3>3, FirstIs
    <3>5. store' = [store EXCEPT ![x.key] = r]
      BY <2>1, <3>1, <3>2, <3>4 DEF Stores
    <3>6. store' \in Stores /\ \A k \in AnyKey : k # x.key => store'[k] = store[k]
      BY <2>1, <3>5 DEF Stores
    <3>7. QED
      BY <2>1, <3>1, <3>6
  <2>4. QED
    BY <2>2, <2>3
<1>3. ASSUME NEW lines \in Seq(Lines), myconfig_reload(lines) PROVE ConfigInv'
  <2>1. PICK t \in Stores : t = myconfig_loadfile0(store, lines) /\ store' = t
    BY <1>3, FileIs DEF myconfig_reload
  <2>2. \A k \in AnyKey : Made(t, store, lines, Len(lines), k)
    BY <1>3, <2>1, FileIs DEF myconfig_reload
  <2>3. inited /\ inited' = inited
    BY <1>3 DEF myconfig_reload
  <2>4. \A k \in AnyKey : Again(lines, Len(lines), k) = {} /\ k \notin updated' => k \notin updated
    <3>1. SUFFICES ASSUME NEW k \in AnyKey, k \in updated, k \notin updated'
                   PROVE  Again(lines, Len(lines), k) # {}
      OBVIOUS
    <3>2. PICK i \in DOMAIN lines : lines[i].reloads /\ lines[i].key = k
      BY <1>3, <3>1 DEF myconfig_reload
    <3>3. QED
      BY <3>2 DEF Again
  <2>5. ASSUME NEW k \in AnyKey, k \notin updated', t[k] # <<>> PROVE Current(Head(t[k]))
    <3>1. CASE Again(lines, Len(lines), k) = {}
      BY <2>2, <2>4, <2>5, <3>1 DEF Made
    <3>2. CASE Again(lines, Len(lines), k) # {}
      BY <2>2, <3>2 DEF Made, Current
    <3>3. QED
      BY <3>1, <3>2
  <2>6. QED
    BY <2>1, <2>3, <2>5
<1>4. ASSUME NEW lines \in Seq(Lines), NEW argv \in Seq(Arguments), myconfig_init(lines, argv)
      PROVE  ConfigInv'
  <2>1. ~inited /\ Fresh(store)
    BY <1>4 DEF myconfig_init, Fresh
  <2>2. PICK t \in Stores : t = myconfig_loadfile0(store, lines) /\ Fresh(t)
    BY <2>1, FreshFile
  <2>3. PICK u \in Stores : u = arguments(t, argv) /\ Fresh(u)
    BY <2>2, FreshArguments
  <2>4. store' = u /\ inited' = TRUE /\ updated' = updated
    BY <1>4, <2>2, <2>3 DEF myconfig_init
  <2>5. QED
    BY <2>3, <2>4 DEF Fresh, Current
<1>5. CASE UNCHANGED config
  BY <1>5 DEF config
<1>6. ASSUME NEW S, NEW n \in Nat PROVE UpToMany(S, n) \subseteq Seq(S)
  BY DEF UpToMany
<1>7. UpToMany(Lines, MaxLines) \subseteq Seq(Lines) /\ UpToMany(Arguments, MaxArgs) \subseteq Seq(Arguments)
  BY <1>6, ConfigAssumption
<1>8. QED
  BY <1>1, <1>2, <1>3, <1>4, <1>5, <1>7 DEF ConfigNext

(* A look-up of an integer answers by the value that is set now.           *)
THEOREM CachedIntegers == ConfigSpec => []IntegerIsCurrent
<1>1. ConfigInv => IntegerIsCurrent
  <2> SUFFICES ASSUME ConfigInv, NEW k \in Asked \ updated, NEW def \in Defaults
               PROVE  intval_of(store, k, def) = AsInteger(myconfig_get_value(store, k), def)
    BY DEF IntegerIsCurrent
  <2>1. k \in AnyKey /\ def \in Int
    BY ConfigAssumption DEF AnyKey
  <2>2. CASE store[k] = <<>>
    BY <2>2 DEF intval_of, myconfig_get_value, AsInteger, NULL
  <2>3. CASE store[k] # <<>>
    <3>1. Current(Head(store[k]))
      BY <2>1, <2>3 DEF ConfigInv
    <3>2. QED
      BY <2>1, <2>3, <3>1 DEF intval_of, myconfig_get_value, Current
  <2>4. QED
    BY <2>2, <2>3
<1>2. QED
  BY <1>1, ConfigStart, ConfigStep, PTL DEF ConfigSpec

(* A reload sets what the lines of the file say and nothing else.          *)
THEOREM ReloadSets == ConfigSpec => ReloadIsExact
<1> DEFINE A == reloads' # reloads => \A k \in AnyKey :
       LET again == {i \in DOMAIN loaded' : loaded'[i].reloads /\ loaded'[i].key = k}
       IN  /\ again = {} => store'[k] = store[k]
           /\ \A i \in again : (\A j \in again : j <= i) =>
                /\ myconfig_get_value(store', k) = loaded'[i].val
                /\ ~loaded'[i].capital => myconfig_get_multivalue(store', k, 1) = NULL
<1>1. ConfigInv /\ [ConfigNext]_config => A
  <2> SUFFICES ASSUME ConfigInv, [ConfigNext]_config, reloads' # reloads PROVE A
    OBVIOUS
  <2>1. PICK lines \in UpToMany(Lines, MaxLines) : myconfig_reload(lines)
    BY DEF ConfigNext, config, myconfig_get_intval, myconfig_update_value, myconfig_init
  <2>2. lines \in Seq(Lines)
    BY ConfigAssumption DEF UpToMany
  <2>3. store \in Stores /\ inited /\ loaded' = lines /\ store' = myconfig_loadfile0(store, lines)
    BY <2>1 DEF myconfig_reload, ConfigInv
  <2>4. PICK t \in Stores : t = store' /\ \A k \in AnyKey : Made(t, store, lines, Len(lines), k)
    BY <2>2, <2>3, FileIs
  <2>5. ASSUME NEW k \in AnyKey
        PROVE  LET again == {i \in DOMAIN lines : lines[i].reloads /\ lines[i].key = k}
               IN  /\ again = {} => t[k] = store[k]
                   /\ \A i \in again : (\A j \in again : j <= i) =>
                        /\ myconfig_get_value(t, k) = lines[i].val
                        /\ ~lines[i].capital => myconfig_get_multivalue(t, k, 1) = NULL
    <3>1. {i \in DOMAIN lines : lines[i].reloads /\ lines[i].key = k} = Again(lines, Len(lines), k)
      BY <2>2 DEF Again
    <3>2. Made(t, store, lines, Len(lines), k)
      BY <2>4
    <3>3. ASSUME NEW i \in Again(lines, Len(lines), k), \A j \in Again(lines, Len(lines), k) : j <= i
          PROVE  /\ myconfig_get_value(t, k) = lines[i].val
                 /\ ~lines[i].capital => myconfig_get_multivalue(t, k, 1) = NULL
      <4>1. t[k] # <<>> /\ Head(t[k]).val = lines[i].val /\ (~lines[i].capital => Len(t[k]) = 1)
        BY <3>2, <3>3 DEF Made
      <4>2. myconfig_get_value(t, k) = lines[i].val
        BY <4>1 DEF myconfig_get_value
      <4>3. ASSUME ~lines[i].capital PROVE myconfig_get_multivalue(t, k, 1) = NULL
        <5>1. Len(t[k]) = 1
          BY <4>1, <4>3
        <5>2. QED
          BY <5>1 DEF myconfig_get_multivalue
      <4>4. QED
        BY <4>2, <4>3
    <3>4. QED
      BY <3>1, <3>2, <3>3 DEF Made
  <2>6. QED
    BY <2>3, <2>4, <2>5
<1> HIDE DEF A
<1>2. ConfigInv /\ [ConfigNext]_config => [A]_config
  BY <1>1
<1>3. QED
  BY <1>2, ConfigStart, ConfigStep, PTL DEF ConfigSpec, ReloadIsExact, A

-----------------------------------------------------------------------------
\* A walk along links that lead on, to the first of S, exists.
CanWalk(N, nx, S, X) ==
  \E f \in [0..N - 1 -> X] :
     f = [i \in 0..N - 1 |-> IF i \in S THEN {i} ELSE IF nx[i] = 0 THEN {} ELSE f[nx[i]]]

LEMMA Walks ==
  ASSUME NEW N \in Nat, NEW nx \in [0..N - 1 -> 0..N - 1],
         \A i \in 0..N - 1 : nx[i] # 0 => i < nx[i], NEW S
  PROVE  CanWalk(N, nx, S, SUBSET (0..N - 1))
<1> DEFINE X == SUBSET (0..N - 1)
           Step(f, i) == IF i \in S THEN {i} ELSE IF nx[i] = 0 THEN {} ELSE f[nx[i]]
           Done(f, m) == \A i \in 0..N - 1 : i >= N - m => f[i] = Step(f, i)
           D == {m \in Nat : \E f \in [0..N - 1 -> X] : Done(f, m)}
<1>1. 0 \in D
  <2>1. [i \in 0..N - 1 |-> {}] \in [0..N - 1 -> X]
    OBVIOUS
  <2>2. Done([i \in 0..N - 1 |-> {}], 0)
    OBVIOUS
  <2>3. QED
    BY <2>1, <2>2
<1>2. ASSUME NEW m \in Nat, m \in D PROVE m + 1 \in D
  <2>1. PICK f \in [0..N - 1 -> X] : Done(f, m)
    BY <1>2
  <2>2. CASE m + 1 > N
    <3>1. \A i \in 0..N - 1 : i >= N - m
      BY <2>2
    <3>2. \A i \in 0..N - 1 : f[i] = Step(f, i)
      BY <2>1, <3>1
    <3>3. Done(f, m + 1)
      BY <3>2
    <3>4. \E h \in [0..N - 1 -> X] : Done(h, m + 1)
      BY <2>1, <3>3
    <3>5. m + 1 \in Nat
      BY <1>2
    <3> HIDE DEF Done, X
    <3>6. QED
      BY <3>4, <3>5
  <2>3. CASE m + 1 <= N
    <3>1. PICK p \in 0..N - 1 : p = N - (m + 1)
      BY <2>3
    <3>2. Step(f, p) \in X
      BY <3>1
    <3>3. PICK v \in X : v = Step(f, p)
      BY <3>2
    <3> DEFINE g == [i \in 0..N - 1 |-> IF i = p THEN v ELSE f[i]]
    <3>4. g \in [0..N - 1 -> X]
      BY <2>1, <3>3
    <3>5. ASSUME NEW i \in 0..N - 1, i >= N - (m + 1) PROVE g[i] = Step(g, i)
      <4>1. i >= p
        BY <3>1, <3>5
      <4>2. nx[i] # 0 => nx[i] \in 0..N - 1 /\ nx[i] # p
        BY <3>1, <4>1
      <4>3. Step(g, i) = Step(f, i)
        BY <4>2
      <4>4. CASE i = p
        BY <3>3, <4>3, <4>4
      <4>5. CASE i # p
        <5>1. i >= N - m
          BY <3>1, <3>5, <4>5
        <5>2. f[i] = Step(f, i) /\ g[i] = f[i]
          BY <2>1, <4>5, <5>1
        <5>3. QED
          BY <4>3, <5>2
      <4>6. QED
        BY <4>4, <4>5
    <3>6. Done(g, m + 1)
      BY <3>5
    <3> HIDE DEF g
    <3>7. \E h \in [0..N - 1 -> X] : Done(h, m + 1)
      BY <3>4, <3>6
    <3>8. m + 1 \in Nat
      BY <1>2
    <3> HIDE DEF Done, X
    <3>9. QED
      BY <3>7, <3>8
  <2>4. m + 1 > N \/ m + 1 <= N
    OBVIOUS
  <2>5. QED
    BY <2>2, <2>3, <2>4
<1> HIDE DEF D
<1>3. N \in D
  BY <1>1, <1>2, SetInduction
<1>4. PICK f \in [0..N - 1 -> X] : Done(f, N)
  BY <1>3 DEF D
<1>5. f = [i \in 0..N - 1 |-> IF i \in S THEN {i} ELSE IF nx[i] = 0 THEN {} ELSE f[nx[i]]]
  BY <1>4
<1>6. QED
  BY <1>5 DEF CanWalk

\* What a walk stops at is in S, and in use.
LEMMA StopsInUse ==
  ASSUME ShmAssumption, NEW t \in Segment, LinksLeadOn(t), NEW k \in Keys, NEW S
  PROVE  FirstOf(t, k, S) \subseteq S \cap (0..Used(t) - 1)
<1> DEFINE N == Slots
           from[i \in DOMAIN t.slot] ==
             IF i \in S THEN {i}
             ELSE IF t.slot[i].next = 0 THEN {} ELSE from[t.slot[i].next]
           nx == [i \in 0..N - 1 |-> t.slot[i].next]
<1>1. /\ N \in Nat /\ DOMAIN t.slot = 0..N - 1
      /\ nx \in [0..N - 1 -> 0..N - 1]
      /\ \A i \in 0..N - 1 : t.slot[i].next = nx[i]
      /\ t.hash_size = Buckets /\ Used(t) \in Nat /\ Buckets <= Used(t) /\ Used(t) <= N
      /\ Buckets \in Nat \ {0}
  <2>1. N \in Nat /\ Buckets \in Nat \ {0} /\ Buckets <= N
    BY ShmAssumption
  <2>2. t.hash_size = Buckets /\ t.used_size \in 0..N - Buckets
    BY DEF Segment
  <2>3. Used(t) \in Nat /\ Buckets <= Used(t) /\ Used(t) <= N
    BY <2>1, <2>2 DEF Used
  <2>4. t.slot \in [0..N - 1 -> [keyno : Nat, value : Vals \cup {0}, next : 0..N - 1]]
    BY DEF Segment
  <2>5. nx \in [0..N - 1 -> 0..N - 1] /\ DOMAIN t.slot = 0..N - 1
    BY <2>4
  <2>6. QED
    BY <2>1, <2>2, <2>3, <2>5
<1>2. \A i \in 0..N - 1 : nx[i] # 0 => i < nx[i] /\ nx[i] < Used(t)
  BY <1>1 DEF LinksLeadOn
<1>3. FirstOf(t, k, S) = from[k % t.hash_size]
  BY DEF FirstOf
<1>4. PICK m \in [0..N - 1 -> 0..N - 1] : m = nx
  BY <1>1
<1> HIDE DEF nx, N
<1>5. CanWalk(N, m, S, SUBSET (0..N - 1))
  BY <1>1, <1>2, <1>4, Walks
<1>6. PICK f : f = [i \in DOMAIN t.slot |->
        IF i \in S THEN {i} ELSE IF t.slot[i].next = 0 THEN {} ELSE f[t.slot[i].next]]
  <2>1. PICK f \in [0..N - 1 -> SUBSET (0..N - 1)] :
     f = [i \in 0..N - 1 |-> IF i \in S THEN {i} ELSE IF m[i] = 0 THEN {} ELSE f[m[i]]]
    BY <1>5 DEF CanWalk
  <2>2. f = [i \in DOMAIN t.slot |->
        IF i \in S THEN {i} ELSE IF t.slot[i].next = 0 THEN {} ELSE f[t.slot[i].next]]
    <3>1. DOMAIN t.slot = 0..N - 1 /\ \A i \in 0..N - 1 : m[i] = t.slot[i].next
      BY <1>1, <1>4
    <3>2. QED
      BY <2>1, <3>1
  <2>3. QED
    BY <2>2
<1>7. from = [i \in DOMAIN t.slot |->
        IF i \in S THEN {i} ELSE IF t.slot[i].next = 0 THEN {} ELSE from[t.slot[i].next]]
  BY <1>6
<1> HIDE DEF from
<1>8. \A i \in 0..N - 1 :
        from[i] = IF i \in S THEN {i} ELSE IF m[i] = 0 THEN {} ELSE from[m[i]]
  <2>1. DOMAIN t.slot = 0..N - 1 /\ \A i \in 0..N - 1 : m[i] = t.slot[i].next
    BY <1>1, <1>4
  <2>2. QED
    BY <1>7, <2>1
<1> DEFINE D == {n \in Nat : \A i \in 0..N - 1 : i >= N - n /\ i < Used(t)
                               => from[i] \subseteq S \cap (0..Used(t) - 1)}
<1>9. 0 \in D
  BY <1>1
<1>10. ASSUME NEW n \in Nat, n \in D PROVE n + 1 \in D
  <2>1. SUFFICES ASSUME NEW i \in 0..N - 1, i >= N - (n + 1), i < Used(t)
                 PROVE  from[i] \subseteq S \cap (0..Used(t) - 1)
    OBVIOUS
  <2>2. CASE i \in S
    <3>1. from[i] = {i}
      BY <1>8, <2>2
    <3>2. i \in 0..Used(t) - 1
      BY <1>1, <2>1
    <3>3. QED
      BY <2>2, <3>1, <3>2
  <2>3. CASE i \notin S /\ m[i] = 0
    BY <1>8, <2>3
  <2>4. CASE i \notin S /\ m[i] # 0
    <3>1. m[i] \in 0..N - 1 /\ m[i] >= N - n /\ m[i] < Used(t)
      BY <1>1, <1>2, <1>4, <2>1, <2>4
    <3>2. from[m[i]] \subseteq S \cap (0..Used(t) - 1)
      BY <1>10, <3>1
    <3>3. QED
      BY <1>8, <2>4, <3>2
  <2>5. QED
    BY <2>2, <2>3, <2>4
<1> HIDE DEF D
<1>11. N \in D
  BY <1>1, <1>9, <1>10, SetInduction
<1>12. k % Buckets \in 0..Buckets - 1
  BY <1>1, ShmAssumption
<1>13. k % Buckets \in 0..N - 1 /\ k % Buckets >= N - N /\ k % Buckets < Used(t)
  BY <1>1, <1>12
<1>14. QED
  BY <1>1, <1>3, <1>11, <1>13 DEF D

\* The record of a slot.
Rec == [keyno : Nat, value : Vals \cup {0}, next : 0..Slots - 1]

LEMMA SegmentIs ==
  ASSUME ShmAssumption, NEW t \in Segment
  PROVE  /\ t.slot \in [0..Slots - 1 -> Rec]
         /\ t.hash_size = Buckets /\ t.data_size = Slots - Buckets
         /\ t.used_size \in 0..Slots - Buckets
         /\ Used(t) \in Nat /\ Buckets <= Used(t) /\ Used(t) <= Slots
         /\ Used(t) = Buckets + t.used_size
<1>1. t.slot \in [0..Slots - 1 -> Rec] /\ t.hash_size = Buckets /\ t.data_size = Slots - Buckets
      /\ t.used_size \in 0..Slots - Buckets
  BY DEF Segment, Rec
<1>2. QED
  BY <1>1, ShmAssumption DEF Used

LEMMA AllocIs ==
  ASSUME ShmAssumption
  PROVE  /\ Alloc(Buckets, Slots) \in Segment
         /\ LinksLeadOn(Alloc(Buckets, Slots))
         /\ \A i \in 0..Slots - 1 : Alloc(Buckets, Slots).slot[i].keyno = 0
         /\ Used(Alloc(Buckets, Slots)) = Buckets
<1>1. Buckets \in Nat \ {0} /\ Slots \in Nat /\ Slots >= Buckets
  BY ShmAssumption
<1>2. Blank \in [keyno : Nat, value : Vals \cup {0}, next : 0..Slots - 1]
  BY <1>1 DEF Blank
<1>3. [i \in 0..Slots - 1 |-> Blank] \in [0..Slots - 1 -> [keyno : Nat, value : Vals \cup {0}, next : 0..Slots - 1]]
  BY <1>2
<1>4. 0 \in 0..Slots - Buckets
  BY <1>1
<1>5. Alloc(Buckets, Slots) \in Segment
  BY <1>3, <1>4 DEF Alloc, Segment
<1>6. \A i \in 0..Slots - 1 : Alloc(Buckets, Slots).slot[i] = Blank
  BY DEF Alloc
<1>7. DOMAIN Alloc(Buckets, Slots).slot = 0..Slots - 1
  BY DEF Alloc
<1>8. LinksLeadOn(Alloc(Buckets, Slots))
  BY <1>6, <1>7 DEF LinksLeadOn, Blank
<1>9. Used(Alloc(Buckets, Slots)) = Buckets
  BY <1>1 DEF Used, Alloc
<1>10. QED
  BY <1>5, <1>6, <1>8, <1>9 DEF Blank

\* Picking a slot touches no id and no value, and puts the slot in use.
LEMMA PickIs ==
  ASSUME ShmAssumption, NEW t \in Segment, LinksLeadOn(t), NEW k \in Keys, NEW s \in Room(t, k)
  PROVE  /\ s \in 0..Slots - 1
         /\ Linked(t, k, s) \in Segment
         /\ LinksLeadOn(Linked(t, k, s))
         /\ s < Used(Linked(t, k, s)) /\ Used(t) <= Used(Linked(t, k, s))
         /\ \A i \in 0..Slots - 1 : /\ Linked(t, k, s).slot[i].keyno = t.slot[i].keyno
                                   /\ Linked(t, k, s).slot[i].value = t.slot[i].value
<1>1. /\ t.slot \in [0..Slots - 1 -> Rec]
      /\ t.hash_size = Buckets /\ t.data_size = Slots - Buckets
      /\ t.used_size \in 0..Slots - Buckets
      /\ Used(t) \in Nat /\ Buckets <= Used(t) /\ Used(t) <= Slots
      /\ Used(t) = Buckets + t.used_size
  BY SegmentIs
<1>2. Buckets \in Nat \ {0} /\ Slots \in Nat /\ Slots >= Buckets
  BY ShmAssumption
<1>3. CASE s < Used(t)
  <2>1. Linked(t, k, s) = t
    BY <1>3 DEF Linked, Used
  <2>2. s \in 0..Slots - 1
    <3>1. CASE FirstOf(t, k, {i \in DOMAIN t.slot : t.slot[i].keyno = 0}) # {}
      <4>1. s \in FirstOf(t, k, {i \in DOMAIN t.slot : t.slot[i].keyno = 0})
        BY <3>1 DEF Room
      <4>2. s \in 0..Used(t) - 1
        BY <4>1, StopsInUse
      <4>3. QED
        BY <4>2, <1>1, <1>2
    <3>2. CASE FirstOf(t, k, {i \in DOMAIN t.slot : t.slot[i].keyno = 0}) = {}
      <4>1. s = Buckets + t.used_size
        BY <3>2, <1>1 DEF Room
      <4>2. QED
        BY <4>1, <1>1, <1>3
    <3>3. QED
      BY <3>1, <3>2
  <2>3. QED
    BY <1>1, <1>3, <2>1, <2>2
<1>4. CASE ~(s < Used(t))
  <2>1. FirstOf(t, k, {i \in DOMAIN t.slot : t.slot[i].keyno = 0}) = {}
    <3>1. SUFFICES ASSUME FirstOf(t, k, {i \in DOMAIN t.slot : t.slot[i].keyno = 0}) # {} PROVE FALSE
      OBVIOUS
    <3>2. s \in FirstOf(t, k, {i \in DOMAIN t.slot : t.slot[i].keyno = 0})
      BY <3>1 DEF Room
    <3>3. s \in 0..Used(t) - 1
      BY <3>2, StopsInUse
    <3>4. QED
      BY <3>3, <1>1, <1>4
  <2>2. s = Used(t) /\ t.used_size < t.data_size
    BY <2>1, <1>1 DEF Room
  <2>3. s \in 0..Slots - 1 /\ s # 0
    BY <2>2, <1>1, <1>2
  <2>4. PICK last : last = FirstOf(t, k, {i \in DOMAIN t.slot : t.slot[i].next = 0})
    OBVIOUS
  <2>5. last \subseteq 0..Used(t) - 1
    BY <2>4, StopsInUse
  <2> DEFINE new == [i \in DOMAIN t.slot |-> IF i \in last THEN [t.slot[i] EXCEPT !.next = s] ELSE t.slot[i]]
             u == [t EXCEPT !.used_size = @ + 1, !.slot = new]
  <2>6. Linked(t, k, s) = u
    BY <1>4, <2>4 DEF Linked, Used
  <2>7. /\ new \in [0..Slots - 1 -> Rec]
        /\ \A i \in 0..Slots - 1 : /\ new[i].keyno = t.slot[i].keyno
                                  /\ new[i].value = t.slot[i].value
                                  /\ new[i].next = IF i \in last THEN s ELSE t.slot[i].next
    <3>1. \A r \in Rec : /\ [r EXCEPT !.next = s] \in Rec
                         /\ [r EXCEPT !.next = s].keyno = r.keyno
                         /\ [r EXCEPT !.next = s].value = r.value
                         /\ [r EXCEPT !.next = s].next = s
      BY <2>3 DEF Rec
    <3>2. \A i \in 0..Slots - 1 : t.slot[i] \in Rec /\ i \in DOMAIN t.slot
      BY <1>1
    <3>3. \A i \in 0..Slots - 1 : new[i] = IF i \in last THEN [t.slot[i] EXCEPT !.next = s] ELSE t.slot[i]
      BY <3>2
    <3>4. DOMAIN t.slot = 0..Slots - 1
      BY <1>1
    <3>5. new \in [0..Slots - 1 -> Rec]
      BY <3>1, <3>2, <3>4
    <3> HIDE DEF new
    <3>6. QED
      BY <3>1, <3>2, <3>3, <3>5
  <2> HIDE DEF new
  <2>8. u = [hash_size |-> Buckets, data_size |-> Slots - Buckets, used_size |-> t.used_size + 1, slot |-> new]
    <3>1. PICK n, q : n = t.used_size /\ q = t.slot
      OBVIOUS
    <3>2. t = [hash_size |-> Buckets, data_size |-> Slots - Buckets, used_size |-> n, slot |-> q]
      BY <1>1, <3>1 DEF Segment
    <3>3. u = [t EXCEPT !.used_size = n + 1, !.slot = new]
      BY <3>1
    <3> HIDE DEF u
    <3>4. u = [hash_size |-> Buckets, data_size |-> Slots - Buckets, used_size |-> n + 1, slot |-> new]
      BY ONLY <3>2, <3>3
    <3>5. QED
      BY <3>1, <3>4
  <2> HIDE DEF u
  <2>9. t.used_size + 1 \in 0..Slots - Buckets
    BY <1>1, <1>2, <2>2
  <2>10. u \in Segment
    BY <2>7, <2>8, <2>9 DEF Segment, Rec
  <2>11. Used(u) = Used(t) + 1
    BY <2>8, <1>1, <1>2 DEF Used
  <2>12. LinksLeadOn(u)
    <3>1. u.slot = new /\ DOMAIN new = 0..Slots - 1
      BY <2>7, <2>8
    <3>2. SUFFICES ASSUME NEW i \in 0..Slots - 1, new[i].next # 0
                   PROVE  i < new[i].next /\ new[i].next < Used(u)
      BY <3>1 DEF LinksLeadOn
    <3>3. CASE i \in last
      BY <3>3, <2>2, <2>5, <2>7, <2>11, <1>1
    <3>4. CASE i \notin last
      <4>1. new[i].next = t.slot[i].next /\ i \in DOMAIN t.slot
        BY <3>4, <2>7, <1>1
      <4>2. i < t.slot[i].next /\ t.slot[i].next < Used(t) /\ t.slot[i].next \in 0..Slots - 1
        BY <4>1, <3>2, <1>1 DEF LinksLeadOn, Rec
      <4>3. QED
        BY <4>1, <4>2, <2>11, <1>1
    <3>5. QED
      BY <3>3, <3>4
  <2>13. u.slot = new
    BY <2>8
  <2>14. s < Used(u) /\ Used(t) <= Used(u)
    BY <2>2, <2>11, <1>1
  <2>15. QED
    BY <2>3, <2>6, <2>7, <2>10, <2>12, <2>13, <2>14
<1>5. QED
  BY <1>3, <1>4

\* A store changes one slot and no link.
LEMMA FillIs ==
  ASSUME ShmAssumption, NEW t \in Segment, LinksLeadOn(t),
         NEW s \in 0..Slots - 1, NEW r \in Rec, r.next = t.slot[s].next,
         NEW u, u = [t EXCEPT !.slot = [t.slot EXCEPT ![s] = r]]
  PROVE  /\ u \in Segment /\ LinksLeadOn(u) /\ Used(u) = Used(t)
         /\ u.slot[s] = r
         /\ \A i \in 0..Slots - 1 : i # s => u.slot[i] = t.slot[i]
<1>1. t.slot \in [0..Slots - 1 -> Rec] /\ t.hash_size = Buckets /\ t.data_size = Slots - Buckets
      /\ t.used_size \in 0..Slots - Buckets
  BY SegmentIs
<1>2. PICK new : new = [t.slot EXCEPT ![s] = r]
  OBVIOUS
<1>3. /\ new \in [0..Slots - 1 -> Rec] /\ new[s] = r
      /\ \A i \in 0..Slots - 1 : i # s => new[i] = t.slot[i]
      /\ \A i \in 0..Slots - 1 : new[i].next = t.slot[i].next
  BY <1>1, <1>2
<1>4. u = [hash_size |-> Buckets, data_size |-> Slots - Buckets, used_size |-> t.used_size, slot |-> new]
  BY <1>1, <1>2 DEF Segment
<1>5. u \in Segment
  <2>1. new \in [0..Slots - 1 -> [keyno : Nat, value : Vals \cup {0}, next : 0..Slots - 1]]
    BY <1>3 DEF Rec
  <2>2. QED
    <3>1. PICK n \in 0..Slots - Buckets : n = t.used_size
      BY <1>1
    <3>2. u = [hash_size |-> Buckets, data_size |-> Slots - Buckets, used_size |-> n, slot |-> new]
      BY <1>4, <3>1
    <3>3. QED
      BY ONLY <2>1, <3>1, <3>2 DEF Segment
<1>6. Used(u) = Used(t) /\ u.slot = new
  BY <1>1, <1>4 DEF Used
<1>7. DOMAIN t.slot = 0..Slots - 1 /\ DOMAIN new = 0..Slots - 1
  BY <1>1, <1>3
<1>8. LinksLeadOn(u)
  BY <1>3, <1>6, <1>7 DEF LinksLeadOn
<1>9. QED
  BY <1>3, <1>5, <1>6, <1>8

\* A call under way, and what a step makes of it.
LEMMA CallIs ==
  ASSUME NEW c \in Calls \cup {NoCall}
  PROVE  /\ c.at # "none" => c \in Calls
         /\ c = NoCall => c.at = "none"
         /\ c \in Calls =>
              /\ c # NoCall /\ c.at # "none" /\ c.table \in 0..1 /\ c.keyno \in Keys
              /\ c.value \in Vals /\ c.slot \in 0..Slots - 1 /\ c.crossed \in BOOLEAN
BY DEF Calls, NoCall

LEMMA MovedIs ==
  ASSUME NEW c \in Calls, NEW a \in {"add", "fill", "copy"}, NEW s \in 0..Slots - 1
  PROVE  /\ [c EXCEPT !.at = a] \in Calls
         /\ [c EXCEPT !.at = a].at = a
         /\ [c EXCEPT !.at = a].table = c.table
         /\ [c EXCEPT !.at = a].crossed = c.crossed
         /\ [c EXCEPT !.at = a, !.slot = s] \in Calls
         /\ [c EXCEPT !.at = a, !.slot = s].at = a
         /\ [c EXCEPT !.at = a, !.slot = s].slot = s
         /\ [c EXCEPT !.at = a, !.slot = s].table = c.table
         /\ [c EXCEPT !.at = a, !.slot = s].crossed = c.crossed
<1>1. [c EXCEPT !.at = a] \in Calls
  BY DEF Calls
<1>2. [c EXCEPT !.at = a, !.slot = s] \in Calls
  BY DEF Calls
<1>3. QED
  BY <1>1, <1>2 DEF Calls

LEMMA MonitorStart == ShmAssumption /\ MonitorInit => MonitorInv
<1> SUFFICES ASSUME ShmAssumption, MonitorInit PROVE MonitorInv
  OBVIOUS
<1>1. PICK t \in Segment : t = Alloc(Buckets, Slots)
  BY AllocIs
<1>2. LinksLeadOn(t) /\ \A s \in 0..Slots - 1 : t.slot[s].keyno = 0
  BY <1>1, AllocIs
<1>3. \A i \in 0..1 : tables[i] = t
  BY <1>1 DEF MonitorInit
<1>4. tables \in [0..1 -> Segment] /\ call \in [Writers -> Calls \cup {NoCall}]
  BY <1>1 DEF MonitorInit
<1>5. MonitorTypes
  BY <1>4 DEF MonitorTypes, MonitorInit
<1>6. \A w \in Writers : Uncrossed(w)
  BY DEF MonitorInit, Uncrossed
<1>7. \A s \in 0..Slots - 1 : Behind(s)
  BY DEF MonitorInit, Behind
<1>8. \A s \in 0..Slots - 1, i \in 0..1 : Outside(i, s)
  BY <1>2, <1>3 DEF Outside
<1>9. QED
  BY <1>2, <1>3, <1>5, <1>6, <1>7, <1>8 DEF MonitorInv

\* A step of a call that stores nothing and gets a slot in use, if any.
LEMMA MoveKeeps ==
  ASSUME ShmAssumption, MonitorInv, NEW w \in Writers, NEW d \in Calls,
         UNCHANGED <<index, passing, m_pNode, got, late>>,
         call' = [call EXCEPT ![w] = d],
         ~d.crossed => d.table = index % 2,
         tables' \in [0..1 -> Segment],
         \A i \in 0..1 : LinksLeadOn(tables[i])',
         \A i \in 0..1 : Used(tables[i]) <= Used(tables'[i]),
         \A i \in 0..1, s \in 0..Slots - 1 :
            /\ tables'[i].slot[s].keyno = tables[i].slot[s].keyno
            /\ tables'[i].slot[s].value = tables[i].slot[s].value,
         d.at \in {"fill", "copy"} => d.slot < Used(tables'[d.table])
  PROVE  MonitorInv'
<1>1. MonitorTypes /\ index % 2 \in 0..1
  BY DEF MonitorInv, MonitorTypes
<1>2. \A i \in 0..1 : Used(tables[i]) \in Nat /\ Used(tables'[i]) \in Nat
  <2>1. \A i \in 0..1 : tables[i] \in Segment /\ tables'[i] \in Segment
    BY <1>1 DEF MonitorTypes
  <2>2. \A t \in Segment : Used(t) \in Nat
    BY SegmentIs
  <2>3. QED
    BY <2>1, <2>2
<1>3. call' \in [Writers -> Calls \cup {NoCall}] /\ call'[w] = d
      /\ \A v \in Writers : v # w => call'[v] = call[v]
  BY <1>1 DEF MonitorTypes
<1>4. MonitorTypes'
  BY <1>1, <1>3 DEF MonitorTypes
<1>5. ASSUME NEW v \in Writers PROVE Uncrossed(v)'
  <2>1. CASE v = w
    BY <1>3, <2>1 DEF Uncrossed
  <2>2. CASE v # w
    <3>1. Uncrossed(v) /\ call'[v] = call[v]
      BY <1>3, <2>2 DEF MonitorInv
    <3>2. SUFFICES ASSUME call[v] # NoCall, ~call[v].crossed, call[v].at \in {"fill", "copy"}
                   PROVE  call[v].slot < Used(tables'[call[v].table])
      BY <3>1 DEF Uncrossed
    <3>3. /\ call[v].table = index % 2 /\ call[v].table \in 0..1
          /\ call[v].slot < Used(tables[call[v].table])
      BY <1>1, <3>1, <3>2 DEF Uncrossed
    <3>4. call[v] \in Calls
      BY <1>1, <3>2 DEF MonitorTypes
    <3>5. PICK s \in 0..Slots - 1 : s = call[v].slot
      BY <3>4 DEF Calls
    <3>6. QED
      BY <1>2, <3>3, <3>5
  <2>3. QED
    BY <2>1, <2>2
<1>6. ASSUME NEW s \in 0..Slots - 1 PROVE Behind(s)'
  <2>1. Behind(s)
    BY DEF MonitorInv
  <2>2. SUFFICES ASSUME passing # 2, s < m_pNode
                 PROVE  LET r == tables'[passing].slot[s]
                        IN  r.keyno = 0 \/ <<s, r.keyno, r.value>> \in got \/ <<passing, s>> \in late
    BY DEF Behind
  <2>3. passing \in 0..1
    BY <1>1, <2>2 DEF MonitorTypes
  <2>4. QED
    BY <2>1, <2>2, <2>3 DEF Behind
<1>7. ASSUME NEW s \in 0..Slots - 1, NEW i \in 0..1 PROVE Outside(i, s)'
  <2>1. Outside(i, s)
    BY DEF MonitorInv
  <2>2. s \in Int
    OBVIOUS
  <2>3. QED
    BY <1>2, <2>1, <2>2 DEF Outside
<1>8. QED
  BY <1>4, <1>5, <1>6, <1>7 DEF MonitorInv

\* A store.  One into the table that is read is late.
LEMMA StoreKeeps ==
  ASSUME ShmAssumption, MonitorInv, NEW w \in Writers, call[w] \in Calls,
         call[w].at \in {"fill", "copy"}, Stored(w),
         NEW u \in Segment, LinksLeadOn(u), Used(u) = Used(tables[call[w].table]),
         \A s \in 0..Slots - 1 : s # call[w].slot => u.slot[s] = tables[call[w].table].slot[s],
         tables' = [tables EXCEPT ![call[w].table] = u]
  PROVE  MonitorInv'
<1>1. MonitorTypes /\ index % 2 \in 0..1
  BY DEF MonitorInv, MonitorTypes
<1>2. PICK b \in 0..1, p \in 0..Slots - 1, x \in BOOLEAN :
        b = call[w].table /\ p = call[w].slot /\ x = call[w].crossed
  BY DEF Calls
<1>3. /\ call' = [call EXCEPT ![w] = NoCall]
      /\ late' = IF x THEN late \cup {<<b, p>>} ELSE late \ {<<b, p>>}
      /\ UNCHANGED <<index, passing, m_pNode, got, sets>>
  BY <1>2 DEF Stored
<1>4. ~x => b = index % 2 /\ p < Used(tables[b])
  <2>1. Uncrossed(w) /\ call[w] # NoCall
    BY CallIs DEF MonitorInv
  <2>2. QED
    BY <1>2, <2>1 DEF Uncrossed
<1>5. /\ tables' \in [0..1 -> Segment] /\ tables'[b] = u
      /\ \A i \in 0..1 : i # b => tables'[i] = tables[i]
      /\ \A i \in 0..1 : Used(tables'[i]) = Used(tables[i])
      /\ \A i \in 0..1, s \in 0..Slots - 1 :
            ~(i = b /\ s = p) => tables'[i].slot[s] = tables[i].slot[s]
  BY <1>1, <1>2 DEF MonitorTypes
<1>6. call' \in [Writers -> Calls \cup {NoCall}] /\ call'[w] = NoCall
      /\ \A v \in Writers : v # w => call'[v] = call[v]
  BY <1>1, <1>3 DEF MonitorTypes
<1>7. MonitorTypes'
  BY <1>1, <1>3, <1>5, <1>6 DEF MonitorTypes
<1>8. ASSUME NEW i \in 0..1 PROVE LinksLeadOn(tables[i])'
  <2>1. LinksLeadOn(tables[i])
    BY DEF MonitorInv
  <2>2. CASE i = b
    <3>1. tables'[i] = u
      BY <1>5, <2>2
    <3>2. QED
      BY <3>1 DEF LinksLeadOn, Used
  <2>3. CASE i # b
    <3>1. tables'[i] = tables[i]
      BY <1>5, <2>3
    <3>2. QED
      BY <2>1, <3>1 DEF LinksLeadOn, Used
  <2>4. QED
    BY <2>2, <2>3
<1>9. ASSUME NEW v \in Writers PROVE Uncrossed(v)'
  <2>1. CASE v = w
    BY <1>6, <2>1 DEF Uncrossed
  <2>2. CASE v # w
    <3>1. Uncrossed(v) /\ call'[v] = call[v] /\ index' = index
      BY <1>3, <1>6, <2>2 DEF MonitorInv
    <3>2. \A i \in 0..1 : Used(tables'[i]) = Used(tables[i])
      BY <1>5
    <3>3. QED
      BY <1>1, <3>1, <3>2 DEF Uncrossed
  <2>3. QED
    BY <2>1, <2>2
<1>10. ASSUME NEW s \in 0..Slots - 1 PROVE Behind(s)'
  <2>1. Behind(s)
    BY DEF MonitorInv
  <2>2. SUFFICES ASSUME passing # 2, s < m_pNode
                 PROVE  LET r == tables'[passing].slot[s]
                        IN  r.keyno = 0 \/ <<s, r.keyno, r.value>> \in got \/ <<passing, s>> \in late'
    BY <1>3 DEF Behind
  <2>3. passing \in 0..1 /\ index % 2 # passing
    BY <1>1, <2>2 DEF MonitorTypes
  <2>4. CASE passing = b /\ s = p
    BY <1>3, <1>4, <2>3, <2>4
  <2>5. CASE ~(passing = b /\ s = p)
    <3>1. tables'[passing].slot[s] = tables[passing].slot[s]
      BY <1>5, <2>3, <2>5
    <3>2. <<passing, s>> # <<b, p>>
      BY <2>5
    <3>3. <<passing, s>> \in late => <<passing, s>> \in late'
      BY <1>3, <3>2
    <3>4. QED
      BY <2>1, <2>2, <3>1, <3>3 DEF Behind
  <2>6. QED
    BY <2>4, <2>5
<1>11. ASSUME NEW s \in 0..Slots - 1, NEW i \in 0..1 PROVE Outside(i, s)'
  <2>1. Outside(i, s) /\ Used(tables'[i]) = Used(tables[i])
    BY <1>5 DEF MonitorInv
  <2>2. CASE i = b /\ s = p
    <3>1. CASE x
      BY <1>3, <2>2, <3>1 DEF Outside
    <3>2. CASE ~x
      BY <1>4, <2>1, <2>2, <3>2 DEF Outside
    <3>3. QED
      BY <3>1, <3>2
  <2>3. CASE ~(i = b /\ s = p)
    <3>1. tables'[i].slot[s] = tables[i].slot[s]
      BY <1>5, <2>3
    <3>2. <<i, s>> # <<b, p>>
      BY <2>3
    <3>3. <<i, s>> \in late => <<i, s>> \in late'
      BY <1>3, <3>2
    <3>4. QED
      BY <2>1, <3>1, <3>3 DEF Outside
  <2>4. QED
    BY <2>2, <2>3
<1>12. QED
  BY <1>7, <1>8, <1>9, <1>10, <1>11 DEF MonitorInv

\* What the invariant says of one call and its table.
LEMMA CallFacts ==
  ASSUME ShmAssumption, MonitorInv, NEW w \in Writers, call[w].at # "none"
  PROVE  /\ call[w] \in Calls /\ call[w] # NoCall
         /\ call[w].table \in 0..1 /\ call[w].keyno \in Keys /\ call[w].value \in Vals
         /\ call[w].slot \in 0..Slots - 1
         /\ ~call[w].crossed => call[w].table = index % 2
         /\ tables[call[w].table] \in Segment
         /\ LinksLeadOn(tables[call[w].table])
<1>1. MonitorTypes
  BY DEF MonitorInv
<1>2. call[w] \in Calls \cup {NoCall}
  BY <1>1 DEF MonitorTypes
<1>3. /\ call[w] \in Calls /\ call[w] # NoCall
      /\ call[w].table \in 0..1 /\ call[w].keyno \in Keys /\ call[w].value \in Vals
      /\ call[w].slot \in 0..Slots - 1
  BY <1>2, CallIs
<1>4. Uncrossed(w) /\ \A i \in 0..1 : LinksLeadOn(tables[i])
  BY DEF MonitorInv
<1>5. ~call[w].crossed => call[w].table = index % 2
  BY <1>3, <1>4 DEF Uncrossed
<1>6. tables[call[w].table] \in Segment
  BY <1>1, <1>3 DEF MonitorTypes
<1>7. QED
  BY <1>3, <1>4, <1>5, <1>6

LEMMA ReadIndexKeeps ==
  ASSUME ShmAssumption, MonitorInv, NEW w \in Writers, ReadIndex(w) PROVE MonitorInv'
<1>1. PICK k \in Keys, v \in Vals :
        call' = [call EXCEPT ![w] = [at |-> "find", table |-> index % 2,
                   keyno |-> k, value |-> v, slot |-> 0, crossed |-> FALSE]]
  BY DEF ReadIndex
<1>2. /\ UNCHANGED <<index, passing, m_pNode, got, late>>
      /\ tables' = tables
  BY DEF ReadIndex
<1>3. MonitorTypes /\ index % 2 \in 0..1 /\ 0 \in 0..Slots - 1
  BY ShmAssumption DEF MonitorInv, MonitorTypes
<1>4. PICK b \in 0..1 : b = index % 2
  BY <1>3
<1>5. PICK d \in Calls : d = [at |-> "find", table |-> b, keyno |-> k, value |-> v, slot |-> 0, crossed |-> FALSE]
  BY <1>3 DEF Calls
<1>6. call' = [call EXCEPT ![w] = d] /\ d.table = index % 2 /\ d.at \notin {"fill", "copy"}
  BY <1>1, <1>4, <1>5
<1>7. /\ tables' \in [0..1 -> Segment]
      /\ \A i \in 0..1 : LinksLeadOn(tables[i])'
  BY <1>2, <1>3 DEF MonitorInv, MonitorTypes, LinksLeadOn, Used
<1>8. \A i \in 0..1 : Used(tables[i]) <= Used(tables'[i])
  <2>1. \A i \in 0..1 : Used(tables[i]) \in Nat
    BY <1>3, SegmentIs DEF MonitorTypes
  <2>2. QED
    BY <1>2, <2>1
<1>9. QED
  BY <1>2, <1>6, <1>7, <1>8, MoveKeeps

LEMMA FindIdKeeps ==
  ASSUME ShmAssumption, MonitorInv, NEW w \in Writers, FindId(w) PROVE MonitorInv'
<1>1. /\ call[w].at = "find"
      /\ UNCHANGED <<index, passing, m_pNode, got, late>>
      /\ tables' = tables
  BY DEF FindId
<1>2. PICK c \in Calls : c = call[w]
  BY <1>1, CallFacts
<1>3. /\ c.table \in 0..1 /\ c.keyno \in Keys /\ c.slot \in 0..Slots - 1
      /\ ~c.crossed => c.table = index % 2
  BY <1>1, <1>2, CallFacts
<1>4. PICK t \in Segment : t = tables[c.table] /\ LinksLeadOn(t)
  BY <1>1, <1>2, CallFacts
<1>5. /\ tables' \in [0..1 -> Segment]
      /\ \A i \in 0..1 : LinksLeadOn(tables[i])'
  BY <1>1 DEF MonitorInv, MonitorTypes, LinksLeadOn, Used
<1>6. \A i \in 0..1 : Used(tables[i]) <= Used(tables'[i])
  <2>1. \A i \in 0..1 : Used(tables[i]) \in Nat
    BY SegmentIs DEF MonitorInv, MonitorTypes
  <2>2. QED
    BY <1>1, <2>1
<1>7. ASSUME NEW d \in Calls, call' = [call EXCEPT ![w] = d], d.table = c.table, d.crossed = c.crossed,
             d.at \in {"fill", "copy"} => d.slot < Used(t)
      PROVE  MonitorInv'
  <2>1. ~d.crossed => d.table = index % 2
    BY <1>3, <1>7
  <2>2. d.at \in {"fill", "copy"} => d.slot < Used(tables'[d.table])
    BY <1>1, <1>4, <1>7
  <2>3. QED
    BY <1>1, <1>5, <1>6, <1>7, <2>1, <2>2, MoveKeeps
<1>8. CASE call' = [call EXCEPT ![w].at = "add"]
  <2>1. PICK d \in Calls : d = [c EXCEPT !.at = "add"]
    BY <1>3, MovedIs
  <2>2. d.at = "add" /\ d.table = c.table /\ d.crossed = c.crossed
    BY <1>3, <2>1, MovedIs
  <2>3. call' = [call EXCEPT ![w] = d]
    BY <1>2, <1>8, <2>1
  <2>4. QED
    BY <1>7, <2>2, <2>3
<1>9. CASE \E s \in Find(tables[call[w].table], call[w].keyno) :
             call' = [call EXCEPT ![w].at = "copy", ![w].slot = s]
  <2>1. PICK s \in Find(t, c.keyno) : call' = [call EXCEPT ![w].at = "copy", ![w].slot = s]
    BY <1>2, <1>4, <1>9
  <2>2. s \in 0..Used(t) - 1
    BY <1>3, <1>4, StopsInUse DEF Find
  <2>3. s \in 0..Slots - 1 /\ s < Used(t)
    BY <2>2, SegmentIs
  <2>4. PICK d \in Calls : d = [c EXCEPT !.at = "copy", !.slot = s]
    BY <2>3, MovedIs
  <2>5. d.at = "copy" /\ d.slot = s /\ d.table = c.table /\ d.crossed = c.crossed
    BY <2>3, <2>4 DEF Calls
  <2>6. call' = [call EXCEPT ![w] = d]
    BY <1>2, <2>1, <2>4
  <2>7. QED
    BY <1>7, <2>3, <2>5, <2>6
<1>10. QED
  BY <1>8, <1>9 DEF FindId

LEMMA PickSlotKeeps ==
  ASSUME ShmAssumption, MonitorInv, NEW w \in Writers, PickSlot(w) PROVE MonitorInv'
<1>1. /\ call[w].at = "add"
      /\ UNCHANGED <<index, passing, m_pNode, got, late>>
  BY DEF PickSlot
<1>2. PICK c \in Calls : c = call[w]
  BY <1>1, CallFacts
<1>3. /\ c.table \in 0..1 /\ c.keyno \in Keys /\ c.slot \in 0..Slots - 1
      /\ ~c.crossed => c.table = index % 2
  BY <1>1, <1>2, CallFacts
<1>4. PICK t \in Segment : t = tables[c.table] /\ LinksLeadOn(t)
  BY <1>1, <1>2, CallFacts
<1>5. PICK s \in Room(t, c.keyno) :
        /\ tables' = [tables EXCEPT ![c.table] = Linked(t, c.keyno, s)]
        /\ call' = [call EXCEPT ![w].at = "fill", ![w].slot = s]
  BY <1>2, <1>4 DEF PickSlot
<1>6. PICK u \in Segment : u = Linked(t, c.keyno, s)
  BY <1>3, <1>4, PickIs
<1>7. /\ s \in 0..Slots - 1 /\ LinksLeadOn(u) /\ s < Used(u) /\ Used(t) <= Used(u)
      /\ \A i \in 0..Slots - 1 : u.slot[i].keyno = t.slot[i].keyno /\ u.slot[i].value = t.slot[i].value
  <2>1. PICK k \in Keys : k = c.keyno
    BY <1>3
  <2>2. s \in Room(t, k) /\ u = Linked(t, k, s)
    BY <1>6, <2>1
  <2>3. /\ s \in 0..Slots - 1 /\ LinksLeadOn(Linked(t, k, s))
        /\ s < Used(Linked(t, k, s)) /\ Used(t) <= Used(Linked(t, k, s))
        /\ \A i \in 0..Slots - 1 : /\ Linked(t, k, s).slot[i].keyno = t.slot[i].keyno
                                  /\ Linked(t, k, s).slot[i].value = t.slot[i].value
    <3>1. LinksLeadOn(t)
      BY <1>4
    <3>2. s \in Room(t, k)
      BY <2>2
    <3>3. QED
      BY <3>1, <3>2, PickIs
  <2>4. QED
    BY <2>2, <2>3
<1>8. PICK d \in Calls : d = [c EXCEPT !.at = "fill", !.slot = s]
  BY <1>7, MovedIs
<1>9. d.at = "fill" /\ d.slot = s /\ d.table = c.table /\ d.crossed = c.crossed
  BY <1>7, <1>8 DEF Calls
<1>10. call' = [call EXCEPT ![w] = d]
  BY <1>2, <1>5, <1>8
<1>11. tables \in [0..1 -> Segment]
  BY DEF MonitorInv, MonitorTypes
<1>12. /\ tables' \in [0..1 -> Segment] /\ tables'[c.table] = u
       /\ \A i \in 0..1 : i # c.table => tables'[i] = tables[i]
  BY <1>3, <1>5, <1>6, <1>11
<1>13. ASSUME NEW i \in 0..1
       PROVE  /\ LinksLeadOn(tables[i])'
              /\ Used(tables[i]) <= Used(tables'[i])
              /\ \A j \in 0..Slots - 1 : /\ tables'[i].slot[j].keyno = tables[i].slot[j].keyno
                                        /\ tables'[i].slot[j].value = tables[i].slot[j].value
  <2>1. LinksLeadOn(tables[i]) /\ Used(tables[i]) \in Nat
    BY <1>11, SegmentIs DEF MonitorInv
  <2>2. CASE i = c.table
    <3>1. tables'[i] = u /\ tables[i] = t
      BY <1>4, <1>12, <2>2
    <3>2. LinksLeadOn(tables[i])'
      BY <1>7, <3>1 DEF LinksLeadOn, Used
    <3>3. QED
      BY <1>7, <3>1, <3>2
  <2>3. CASE i # c.table
    <3>1. tables'[i] = tables[i]
      BY <1>12, <2>3
    <3>2. LinksLeadOn(tables[i])'
      BY <2>1, <3>1 DEF LinksLeadOn, Used
    <3>3. QED
      BY <2>1, <3>1, <3>2
  <2>4. QED
    BY <2>2, <2>3
<1>14. ~d.crossed => d.table = index % 2
  BY <1>3, <1>9
<1>15. d.slot < Used(tables'[d.table])
  BY <1>7, <1>9, <1>12
<1>16. QED
  BY <1>1, <1>10, <1>12, <1>13, <1>14, <1>15, MoveKeeps

LEMMA FillKeeps ==
  ASSUME ShmAssumption, MonitorInv, NEW w \in Writers, Fill(w) PROVE MonitorInv'
<1>1. call[w].at = "fill" /\ Stored(w)
  BY DEF Fill
<1>2. PICK c \in Calls : c = call[w]
  BY <1>1, CallFacts
<1>3. /\ c.table \in 0..1 /\ c.keyno \in Keys /\ c.value \in Vals /\ c.slot \in 0..Slots - 1
  BY <1>1, <1>2, CallFacts
<1>4. PICK t \in Segment : t = tables[c.table] /\ LinksLeadOn(t)
  BY <1>1, <1>2, CallFacts
<1>5. t.slot \in [0..Slots - 1 -> Rec]
  BY SegmentIs
<1>6. PICK s \in 0..Slots - 1 : s = c.slot
  BY <1>3
<1>7. PICK k \in Keys, v \in Vals : k = c.keyno /\ v = c.value
  BY <1>3
<1>8. PICK o \in Rec : o = t.slot[s]
  BY <1>5
<1>9. PICK r \in Rec : r = [o EXCEPT !.keyno = k, !.value = v]
  BY ShmAssumption DEF Rec
<1>10. r.next = o.next
  BY <1>9 DEF Rec
<1>11. PICK u : u = [t EXCEPT !.slot = [t.slot EXCEPT ![s] = r]]
  OBVIOUS
<1>12. Filled(t, s, k, v) = u
  BY <1>5, <1>8, <1>9, <1>11 DEF Filled, Segment
<1>13. /\ u \in Segment /\ LinksLeadOn(u) /\ Used(u) = Used(t)
       /\ \A i \in 0..Slots - 1 : i # s => u.slot[i] = t.slot[i]
  BY <1>4, <1>8, <1>10, <1>11, FillIs
<1>14. tables' = [tables EXCEPT ![call[w].table] = u]
  BY <1>2, <1>4, <1>6, <1>7, <1>12 DEF Fill
<1>15. QED
  BY <1>1, <1>2, <1>4, <1>6, <1>13, <1>14, StoreKeeps

LEMMA CopyKeeps ==
  ASSUME ShmAssumption, MonitorInv, NEW w \in Writers, Copy(w) PROVE MonitorInv'
<1>1. call[w].at = "copy" /\ Stored(w)
  BY DEF Copy
<1>2. PICK c \in Calls : c = call[w]
  BY <1>1, CallFacts
<1>3. /\ c.table \in 0..1 /\ c.value \in Vals /\ c.slot \in 0..Slots - 1
  BY <1>1, <1>2, CallFacts
<1>4. PICK t \in Segment : t = tables[c.table] /\ LinksLeadOn(t)
  BY <1>1, <1>2, CallFacts
<1>5. t.slot \in [0..Slots - 1 -> Rec]
  BY SegmentIs
<1>6. PICK s \in 0..Slots - 1 : s = c.slot
  BY <1>3
<1>7. PICK v \in Vals : v = c.value
  BY <1>3
<1>8. PICK o \in Rec : o = t.slot[s]
  BY <1>5
<1>9. PICK r \in Rec : r = [o EXCEPT !.value = v]
  BY DEF Rec
<1>10. r.next = o.next
  BY <1>9 DEF Rec
<1>11. PICK u : u = [t EXCEPT !.slot = [t.slot EXCEPT ![s] = r]]
  OBVIOUS
<1>12. [t EXCEPT !.slot[s].value = v] = u
  BY <1>5, <1>8, <1>9, <1>11 DEF Segment
<1>13. /\ u \in Segment /\ LinksLeadOn(u) /\ Used(u) = Used(t)
       /\ \A i \in 0..Slots - 1 : i # s => u.slot[i] = t.slot[i]
  BY <1>4, <1>8, <1>10, <1>11, FillIs
<1>14. tables' = [tables EXCEPT ![c.table].slot[s].value = v]
  BY <1>2, <1>6, <1>7 DEF Copy
<1>15. tables' = [tables EXCEPT ![call[w].table] = u]
  BY <1>2, <1>4, <1>12, <1>14
<1>16. QED
  BY <1>1, <1>2, <1>4, <1>6, <1>13, <1>15, StoreKeeps

\* The two tables take turns.
LEMMA Parity ==
  ASSUME NEW i \in 0..255
  PROVE  255 - i \in 0..255 /\ i % 2 \in 0..1 /\ (255 - i) % 2 # i % 2
OBVIOUS

LEMMA BeginKeeps ==
  ASSUME ShmAssumption, MonitorInv, begin_read_shm PROVE MonitorInv'
<1>1. /\ passing' = index % 2 /\ index' = 255 - index
      /\ call' = CrossedAll(index % 2) /\ m_pNode' = 0
      /\ UNCHANGED <<tables, got, late>>
  BY DEF begin_read_shm
<1>2. MonitorTypes /\ index \in 0..255
  BY DEF MonitorInv, MonitorTypes
<1>3. 255 - index \in 0..255 /\ index % 2 \in 0..1 /\ (255 - index) % 2 # index % 2
  BY <1>2, Parity
<1>4. ASSUME NEW w \in Writers
      PROVE  /\ call'[w] \in Calls \cup {NoCall}
             /\ call'[w] # NoCall => call'[w].crossed
  <2>1. call[w] \in Calls \cup {NoCall}
    BY <1>2 DEF MonitorTypes
  <2>2. call'[w] = IF call[w].at # "none" /\ call[w].table = index % 2
                   THEN [call[w] EXCEPT !.crossed = TRUE] ELSE call[w]
    BY <1>1 DEF CrossedAll
  <2>3. CASE call[w] = NoCall
    BY <2>2, <2>3 DEF NoCall
  <2>4. CASE call[w] # NoCall
    <3>1. PICK c \in Calls : c = call[w]
      BY <2>1, <2>4
    <3>2. c # NoCall /\ c.at # "none" /\ c.crossed \in BOOLEAN
      BY <3>1, CallIs
    <3>3. ~c.crossed => c.table = index % 2
      <4>1. Uncrossed(w)
        BY DEF MonitorInv
      <4>2. QED
        BY <3>1, <3>2, <4>1 DEF Uncrossed
    <3>4. [c EXCEPT !.crossed = TRUE] \in Calls /\ [c EXCEPT !.crossed = TRUE].crossed = TRUE
      BY DEF Calls
    <3>5. CASE c.table = index % 2
      <4>1. call'[w] = [c EXCEPT !.crossed = TRUE]
        BY <2>2, <3>1, <3>2, <3>5
      <4>2. QED
        BY <3>4, <4>1
    <3>6. CASE c.table # index % 2
      <4>1. call'[w] = c /\ c.crossed = TRUE
        BY <2>2, <3>1, <3>2, <3>3, <3>6
      <4>2. QED
        BY <3>1, <4>1
    <3>7. QED
      BY <3>5, <3>6
  <2>5. QED
    BY <2>3, <2>4
<1>5. call' \in [Writers -> Calls \cup {NoCall}]
  <2>1. call' = [w \in Writers |-> call'[w]]
    BY <1>1 DEF CrossedAll
  <2>2. QED
    BY <1>4, <2>1
<1>6. MonitorTypes'
  BY <1>1, <1>2, <1>3, <1>5 DEF MonitorTypes
<1>7. ASSUME NEW i \in 0..1 PROVE LinksLeadOn(tables[i])'
  <2>1. LinksLeadOn(tables[i]) /\ tables' = tables
    BY <1>1 DEF MonitorInv
  <2>2. QED
    BY <2>1 DEF LinksLeadOn, Used
<1>8. ASSUME NEW w \in Writers PROVE Uncrossed(w)'
  BY <1>4 DEF Uncrossed
<1>9. ASSUME NEW s \in 0..Slots - 1 PROVE Behind(s)'
  <2>1. m_pNode' = 0 /\ ~(s < 0)
    BY <1>1
  <2>2. QED
    BY <2>1 DEF Behind
<1>10. ASSUME NEW s \in 0..Slots - 1, NEW i \in 0..1 PROVE Outside(i, s)'
  <2>1. Outside(i, s)
    BY DEF MonitorInv
  <2>2. QED
    BY <1>1, <2>1 DEF Outside, Used
<1>11. QED
  BY <1>6, <1>7, <1>8, <1>9, <1>10 DEF MonitorInv

\* The agent goes on to the first record left: what it leaves behind is empty.
LEMMA ReadKeeps ==
  ASSUME ShmAssumption, MonitorInv, read_shm PROVE MonitorInv'
<1>1. MonitorTypes /\ passing \in 0..1 /\ m_pNode \in Nat
  BY DEF MonitorInv, MonitorTypes, read_shm
<1>2. PICK t \in Segment : t = tables[passing]
  BY <1>1 DEF MonitorTypes
<1>3. PICK L : L = NextUsed(t, m_pNode)
  OBVIOUS
<1>4. /\ L # {} /\ m_pNode' = Min(L) + 1
      /\ got' = got \cup {<<Min(L), t.slot[Min(L)].keyno, t.slot[Min(L)].value>>}
      /\ UNCHANGED <<index, tables, call, passing, late>>
  BY <1>2, <1>3 DEF read_shm
<1>5. Used(t) \in Nat /\ t.hash_size + t.used_size = Used(t) /\ t.slot \in [0..Slots - 1 -> Rec]
  BY SegmentIs DEF Used
<1>6. L = {i \in m_pNode..Used(t) - 1 : t.slot[i].keyno > 0}
  BY <1>3, <1>5 DEF NextUsed
<1>7. L \subseteq Nat
  BY <1>1, <1>5, <1>6
<1>8. PICK m \in L : m = Min(L) /\ \A i \in L : m <= i
  BY <1>4, <1>7, Least
<1>9. m \in Nat /\ m < Used(t) /\ m_pNode <= m /\ m_pNode' = m + 1
      /\ got' = got \cup {<<m, t.slot[m].keyno, t.slot[m].value>>}
  BY <1>1, <1>4, <1>5, <1>6, <1>8
<1>10. MonitorTypes'
  BY <1>1, <1>4, <1>9 DEF MonitorTypes
<1>11. ASSUME NEW i \in 0..1 PROVE LinksLeadOn(tables[i])'
  <2>1. LinksLeadOn(tables[i]) /\ tables' = tables
    BY <1>4 DEF MonitorInv
  <2>2. QED
    BY <2>1 DEF LinksLeadOn, Used
<1>12. ASSUME NEW w \in Writers PROVE Uncrossed(w)'
  <2>1. Uncrossed(w) /\ UNCHANGED <<index, tables, call>>
    BY <1>4 DEF MonitorInv
  <2>2. QED
    BY <2>1 DEF Uncrossed, Used
<1>13. ASSUME NEW s \in 0..Slots - 1 PROVE Behind(s)'
  <2>1. Behind(s) /\ tables'[passing'] = t /\ passing' = passing /\ late' = late
    BY <1>2, <1>4 DEF MonitorInv
  <2>2. SUFFICES ASSUME s < m + 1
                 PROVE  \/ t.slot[s].keyno = 0
                        \/ <<s, t.slot[s].keyno, t.slot[s].value>> \in got'
                        \/ <<passing, s>> \in late
    BY <1>9, <2>1 DEF Behind
  <2>3. CASE s < m_pNode
    BY <1>1, <1>2, <1>9, <2>1, <2>3 DEF Behind
  <2>4. CASE s = m
    BY <1>9, <2>4
  <2>5. CASE m_pNode <= s /\ s < m
    <3>1. s \in m_pNode..Used(t) - 1 /\ s \notin L
      BY <1>1, <1>5, <1>8, <1>9, <2>5
    <3>2. t.slot[s].keyno \in Nat
      BY <1>5 DEF Rec
    <3>3. QED
      BY <1>6, <3>1, <3>2
  <2>6. QED
    BY <1>1, <1>9, <2>2, <2>3, <2>4, <2>5
<1>14. ASSUME NEW s \in 0..Slots - 1, NEW i \in 0..1 PROVE Outside(i, s)'
  <2>1. Outside(i, s) /\ tables' = tables /\ late' = late
    BY <1>4 DEF MonitorInv
  <2>2. QED
    BY <2>1 DEF Outside, Used
<1>15. QED
  BY <1>10, <1>11, <1>12, <1>13, <1>14 DEF MonitorInv

LEMMA EndKeeps ==
  ASSUME ShmAssumption, MonitorInv, end_read_shm PROVE MonitorInv'
<1>1. MonitorTypes /\ passing \in 0..1 /\ index % 2 # passing
  BY DEF MonitorInv, MonitorTypes, end_read_shm
<1>2. PICK b \in 0..1 : b = passing
  BY <1>1
<1>3. PICK u \in Segment : u = Alloc(Buckets, Slots)
  BY AllocIs
<1>4. LinksLeadOn(u) /\ \A s \in 0..Slots - 1 : u.slot[s].keyno = 0
  BY <1>3, AllocIs
<1>5. Clear(tables[b]) = u
  <2>1. PICK t \in Segment : t = tables[b]
    BY <1>1 DEF MonitorTypes
  <2>2. t.hash_size = Buckets /\ t.hash_size + t.data_size = Slots
    BY <2>1, SegmentIs, ShmAssumption
  <2>3. QED
    BY <1>3, <2>1, <2>2 DEF Clear
<1>6. /\ tables' = [tables EXCEPT ![b] = u]
      /\ late' = {x \in late : x[1] # b}
      /\ passing' = 2
      /\ UNCHANGED <<index, call, m_pNode>>
  BY <1>2, <1>5 DEF end_read_shm
<1>7. /\ tables' \in [0..1 -> Segment] /\ tables'[b] = u
      /\ \A i \in 0..1 : i # b => tables'[i] = tables[i]
  BY <1>1, <1>6 DEF MonitorTypes
<1>8. MonitorTypes'
  BY <1>1, <1>6, <1>7 DEF MonitorTypes
<1>9. ASSUME NEW i \in 0..1 PROVE LinksLeadOn(tables[i])'
  <2>1. LinksLeadOn(tables[i])
    BY DEF MonitorInv
  <2>2. PICK t : t = tables'[i]
    OBVIOUS
  <2>3. LinksLeadOn(t)
    BY <1>4, <1>7, <2>1, <2>2
  <2>4. QED
    BY <2>2, <2>3 DEF LinksLeadOn, Used
<1>10. ASSUME NEW w \in Writers PROVE Uncrossed(w)'
  <2>1. Uncrossed(w) /\ call' = call /\ index' = index /\ index % 2 \in 0..1
    BY <1>1, <1>6 DEF MonitorInv, MonitorTypes
  <2>2. tables'[index % 2] = tables[index % 2]
    BY <1>1, <1>2, <1>7, <2>1
  <2>3. QED
    BY <2>1, <2>2 DEF Uncrossed, Used
<1>11. ASSUME NEW s \in 0..Slots - 1 PROVE Behind(s)'
  BY <1>6 DEF Behind
<1>12. ASSUME NEW s \in 0..Slots - 1, NEW i \in 0..1 PROVE Outside(i, s)'
  <2>1. Outside(i, s)
    BY DEF MonitorInv
  <2>2. CASE i = b
    BY <1>4, <1>7, <2>2 DEF Outside
  <2>3. CASE i # b
    <3>1. tables'[i] = tables[i]
      BY <1>7, <2>3
    <3>2. <<i, s>> \in late => <<i, s>> \in late'
      BY <1>6, <2>3
    <3>3. QED
      BY <2>1, <3>1, <3>2 DEF Outside, Used
  <2>4. QED
    BY <2>2, <2>3
<1>13. QED
  BY <1>8, <1>9, <1>10, <1>11, <1>12 DEF MonitorInv

LEMMA IdleKeeps ==
  ASSUME MonitorInv, UNCHANGED monitor PROVE MonitorInv'
<1>1. UNCHANGED <<index, tables, call, passing, m_pNode, got, late>>
  BY DEF monitor
<1>2. MonitorTypes' /\ \A i \in 0..1 : LinksLeadOn(tables[i])'
  BY <1>1 DEF MonitorInv, MonitorTypes, LinksLeadOn, Used
<1>3. \A w \in Writers : Uncrossed(w)'
  BY <1>1 DEF MonitorInv, Uncrossed, Used
<1>4. \A s \in 0..Slots - 1 : Behind(s)' /\ \A i \in 0..1 : Outside(i, s)'
  BY <1>1 DEF MonitorInv, Behind, Outside, Used
<1>5. QED
  BY <1>2, <1>3, <1>4 DEF MonitorInv

LEMMA EndLoses ==
  ASSUME ShmAssumption, MonitorInv, end_read_shm, NEW s \in DOMAIN tables[passing].slot
  PROVE  LET r == tables[passing].slot[s]
         IN  \/ r.keyno = 0
             \/ <<s, r.keyno, r.value>> \in got
             \/ <<passing, s>> \in late
<1>1. MonitorTypes /\ passing # 2 /\ passing \in 0..1 /\ m_pNode \in Nat
      /\ NextUsed(tables[passing], m_pNode) = {}
  BY DEF MonitorInv, MonitorTypes, end_read_shm
<1>2. PICK t \in Segment : t = tables[passing]
  BY <1>1 DEF MonitorTypes
<1>3. t.slot \in [0..Slots - 1 -> Rec] /\ Used(t) \in Nat /\ t.hash_size + t.used_size = Used(t)
  BY SegmentIs DEF Used
<1>4. s \in 0..Slots - 1 /\ t.slot[s].keyno \in Nat
  BY <1>2, <1>3 DEF Rec
<1>5. Behind(s) /\ Outside(passing, s)
  BY <1>1, <1>4 DEF MonitorInv
<1>6. CASE s < m_pNode
  BY <1>1, <1>5, <1>6 DEF Behind
<1>7. CASE ~(s < m_pNode)
  <2>1. SUFFICES ASSUME t.slot[s].keyno # 0, s < Used(t) PROVE FALSE
    BY <1>2, <1>5 DEF Outside
  <2>2. s \in m_pNode..Used(t) - 1 /\ t.slot[s].keyno > 0
    BY <1>1, <1>3, <1>4, <1>7, <2>1
  <2>3. s \in NextUsed(t, m_pNode)
    BY <1>3, <2>2 DEF NextUsed
  <2>4. QED
    BY <1>1, <1>2, <2>3
<1>8. QED
  BY <1>6, <1>7

(***************************************************************************)
(* What the agent clears it has read, or it was stored by a call that had  *)
(* read the index before the switch (TNmShm.cpp: set_shm, end_read_shm).   *)
(***************************************************************************)
THEOREM AgentLosesOnlyLate == MonitorSpec => ClearsOnlyRead
<1> DEFINE A == end_read_shm =>
                  \A s \in DOMAIN tables[passing].slot :
                    LET r == tables[passing].slot[s]
                    IN  \/ r.keyno = 0
                        \/ <<s, r.keyno, r.value>> \in got
                        \/ <<passing, s>> \in late
<1> USE ShmAssumption
<1>1. MonitorInit => MonitorInv
  BY MonitorStart
<1>2. MonitorInv /\ [MonitorNext]_monitor => MonitorInv'
  <2>1. SUFFICES ASSUME MonitorInv, [MonitorNext]_monitor PROVE MonitorInv'
    OBVIOUS
  <2>2. ASSUME NEW w \in Writers, ReadIndex(w) \/ FindId(w) \/ PickSlot(w) \/ Fill(w) \/ Copy(w)
        PROVE  MonitorInv'
    BY <2>1, <2>2, ReadIndexKeeps, FindIdKeeps, PickSlotKeeps, FillKeeps, CopyKeeps
  <2>3. CASE begin_read_shm
    BY <2>1, <2>3, BeginKeeps
  <2>4. CASE read_shm
    BY <2>1, <2>4, ReadKeeps
  <2>5. CASE end_read_shm
    BY <2>1, <2>5, EndKeeps
  <2>6. CASE UNCHANGED monitor
    BY <2>1, <2>6, IdleKeeps
  <2>7. QED
    BY <2>1, <2>2, <2>3, <2>4, <2>5, <2>6 DEF MonitorNext
<1>3. MonitorInv /\ [MonitorNext]_monitor => [A]_monitor
  <2>1. MonitorInv => A
    BY EndLoses
  <2>2. QED
    BY <2>1
<1>4. QED
  BY <1>1, <1>2, <1>3, PTL DEF MonitorSpec, ClearsOnlyRead, A
=============================================================================
