------------------------------ MODULE ListHead ------------------------------
(***************************************************************************)
(* lib/list.h: circular doubly linked lists through a list_head inside the *)
(* listed structure.  The other modules write a list as a sequence; here   *)
(* are the pointers, shown to behave as the sequences of SeqLists do.      *)
(* list_splice without _init leaves its first list unusable and has no     *)
(* caller.                                                                 *)
(***************************************************************************)
EXTENDS Integers, Sequences, FiniteSetsExt

CONSTANTS Items, Heads, None

ASSUME ListAssumption == IsFiniteSet(Items) /\ Items \cap Heads = {} /\ None \notin Heads

VARIABLES
  links,    \* [next, prev : list_head -> list_head]
  head,     \* the head of the running list_for_each_entry_safe_l, or None
  pos, l    \* its loop variables

listVars == <<links, head, pos, l>>

Self == [x \in Items \cup Heads |-> x]

\* Mutant of __list_add: the neighbour behind still points to its old prev.
__list_addHalf(m, new1, prev, next) ==
  [next |-> [m.next EXCEPT ![new1] = next, ![prev] = new1],
   prev |-> [m.prev EXCEPT ![new1] = prev]]

__list_add(m, new1, prev, next) ==
  [next |-> [m.next EXCEPT ![new1] = next, ![prev] = new1],
   prev |-> [m.prev EXCEPT ![next] = new1, ![new1] = prev]]

__list_del(m, prev, next) ==
  [next |-> [m.next EXCEPT ![prev] = next],
   prev |-> [m.prev EXCEPT ![next] = prev]]

INIT_LIST_HEAD(m, x) ==
  [next |-> [m.next EXCEPT ![x] = x], prev |-> [m.prev EXCEPT ![x] = x]]

list_add_head(m, x, h) == __list_add(m, x, h, m.next[h])
list_add_tail(m, x, h) == __list_add(m, x, m.prev[h], h)
list_del_init(m, x) ==
  INIT_LIST_HEAD(__list_del(m, m.prev[x], m.next[x]), x)
list_move(m, x, h) ==
  list_add_head(__list_del(m, m.prev[x], m.next[x]), x, h)
list_move_tail(m, x, h) ==
  list_add_tail(__list_del(m, m.prev[x], m.next[x]), x, h)
list_empty(m, h) == m.next[h] = h

__list_splice(m, from, h) ==
  LET first == m.next[from]
      last == m.prev[from]
      behind == m.next[h]
  IN  [next |-> [m.next EXCEPT ![h] = first, ![last] = behind],
       prev |-> [m.prev EXCEPT ![first] = h, ![behind] = last]]

list_splice_init(m, from, h) ==
  IF list_empty(m, from) THEN m
  ELSE INIT_LIST_HEAD(__list_splice(m, from, h), from)

ListInit ==
  /\ links = [next |-> Self, prev |-> Self]
  /\ head = None
  /\ pos = None
  /\ l = None

(* A call outside a scan.  An item that list_add gets is on no list: its   *)
(* owner has initialised it or taken it off with list_del_init.            *)
Call ==
  /\ head = None
  /\ UNCHANGED <<head, pos, l>>
  /\ \/ \E x \in Items :
          \/ links' = list_del_init(links, x)
          \/ \E h \in Heads : \/ /\ list_empty(links, x)
                                 /\ \/ links' = list_add_head(links, x, h)
                                    \/ links' = list_add_tail(links, x, h)
                              \/ links' = list_move(links, x, h)
                              \/ links' = list_move_tail(links, x, h)
     \/ \E from, h \in Heads :
          from # h /\ links' = list_splice_init(links, from, h)

(* list_for_each_entry_safe_l: l runs one ahead of pos.                    *)
StartScan(h) ==
  /\ head = None
  /\ ~list_empty(links, h)
  /\ head' = h
  /\ pos' = links.next[h]
  /\ l' = links.next[links.next[h]]
  /\ UNCHANGED links

(* The body, which may take pos off its list or move it to another, and    *)
(* the loop's step; l was read before the body.                            *)
Visit ==
  /\ head # None
  /\ \/ UNCHANGED links
     \/ links' = list_del_init(links, pos)
     \/ \E h \in Heads \ {head} :
          \/ links' = list_move_tail(links, pos, h)
          \/ links' = list_add_tail(list_del_init(links, pos), pos, h)
  /\ IF l = head THEN head' = None /\ pos' = None /\ l' = None
     ELSE head' = head /\ pos' = l /\ l' = links'.next[l]

ListNext == Call \/ (\E h \in Heads : StartScan(h)) \/ Visit

ListSpec == ListInit /\ [][ListNext]_listVars

-----------------------------------------------------------------------------
(* The items from x on up to head h; a chain that does not come back to h  *)
(* is given one item too many.                                             *)
Walk(m, x, h) ==
  LET N == Cardinality(Items)
      at[n \in 0..N] == IF n = 0 THEN x ELSE m.next[at[n - 1]]
      ends == {n \in 0..N : at[n] = h}
      len == IF ends = {} THEN N + 1 ELSE Min(ends)
  IN  [k \in 1..len |-> IF k > N THEN h ELSE at[k - 1]]

Listed(m) == [h \in Heads |-> Walk(m, m.next[h], h)]

Lists == Listed(links)
Ahead == IF head = None THEN <<>> ELSE Walk(links, l, head)

Seqs == INSTANCE SeqLists WITH
  lists <- Lists, over <- head, at <- pos, todo <- Ahead

(* The pointers implement the sequences: no call loses, repeats or         *)
(* reorders an item of any list, and a scan whose body removes or moves    *)
(* the item it is at still meets every other one, once and in order.       *)
SeqSpec == Seqs!Spec

(***************************************************************************)
(* The inductive invariant behind it: each list is a ring through its      *)
(* head, forwards and backwards, the rings have no list_head in common,    *)
(* the list_heads on none point to themselves, and a scan is at an item of *)
(* its list with l at the next one.                                        *)
(***************************************************************************)
Sits(L, h, i) == IF i \in 1..Len(L[h]) THEN L[h][i] ELSE h

Rings(m, L) ==
  \A h \in Heads : \A i \in 0..Len(L[h]) :
    /\ m.next[Sits(L, h, i)] = Sits(L, h, i + 1)
    /\ m.prev[Sits(L, h, i + 1)] = Sits(L, h, i)

Apart(L) ==
  \A g, h \in Heads : \A i \in 0..Len(L[g]), j \in 0..Len(L[h]) :
    Sits(L, g, i) = Sits(L, h, j) => g = h /\ i = j

Alone(m, L) ==
  \A x \in Items : (\A h \in Heads : \A i \in 0..Len(L[h]) : Sits(L, h, i) # x)
                   => m.next[x] = x /\ m.prev[x] = x

ListHeads == Items \cup Heads
Maps == [next : [ListHeads -> ListHeads], prev : [ListHeads -> ListHeads]]

Stands(m, L) ==
  /\ m \in Maps /\ L \in [Heads -> Seq(Items)]
  /\ Rings(m, L) /\ Apart(L) /\ Alone(m, L)

Scanning ==
  \/ head = None /\ pos = None
  \/ /\ head \in Heads
     /\ \E i \in 1..Len(Lists[head]) :
          pos = Sits(Lists, head, i) /\ l = Sits(Lists, head, i + 1)

ListInv == Stands(links, Lists) /\ Scanning
=============================================================================
