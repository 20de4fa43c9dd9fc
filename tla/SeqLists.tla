------------------------------ MODULE SeqLists ------------------------------
(***************************************************************************)
(* What every user of lib/list.h relies on: a list is a sequence, an item  *)
(* is on one list or on none, and a scan that may remove the item it is at *)
(* meets every item the list had when it began, once and in order.         *)
(***************************************************************************)
EXTENDS SequencesExt

CONSTANTS Items, Heads, None

VARIABLES
  lists,    \* [Heads -> Seq(Items)]
  over,     \* the list being scanned, None outside a scan
  at,       \* the item the scan is at
  todo      \* the items it has still to meet

vars == <<lists, over, at, todo>>

Removed(i) == [h \in Heads |-> RemoveFirst(lists[h], i)]
Free(i) == \A h \in Heads : \A k \in DOMAIN lists[h] : lists[h][k] # i

Init ==
  /\ lists = [h \in Heads |-> <<>>]
  /\ over = None
  /\ at = None
  /\ todo = <<>>

Idle == over = None /\ UNCHANGED <<over, at, todo>>

AddHead(i, h) ==
  /\ Free(i) /\ Idle
  /\ lists' = [lists EXCEPT ![h] = <<i>> \o @]

AddTail(i, h) ==
  /\ Free(i) /\ Idle
  /\ lists' = [lists EXCEPT ![h] = Append(@, i)]

Delete(i) == Idle /\ lists' = Removed(i)
MoveHead(i, h) == Idle /\ lists' = [Removed(i) EXCEPT ![h] = <<i>> \o @]
MoveTail(i, h) == Idle /\ lists' = [Removed(i) EXCEPT ![h] = Append(@, i)]

Splice(l, h) ==
  /\ l # h /\ Idle
  /\ lists' = [lists EXCEPT ![l] = <<>>, ![h] = lists[l] \o @]

StartScan(h) ==
  /\ over = None
  /\ lists[h] # <<>>
  /\ over' = h
  /\ at' = Head(lists[h])
  /\ todo' = Tail(lists[h])
  /\ UNCHANGED lists

(* The body of the scan keeps the item, takes it off or moves it to the    *)
(* end of another list; then the scan goes on.                             *)
Advance ==
  IF todo = <<>> THEN over' = None /\ at' = None /\ todo' = <<>>
  ELSE over' = over /\ at' = Head(todo) /\ todo' = Tail(todo)

Visit ==
  /\ over # None
  /\ \/ UNCHANGED lists
     \/ lists' = Removed(at)
     \/ \E h \in Heads \ {over} :
          lists' = [Removed(at) EXCEPT ![h] = Append(@, at)]
  /\ Advance

Next ==
  \/ \E i \in Items :
       \/ Delete(i)
       \/ \E h \in Heads :
            AddHead(i, h) \/ AddTail(i, h) \/ MoveHead(i, h) \/ MoveTail(i, h)
  \/ \E l, h \in Heads : Splice(l, h)
  \/ \E h \in Heads : StartScan(h)
  \/ Visit

Spec == Init /\ [][Next]_vars
=============================================================================
