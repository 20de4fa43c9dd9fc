------------------------------ MODULE ShmSlots ------------------------------
(***************************************************************************)
(* 3rdlib/TShmBuffer.h: a hash of records in a shared memory segment.  The *)
(* first hash_size slots are the buckets, the other data_size ones are     *)
(* given out in order and linked behind a bucket by their position; keyno  *)
(* 0 marks an empty slot and next 0 the end of a chain.  total_size, which  *)
(* only Size reports, is left out, and so is the growing (ShmTable).       *)
(***************************************************************************)
EXTENDS Integers

Blank == [keyno |-> 0, value |-> 0, next |-> 0]

(* Alloc: a zeroed segment of nrec slots.                                  *)
Alloc(nhash, nrec) ==
  [hash_size |-> nhash, data_size |-> nrec - nhash, used_size |-> 0,
   slot |-> [i \in 0..nrec - 1 |-> Blank]]

(* The slots below are in use.                                             *)
Used(t) == t.hash_size + t.used_size

(* The first slot of S on the chain of k, {} when the chain has none.      *)
FirstOf(t, k, S) ==
  LET from[i \in DOMAIN t.slot] ==
        IF i \in S THEN {i}
        ELSE IF t.slot[i].next = 0 THEN {} ELSE from[t.slot[i].next]
  IN  from[k % t.hash_size]

(* Where Find and Erase stop.                                              *)
Find(t, k) == FirstOf(t, k, {i \in DOMAIN t.slot : t.slot[i].keyno = k})

(* Where Add puts a record: the first empty slot of the chain, else the    *)
(* next one that was never used; {} when there is none.                    *)
Room(t, k) ==
  LET empty == FirstOf(t, k, {i \in DOMAIN t.slot : t.slot[i].keyno = 0})
  IN  IF empty # {} THEN empty
      ELSE {i \in {Used(t)} : t.used_size < t.data_size}

(* A slot not used before goes to the end of the chain.                    *)
Linked(t, k, s) ==
  LET last == FirstOf(t, k, {i \in DOMAIN t.slot : t.slot[i].next = 0})
  IN  IF s < Used(t) THEN t
      ELSE [t EXCEPT !.used_size = @ + 1,
                     !.slot = [i \in DOMAIN @ |->
                                 IF i \in last THEN [@[i] EXCEPT !.next = s] ELSE @[i]]]

Filled(t, s, k, v) == [t EXCEPT !.slot[s].keyno = k, !.slot[s].value = v]

Clear(t) == Alloc(t.hash_size, t.hash_size + t.data_size)

(* The records at p or behind; Next returns the first of them.             *)
NextUsed(t, p) == {i \in p..Used(t) - 1 : t.slot[i].keyno > 0}
=============================================================================
