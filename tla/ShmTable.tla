------------------------------ MODULE ShmTable ------------------------------
(***************************************************************************)
(* A shared memory table used by one thread: set_shm, inc_shm (TNmShm.cpp) *)
(* and the calls of the class, growing included.                           *)
(***************************************************************************)
EXTENDS ShmSlots, SequencesExt

CONSTANTS
  Ids,      \* alarm ids: positive
  MaxVal,   \* bound of a counter
  Nhash, Nrec,
  MaxSlots  \* bound: a table of this size does not grow

VARIABLE table

RECURSIVE Add(_, _, _), Realloc(_)

Add(t, k, v) ==
  IF Room(t, k) = {} THEN Add(Realloc(t), k, v)
  ELSE LET s == CHOOSE i \in Room(t, k) : TRUE
       IN  Filled(Linked(t, k, s), s, k, v)

Records(t) ==
  SelectSeq([i \in 1..t.hash_size + t.data_size |-> t.slot[i - 1]],
            LAMBDA r : r.keyno > 0)

Larger(t) ==
  Alloc((t.hash_size * 12) \div 10, ((t.hash_size + t.data_size) * 12) \div 10)

\* Mutant of Realloc: the copies are put where they were.
ReallocInPlace(t) ==
  [Larger(t) EXCEPT !.used_size = t.used_size,
                       !.slot = [i \in DOMAIN @ |->
                          IF i \in DOMAIN t.slot THEN t.slot[i] ELSE Blank]]

(* A full table moves to a segment a fifth larger, record by record; with  *)
(* more buckets a key may belong to another one.                           *)
Realloc(t) ==
  FoldLeft(LAMBDA new, r : Add(new, r.keyno, r.value),
           Larger(t), Records(t))

TableInit == table = Alloc(Nhash, Nrec)

ValueAt(s) == table.slot[s].value

Set(k, v) ==
  \/ \E s \in Find(table, k) : table' = [table EXCEPT !.slot[s].value = v]
  \/ /\ Find(table, k) = {}
     /\ Room(table, k) = {} => table.hash_size + table.data_size < MaxSlots
     /\ table' = Add(table, k, v)

Inc(k, v) ==
  \E s \in Find(table, k) :
    /\ ValueAt(s) + v <= MaxVal
    /\ table' = [table EXCEPT !.slot[s].value = @ + v]

(* Erase leaves the links and the counters alone.                          *)
Erase(k) == \E s \in Find(table, k) : table' = [table EXCEPT !.slot[s].keyno = 0]

TableNext ==
  \/ \E k \in Ids : Erase(k) \/ \E v \in 1..MaxVal : Set(k, v) \/ Inc(k, v)
  \/ table' = Clear(table)

-----------------------------------------------------------------------------
(* The value Find gives for each id, 0 for none.                           *)
Held == [k \in Ids |-> IF Find(table, k) = {} THEN 0
                       ELSE ValueAt(CHOOSE s \in Find(table, k) : TRUE)]

(* The table behaves as a map, whatever was erased, reused and moved: a    *)
(* call changes the value of its own id and of no other, and growing the   *)
(* table changes none; only Clear takes more than one away.                *)
BehavesAsMap ==
  [][/\ \A k \in Ids, v \in 1..MaxVal :
          Set(k, v) => Held' = [Held EXCEPT ![k] = v]
     /\ \/ \E k \in Ids, v \in 0..MaxVal : Held' = [Held EXCEPT ![k] = v]
        \/ table' = Clear(table)]_table
=============================================================================
