----------------------------- MODULE ShmMonitor -----------------------------
(***************************************************************************)
(* 3rdlib/TNmShm.cpp and c_api.cpp: threads report values under alarm ids  *)
(* without a lock while the monitoring agent collects them.  There are two *)
(* tables; index says which one is written, the agent switches it, reads   *)
(* the other table and clears it.  The numbers and the texts have a pair   *)
(* of tables each and the same code.                                       *)
(*                                                                         *)
(* link_shm has succeeded: the tables are attached and empty.  The tables  *)
(* are never full here (ShmTable has the growing); Find and the two halves *)
(* of Add are one step each.                                               *)
(***************************************************************************)
EXTENDS ShmSlots, FiniteSetsExt

CONSTANTS
  Writers,  \* threads that call SetInt or SetStr
  Keys, Vals,
  Buckets, Slots,
  MaxSets   \* bound: calls

ASSUME ShmAssumption ==
  /\ Keys \subseteq Nat \ {0}
  /\ Buckets \in Nat \ {0} /\ Slots \in Nat /\ Slots >= Buckets

VARIABLES
  index,    \* control_shm.index, an unsigned char
  tables,   \* the two segments
  call,     \* [Writers -> the call under way]
  passing,  \* the table the agent reads, or 2
  m_pNode,  \* where in it
  got,      \* the <<slot, id, value>> it has read on this pass
  late,     \* the <<table, slot>> stored by a call that began before the
            \* last switch away from that table
  sets      \* calls so far

monitor == <<index, tables, call, passing, m_pNode, got, late, sets>>

NoCall == [at |-> "none"]

MonitorInit ==
  /\ index = 0
  /\ tables = [i \in 0..1 |-> Alloc(Buckets, Slots)]
  /\ call = [w \in Writers |-> NoCall]
  /\ passing = 2
  /\ m_pNode = 0
  /\ got = {}
  /\ late = {}
  /\ sets = 0

(* set_shm reads the index once.                                           *)
ReadIndex(w) ==
  /\ call[w].at = "none"
  /\ sets < MaxSets
  /\ sets' = sets + 1
  /\ \E k \in Keys, v \in Vals :
       call' = [call EXCEPT ![w] = [at |-> "find", table |-> index % 2,
                  keyno |-> k, value |-> v, slot |-> 0, crossed |-> FALSE]]
  /\ UNCHANGED <<index, tables, passing, m_pNode, got, late>>

FindId(w) ==
  LET c == call[w]
      found == Find(tables[c.table], c.keyno)
  IN  /\ c.at = "find"
      /\ \/ /\ found = {}
            /\ call' = [call EXCEPT ![w].at = "add"]
         \/ \E s \in found : call' = [call EXCEPT ![w].at = "copy", ![w].slot = s]
      /\ UNCHANGED <<index, tables, passing, m_pNode, got, late, sets>>

(* Add, first half: a slot is chosen, and linked unless the chain had an   *)
(* empty one, which stays empty for everybody else.                        *)
PickSlot(w) ==
  LET c == call[w]
  IN  /\ c.at = "add"
      /\ \E s \in Room(tables[c.table], c.keyno) :
           /\ tables' = [tables EXCEPT ![c.table] = Linked(@, c.keyno, s)]
           /\ call' = [call EXCEPT ![w].at = "fill", ![w].slot = s]
      /\ UNCHANGED <<index, passing, m_pNode, got, late, sets>>

Stored(w) ==
  LET c == call[w]
  IN  /\ call' = [call EXCEPT ![w] = NoCall]
      /\ late' = IF c.crossed THEN late \cup {<<c.table, c.slot>>}
                 ELSE late \ {<<c.table, c.slot>>}
      /\ UNCHANGED <<index, passing, m_pNode, got, sets>>

Fill(w) ==
  /\ call[w].at = "fill"
  /\ tables' = [tables EXCEPT ![call[w].table] =
                  Filled(@, call[w].slot, call[w].keyno, call[w].value)]
  /\ Stored(w)

(* The value is copied where Find found the id, whatever is there by now.  *)
Copy(w) ==
  /\ call[w].at = "copy"
  /\ tables' = [tables EXCEPT
                  ![call[w].table].slot[call[w].slot].value = call[w].value]
  /\ Stored(w)

(* Calls that are under way go on with the table they have read.           *)
CrossedAll(i) ==
  [w \in Writers |-> IF call[w].at # "none" /\ call[w].table = i
                     THEN [call[w] EXCEPT !.crossed = TRUE] ELSE call[w]]

\* Mutant of begin_read_shm: the index is switched to the table being read.
begin_read_shmLate ==
  /\ passing = 2
  /\ passing' = (index + 1) % 2
  /\ index' = 255 - index
  /\ call' = CrossedAll((index + 1) % 2)
  /\ m_pNode' = 0
  /\ UNCHANGED <<tables, got, late, sets>>

(* The agent: index = ~index.                                              *)
begin_read_shm ==
  /\ passing = 2
  /\ passing' = index % 2
  /\ index' = 255 - index
  /\ call' = CrossedAll(index % 2)
  /\ m_pNode' = 0
  /\ UNCHANGED <<tables, got, late, sets>>

read_shm ==
  /\ passing # 2
  /\ LET t == tables[passing]
         left == NextUsed(t, m_pNode)
     IN  /\ left # {}
         /\ m_pNode' = Min(left) + 1
         /\ got' = got \cup {<<Min(left), t.slot[Min(left)].keyno,
                               t.slot[Min(left)].value>>}
  /\ UNCHANGED <<index, tables, call, passing, late, sets>>

end_read_shm ==
  /\ passing # 2
  /\ NextUsed(tables[passing], m_pNode) = {}
  /\ tables' = [tables EXCEPT ![passing] = Clear(@)]
  /\ late' = {x \in late : x[1] # passing}
  /\ got' = {}
  /\ passing' = 2
  /\ UNCHANGED <<index, call, m_pNode, sets>>

MonitorNext ==
  \/ \E w \in Writers :
       ReadIndex(w) \/ FindId(w) \/ PickSlot(w) \/ Fill(w) \/ Copy(w)
  \/ begin_read_shm \/ read_shm \/ end_read_shm

MonitorSpec == MonitorInit /\ [][MonitorNext]_monitor

-----------------------------------------------------------------------------
(* A value that is in a table when the agent clears it has been read, or   *)
(* was stored by a call that had read the index before the agent switched  *)
(* it: that one is lost without a trace.  No other order of the writers'   *)
(* and the agent's steps loses a value.                                    *)
ClearsOnlyRead ==
  [][end_read_shm =>
       \A s \in DOMAIN tables[passing].slot :
         LET r == tables[passing].slot[s]
         IN  \/ r.keyno = 0
             \/ <<s, r.keyno, r.value>> \in got
             \/ <<passing, s>> \in late]_monitor

(***************************************************************************)
(* The inductive invariant behind it.  Links lead on, to slots in use; a   *)
(* call that has not crossed a switch is about the table being written and *)
(* a slot in use there; only a late store is in a slot not in use; and     *)
(* what lies behind the agent has been read or is late.                    *)
(***************************************************************************)
Segment ==
  [hash_size : {Buckets}, data_size : {Slots - Buckets}, used_size : 0..Slots - Buckets,
   slot : [0..Slots - 1 -> [keyno : Nat, value : Vals \cup {0}, next : 0..Slots - 1]]]

LinksLeadOn(t) ==
  \A i \in DOMAIN t.slot : t.slot[i].next # 0 => i < t.slot[i].next /\ t.slot[i].next < Used(t)

Calls ==
  [at : {"find", "add", "fill", "copy"}, table : 0..1, keyno : Keys, value : Vals,
   slot : 0..Slots - 1, crossed : BOOLEAN]

MonitorTypes ==
  /\ index \in 0..255 /\ passing \in 0..2 /\ m_pNode \in Nat
  /\ tables \in [0..1 -> Segment]
  /\ call \in [Writers -> Calls \cup {NoCall}]
  /\ passing # 2 => index % 2 # passing

Uncrossed(w) ==
  call[w] # NoCall /\ ~call[w].crossed =>
    /\ call[w].table = index % 2
    /\ call[w].at \in {"fill", "copy"} => call[w].slot < Used(tables[call[w].table])

Outside(i, s) ==
  tables[i].slot[s].keyno # 0 => s < Used(tables[i]) \/ <<i, s>> \in late

Behind(s) ==
  passing # 2 /\ s < m_pNode =>
    LET r == tables[passing].slot[s]
    IN  r.keyno = 0 \/ <<s, r.keyno, r.value>> \in got \/ <<passing, s>> \in late

MonitorInv ==
  /\ MonitorTypes
  /\ \A i \in 0..1 : LinksLeadOn(tables[i])
  /\ \A w \in Writers : Uncrossed(w)
  /\ \A s \in 0..Slots - 1 : Behind(s) /\ \A i \in 0..1 : Outside(i, s)
=============================================================================
