----------------------------- MODULE TimeStamp -----------------------------
(***************************************************************************)
(* vfs_time_stamp.c: two files of times, the newest file received per      *)
(* directory (fcs) and per directory and source (cs), from which a node    *)
(* goes on with its synchronisation.  They have one position each for all  *)
(* that use them, so calls do not overlap here, and they stay over a       *)
(* restart.  Times are in units of the eight bytes one takes.              *)
(***************************************************************************)
EXTENDS Integers, FiniteSetsExt, Sequences

CONSTANTS
  Received,     \* tasks [path, domain, ctime]: path the numbers its parts
                \* begin with, domain the one behind "fcs", -1 without
  DIR1, DIR2, MAXFCS

ASSUME StampAssumption ==
  /\ Received \subseteq [path : Seq(Int), domain : Int, ctime : Nat]
  /\ {DIR1, DIR2, MAXFCS} \subseteq Nat \ {0}

VARIABLES
  fcs, cs,      \* the files: position -> time
  self_stat,
  recorded      \* tasks taken note of: <<file, task>>

stamps == <<fcs, cs, self_stat, recorded>>

(* The two directories above the file's, taken off the end of its path;    *)
(* there must be a '/' before each.  C's % keeps the sign.                 *)
HasDirs(path) ==
  /\ Len(path) >= 4
  /\ \A x \in {<<path[Len(path) - 2], DIR1>>, <<path[Len(path) - 1], DIR2>>} :
       x[1] >= 0 \/ x[1] % x[2] = 0
get_dir1_dir2(path) ==
  <<path[Len(path) - 2] % DIR1, path[Len(path) - 1] % DIR2>>

FcsPos(t) == LET d == get_dir1_dir2(t.path) IN d[1] * DIR2 + d[2]
CsPos(t)  == FcsPos(t) * MAXFCS + (t.domain % MAXFCS)

StampInit ==
  /\ fcs = [p \in 0..DIR1 * DIR2 - 1 |-> 0]
  /\ cs = [p \in 0..DIR1 * DIR2 * MAXFCS - 1 |-> 0]
  /\ self_stat = "UNKOWN_STAT"
  /\ recorded = {}

\* Mutant of Newer: what is received last counts.
NewerAny(file, pos, t) == TRUE

Newer(file, pos, t) == file[pos] < t.ctime

set_fcs_time_stamp(t) ==
  /\ HasDirs(t.path)
  /\ fcs' = IF Newer(fcs, FcsPos(t), t) THEN [fcs EXCEPT ![FcsPos(t)] = t.ctime]
            ELSE fcs
  /\ recorded' = recorded \cup {<<"fcs", t>>}
  /\ UNCHANGED <<cs, self_stat>>

set_cs_time_stamp(t) ==
  /\ HasDirs(t.path)
  /\ t.domain >= 0
  /\ IF self_stat = "ON_LINE"
     THEN /\ cs' = IF Newer(cs, CsPos(t), t) THEN [cs EXCEPT ![CsPos(t)] = t.ctime]
                   ELSE cs
          /\ recorded' = recorded \cup {<<"cs", t>>}
     ELSE UNCHANGED <<cs, recorded>>
  /\ UNCHANGED <<fcs, self_stat>>

(* The node is in the table of addresses again, or is not in it any more.   *)
check_self_stat ==
  /\ \/ self_stat = "OFF_LINE" /\ self_stat' = "UNKOWN_STAT"
     \/ self_stat # "OFF_LINE" /\ self_stat' = "OFF_LINE"
  /\ UNCHANGED <<fcs, cs, recorded>>

(* Who sets it ON_LINE is not in the repository.                           *)
GoOnLine ==
  /\ self_stat = "UNKOWN_STAT"
  /\ self_stat' = "ON_LINE"
  /\ UNCHANGED <<fcs, cs, recorded>>

StampNext ==
  \/ \E t \in Received : set_fcs_time_stamp(t) \/ set_cs_time_stamp(t)
  \/ check_self_stat
  \/ GoOnLine

StampSpec == StampInit /\ [][StampNext]_stamps

-----------------------------------------------------------------------------
Newest(S) == Max({t.ctime : t \in S} \cup {0})
Of(file) == {r[2] : r \in {x \in recorded : x[1] = file}}

(* Whatever the order in which files arrive, and whatever other            *)
(* directories and sources get, a stamp is the time of the newest file     *)
(* recorded for it; sources that are the same modulo MAXFCS share one.     *)
StampsAreNewest ==
  \A t \in {x \in Received : HasDirs(x.path)} :
    LET Same(u) == get_dir1_dir2(u.path) = get_dir1_dir2(t.path)
    IN  /\ fcs[FcsPos(t)] = Newest({u \in Of("fcs") : Same(u)})
        /\ t.domain >= 0 =>
             cs[CsPos(t)] = Newest({u \in Of("cs") :
                              Same(u) /\ u.domain % MAXFCS = t.domain % MAXFCS})

(***************************************************************************)
(* The inductive invariant behind it: the files by position.               *)
(***************************************************************************)
IsNewest(m, S) == m \in {t.ctime : t \in S} \cup {0} /\ \A t \in S : t.ctime <= m

StampInv ==
  /\ fcs \in [0..(DIR1 * DIR2 - 1) -> Nat]
  /\ cs \in [0..(DIR1 * DIR2 * MAXFCS - 1) -> Nat]
  /\ \A r \in recorded :
       /\ r[2] \in Received /\ HasDirs(r[2].path)
       /\ r[1] = "cs" => r[2].domain >= 0
  /\ \A p \in DOMAIN fcs : IsNewest(fcs[p], {t \in Of("fcs") : FcsPos(t) = p})
  /\ \A p \in DOMAIN cs : IsNewest(cs[p], {t \in Of("cs") : CsPos(t) = p})
=============================================================================
