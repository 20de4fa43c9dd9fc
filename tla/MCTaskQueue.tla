---------------------------- MODULE MCTaskQueue ----------------------------
(* Three threads on the free list and one work queue, one preallocated     *)
(* node and one that malloc can still give.                                *)
EXTENDS TaskQueue
CONSTANTS n1, n2
MCTasks == {n1, n2}
MCHomeSeq == <<n1>>
=============================================================================
