---------------------------- MODULE MCPipeline ----------------------------
(* A dispatch round makes one task after the other for the one net; one    *)
(* node is preallocated, the others are malloc'ed.                         *)
EXTENDS Pipeline, TLC
CONSTANTS a, n1, n2, n3
MCTasks2 == {n1, n2}
MCTasks3 == {n1, n2, n3}
MCHomeSeq == <<n1>>
MCDispatches == {<<a>>}
MCWidth111 == <<1, 1, 1>>
MCWidth211 == <<2, 1, 1>>
Symmetry == Permutations({n2, n3})
===========================================================================
