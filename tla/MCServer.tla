------------------------------ MODULE MCServer ------------------------------
(* Three plugin threads; a second signal may come while the first is       *)
(* being obeyed.                                                           *)
EXTENDS Server
=============================================================================
