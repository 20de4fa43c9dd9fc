---------------------------- MODULE MCConnTable ----------------------------
(* Descriptors 5 and up: the ones below are the process's own.             *)
EXTENDS ConnTable
MCFds == 5..6
MCFds3 == 5..7
============================================================================
