---------------------------- MODULE MCBafsLocks ----------------------------
(* An instance of BafsLocks for TLC: two threads of one process, with two  *)
(* registrations and a group of two controllers.                           *)
EXTENDS BafsLocks

CONSTANT p1

MCProcOf  == [t \in Thread |-> p1]
MCOwnerOf == [m \in Mem |-> p1]
=============================================================================
