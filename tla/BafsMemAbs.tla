---------------------------- MODULE BafsMemAbs ----------------------------
(***************************************************************************)
(* What the driver promises about registered memory, without handles,      *)
(* counts, lists and locks: it is pinned at most once, controllers reach   *)
(* it only while it is pinned and the process has it mapped, and it is     *)
(* given up only when no controller reaches it any more.  BafsMem          *)
(* implements this for a process that keeps to the contract (see Buf       *)
(* there).                                                                 *)
(***************************************************************************)
CONSTANTS Mem, Dma

VARIABLES
  phase,  \* how far the life of each registration has come
  reach   \* the mappings through which controllers reach its pages

vars == <<phase, reach>>

Init ==
  /\ phase = [m \in Mem |-> "new"]
  /\ reach = [m \in Mem |-> {}]

Turn(m, from, to) ==
  /\ phase[m] \in from
  /\ phase' = [phase EXCEPT ![m] = to]

Unreached(m) == reach' = [reach EXCEPT ![m] = {}]

Register(m) == Turn(m, {"new"}, "registered") /\ UNCHANGED reach

Pin(m) == Turn(m, {"registered"}, "pinned") /\ UNCHANGED reach

(* A controller is given the pages, and loses them again. *)
Reach(m, d) ==
  /\ phase[m] = "pinned"
  /\ reach' = [reach EXCEPT ![m] = @ \cup {d}]
  /\ UNCHANGED phase

Retract(m, d) ==
  /\ reach' = [reach EXCEPT ![m] = @ \ {d}]
  /\ UNCHANGED phase

(* The process unmaps the memory. *)
Unmap(m) == Turn(m, {"pinned"}, "unmapped") /\ Unreached(m)

(* The GPU driver takes the pages back. *)
Revoke(m) == Turn(m, {"pinned", "unmapped"}, "revoked") /\ Unreached(m)

(* Registrations end: one by itself, or all that a closed file sweeps. *)
End(S) ==
  /\ \A m \in S : phase[m] \in {"registered", "unmapped", "revoked"} /\ reach[m] = {}
  /\ phase' = [m \in Mem |-> IF m \in S THEN "gone" ELSE phase[m]]
  /\ UNCHANGED reach

Next ==
  \/ \E m \in Mem : Register(m) \/ Pin(m) \/ Unmap(m) \/ Revoke(m)
  \/ \E m \in Mem, d \in Dma : Reach(m, d) \/ Retract(m, d)
  \/ \E S \in SUBSET Mem : End(S)

Spec == Init /\ [][Next]_vars
=============================================================================
