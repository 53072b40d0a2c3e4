----------------------------- MODULE MCBafsCtx -----------------------------
EXTENDS BafsCtx, TLC

CONSTANTS p1, p2, p3

AllPairs == {{x, y} : x \in Op, y \in Op}

(* p3 gets the number of p1 when p1 is gone. *)
MCPidOf == [p \in Proc |-> IF p = p2 THEN 2 ELSE 1]

Symmetry == Permutations(Thread) \cup Permutations(File) \cup Permutations(Ctx)
=============================================================================
