----------------------------- MODULE MCBafsLoad -----------------------------
EXTENDS BafsLoad, TLC

(* p2 gets the number of p1 when p1 is gone. *)
MCPidOf == [p \in Proc |-> 1]

AllPairs == {{x, y} : x \in Op, y \in Op}

ContractPairs == AllPairs \ {{"open", "close"}}

Symmetry == Permutations(Thread) \cup Permutations(File) \cup Permutations(Ctx)
            \cup Permutations(Ctrl)
=============================================================================
