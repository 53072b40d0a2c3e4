----------------------------- MODULE MCBafsDev -----------------------------
EXTENDS BafsDev, TLC

AllPairs == {{x, y} : x \in Op, y \in Op}

ContractPairs == AllPairs \ {{"open", "remove"}, {"open", "delete"}, {"create", "remove"},
                             {"probe", "close"}, {"probe", "delete"},
                             {"probe", "munmap"}}

(* Lists of two names, with and without the same controller twice. *)
AllNames == {<<x, y>> : x \in Ctrl, y \in Ctrl}

DistinctNames == {ns \in AllNames : ns[1] # ns[2]}

Symmetry == Permutations(Thread) \cup Permutations(File) \cup Permutations(Pdev)
            \cup Permutations(Ctrl)
=============================================================================
