----------------------------- MODULE MCBafsMem -----------------------------
EXTENDS BafsMem, TLC

CONSTANTS t1, t2, c1, c2, f1, f2

AllPairs == {{x, y} : x \in Op, y \in Op}

ContractPairs == AllPairs \ {{"reg", "close"}, {"pin", "close"}, {"map", "unmap"},
                             {"cb", "map"}, {"cb", "pin"}}

RacePairs == AllPairs \ {{"reg", "close"}, {"pin", "close"}}

MCCtrlsOf == [f \in File |-> IF f = f1 THEN <<c1>> ELSE <<c1, c2>>]

Symmetry == Permutations(Thread) \cup Permutations(Mem) \cup Permutations(Dma)
            \cup Permutations(Addr)
=============================================================================
