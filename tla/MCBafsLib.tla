----------------------------- MODULE MCBafsLib -----------------------------
EXTENDS BafsLib, TLC

Symmetry == Permutations(Thread)
=============================================================================
