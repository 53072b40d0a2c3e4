---------------------------- MODULE MCBafsDmaMap ----------------------------
EXTENDS BafsDmaMap

CtrlFile == [group |-> FALSE, n_ctrls |-> 1]

GroupFile(n) == [group |-> TRUE, n_ctrls |-> n]

MCTarget == {CtrlFile, GroupFile(1), GroupFile(2), GroupFile(3)}

SmallTarget == {CtrlFile, GroupFile(2)}
=============================================================================
