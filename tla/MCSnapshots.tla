----------------------------- MODULE MCSnapshots -----------------------------
EXTENDS SnapshotInv, TLC
CmdSymmetry == Permutations(Cmds)
=============================================================================
