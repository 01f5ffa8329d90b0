----------------------------- MODULE MCDocIndex -----------------------------
EXTENDS DocIndex, TLC

BranchSymmetry == Permutations(Branches)
=============================================================================
