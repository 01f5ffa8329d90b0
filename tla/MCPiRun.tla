------------------------------ MODULE MCPiRun -------------------------------
EXTENDS PiRun, TLC

RunSymmetry == Permutations(Runs)
SessionSymmetry == Permutations(Sessions)
=============================================================================
