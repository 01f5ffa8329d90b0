------------------------------- MODULE MCPool -------------------------------
EXTENDS Pool, TLC

CallerEntrySymmetry == Permutations(Callers) \cup Permutations(Entries)
=============================================================================
