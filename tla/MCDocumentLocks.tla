-------------------------- MODULE MCDocumentLocks --------------------------
EXTENDS DocumentLocks, TLC

MCSymmetry == Permutations(Sessions) \cup Permutations(Docs) \cup Permutations(Writes)
=============================================================================
