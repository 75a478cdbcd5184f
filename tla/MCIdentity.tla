----------------------------- MODULE MCIdentity -----------------------------
EXTENDS Identity, TLC

Symmetry == Permutations(Sessions) \cup Permutations(Workers)
=============================================================================
