----------------------------- MODULE MCSellers -----------------------------
EXTENDS Sellers, TLC

Symmetry == Permutations(Workers) \cup Permutations(Users) \cup Permutations(Cases) \cup Permutations(Slugs)
=============================================================================
