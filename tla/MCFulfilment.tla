---------------------------- MODULE MCFulfilment ----------------------------
EXTENDS Fulfilment, TLC

Symmetry == Permutations(Workers) \cup Permutations(Disputes)
=============================================================================
