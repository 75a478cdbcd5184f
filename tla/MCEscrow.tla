------------------------------ MODULE MCEscrow ------------------------------
EXTENDS Escrow, TLC

Symmetry == Permutations(Orders) \cup Permutations(Workers)
=============================================================================
