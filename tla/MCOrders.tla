------------------------------ MODULE MCOrders ------------------------------
EXTENDS Orders, TLC

\* Orders, sessions and request slots are interchangeable.
Symmetry == Permutations(Orders) \cup Permutations(Sessions) \cup Permutations(Requests)
=============================================================================
