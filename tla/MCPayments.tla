----------------------------- MODULE MCPayments -----------------------------
EXTENDS Payments, TLC

CONSTANTS i1, i2

\* Every payment by SSLCommerz, by bKash, or one by each gateway.
AllSslcommerz == [i \in Intents |-> "sslcommerz"]
AllBkash      == [i \in Intents |-> "bkash"]
OneOfEach     == i1 :> "sslcommerz" @@ i2 :> "bkash"

Symmetry == Permutations(Workers) \cup Permutations(Intents)
=============================================================================
