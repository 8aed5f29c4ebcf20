---------------------- MODULE MCPaymentReconciliation ----------------------
EXTENDS PaymentReconciliation, TLC

CONSTANTS w1, w2, a1, a2, f1, f2

Symmetry == Permutations(Workers) \cup Permutations(Attempts) \cup Permutations(Foreign)
=============================================================================
