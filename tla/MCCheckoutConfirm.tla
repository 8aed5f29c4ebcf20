------------------------- MODULE MCCheckoutConfirm -------------------------
EXTENDS CheckoutConfirm, TLC

CONSTANTS s1, s2, k1, k2, q1, q2, q3, c1, c2

Symmetry == Permutations({s1, s2}) \cup Permutations({k1, k2}) \cup Permutations({q1, q2, q3})
            \cup Permutations({c1, c2})
=============================================================================
