----------------------------- MODULE MCSeatHolds -----------------------------
EXTENDS SeatHolds, TLC

CONSTANTS s1, s2, q1, q2, q3, q4, c1, c2

Symmetry ==
    Permutations(Seats) \cup Permutations(Requests) \cup Permutations(Checkouts)
=============================================================================
