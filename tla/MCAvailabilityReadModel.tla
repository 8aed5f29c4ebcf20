----------------------- MODULE MCAvailabilityReadModel -----------------------
EXTENDS AvailabilityReadModel, TLC

CONSTANTS s1, s2, o1, o2, p1, p2, w1, w2

Symmetry == Permutations(Polls) \cup Permutations(Workers) \cup Permutations(Owners)
=============================================================================
