------------------------------- MODULE MCAuth -------------------------------
EXTENDS Auth, TLC

Symmetry == Permutations(Procs) \cup Permutations(Devices)

\* Bound: at most two sign-ins, so that one of three tokens is left for a rotation.
TwoSignIns == Cardinality(Roots(Issued)) <= 2
=============================================================================
