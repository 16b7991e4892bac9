------------------------------ MODULE MCAdmins ------------------------------
EXTENDS Admins, FiniteSets, TLC

MCPairs == {<<"lock", "demote">>}

\* One cookie of each account at most, and no more failures than the limit.
Bound == \A a \in Admins : failed[a] <= MaxFailedAttempts /\ Cardinality({c \in cookies : c.who = a}) <= 1

Symmetry == Permutations(Requests)
=============================================================================
