---------------------------- MODULE MCPlatformAi ----------------------------
(***************************************************************************)
(* Model checking of PlatformAi, and what the code says of same-key        *)
(* requests that its interleavings do not keep.                            *)
(***************************************************************************)
EXTENDS PlatformAi, TLC

Symmetry == Permutations(Requests) \cup Permutations(Keys) \cup Permutations(Sizes)
            \cup Permutations(Texts)

\* While a request is in progress, another one with its key is told so and does not
\* reach the provider (_claimRequest).
InProgress(r) == pc[r] \in {"preauth", "provider", "settle", "write", "complete"}
OneInProgress ==
  \A r, q \in Requests : r # q /\ InProgress(r) /\ InProgress(q) => Key(r) # Key(q)
=============================================================================
