----------------------------- MODULE MCPricing -----------------------------
EXTENDS Pricing, TLC

\* Rules in small numbers: a thousand is 2, a million 4, the cost limit 20.
Fixed(c) == [mode |-> "fixed", on |-> TRUE, size |-> 1, fixed |-> c, base |-> 0, unit |-> 0,
             in |-> 0, out |-> 0, weighted |-> FALSE, min |-> c, max |-> c]
Metered(c, top) == [mode |-> "metered", on |-> TRUE, size |-> 2, fixed |-> 0, base |-> 1, unit |-> c,
             in |-> 0, out |-> 0, weighted |-> FALSE, min |-> 0, max |-> top]
Tokens(i, o, new) == [mode |-> "token", on |-> TRUE, size |-> IF new THEN 4 ELSE 1, fixed |-> 0,
             base |-> 0, unit |-> 0, in |-> i, out |-> o, weighted |-> new, min |-> 1, max |-> 9]

MCInitial == [file |-> Fixed(2), chat |-> Tokens(1, 2, FALSE)]
MCCorpusRules == [hsk |-> Metered(3, 0)]
MCAiRules == [chat |-> Tokens(1, 2, TRUE)]
MCBuiltin == [file |-> Fixed(2), chat |-> Tokens(1, 2, TRUE), hsk |-> Metered(3, 0)]

\* One list with new limits and the chat switched off; one that is refused.
MCDrafts == {[file |-> [Fixed(3) EXCEPT !.min = 0, !.max = 20],
              chat |-> Tokens(1, 1, FALSE), hsk |-> Metered(2, 4)],
             [chat |-> [Tokens(1, 1, FALSE) EXCEPT !.on = FALSE]],
             [chat |-> Tokens(0, 0, FALSE)]}

MCUses == {[used |-> 0, in |-> 1, out |-> 1], [used |-> 3, in |-> 5, out |-> 2],
           [used |-> 4, in |-> 4, out |-> 8]}

Symmetry == Permutations(Publishers)
=============================================================================
