SPECIFICATION Spec
CONSTANTS
  Requests = {r1, r2, r3}
  Keys = {k1}
  Sizes = {s1, s2}
  Texts = {t1, t2}
  NoRow = NoRow
  AgingKeys = {}
SYMMETRY Symmetry
\* Every request runs once and ends.
CHECK_DEADLOCK FALSE
INVARIANT OneInProgress
