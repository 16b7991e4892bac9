SPECIFICATION FairSpec
CONSTANTS
  Sessions = {s1}
  Worker = w
  BillIds = {b1, b2, b3}
  Keys = {k1, k2}
  NoKey = NoKey
  Costs = {1}
  MaxCost = 1
  Origins = {"billing.preauth"}
  Opening = 3
  TopUps = {1}
  MaxGranted = 0
INVARIANT AccountInv
PROPERTY PendingEnds
