SPECIFICATION Spec
CONSTANTS
  Sessions = {s1, s2}
  Worker = w
  BillIds = {b1, b2}
  Keys = {k1}
  NoKey = NoKey
  Costs = {1, 2}
  MaxCost = 2
  Origins = {"billing.preauth"}
  Opening = 3
  TopUps = {1}
  MaxGranted = 1
PROPERTY ClosedIsFinal
