SPECIFICATION SerialSpec
CONSTANTS
  Sessions = {s1}
  Worker = w
  BillIds = {b1, b2, b3}
  Keys = {k1, k2}
  NoKey = NoKey
  Costs = {1, 2}
  MaxCost = 2
  Origins = {"billing.preauth", "platform_ai.preauth"}
  Opening = 4
  TopUps = {1}
  MaxGranted = 1
SYMMETRY Symmetry
INVARIANTS HoldsExact NoWriteRefused
PROPERTY ImplementsContract
