SPECIFICATION Spec
CONSTANTS
  invite = invite
  recharge = recharge
  Codes = {invite, recharge}
  Kind <- MCKind
  MaxUses <- MCMaxUses
  Devices = {d1, d2}
  Users = {u1, u2}
  Redeemers = {p1, p2}
  None = None
SYMMETRY Symmetry
INVARIANTS CodeUses
PROPERTIES ImplementsCodeContract
