\* Every request runs once and ends.
CHECK_DEADLOCK FALSE
SPECIFICATION ResourceSpec
CONSTANTS
  Users = {u1, u2}
  Requests = {p1, p2}
  MaxBatch = 2
  Versions = {v1, v2}
  None = None
SYMMETRY Symmetry
INVARIANTS AccountsInv BatchTells
PROPERTIES ImplementsAccounts PartedByRace TicketsEnd
CONSTRAINT Bound
