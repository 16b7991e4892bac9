SPECIFICATION Spec
CONSTANTS
  Publishers = {p1, p2}
  Bills = {b1}
  Drafts <- MCDrafts
  Builtin <- MCBuiltin
  Initial <- MCInitial
  CorpusRules <- MCCorpusRules
  AiRules <- MCAiRules
  Thousand = 2
  Cap = 20
  Uses <- MCUses
  MaxVersions = 4
  MaxTime = 1
  None = None
SYMMETRY Symmetry
INVARIANTS PricingInv PaidAsQuoted
PROPERTIES OnlyRollbackRevives CarriedOver
CHECK_DEADLOCK FALSE
