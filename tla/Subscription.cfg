SPECIFICATION FairSpec
CONSTANTS
  Users = {u1, u2}
  SubIds = {s1, s2}
  NoUser = NoUser
  MaxPeriods = 2
 
PROPERTIES EndedStaysEnded LapsedEnds
\* Everybody deleted, nothing is left to do.
CHECK_DEADLOCK FALSE
