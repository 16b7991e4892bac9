\* Once the user has been deleted nothing happens any more.
CHECK_DEADLOCK FALSE
CONSTANTS
  Procs = {p1, p2}
  Devices = {d1, d2}
  MaxDevices = 1
  Tokens = {t1, t2, t3}
  Resets = {x1}
  None = None
  MaxFailed = 1
  MaxVersion = 1
SPECIFICATION Spec
CONSTRAINT TwoSignIns
SYMMETRY Symmetry
INVARIANTS OneLivePerSignIn ResetOnce LoginsKeepLimit BarredStaysBarred AuthInv
PROPERTIES ImplementsSignIns
