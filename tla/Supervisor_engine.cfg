SPECIFICATION FairSpec
CONSTANTS
  Pid = {p1, p2}
  NoPid = NoPid
  Specs = {s1, s2}
  MinBackoff = 1
  MaxBackoff = 3
  Ops = {"rebuild", "restart"}
INVARIANT TypeOK OneChild StopLeavesNone
PROPERTY ExitIsRestarted StopHangsOnlyOnRestart
