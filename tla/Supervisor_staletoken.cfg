SPECIFICATION FairSpec
CONSTANTS
  Pid = {p1, p2}
  NoPid = NoPid
  Specs = {s1}
  MinBackoff = 1
  MaxBackoff = 3
  Ops = {"restart"}
PROPERTY StopReturns
