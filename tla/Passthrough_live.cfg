SPECIFICATION FairSpec
CONSTANTS
  Pid = {p1, p2}
  NoPid = NoPid
  MaxFailures = 2
  Listens = FALSE
  Env = {"rearm", "remove", "spawn", "signal"}
INVARIANT ArmedIsSupervised
PROPERTY ArmedRuns RowEnds
