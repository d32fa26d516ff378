SPECIFICATION Spec
CONSTANTS
  Pid = {p1, p2, p3}
  NoPid = NoPid
  MaxFailures = 1
  Listens = TRUE
  Env = {"remove", "close", "signal", "spawn", "db"}
SYMMETRY PidSymmetry
INVARIANT TypeOK OneRemux StoppedHasNoChild ArmedHoldsPort
