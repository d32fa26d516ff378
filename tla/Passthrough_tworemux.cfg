SPECIFICATION Spec
CONSTANTS
  Pid = {p1, p2}
  NoPid = NoPid
  MaxFailures = 1
  Listens = TRUE
  Env = {"rearm"}
INVARIANT OneRemux
