SPECIFICATION FairSpec
CONSTANTS
  Egress = {1, 2, 3}
  Request = {"request"}
  MaxCorpses = 1
  Env = {"overlap", "list", "start", "stop", "replace", "crash", "unstamped"}
  MaxNoise = 1
INVARIANTS TypeOK OneWriter StopReaches
PROPERTIES OnlyTheDeadGo RoomServed
