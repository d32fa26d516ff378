SPECIFICATION FairSpec
CONSTANTS
  n1 = n1
  n2 = n2
  Node = {n1, n2}
  Asg = {a1}
  NoNode = NoNode
  Cap <- CapOne
  MaxSess = 1
  Opens <- OneSession
  MaxUp = 1
  MaxRestarts = 0
  Flaky = {n1}
  Faults = {"revoke", "crash"}
INVARIANTS PlacedHasOwner OnlyPlacedNodesRun RunningWasLaunched
PROPERTY DownNodeLosesWork UnplacedIsPlaced
