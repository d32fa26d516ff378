SPECIFICATION Spec
CONSTANTS
  n1 = n1
  n2 = n2
  Node = {n1}
  Asg = {a1}
  NoNode = NoNode
  Cap <- CapOne
  MaxSess = 2
  Opens <- OneReconnect
  MaxUp = 1
  MaxRestarts = 1
  Flaky = {n1}
  Faults = {"agentRestart", "masterRestart", "spawn", "exit", "pong"}
INVARIANTS TypeOK RunningWasLaunched
PROPERTY LiveSessionHeld
