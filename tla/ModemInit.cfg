SPECIFICATION LiveSpec
CONSTANTS
  MaxPorts = 4
  FaultKinds = {"open", "error", "mute", "late", "port"}
  MaxFaults = 2
INVARIANTS
  TypeOK
  IdentityIsOwn
  ReadyIsConfigured
PROPERTIES
  InitReturns
  SetUpInTheEnd
