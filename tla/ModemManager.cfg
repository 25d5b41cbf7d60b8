SPECIFICATION LiveSpec
CONSTANTS
  Modems = {"1-1", "1-2"}
  WatchInterval = 1
  DefaultInterval = 2
  MaxRetryDelay = 3
  FaultKinds = {"unplug", "sysfs", "init", "port", "hang"}
  MaxFaults = 3
INVARIANTS
  TypeOK
  OneWorker
PROPERTIES
  FailuresAreSpaced
  ModemIsServed
  RunEndsItsWorkers
