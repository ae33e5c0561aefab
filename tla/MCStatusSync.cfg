SPECIFICATION StatusSpec
CONSTANTS
  Key = {k1}
  Name <- MCName
  NameOf <- MCNameOf
  Config = {cfg}
  TheConfig = cfg
  Cluster = {}
  NoCluster = NoCluster
  Status = {"in_process", "active"}
  Nil = Nil
  FaultKinds <- MCFaults
  QueueRetries = 1
  MaxFaults = 2
  MaxLBs = 3
  MaxWrites = 4
  MaxRev = 9
  MaxRestarts = 1
INVARIANTS StatusTypeOK ShownIsOwn RestIsReported
PROPERTY StatusConverges
CHECK_DEADLOCK FALSE
