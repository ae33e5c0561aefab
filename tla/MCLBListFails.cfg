SPECIFICATION LBSpec
CONSTANTS
  Name = {n1, n2}
  Config = {c1, c2}
  Cluster = {}
  NoCluster = NoCluster
  Status = {"in_process", "active"}
  Nil = Nil
  FaultKinds <- MCListFails
  MaxFaults = 1
  MaxLBs = 3
INVARIANT UniqueNames
