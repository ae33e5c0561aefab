SPECIFICATION LBSpec
CONSTANTS
  Name = {n1, n2}
  Config = {c1, c2}
  Cluster = {}
  NoCluster = NoCluster
  Status = {"in_process", "active"}
  Nil = Nil
  FaultKinds <- MCDeleteFails
  MaxFaults = 1
  MaxLBs = 2
INVARIANT AckIsServed
