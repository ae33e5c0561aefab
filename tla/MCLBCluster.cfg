SPECIFICATION LBSpec
CONSTANTS
  Name = {n1, n2}
  Config = {c1, c2}
  Cluster = {k1}
  NoCluster = NoCluster
  Status = {"in_process", "active"}
  Nil = Nil
  FaultKinds = {}
  MaxFaults = 0
  MaxLBs = 2
INVARIANT AckClusterIsServed
