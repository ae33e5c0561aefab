SPECIFICATION LBSpec
CONSTANTS
  Name = {n1, n2}
  Config = {c1, c2}
  Cluster = {k1}
  NoCluster = NoCluster
  Status = {"in_process", "active"}
  Nil = Nil
  FaultKinds <- MCFaults
  MaxFaults = 2
  MaxLBs = 3
INVARIANTS LBTypeOK RegistrySound LiveAckIsServed UniqueNames
SYMMETRY Symmetric
