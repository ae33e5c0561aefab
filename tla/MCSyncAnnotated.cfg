SPECIFICATION SyncSpec
CONSTANTS
  Key = {k1}
  QueueRetries = 1
  svc = svc
  tls = tls
  host = host
  Host = {host}
  Nodes = nodes
  Service = {svc}
  Secret = {tls}
  Value = {v1, v2}
  Usable = {v1, v2}
  DepMoves <- MCDepMoves
  IngressClass = "serverscom"
  Spec <- MCAnnotatedSpec
  Name <- MCName
  NameOf <- MCNameOf
  Config <- MCConfig
  Cluster = {}
  NoCluster = NoCluster
  Status = {"in_process"}
  Nil = Nil
  FaultKinds = {}
  MaxFaults = 0
  MaxLBs = 1
  MaxRev = 1
  MaxDepWrites = 1
  MaxRestarts = 0
  MaxNotifs = 2
INVARIANT SecretChangesReach
CHECK_DEADLOCK FALSE
