SPECIFICATION FairSyncSpec
CONSTANTS
  Key = {k1}
  QueueRetries = 1
  svc = svc
  tls = tls
  host = host
  Host = {host}
  Nodes = nodes
  Service = {svc}
  Secret = {tls}
  Value = {v1, bad}
  Usable = {v1}
  DepMoves <- MCDepMoves
  IngressClass = "serverscom"
  Spec <- MCLiveSpec
  Name <- MCName
  NameOf <- MCNameOf
  Config <- MCConfig
  Cluster = {}
  NoCluster = NoCluster
  Status = {"in_process"}
  Nil = Nil
  FaultKinds <- MCFaults
  MaxFaults = 1
  MaxLBs = 2
  MaxRev = 2
  MaxDepWrites = 2
  MaxRestarts = 1
  MaxNotifs = 2
INVARIANT ServedOrScheduled
PROPERTY Converges
CHECK_DEADLOCK FALSE
