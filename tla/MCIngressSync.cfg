SPECIFICATION SyncSpec
CONSTANTS
  Key = {k1, k2}
  QueueRetries = 1
  svc = svc
  tls = tls
  host = host
  Host = {host}
  Nodes = nodes
  Service = {svc}
  Secret = {tls}
  Value = {v1}
  Usable = {v1}
  DepMoves <- MCDepMoves
  IngressClass = "serverscom"
  Spec <- MCSpec
  Name <- MCName
  NameOf <- MCNameOf
  Config <- MCConfig
  Cluster = {}
  NoCluster = NoCluster
  Status = {"in_process"}
  Nil = Nil
  FaultKinds <- MCFaults
  MaxFaults = 2
  MaxLBs = 3
  MaxRev = 3
  MaxDepWrites = 0
  MaxRestarts = 1
  MaxNotifs = 2
INVARIANTS SyncTypeOK WQTypeOK QueueSound RetriesScheduled
  ServedOrScheduled NothingLeftRegistered
PROPERTIES SteadyIsKept RefinesDirectory RefinesPendingKeys
SYMMETRY Symmetric
CHECK_DEADLOCK FALSE
