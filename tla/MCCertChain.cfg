SPECIFICATION InputSpec
CONSTANTS
  s1 = s1
  s2 = s2
  cm = cm
  h1 = h1
  h2 = h2
  web = web
  api = api
  d1 = d1
  d2 = d2
  ca = ca
  cb = cb
  key = key
  Controller = {c1}
  Host = {h1, h2}
  Secret = {s1, s2}
  Prefixed = {cm}
  Text <- MCTexts
  Der = {d1, d2, ca, cb, key}
  Parsable = {d1, d2}
  PrivateKey = {key}
  IdOf <- MCIdOf
  Nil = Nil
  MaxCerts = 2
  MaxWrites = 1
  MaxRestarts = 0
  FaultKinds = {}
  MaxFaults = 0
  NodeIp = {n1, n2}
  Number = {}
  Bool = {"true", "false"}
  RealIP = {}
  Service = {web, api}
  Contents <- MCContents
  Variants <- MCVariants
  Start <- MCChainStart
INVARIANT ChainIsSynced
CHECK_DEADLOCK FALSE
