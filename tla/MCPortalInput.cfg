SPECIFICATION InputSpec
CONSTANTS
  s1 = s1
  s2 = s2
  cm = cm
  h1 = h1
  h2 = h2
  web = web
  api = api
  d1 = d1
  d2 = d2
  ca = ca
  cb = cb
  key = key
  Controller = {c1, c2}
  Host = {h1, h2}
  Secret = {s1, s2}
  Prefixed = {cm}
  Text <- MCTexts
  Der = {d1, d2, ca, cb, key}
  Parsable = {d1, d2}
  PrivateKey = {key}
  IdOf <- MCIdOf
  Nil = Nil
  MaxCerts = 3
  MaxWrites = 1
  MaxRestarts = 1
  FaultKinds <- MCFaults
  MaxFaults = 1
  NodeIp = {n1, n2}
  Number = {}
  Bool = {"true", "false"}
  RealIP = {}
  Service = {web, api}
  Contents <- MCContents
  Variants <- MCVariants
  Start <- MCStart
INVARIANTS TLSTypeOK OneUploadEach RegisteredByFingerprint UploadsAreBundles
  HostsHaveTheirCerts PathsLeadToTheirService SettingsAreOwn
SYMMETRY Symmetric
CHECK_DEADLOCK FALSE
