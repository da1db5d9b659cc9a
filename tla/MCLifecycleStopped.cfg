SPECIFICATION TimedFairSpec
CONSTANTS
  n1 = n1  n2 = n2
  Nodes = {n1, n2}
  Peers <- OneSeed
  a1 = a1  a2 = a2
  Agents = {a1}
  Endpoints = {e1, NoEndpoint}
  NoEndpoint = NoEndpoint
  Metadata = {m1}
  NoMetadata = NoMetadata
  ShorterName <- FirstIsPrefix
  ShorterEndpoint <- EmptyIsPrefix
  Radix = 2
  NoKey = NoKey
  Registrars = {n1}
  Fresh = FALSE
  MaxRevision = 1
  MaxEntries = 2
  Fanout = 3
  MaxFailures = 0
  HeartbeatTTL = 3
  PullTTL = 6
  Rising = FALSE
  SpreadTime = 2
PROPERTY StoppedAgentsAreForgotten
