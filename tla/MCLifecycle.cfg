SPECIFICATION TimedSpec
CONSTANTS
  n1 = n1  n2 = n2
  Nodes = {n1, n2}
  Peers <- OneSeed
  a1 = a1  a2 = a2
  Agents = {a1, a2}
  Endpoints = {e1, NoEndpoint}
  NoEndpoint = NoEndpoint
  Metadata = {m1}
  NoMetadata = NoMetadata
  ShorterName <- FirstIsPrefix
  ShorterEndpoint <- EmptyIsPrefix
  Radix = 2
  NoKey = NoKey
  Registrars = {n1}
  Fresh = TRUE
  MaxRevision = 4
  MaxEntries = 2
  Fanout = 3
  MaxFailures = 0
  HeartbeatTTL = 2
  PullTTL = 3
  Rising = TRUE
  SpreadTime = 2
CHECK_DEADLOCK FALSE
INVARIANT TimedTypeOK
PROPERTY LiveAgentsStayListed
INVARIANT SpreadsInTime
