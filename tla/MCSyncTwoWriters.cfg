SPECIFICATION FairSpec
CONSTANTS
  n1 = n1  n2 = n2  n3 = n3
  Nodes = {n1, n2}
  Peers <- TwoPeers
  a1 = a1  a2 = a2
  Agents = {a1, a2}
  Endpoints = {e1, NoEndpoint}
  NoEndpoint = NoEndpoint
  Metadata = {m1}
  NoMetadata = NoMetadata
  ShorterName <- FirstIsPrefix
  ShorterEndpoint <- EmptyIsPrefix
  Radix = 2
  NoKey = NoKey
  Registrars = {n1, n2}
  Fresh = TRUE
  MaxRevision = 2
  MaxEntries = 0
  Fanout = 3
  MaxFailures = 0
PROPERTY EventualConsistency
