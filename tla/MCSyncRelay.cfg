SPECIFICATION FairSpec
CONSTANTS
  n1 = n1  n2 = n2  n3 = n3
  Nodes = {n1, n2, n3}
  Peers <- RelayPeers
  a1 = a1  a2 = a2
  Agents = {a1, a2}
  Endpoints = {e1, NoEndpoint}
  NoEndpoint = NoEndpoint
  Metadata = {m1}
  NoMetadata = NoMetadata
  ShorterName <- FirstIsPrefix
  ShorterEndpoint <- EmptyIsPrefix
  Radix = 2
  NoKey = NoKey
  Registrars = {n1}
  Fresh = TRUE
  MaxRevision = 2
  MaxEntries = 1
  Fanout = 3
  MaxFailures = 1
INVARIANT TypeOK
INVARIANT NoGaps
INVARIANT EqualRevisionsEqualRecords
PROPERTY NeverGoesBack
PROPERTY EventualConsistency
