SPECIFICATION Spec
CONSTANTS
  a1 = a1  a2 = a2  e1 = e1  e2 = e2  m0 = m0  m1 = m1
  k1 = k1  k1Upper = k1Upper  k2 = k2  kBad = kBad
  Agents = {a1}
  Endpoints = {e1, e2}
  Metadata = {m0, m1}
  NoMetadata = m0
  MaxRevision = 2
  Keys = {k1, k1Upper, k2, kBad}
  NoKey = NoKey
  Canonical <- MCCanonical
  NoSignature = NoSignature
  MalformedSignature = MalformedSignature
  Libsodium = TRUE
  Submissions <- TimedSubmissions
  RequireSignatures = FALSE
  HeartbeatTTL = 1
  PullTTL = 2
  Year = 9
  MergeBound = 1
  MaxTime = 4
  MaxLog = 2
  MaxBatch = 1
INVARIANT RecoveredAgentsAreLive
