SPECIFICATION NodeSpec
CONSTANTS
  Peers = {p1, p2}
  Owner = Owner
  Texts <- SomeTexts
  NodeId = "n1"
  Revisions <- SomeRevisions
  BufferSize = 1
  MaxStarts = 2
  MaxDatagrams = 2
  MaxFaults = 1
  Names = {"n1", "n3"}
  MaxBoots = 3
  MaxWriteFailures = 1
CHECK_DEADLOCK FALSE
INVARIANT TypeOK
INVARIANT WakeUpNotLost
INVARIANT OnlyHellosAnswered
INVARIANT IdentityStable
INVARIANT KeysMatch
INVARIANT NeverRefused
PROPERTY StopReturns
