SPECIFICATION Spec
CONSTANTS
  Agents = {a1, a2}
  MaxStamp = 2
  PayloadSize = 2
  MaxEntrySize = 6
  MaxRecords = 2
  AboveSnapshot = TRUE
  Faults = {"tear"}
  Misreads = {0, 2, 6, 7}
  MaxAppends = 2
  MaxSnapshots = 0
INVARIANT Durable
