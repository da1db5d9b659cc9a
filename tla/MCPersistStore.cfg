SPECIFICATION Spec
CONSTANTS
  Agents = {a1, a2}
  MaxStamp = 3
  PayloadSize = 2
  MaxEntrySize = 2
  MaxRecords = 2
  AboveSnapshot = TRUE
  Faults = {}
  Misreads = {3}
  MaxAppends = 4
  MaxSnapshots = 2
PROPERTY StoreImplemented
INVARIANT Durable
