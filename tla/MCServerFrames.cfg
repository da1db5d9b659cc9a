SPECIFICATION LinkSpec
CONSTANTS
  c1 = c1
  c2 = c2
  Clients = {c1, c2}
  Request <- Requests
  Cuts <- HeadersCut
  Impatient = {c2}
  NoClient = NoClient
  Waker = Waker
  Gossiper = c1
  MaxCommands = 2
  MaxStarts = 2
  MaxFaults = 1
CHECK_DEADLOCK FALSE
INVARIANT FramesAreServedAsFrames
