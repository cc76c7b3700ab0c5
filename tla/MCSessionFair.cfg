SPECIFICATION FairSpec
CONSTANTS
  Conn = {c1, c2}
  Char = {a, b}
  Place = {near, limbo}
  Loaded = {near}
  None = None
  MaxFrames = 1
  MaxFaults = 1
PROPERTIES ImplementsPresence DisconnectIsForgotten
CHECK_DEADLOCK FALSE
