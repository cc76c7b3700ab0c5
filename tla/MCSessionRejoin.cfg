SPECIFICATION Spec
CONSTANTS
  Conn = {c1, c2}
  Char = {a}
  Place = {near, far}
  Loaded = {near, far}
  None = None
  MaxFrames = 2
  MaxFaults = 0
PROPERTIES RejoinsWhereItLeft
CHECK_DEADLOCK FALSE
