SPECIFICATION Spec
CONSTANTS
  Conn = {c1, c2}
  Char = {a}
  Place = {near, far}
  Loaded = {near, far}
  None = None
  MaxFrames = 2
  MaxFaults = 0
SYMMETRY Symmetry
INVARIANTS TypeOK RegistriesAgree NobodyPlaysAfterDisconnect SoldOnce SaveIsLastDeparture
CHECK_DEADLOCK FALSE
