SPECIFICATION Spec
CONSTANTS
  Conn = {c1}
  Sender = {s1, s2}
  Prefix = 2
  Length = {3, 4, 5}
  Chunk = 5
  None = None
  MaxFrames = 2
  MaxSends = 3
INVARIANTS TypeOK OneWriteOfTheFront CallbacksFollowTheClient WrittenInOrder
PROPERTIES QueuesDrain HangUpsAreNoticed
CHECK_DEADLOCK FALSE
