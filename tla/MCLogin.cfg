SPECIFICATION Spec
CONSTANTS
  Conn = {c1, c2}
  Username = {"u1", "u2"}
  Password = {"p", "q"}
  Name = {"n"}
  SessionId = {1}
  Place = {"home", "town"}
  Home = "home"
  Grace = 2
  StartAccounts <- OneAccount
  StartTables <- OneCharacter
  MaxClock = 2
  None = None
  Sent = {"login", "list", "create", "delete", "cancel", "locate", "connect", "enter", "exit"}
  MaxRequests = 5
  MaxCrashes = 1
  MaxEvents = 5
SYMMETRY Symmetry
INVARIANTS TypeOK EveryCharacterHasItsRows NamesAreUnique HandsOverItsOwn PlaysWhatItNamed
CHECK_DEADLOCK FALSE
