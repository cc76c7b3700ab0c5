SPECIFICATION Spec
CONSTANTS
  Conn = {c1}
  Char = {"a"}
  Account = {acc}
  AccountOf <- OneAccount
  Bag = {"bag1"}
  Equip = {}
  Box = {"box1"}
  Kind = {"arrow"}
  Empty = Empty
  Virgin = Virgin
  None = None
  Shop = Shop
  Fee = 1
  StartSlots <- FullBox
  StartMoney <- Coins
  StartBanks = {acc}
  Sent = {"open", "itemOut"}
  MaxUnits = 2
  MaxRequests = 4
  MaxEnters = 1
  MaxFailures = 0
  MaxEvents = 5
INVARIANTS RightPasswordOpens
CHECK_DEADLOCK FALSE
