SPECIFICATION Spec
CONSTANTS
  Conn = {c1}
  Char = {"a", "b"}
  Account = {acc}
  AccountOf <- OneAccount
  Bag = {"bag1"}
  Equip = {}
  Box = {"box1"}
  Kind = {"arrow"}
  Empty = Empty
  Virgin = Virgin
  None = None
  Shop = Shop
  Fee = 1
  StartSlots <- NewBag
  StartMoney <- Coins
  StartBanks = {acc}
  Sent = {"drop", "buy"}
  MaxUnits = 1
  MaxRequests = 2
  MaxEnters = 2
  MaxFailures = 0
  MaxEvents = 4
INVARIANTS NothingDuplicated
CHECK_DEADLOCK FALSE
