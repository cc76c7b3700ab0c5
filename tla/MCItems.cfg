SPECIFICATION Spec
CONSTANTS
  Conn = {c1, c2}
  Char = {"a", "b"}
  Account = {acc}
  AccountOf <- OneAccount
  Bag = {"bag1", "bag2"}
  Equip = {}
  Box = {"box1"}
  Kind = {"arrow"}
  Empty = Empty
  Virgin = Virgin
  None = None
  Shop = Shop
  Fee = 1
  StartSlots <- FullBox
  StartMoney <- Coins
  StartBanks = {acc}
  Sent = {"pickup", "move", "drop", "delete", "buy", "sell", "create", "open", "itemOut", "itemIn", "moneyOut",
          "moneyIn"}
  MaxUnits = 1
  MaxRequests = 3
  MaxEnters = 2
  MaxFailures = 1
  MaxEvents = 5
SYMMETRY Symmetry
INVARIANTS TypeOK DropsAreInOnePlace
PROPERTIES ItemsConserved
CHECK_DEADLOCK FALSE
