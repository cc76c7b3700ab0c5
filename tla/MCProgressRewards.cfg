SPECIFICATION Spec
CONSTANTS
  Conn = {c1}
  Char = {a, b}
  Quest = {"gift", "sequel", "herbs", "travel"}
  QuestOf <- Quests
  Slot = {1, 2}
  Place = {"home", "away"}
  Need = 1
  MaxLevel = 3
  MaxSkill = 2
  SkillCost <- Costs
  Fee = 1
  JobId = "knight tier 2"
  BaseClass <- Tiers
  ClassStats <- Knights
  StartRow <- Novice
  StartStored = {1}
  Given = "given"
  None = None
  Sent = {"kill", "level", "quest"}
  MaxRequests = 4
  MaxEnters = 2
  MaxFailures = 1
  MaxEvents = 7
SYMMETRY Symmetry
INVARIANTS RewardsCompose
CHECK_DEADLOCK FALSE
