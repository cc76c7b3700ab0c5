SPECIFICATION Spec
CONSTANTS
  Player = {1, 2}
  Monster = {wolf}
  Drop = {apple}
  Last = 4
  ZoneSize = 2
  Anchor <- FirstTile
  MaxHp = 2
  AggroRange = 2
  AttackRange = 1
  WanderSteps = 2
  Scatter = 1
  Respawning = {wolf}
  MaxExp = 1
  Unborn = Unborn
  Gone = Gone
  None = None
  MaxRequests = 4
INVARIANTS MonstersInViewAreShown
