SPECIFICATION Spec
CONSTANTS
  Player = {1, 2, 3}
  Monster = {wolf}
  Drop = {apple}
  Last = 4
  ZoneSize = 2
  Anchor <- FirstTile
  MaxHp = 2
  AggroRange = 2
  AttackRange = 1
  WanderSteps = 1
  Scatter = 0
  Respawning = {wolf}
  MaxExp = 1
  Unborn = Unborn
  Gone = Gone
  None = None
  MaxRequests = 4
INVARIANTS TypeOK IndexMatchesPlaces SightIsMutual ClientsDrawWhoIsNear DropsInViewAreShown
PROPERTIES CorpsesAreInert
