------------------------------ MODULE WorldMap ------------------------------
(***************************************************************************)
(* One map of the world: who stands where, who sees whom, and what each    *)
(* client has been told.                                                   *)
(*                                                                         *)
(* The world strand does everything here, in a cycle of phases:            *)
(*   "requests"  handlers and callbacks change the map at once and publish *)
(*               events to the map's bus (EventBus.h)                      *)
(*   "events"    Map::Tick dispatches what was published, oldest first;    *)
(*               the systems' listeners update who sees whom and send      *)
(*   "simulate"  drops expire and monsters act; what they publish waits    *)
(*               for the next tick's dispatch                              *)
(*                                                                         *)
(* The tile grid is one-dimensional: zones, distances and steps treat both *)
(* axes alike. Timers are abstract: one that runs may fire at any tick.    *)
(***************************************************************************)
EXTENDS Integers, Sequences, FiniteSets

CONSTANTS
  Player,      \* instance ids, each of one stay on the map
  Monster,     \* creatures the map was loaded with
  Drop,        \* ids of items on the ground
  Last,        \* the last tile of the grid
  ZoneSize,
  Anchor,      \* where each monster spawns
  MaxHp,
  AggroRange, AttackRange, WanderSteps, Scatter,
  Respawning,  \* monsters with a respawn time
  MaxExp,      \* where experience saturates
  Unborn, Gone, None,
  MaxRequests  \* handlers and callbacks in a behaviour

ASSUME WorldMapAssumption ==
  /\ Player \subseteq Nat
  /\ Last \in Nat /\ ZoneSize \in Nat \ {0}
  /\ Anchor \in [Monster -> 0..Last]
  /\ MaxHp \in Nat \ {0} /\ MaxExp \in Nat
  /\ AggroRange \in Nat /\ AttackRange \in Nat
  /\ WanderSteps \in Nat /\ Scatter \in Nat
  /\ Respawning \subseteq Monster
  /\ Unborn \notin Nat /\ Gone \notin Nat /\ None \notin Nat
  /\ Unborn # Gone
  /\ MaxRequests \in Nat

VARIABLES
  place,     \* the tile of each player on the map
  sees,      \* Player::visible_players, the characters its client has loaded
  index,     \* VisibilityIndex::m_viewers_by_zone
  mob,       \* Map::m_creatures
  drops,     \* Map::m_drops, and where a claimed drop lay
  exp,       \* experience of each player
  log,       \* EventBus: published and not dispatched
  batch,     \* EventBus: what the running Dispatch has left
  phase,
  unticked,  \* monsters TickMonster has still to visit
  requests,
  drawn,     \* the clients: where each draws each character, or None
  drawnMobs, \* the monsters each client draws
  drawnDrops \* the items each client draws

ground == <<place, sees, index, mob, drops, exp>>
bus == <<log, batch, phase, unticked, requests>>
screens == <<drawn, drawnMobs, drawnDrops>>
vars == <<ground, bus, screens>>

Tile == 0..Last
Zone == 0..(Last \div ZoneSize)
AiState == {"Idle", "Wander", "Chase", "Attacking"}

Mob == [at : Tile, hp : 0..MaxHp, armed : BOOLEAN,
        ai : AiState, target : Player \cup {None}, steps : 0..WanderSteps, waits : BOOLEAN]

Event ==
       [kind : {"join", "leave"}, who : Player]
  \cup [kind : {"zone"}, who : Player, from : Zone \cup {None}, to : Zone]
  \cup [kind : {"move"}, who : Player, to : Tile]
  \cup [kind : {"mob move"}, mob : Monster, from : Tile, to : Tile]
  \cup [kind : {"respawn"}, mob : Monster]
  \cup [kind : {"killed"}, mob : Monster, at : Tile]
  \cup [kind : {"attack resolved"}, who : Player, mob : Monster, at : Tile, hp : 0..MaxHp]
  \cup [kind : {"attack requested"}, mob : Monster, target : Player]
  \cup [kind : {"drop add", "drop remove"}, drop : Drop, at : Tile]

-----------------------------------------------------------------------------
(* Geometry                                                                *)

ZoneOf(tile) == tile \div ZoneSize

Distance(a, b) == IF a > b THEN a - b ELSE b - a

IsNeighboring(a, b) == Distance(a, b) <= 1

Around(zone) == {z \in Zone : IsNeighboring(z, zone)}

\* Mutant: a step is not clamped to the grid.
StepAnywhere(tile, delta) == tile + delta

\* Grid::Step.
Step(tile, delta) ==
  IF tile + delta < 0 THEN 0 ELSE IF tile + delta > Last THEN Last ELSE tile + delta

-----------------------------------------------------------------------------
(* Who can see what                                                        *)

OnMap == {p \in Player : place[p] \in Tile}

InView(p) == {q \in OnMap \ {p} : IsNeighboring(ZoneOf(place[q]), ZoneOf(place[p]))}

\* VisibilityIndex::Add, Remove and Move.
Indexed(idx, p, zone) ==
  [z \in Zone |-> IF z \in Around(zone) THEN idx[z] \cup {p} ELSE idx[z]]

Unindexed(idx, p, zone) ==
  [z \in Zone |-> IF z \in Around(zone) THEN idx[z] \ {p} ELSE idx[z]]

\* Mutant: the old zones keep the player.
IndexedOnly(idx, p, from, to) == Indexed(idx, p, to)

Reindexed(idx, p, from, to) ==
  IF from = to THEN idx ELSE Indexed(Unindexed(idx, p, from), p, to)

\* Map::ViewersOf, which dereferences every id the index holds.
ViewersOf(tile) == index[ZoneOf(tile)]

\* A message to a set of clients about one thing.
Draw(screen, clients, what) ==
  [c \in Player |-> IF c \in clients THEN screen[c] \cup {what} ELSE screen[c]]

Erase(screen, clients, what) ==
  [c \in Player |-> IF c \in clients THEN screen[c] \ {what} ELSE screen[c]]

-----------------------------------------------------------------------------
(* Monsters                                                                *)

\* Entering a state resets the AI's data.
Enter(self, ai, target, steps, waits) ==
  [self EXCEPT !.ai = ai, !.target = target, !.steps = steps, !.waits = waits]

EnterIdle(self, delayed) == Enter(self, "Idle", None, 0, delayed)

EnterWander(self) == Enter(self, "Wander", None, WanderSteps, FALSE)

EnterChase(self, target, delayed) == Enter(self, "Chase", target, 0, delayed)

EnterAttacking(self, target) == Enter(self, "Attacking", target, 0, TRUE)

\* Creature::Kill: a monster without a respawn time stays dead.
Killed(m) == EnterIdle([mob[m] EXCEPT !.hp = 0, !.armed = m \in Respawning], FALSE)

\* Creature::Respawn, at a tile around its anchor.
Respawned(m, tile) ==
  EnterIdle([mob[m] EXCEPT !.at = tile, !.hp = MaxHp, !.armed = FALSE], FALSE)

\* CreatureSpawn::RollPosition.
SpawnTiles(m) == {t \in Tile : Distance(t, Anchor[m]) <= Scatter}

-----------------------------------------------------------------------------
(* Handlers and callbacks                                                  *)

Publish(events) == log' = log \o events

Handling ==
  /\ phase = "requests"
  /\ requests < MaxRequests
  /\ requests' = requests + 1
  /\ UNCHANGED <<batch, phase, unticked, screens>>

\* Map::Spawn of a player, called by World::Join right after it was given its id
\* (HandleEnter, onDone): whoever has a smaller one joined before.
SpawnPlayer(p) ==
  /\ Handling
  /\ place[p] = Unborn /\ \A q \in Player : q < p => place[q] # Unborn
  /\ \E tile \in Tile :
       /\ place' = [place EXCEPT ![p] = tile]
       /\ index' = Indexed(index, p, ZoneOf(tile))
       /\ Publish(<<[kind |-> "join", who |-> p],
                    [kind |-> "zone", who |-> p, from |-> None, to |-> ZoneOf(tile)]>>)
  /\ sees' = [sees EXCEPT ![p] = {}]
  /\ UNCHANGED <<mob, drops, exp>>

\* Map::Despawn of a player, called by World::Leave.
DespawnPlayer(p) ==
  /\ Handling
  /\ p \in OnMap
  /\ place' = [place EXCEPT ![p] = Gone]
  /\ index' = Unindexed(index, p, ZoneOf(place[p]))
  /\ Publish(<<[kind |-> "leave", who |-> p]>>)
  /\ UNCHANGED <<sees, mob, drops, exp>>

\* Mutant: the zone change is forgotten.
NoZoneChange(p, from, to) == <<>>

ZoneChange(p, from, to) ==
  IF from = to THEN <<>>
  ELSE <<[kind |-> "zone", who |-> p, from |-> from, to |-> to]>>

\* Map::Move, to any tile of the grid; the zone change is published first.
Move(p) ==
  /\ Handling
  /\ p \in OnMap
  /\ \E tile \in Tile :
       LET from == ZoneOf(place[p])  to == ZoneOf(tile) IN
         /\ place' = [place EXCEPT ![p] = tile]
         /\ index' = Reindexed(index, p, from, to)
         /\ Publish(ZoneChange(p, from, to) \o <<[kind |-> "move", who |-> p, to |-> tile]>>)
  /\ UNCHANGED <<sees, mob, drops, exp>>

\* Mutant: a dead monster can be hit.
AnyTarget(m) == TRUE

CanBeHit(m) == mob[m].hp > 0

\* Player::GainExperience saturates.
Gained(p) == IF exp[p] < MaxExp THEN exp[p] + 1 ELSE exp[p]

\* Player::Attack of a monster in reach by a client that knows where it stands;
\* every other attack is refused. The kill is published before the attack.
Attack(p, m) ==
  /\ Handling
  /\ p \in OnMap
  /\ Distance(place[p], mob[m].at) <= 1
  /\ CanBeHit(m)
  /\ \E damage \in 1..MaxHp :
       LET hp == IF damage < mob[m].hp THEN mob[m].hp - damage ELSE 0
           resolved == [kind |-> "attack resolved", who |-> p, mob |-> m,
                        at |-> mob[m].at, hp |-> hp] IN
         IF hp > 0
           THEN /\ mob' = [mob EXCEPT ![m].hp = hp]
                /\ Publish(<<resolved>>)
                /\ UNCHANGED exp
           ELSE /\ mob' = [mob EXCEPT ![m] = Killed(m)]
                /\ Publish(<<[kind |-> "killed", mob |-> m, at |-> mob[m].at], resolved>>)
                /\ exp' = [exp EXCEPT ![p] = Gained(p)]
  /\ UNCHANGED <<place, sees, index, drops>>

Lies(d) == drops[d].is = "lying"

\* Map::Spawn of a drop, by the callback of CG_ITEM_DROP.
SpawnDrop(d) ==
  /\ Handling
  /\ drops[d].is = "unborn"
  /\ \E tile \in Tile :
       /\ drops' = [drops EXCEPT ![d] = [at |-> tile, is |-> "lying"]]
       /\ Publish(<<[kind |-> "drop add", drop |-> d, at |-> tile]>>)
  /\ UNCHANGED <<place, sees, index, mob, exp>>

\* HandleItemPickup takes the drop off the map at once ...
ClaimDrop(d) ==
  /\ Handling
  /\ Lies(d)
  /\ drops' = [drops EXCEPT ![d].is = "claimed"]
  /\ Publish(<<[kind |-> "drop remove", drop |-> d, at |-> drops[d].at]>>)
  /\ UNCHANGED <<place, sees, index, mob, exp>>

\* ... and puts it back under its id when the database refuses.
PutDropBack(d) ==
  /\ Handling
  /\ drops[d].is = "claimed"
  /\ drops' = [drops EXCEPT ![d].is = "lying"]
  /\ Publish(<<[kind |-> "drop add", drop |-> d, at |-> drops[d].at]>>)
  /\ UNCHANGED <<place, sees, index, mob, exp>>

-----------------------------------------------------------------------------
(* Map::Tick: EventBus::Dispatch                                           *)

BeginDispatch ==
  /\ phase = "requests"
  /\ phase' = "events"
  /\ batch' = log
  /\ log' = <<>>
  /\ UNCHANGED <<ground, unticked, requests, screens>>

Dispatching(kind) ==
  /\ phase = "events"
  /\ batch # <<>>
  /\ Head(batch).kind = kind
  /\ batch' = Tail(batch)
  /\ UNCHANGED <<place, index, mob, drops, exp, log, phase, unticked, requests>>

\* Mutant: the other side of a lost sight is not told.
LostOnOneSide(p) == {}

\* SyncVisiblePlayers: the characters on the map that lose sight of p with it.
LosesSight(p) == {q \in sees[p] \ InView(p) : place[q] \in Tile /\ p \in sees[q]}

GainsSight(p) == {q \in InView(p) \ sees[p] : p \notin sees[q]}

\* MovementSystem::SyncVisiblePlayers, with the messages to both sides.
SyncVisiblePlayers(p) ==
  /\ sees' = [q \in Player |->
       CASE q = p -> InView(p)
         [] q \in LosesSight(p) -> sees[q] \ {p}
         [] q \in GainsSight(p) -> sees[q] \cup {p}
         [] OTHER -> sees[q]]
  /\ drawn' = [q \in Player |->
       IF q = p
         THEN [other \in Player |->
                CASE other \in InView(p) \ sees[p] -> place[other]
                  [] other \in sees[p] \ InView(p) -> None
                  [] OTHER -> drawn[p][other]]
         ELSE CASE q \in LosesSight(p) -> [drawn[q] EXCEPT ![p] = None]
                [] q \in GainsSight(p) -> [drawn[q] EXCEPT ![p] = place[p]]
                [] OTHER -> drawn[q]]

\* Mutant: what the old view already held is the only thing loaded.
OldView(from, to, tile) ==
  /\ IsNeighboring(to, ZoneOf(tile))
  /\ from # None
  /\ IsNeighboring(from, ZoneOf(tile))

Appears(from, to, tile) ==
  /\ IsNeighboring(to, ZoneOf(tile))
  /\ ~(from # None /\ IsNeighboring(from, ZoneOf(tile)))

Disappears(from, to, tile) ==
  /\ from # None
  /\ IsNeighboring(from, ZoneOf(tile))
  /\ ~IsNeighboring(to, ZoneOf(tile))

\* Dead monsters are not loaded, but removed like the others.
MobsAfter(e) ==
  ( drawnMobs[e.who]
      \cup {m \in Monster : mob[m].hp > 0 /\ Appears(e.from, e.to, mob[m].at)} )
  \ {m \in Monster : Disappears(e.from, e.to, mob[m].at)}

\* DropSystem's part.
DropsAfter(e) ==
  ( drawnDrops[e.who]
      \cup {d \in Drop : Lies(d) /\ Appears(e.from, e.to, drops[d].at)} )
  \ {d \in Drop : Lies(d) /\ Disappears(e.from, e.to, drops[d].at)}

\* SendViewChange of MovementSystem and of DropSystem: the zones are the event's,
\* the things are where they are now.
SendViewChange ==
  /\ Dispatching("zone")
  /\ LET e == Head(batch) IN
       IF e.who \notin OnMap
         THEN UNCHANGED <<sees, screens>>
         ELSE /\ SyncVisiblePlayers(e.who)
              /\ drawnMobs' = [drawnMobs EXCEPT ![e.who] = MobsAfter(e)]
              /\ drawnDrops' = [drawnDrops EXCEPT ![e.who] = DropsAfter(e)]

\* To the mover and every client that has it loaded; a client moves what it draws.
SendCharMove ==
  /\ Dispatching("move")
  /\ LET e == Head(batch)
         viewers == IF e.who \in OnMap THEN sees[e.who] \cap OnMap ELSE {} IN
       drawn' = [q \in Player |->
         IF q \in viewers /\ drawn[q][e.who] # None
           THEN [drawn[q] EXCEPT ![e.who] = e.to] ELSE drawn[q]]
  /\ UNCHANGED <<sees, drawnMobs, drawnDrops>>

Forgotten(viewers, who) == Erase(sees, viewers, who)

SendCharRemove ==
  /\ Dispatching("leave")
  /\ LET who == Head(batch).who
         viewers == {q \in OnMap : who \in sees[q]} IN
       /\ sees' = Forgotten(viewers, who)
       /\ drawn' = [q \in Player |->
            IF q \in viewers THEN [drawn[q] EXCEPT ![who] = None] ELSE drawn[q]]
  /\ UNCHANGED <<drawnMobs, drawnDrops>>

\* EnterSystem: the character's own data and bags, nothing about the map.
SendCharacterDataLoad ==
  /\ Dispatching("join")
  /\ UNCHANGED <<sees, screens>>

\* Nobody listens yet: what the attack of a monster does to a player is unwritten.
IgnoreAttackRequest ==
  /\ Dispatching("attack requested")
  /\ UNCHANGED <<sees, screens>>

\* Within a zone the index names the viewers; across zones the players' places
\* at dispatch decide who stops and who starts to see the monster.
SendCreatureMove ==
  /\ Dispatching("mob move")
  /\ LET e == Head(batch)
         was == {p \in OnMap : IsNeighboring(ZoneOf(place[p]), ZoneOf(e.from))}
         is == {p \in OnMap : IsNeighboring(ZoneOf(place[p]), ZoneOf(e.to))} IN
       drawnMobs' =
         IF ZoneOf(e.from) = ZoneOf(e.to) THEN drawnMobs
         ELSE LET without == Erase(drawnMobs, was \ is, e.mob) IN
                IF mob[e.mob].hp > 0 THEN Draw(without, is \ was, e.mob) ELSE without
  /\ UNCHANGED <<sees, drawn, drawnDrops>>

SendCreatureRespawn ==
  /\ Dispatching("respawn")
  /\ LET m == Head(batch).mob IN
       drawnMobs' = IF mob[m].hp > 0 THEN Draw(drawnMobs, ViewersOf(mob[m].at), m)
                                     ELSE drawnMobs
  /\ UNCHANGED <<sees, drawn, drawnDrops>>

\* Shows the experience a kill is worth to everyone around.
SendMonsterKilled ==
  /\ Dispatching("killed")
  /\ UNCHANGED <<sees, screens>>

\* The attacker and everyone around the target learn the hit; a client stops
\* drawing a monster without hit points.
SendPlayerAttackResult ==
  /\ Dispatching("attack resolved")
  /\ LET e == Head(batch) IN
       drawnMobs' =
         IF e.hp = 0
           THEN Erase(drawnMobs, ViewersOf(e.at) \cup ({e.who} \cap OnMap), e.mob)
           ELSE drawnMobs
  /\ UNCHANGED <<sees, drawn, drawnDrops>>

SendItemMapNew ==
  /\ Dispatching("drop add")
  /\ drawnDrops' = Draw(drawnDrops, ViewersOf(Head(batch).at), Head(batch).drop)
  /\ UNCHANGED <<sees, drawn, drawnMobs>>

SendItemMapRemove ==
  /\ Dispatching("drop remove")
  /\ drawnDrops' = Erase(drawnDrops, ViewersOf(Head(batch).at), Head(batch).drop)
  /\ UNCHANGED <<sees, drawn, drawnMobs>>

Dispatch ==
  \/ SendViewChange \/ SendCharMove \/ SendCharRemove \/ SendCharacterDataLoad
  \/ SendCreatureMove \/ SendCreatureRespawn \/ IgnoreAttackRequest
  \/ SendMonsterKilled \/ SendPlayerAttackResult
  \/ SendItemMapNew \/ SendItemMapRemove

-----------------------------------------------------------------------------
(* Map::Tick: the simulation                                               *)

BeginSimulation ==
  /\ phase = "events"
  /\ batch = <<>>
  /\ phase' = "simulate"
  /\ unticked' = Monster
  /\ UNCHANGED <<ground, log, batch, requests, screens>>

\* Map::TickDrops, before the monsters.
Expire(d) ==
  /\ phase = "simulate"
  /\ unticked = Monster
  /\ Lies(d)
  /\ drops' = [drops EXCEPT ![d].is = "gone"]
  /\ Publish(<<[kind |-> "drop remove", drop |-> d, at |-> drops[d].at]>>)
  /\ UNCHANGED <<place, sees, index, mob, exp, batch, phase, unticked, requests, screens>>

Ticking(m) ==
  /\ phase = "simulate"
  /\ m \in unticked
  /\ unticked' = unticked \ {m}
  /\ UNCHANGED <<place, sees, index, drops, exp, batch, phase, requests, screens>>

\* Creature::TickRespawn: the armed timer runs on, or fires.
TickRespawn(m) ==
  /\ Ticking(m)
  /\ mob[m].hp = 0
  /\ \/ UNCHANGED <<mob, log>>
     \/ /\ mob[m].armed
        /\ \E tile \in SpawnTiles(m) : mob' = [mob EXCEPT ![m] = Respawned(m, tile)]
        /\ Publish(<<[kind |-> "respawn", mob |-> m]>>)

\* Map::MoveCreature: nothing is published about a monster that stays put.
MoveTo(m, self, tile) ==
  /\ mob' = [mob EXCEPT ![m] = [self EXCEPT !.at = tile]]
  /\ Publish(IF tile = mob[m].at THEN <<>>
             ELSE <<[kind |-> "mob move", mob |-> m, from |-> mob[m].at, to |-> tile]>>)

Become(m, self) == mob' = [mob EXCEPT ![m] = self] /\ UNCHANGED log

\* SelectAggroCandidate: the nearest player in range, the lower id on a tie.
Nearer(m, p, q) ==
  LET dp == Distance(place[p], mob[m].at)  dq == Distance(place[q], mob[m].at) IN
    dp < dq \/ (dp = dq /\ p <= q)

AggroCandidate(m) ==
  LET near == {p \in OnMap : AggroRange > 0 /\ Distance(place[p], mob[m].at) <= AggroRange} IN
    {p \in near : \A q \in near : Nearer(m, p, q)}

DecideIdle(m) ==
  /\ mob[m].ai = "Idle"
  /\ IF AggroCandidate(m) # {}
       THEN \E p \in AggroCandidate(m) : Become(m, EnterChase(mob[m], p, FALSE))
       ELSE \/ WanderSteps > 0 /\ Become(m, EnterWander(mob[m]))
            \/ Become(m, EnterIdle(mob[m], TRUE))

\* WanderState::CompleteStep.
AfterStep(self) ==
  IF self.steps > 1 THEN Enter(self, "Wander", None, self.steps - 1, TRUE)
                    ELSE EnterIdle(self, FALSE)

\* A step in any direction, clamped to the grid.
DecideWander(m) ==
  /\ mob[m].ai = "Wander"
  /\ \E delta \in {-1, 0, 1} : MoveTo(m, AfterStep(mob[m]), Step(mob[m].at, delta))

\* BuildCreaturePerception: where the target is, if it is still on this map.
CurrentTarget(m) == {place[p] : p \in {mob[m].target} \cap OnMap}

Towards(from, to) ==
  Step(from, IF to < from THEN -1 ELSE IF to > from THEN 1 ELSE 0)

\* Give up a target that left or got away, step closer, or attack.
Pursue(m) ==
  LET target == mob[m].target
      near == {t \in CurrentTarget(m) : AggroRange > 0 /\ Distance(t, mob[m].at) <= AggroRange} IN
    \/ /\ near = {}
       /\ Become(m, EnterIdle(mob[m], FALSE))
    \/ \E t \in near :
         IF Distance(t, mob[m].at) > AttackRange
           THEN MoveTo(m, EnterChase(mob[m], target, TRUE), Towards(mob[m].at, t))
           ELSE /\ mob' = [mob EXCEPT ![m] = EnterAttacking(@, target)]
                /\ Publish(<<[kind |-> "attack requested", mob |-> m, target |-> target]>>)

DecideChase(m) == mob[m].ai = "Chase" /\ Pursue(m)

DecideAttacking(m) == mob[m].ai = "Attacking" /\ Pursue(m)

Thinks(m) == mob[m].hp > 0

\* Map::TickCreatureAi, only while somebody is on the map.
TickCreatureAi(m) ==
  /\ Ticking(m)
  /\ Thinks(m)
  /\ \/ /\ OnMap = {} \/ mob[m].waits
        /\ UNCHANGED <<mob, log>>
     \/ /\ OnMap # {}
        /\ DecideIdle(m) \/ DecideWander(m) \/ DecideChase(m) \/ DecideAttacking(m)

EndTick ==
  /\ phase = "simulate"
  /\ unticked = {}
  /\ phase' = "requests"
  /\ UNCHANGED <<ground, log, batch, unticked, requests, screens>>

-----------------------------------------------------------------------------
Init ==
  /\ place = [p \in Player |-> Unborn]
  /\ sees = [p \in Player |-> {}]
  /\ index = [z \in Zone |-> {}]
  /\ mob \in [Monster -> [at : Tile, hp : {MaxHp}, armed : {FALSE}, ai : {"Idle"},
                          target : {None}, steps : {0}, waits : {FALSE}]]
  /\ \A m \in Monster : Distance(mob[m].at, Anchor[m]) <= Scatter
  /\ drops = [d \in Drop |-> [at |-> 0, is |-> "unborn"]]
  /\ exp = [p \in Player |-> 0]
  /\ log = <<>> /\ batch = <<>>
  /\ phase = "requests"
  /\ unticked = {}
  /\ requests = 0
  /\ drawn = [p \in Player |-> [q \in Player |-> None]]
  /\ drawnMobs = [p \in Player |-> {}]
  /\ drawnDrops = [p \in Player |-> {}]

Handle ==
  \/ \E p \in Player : SpawnPlayer(p) \/ DespawnPlayer(p) \/ Move(p)
  \/ \E p \in Player, m \in Monster : Attack(p, m)
  \/ \E d \in Drop : SpawnDrop(d) \/ ClaimDrop(d) \/ PutDropBack(d)

Simulate ==
  \/ \E d \in Drop : Expire(d)
  \/ \E m \in Monster : TickRespawn(m) \/ TickCreatureAi(m)

Next ==
  \/ Handle
  \/ BeginDispatch \/ Dispatch
  \/ BeginSimulation \/ Simulate \/ EndTick

Spec == Init /\ [][Next]_vars
-----------------------------------------------------------------------------
(* Properties                                                              *)

TypeOK ==
  /\ place \in [Player -> Tile \cup {Unborn, Gone}]
  /\ sees \in [Player -> SUBSET Player]
  /\ index \in [Zone -> SUBSET Player]
  /\ mob \in [Monster -> Mob]
  /\ drops \in [Drop -> [at : Tile, is : {"unborn", "lying", "claimed", "gone"}]]
  /\ exp \in [Player -> 0..MaxExp]
  /\ log \in Seq(Event) /\ batch \in Seq(Event)
  /\ phase \in {"requests", "events", "simulate"}
  /\ unticked \subseteq Monster
  /\ requests \in 0..MaxRequests
  /\ drawn \in [Player -> [Player -> Tile \cup {None}]]
  /\ drawnMobs \in [Player -> SUBSET Monster]
  /\ drawnDrops \in [Player -> SUBSET Drop]

\* Map::ViewersOf dereferences every id of a zone (Map.h:70), so an id that
\* outlived its player would crash the server and a missing one would leave a
\* client blind: after any joins, leaves and jumps across zones each zone holds
\* exactly the players on the map whose view covers it.
IndexMatchesPlaces ==
  \A z \in Zone :
    index[z] = {p \in OnMap : IsNeighboring(z, ZoneOf(place[p]))}

\* Sight is kept on both sides at once (MovementSystem::SyncVisiblePlayers), even
\* while leaves, joins and zone changes of the same tick are still queued: of two
\* players on the map either both have loaded the other or neither.
SightIsMutual == \A p, q \in OnMap : p \in sees[q] <=> q \in sees[p]

Quiet == log = <<>> /\ batch = <<>>

\* Whatever zone changes, moves, joins and leaves met in one tick, once their
\* events are dispatched every client draws exactly the characters in its 3x3
\* zones, each where it stands.
ClientsDrawWhoIsNear ==
  Quiet => \A p \in OnMap, q \in Player :
    drawn[p][q] = IF q \in InView(p) THEN place[q] ELSE None

\* ... and no item in its view is hidden from a client.
DropsInViewAreShown ==
  Quiet => \A p \in OnMap, d \in Drop :
    Lies(d) /\ IsNeighboring(ZoneOf(place[p]), ZoneOf(drops[d].at)) => d \in drawnDrops[p]

\* What a step publishes about a monster, by its place in the log.
Told(m) ==
  {i \in (Len(log) + 1)..Len(log') :
     /\ log'[i].kind \in {"mob move", "respawn", "killed", "attack resolved", "attack requested"}
     /\ log'[i].mob = m}

Deaths(m) == {i \in Told(m) : log'[i].kind = "killed"}

Dies(m) == mob[m].hp > 0 /\ mob'[m].hp = 0

\* Creature.cpp:72: "even an accidental second call cannot publish another kill,
\* expose the reward twice". Whoever hits a corpse in whatever order, it stays as
\* it is and nothing is published about it, until its timer brings it back and the
\* respawn alone is; a death is published once, by the step that kills, and only
\* such a step pays experience.
CorpsesAreInert ==
  [][/\ \A m \in Monster :
          /\ mob[m].hp = 0 =>
               \/ mob'[m] = mob[m] /\ Told(m) = {}
               \/ /\ mob[m].armed /\ mob'[m].hp = MaxHp
                  /\ \A i \in Told(m) : log'[i].kind = "respawn"
          /\ IF Dies(m) THEN \E i \in Told(m) : Deaths(m) = {i} ELSE Deaths(m) = {}
     /\ \A p \in Player : exp'[p] # exp[p] => \E m \in Monster : Dies(m)]_vars

\* "events before simulating, so they see the state they were published against"
\* (Map.cpp:214): then a client draws the living monsters in its view once nothing
\* is left to dispatch.
MonstersInViewAreShown ==
  Quiet => \A p \in OnMap, m \in Monster :
    mob[m].hp > 0 =>
      (m \in drawnMobs[p] <=> IsNeighboring(ZoneOf(place[p]), ZoneOf(mob[m].at)))
=============================================================================
