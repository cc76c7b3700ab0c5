---------------------------- MODULE WorldMapProofs ----------------------------
(***************************************************************************)
(* Proofs about WorldMap, for a grid, zones and ranges of any size and any *)
(* number of players, monsters and drops.                                  *)
(***************************************************************************)
EXTENDS WorldMap, SequenceTheorems, TLAPS

USE WorldMapAssumption

GroundOK ==
  /\ place \in [Player -> Tile \cup {Unborn, Gone}]
  /\ sees \in [Player -> SUBSET Player]
  /\ index \in [Zone -> SUBSET Player]
  /\ mob \in [Monster -> Mob]
  /\ drops \in [Drop -> [at : Tile, is : {"unborn", "lying", "claimed", "gone"}]]
  /\ exp \in [Player -> 0..MaxExp]

Item == [at : Tile, is : {"unborn", "lying", "claimed", "gone"}]

BusOK ==
  /\ log \in Seq(Event) /\ batch \in Seq(Event)
  /\ phase \in {"requests", "events", "simulate"}
  /\ unticked \subseteq Monster
  /\ requests \in 0..MaxRequests

ScreensOK ==
  /\ drawn \in [Player -> [Player -> Tile \cup {None}]]
  /\ drawnMobs \in [Player -> SUBSET Monster]
  /\ drawnDrops \in [Player -> SUBSET Drop]

-----------------------------------------------------------------------------
(* Geometry and monsters                                                   *)

(* Every tile lies in a zone of the grid.                                  *)
LEMMA ZoneType == \A tile \in Tile : ZoneOf(tile) \in Zone
BY DEF Tile, Zone, ZoneOf

(* A step stays on the grid.                                               *)
LEMMA StepType == \A tile \in Tile, delta \in {-1, 0, 1} : Step(tile, delta) \in Tile
BY DEF Tile, Step

(* A monster that enters a state is one.                                   *)
LEMMA EnterType ==
  ASSUME NEW self \in Mob, NEW ai \in AiState, NEW target \in Player \cup {None},
         NEW steps \in 0..WanderSteps, NEW waits \in BOOLEAN
  PROVE  Enter(self, ai, target, steps, waits) \in Mob
BY DEF Enter, Mob

(* So does one that rests or wanders,                                      *)
LEMMA RestType ==
  ASSUME NEW self \in Mob, NEW delayed \in BOOLEAN
  PROVE  EnterIdle(self, delayed) \in Mob /\ EnterWander(self) \in Mob /\ AfterStep(self) \in Mob
<1>1. /\ 0 \in 0..WanderSteps /\ WanderSteps \in 0..WanderSteps
      /\ self.steps \in 0..WanderSteps
      /\ self.steps > 1 => self.steps - 1 \in 0..WanderSteps
  BY DEF Mob
<1>2. {"Idle", "Wander"} \subseteq AiState
  BY DEF AiState
<1>3. EnterIdle(self, delayed) \in Mob /\ EnterIdle(self, FALSE) \in Mob /\ EnterWander(self) \in Mob
  BY <1>1, <1>2, EnterType DEF EnterIdle, EnterWander
<1>4. AfterStep(self) \in Mob
  BY <1>1, <1>2, <1>3, EnterType DEF AfterStep
<1> QED BY <1>3, <1>4

(* or hunts a player.                                                      *)
LEMMA HuntType ==
  ASSUME NEW self \in Mob, NEW target \in Player, NEW delayed \in BOOLEAN
  PROVE  EnterChase(self, target, delayed) \in Mob /\ EnterAttacking(self, target) \in Mob
<1>1. 0 \in 0..WanderSteps /\ {"Chase", "Attacking"} \subseteq AiState
  BY DEF AiState
<1> QED BY <1>1, EnterType DEF EnterChase, EnterAttacking

(* The index names players.                                                *)
LEMMA IndexType ==
  ASSUME NEW idx \in [Zone -> SUBSET Player], NEW p \in Player, NEW from \in Zone, NEW to \in Zone
  PROVE  /\ Indexed(idx, p, to) \in [Zone -> SUBSET Player]
         /\ Unindexed(idx, p, from) \in [Zone -> SUBSET Player]
         /\ Reindexed(idx, p, from, to) \in [Zone -> SUBSET Player]
BY DEF Indexed, Unindexed, Reindexed

(* A published sequence of events lengthens the log.                       *)
LEMMA PublishType ==
  ASSUME BusOK, NEW events \in Seq(Event), Publish(events)
  PROVE  log' \in Seq(Event)
BY ConcatProperties DEF BusOK, Publish

(* One or two of them are a sequence to publish.                           *)
LEMMA EventsType ==
  ASSUME NEW e \in Event, NEW f \in Event
  PROVE  <<e>> \in Seq(Event) /\ <<e, f>> \in Seq(Event)
OBVIOUS

(* What Draw and Erase leave on the screens.                               *)
LEMMA DrawType ==
  ASSUME NEW S, NEW screen \in [Player -> SUBSET S], NEW clients, NEW what \in S
  PROVE  /\ Draw(screen, clients, what) \in [Player -> SUBSET S]
         /\ Erase(screen, clients, what) \in [Player -> SUBSET S]
BY DEF Draw, Erase

-----------------------------------------------------------------------------
(* Types                                                                   *)

(* The types hold at the start.                                            *)
LEMMA TypeInit == Init => GroundOK /\ BusOK /\ ScreensOK
<1> SUFFICES ASSUME Init PROVE GroundOK /\ BusOK /\ ScreensOK
  OBVIOUS
<1> DEFINE Start == [at : Tile, hp : {MaxHp}, armed : {FALSE}, ai : {"Idle"},
                      target : {None}, steps : {0}, waits : {FALSE}]
<1>1. 0 \in Tile
  BY DEF Tile
<1>2. ASSUME NEW self \in Start PROVE self \in Mob
  <2>1. /\ self.at \in Tile /\ self.hp = MaxHp /\ self.armed = FALSE /\ self.ai = "Idle"
        /\ self.target = None /\ self.steps = 0 /\ self.waits = FALSE
    OBVIOUS
  <2>2. self = [at |-> self.at, hp |-> self.hp, armed |-> self.armed, ai |-> self.ai,
                target |-> self.target, steps |-> self.steps, waits |-> self.waits]
    OBVIOUS
  <2>3. MaxHp \in 0..MaxHp /\ 0 \in 0..WanderSteps /\ "Idle" \in AiState
    BY DEF AiState
  <2> HIDE DEF Start
  <2> QED BY <2>1, <2>2, <2>3 DEF Mob
<1>3. mob \in [Monster -> Start]
  BY DEF Init
<1>4. mob \in [Monster -> Mob]
  <2> HIDE DEF Start
  <2> QED BY <1>2, <1>3
<1>5. GroundOK
  BY <1>1, <1>4 DEF Init, GroundOK
<1>6. BusOK
  BY EmptySeq DEF Init, BusOK
<1>7. ScreensOK
  BY DEF Init, ScreensOK
<1> QED BY <1>5, <1>6, <1>7

(* The requests keep the types.                                            *)

(* A request that publishes events keeps the types of bus and screens.     *)
LEMMA HandlingType ==
  ASSUME BusOK, ScreensOK, Handling, NEW events \in Seq(Event), Publish(events)
  PROVE  BusOK' /\ ScreensOK'
<1>1. log' \in Seq(Event)
  BY PublishType
<1> QED BY <1>1 DEF Handling, BusOK, ScreensOK, screens

(* Map::Spawn of a player keeps the types.                                 *)
LEMMA SpawnPlayerType ==
  ASSUME GroundOK, BusOK, ScreensOK, NEW p \in Player, SpawnPlayer(p)
  PROVE  GroundOK' /\ BusOK' /\ ScreensOK'
<1> DEFINE join == [kind |-> "join", who |-> p]
           zone(tile) == [kind |-> "zone", who |-> p, from |-> None, to |-> ZoneOf(tile)]
<1>1. PICK tile \in Tile :
        /\ place' = [place EXCEPT ![p] = tile]
        /\ index' = Indexed(index, p, ZoneOf(tile))
        /\ Publish(<<join, zone(tile)>>)
  BY DEF SpawnPlayer
<1>2. ZoneOf(tile) \in Zone
  BY ZoneType
<1>3. join \in Event /\ zone(tile) \in Event
  BY <1>2 DEF Event
<1>4. sees' = [sees EXCEPT ![p] = {}] /\ UNCHANGED <<mob, drops, exp>> /\ Handling
  BY DEF SpawnPlayer
<1> HIDE DEF join, zone
<1>5. <<join, zone(tile)>> \in Seq(Event)
  BY <1>3, EventsType
<1>6. BusOK' /\ ScreensOK'
  BY <1>1, <1>4, <1>5, HandlingType
<1>7. index' \in [Zone -> SUBSET Player]
  BY <1>1, <1>2, IndexType DEF GroundOK
<1> QED BY <1>1, <1>4, <1>6, <1>7 DEF GroundOK

(* Map::Despawn of a player keeps the types.                               *)
LEMMA DespawnPlayerType ==
  ASSUME GroundOK, BusOK, ScreensOK, NEW p \in Player, DespawnPlayer(p)
  PROVE  GroundOK' /\ BusOK' /\ ScreensOK'
<1> DEFINE leave == [kind |-> "leave", who |-> p]
<1>1. place[p] \in Tile /\ ZoneOf(place[p]) \in Zone
  BY ZoneType DEF DespawnPlayer, OnMap
<1>2. leave \in Event /\ Publish(<<leave>>) /\ Handling
  BY DEF Event, DespawnPlayer
<1>3. BusOK' /\ ScreensOK'
  <2> HIDE DEF leave
  <2> QED BY <1>2, EventsType, HandlingType
<1>4. index' \in [Zone -> SUBSET Player]
  BY <1>1, IndexType DEF GroundOK, DespawnPlayer
<1> QED BY <1>3, <1>4 DEF DespawnPlayer, GroundOK

(* Map::Move keeps the types.                                              *)
LEMMA MoveType ==
  ASSUME GroundOK, BusOK, ScreensOK, NEW p \in Player, Move(p)
  PROVE  GroundOK' /\ BusOK' /\ ScreensOK'
<1> DEFINE move(tile) == [kind |-> "move", who |-> p, to |-> tile]
           change(tile) == ZoneChange(p, ZoneOf(place[p]), ZoneOf(tile))
<1>1. PICK tile \in Tile :
        /\ place' = [place EXCEPT ![p] = tile]
        /\ index' = Reindexed(index, p, ZoneOf(place[p]), ZoneOf(tile))
        /\ Publish(change(tile) \o <<move(tile)>>)
  BY DEF Move
<1>2. ZoneOf(tile) \in Zone /\ ZoneOf(place[p]) \in Zone
  BY ZoneType DEF Move, OnMap
<1>3. move(tile) \in Event
  BY DEF Event
<1>4. change(tile) \in Seq(Event)
  <2> DEFINE zone == [kind |-> "zone", who |-> p, from |-> ZoneOf(place[p]), to |-> ZoneOf(tile)]
  <2>1. zone \in Event
    BY <1>2 DEF Event
  <2>2. <<zone>> \in Seq(Event)
    <3> HIDE DEF zone
    <3> QED BY <2>1, EventsType
  <2> QED BY <2>2, EmptySeq DEF ZoneChange
<1> HIDE DEF move, change
<1>5. change(tile) \o <<move(tile)>> \in Seq(Event)
  BY <1>3, <1>4, EventsType, ConcatProperties
<1>6. BusOK' /\ ScreensOK'
  BY <1>1, <1>5, HandlingType DEF Move
<1>7. index' \in [Zone -> SUBSET Player]
  BY <1>1, <1>2, IndexType DEF GroundOK
<1> QED BY <1>1, <1>6, <1>7 DEF Move, GroundOK

(* A killed monster is one, and so is a respawned one.                     *)
LEMMA FallenType ==
  ASSUME NEW self \in Mob, NEW armed \in BOOLEAN, NEW tile \in Tile
  PROVE  /\ [self EXCEPT !.hp = 0, !.armed = armed] \in Mob
         /\ [self EXCEPT !.at = tile, !.hp = MaxHp, !.armed = FALSE] \in Mob
<1>1. 0 \in 0..MaxHp /\ MaxHp \in 0..MaxHp
  OBVIOUS
<1>2. [self EXCEPT !.hp = 0, !.armed = armed] \in Mob
  BY <1>1 DEF Mob
<1>3. ASSUME NEW hp \in 0..MaxHp
      PROVE  [self EXCEPT !.at = tile, !.hp = hp, !.armed = FALSE] \in Mob
  BY DEF Mob
<1> QED BY <1>1, <1>2, <1>3

(* So the killed and the respawned monster of the map are.                 *)
LEMMA KilledType ==
  ASSUME GroundOK, NEW m \in Monster, NEW tile \in Tile
  PROVE  Killed(m) \in Mob /\ Respawned(m, tile) \in Mob
<1>1. mob[m] \in Mob /\ "Idle" \in AiState /\ 0 \in 0..WanderSteps
  BY DEF GroundOK, AiState
<1>2. (m \in Respawning) \in BOOLEAN
  OBVIOUS
<1>3. \A self \in Mob : EnterIdle(self, FALSE) \in Mob
  BY <1>1, EnterType DEF EnterIdle
<1> QED BY <1>1, <1>2, <1>3, FallenType DEF Killed, Respawned

(* Player::Attack keeps the types.                                         *)
LEMMA AttackType ==
  ASSUME GroundOK, BusOK, ScreensOK, NEW p \in Player, NEW m \in Monster, Attack(p, m)
  PROVE  GroundOK' /\ BusOK' /\ ScreensOK'
<1> DEFINE resolved(hp) == [kind |-> "attack resolved", who |-> p, mob |-> m,
                            at |-> mob[m].at, hp |-> hp]
           killed == [kind |-> "killed", mob |-> m, at |-> mob[m].at]
<1>1. mob[m] \in Mob /\ mob[m].at \in Tile /\ mob[m].hp \in 0..MaxHp
  BY DEF GroundOK, Mob
<1>2. PICK hp \in 0..MaxHp :
        \/ /\ mob' = [mob EXCEPT ![m].hp = hp]
           /\ Publish(<<resolved(hp)>>)
           /\ UNCHANGED exp
        \/ /\ mob' = [mob EXCEPT ![m] = Killed(m)]
           /\ Publish(<<killed, resolved(hp)>>)
           /\ exp' = [exp EXCEPT ![p] = Gained(p)]
  <2>1. PICK damage \in 1..MaxHp :
          LET hp == IF damage < mob[m].hp THEN mob[m].hp - damage ELSE 0 IN
            IF hp > 0
              THEN /\ mob' = [mob EXCEPT ![m].hp = hp]
                   /\ Publish(<<resolved(hp)>>)
                   /\ UNCHANGED exp
              ELSE /\ mob' = [mob EXCEPT ![m] = Killed(m)]
                   /\ Publish(<<killed, resolved(hp)>>)
                   /\ exp' = [exp EXCEPT ![p] = Gained(p)]
    BY DEF Attack
  <2> HIDE DEF resolved, killed
  <2>2. (IF damage < mob[m].hp THEN mob[m].hp - damage ELSE 0) \in 0..MaxHp
    BY <1>1
  <2> QED BY <2>1, <2>2
<1>3. resolved(hp) \in Event /\ killed \in Event
  BY <1>1 DEF Event
<1> HIDE DEF resolved, killed
<1>4. BusOK' /\ ScreensOK'
  BY <1>2, <1>3, EventsType, HandlingType DEF Attack
<1>5. mob' \in [Monster -> Mob]
  <2>1. [mob EXCEPT ![m].hp = hp] \in [Monster -> Mob]
    <3>1. [mob[m] EXCEPT !.hp = hp] \in Mob
      BY <1>1 DEF Mob
    <3> QED BY <3>1 DEF GroundOK
  <2>2. Killed(m) \in Mob
    BY <1>1, KilledType
  <2>3. [mob EXCEPT ![m] = Killed(m)] \in [Monster -> Mob]
    BY <2>2 DEF GroundOK
  <2> QED BY <1>2, <2>1, <2>3
<1>6. exp' \in [Player -> 0..MaxExp]
  <2>1. Gained(p) \in 0..MaxExp
    BY DEF Gained, GroundOK
  <2> QED BY <1>2, <2>1 DEF GroundOK
<1> QED BY <1>4, <1>5, <1>6 DEF Attack, GroundOK

(* Requests about items on the ground keep the types.                      *)
LEMMA DropRequestType ==
  ASSUME GroundOK, BusOK, ScreensOK, NEW d \in Drop,
         SpawnDrop(d) \/ ClaimDrop(d) \/ PutDropBack(d)
  PROVE  GroundOK' /\ BusOK' /\ ScreensOK'
<1> DEFINE add(tile) == [kind |-> "drop add", drop |-> d, at |-> tile]
           remove(tile) == [kind |-> "drop remove", drop |-> d, at |-> tile]
<1>1. \A tile \in Tile : add(tile) \in Event /\ remove(tile) \in Event
  BY DEF Event
<1>2. drops[d].at \in Tile
  BY DEF GroundOK
<1>3. Handling /\ UNCHANGED <<place, sees, index, mob, exp>>
  BY DEF SpawnDrop, ClaimDrop, PutDropBack
<1>4. PICK tile \in Tile : Publish(<<add(tile)>>) \/ Publish(<<remove(tile)>>)
  BY <1>2 DEF SpawnDrop, ClaimDrop, PutDropBack
<1>5. drops' \in [Drop -> Item]
  <2>1. ASSUME NEW item \in Item, NEW is \in {"lying", "claimed"}
        PROVE  [item EXCEPT !.is = is] \in Item
    BY DEF Item
  <2>2. \A tile_1 \in Tile : [at |-> tile_1, is |-> "lying"] \in Item
    BY DEF Item
  <2>3. drops[d] \in Item /\ drops \in [Drop -> Item]
    BY DEF GroundOK, Item
  <2>4. \E item \in Item : drops' = [drops EXCEPT ![d] = item]
    BY <2>1, <2>2, <2>3 DEF SpawnDrop, ClaimDrop, PutDropBack
  <2> QED BY <2>3, <2>4
<1> HIDE DEF add, remove
<1>6. BusOK' /\ ScreensOK'
  BY <1>1, <1>3, <1>4, EventsType, HandlingType
<1> QED BY <1>3, <1>5, <1>6 DEF GroundOK, Item

(* What the dispatch of an event keeps, whichever it is.                   *)

(* The dispatched event is one, and only listeners act on it.              *)
LEMMA DispatchingType ==
  ASSUME BusOK, NEW kind, Dispatching(kind)
  PROVE  /\ Head(batch) \in Event /\ Head(batch).kind = kind /\ BusOK'
         /\ UNCHANGED <<place, index, mob, drops, exp>>
<1>1. batch \in Seq(Event) /\ batch # <<>>
  BY DEF BusOK, Dispatching
<1>2. Head(batch) \in Event /\ Tail(batch) \in Seq(Event)
  BY <1>1, HeadTailProperties
<1> QED BY <1>2 DEF Dispatching, BusOK

(* The fields of an event by its kind.                                     *)
LEMMA EventFields ==
  ASSUME NEW e \in Event
  PROVE  /\ e.kind \in {"join", "leave", "zone", "move", "attack resolved"} => e.who \in Player
         /\ e.kind \in {"mob move", "respawn", "killed", "attack resolved"} => e.mob \in Monster
         /\ e.kind \in {"drop add", "drop remove"} => e.drop \in Drop
         /\ e.kind = "zone" => e.to \in Zone /\ e.from \in Zone \cup {None}
         /\ e.kind = "move" => e.to \in Tile
BY DEF Event

(* A change of view keeps the types.                                       *)
LEMMA ViewType ==
  ASSUME GroundOK, ScreensOK, BusOK, SendViewChange
  PROVE  GroundOK' /\ BusOK' /\ ScreensOK'
<1> DEFINE e == Head(batch)
           p == e.who
<1>1. /\ p \in Player /\ BusOK' /\ UNCHANGED <<place, index, mob, drops, exp>>
  BY DispatchingType, EventFields DEF SendViewChange
<1> HIDE DEF p
<1>2. CASE p \notin OnMap
  BY <1>1, <1>2 DEF SendViewChange, GroundOK, ScreensOK, screens, p
<1>3. CASE p \in OnMap
  <2>1. /\ SyncVisiblePlayers(p)
        /\ drawnMobs' = [drawnMobs EXCEPT ![p] = MobsAfter(e)]
        /\ drawnDrops' = [drawnDrops EXCEPT ![p] = DropsAfter(e)]
    BY <1>3 DEF SendViewChange, p
  <2>2. MobsAfter(e) \subseteq Monster /\ DropsAfter(e) \subseteq Drop
    BY <1>1 DEF MobsAfter, DropsAfter, ScreensOK, p
  <2>3. sees' \in [Player -> SUBSET Player]
    BY <1>1, <2>1 DEF SyncVisiblePlayers, GroundOK, InView, OnMap
  <2>4. drawn' \in [Player -> [Player -> Tile \cup {None}]]
    <3>1. \A q \in InView(p) : place[q] \in Tile
      BY DEF InView, OnMap
    <3>2. ASSUME NEW q \in Player PROVE drawn'[q] \in [Player -> Tile \cup {None}]
      <4>1. drawn[q] \in [Player -> Tile \cup {None}]
        BY DEF ScreensOK
      <4> QED BY <1>3, <2>1, <3>1, <4>1 DEF SyncVisiblePlayers, OnMap, ScreensOK
    <3>3. drawn' = [q \in Player |-> drawn'[q]]
      BY <2>1 DEF SyncVisiblePlayers
    <3> QED BY <3>2, <3>3
  <2> QED BY <1>1, <2>1, <2>2, <2>3, <2>4 DEF GroundOK, ScreensOK
<1> QED BY <1>2, <1>3

(* Messages about characters keep the types.                               *)
LEMMA MessageType ==
  ASSUME GroundOK, ScreensOK, BusOK,
         \/ SendCharMove \/ SendCharRemove \/ SendCharacterDataLoad
         \/ IgnoreAttackRequest \/ SendMonsterKilled
  PROVE  GroundOK' /\ BusOK' /\ ScreensOK'
<1>1. CASE SendCharMove
  <2>1. Head(batch).to \in Tile /\ Head(batch).who \in Player /\ BusOK'
        /\ UNCHANGED <<place, index, mob, drops, exp>>
    BY <1>1, DispatchingType, EventFields DEF SendCharMove
  <2>2. drawn' \in [Player -> [Player -> Tile \cup {None}]]
    BY <1>1, <2>1 DEF SendCharMove, ScreensOK
  <2> QED BY <1>1, <2>1, <2>2 DEF SendCharMove, GroundOK, ScreensOK
<1>2. CASE SendCharRemove
  <2>1. Head(batch).who \in Player /\ BusOK' /\ UNCHANGED <<place, index, mob, drops, exp>>
    BY <1>2, DispatchingType, EventFields DEF SendCharRemove
  <2>2. drawn' \in [Player -> [Player -> Tile \cup {None}]]
    BY <1>2, <2>1 DEF SendCharRemove, ScreensOK
  <2>3. sees' \in [Player -> SUBSET Player]
    BY <1>2, <2>1, DrawType DEF SendCharRemove, Forgotten, GroundOK
  <2> QED BY <1>2, <2>1, <2>2, <2>3 DEF SendCharRemove, GroundOK, ScreensOK
<1>3. CASE SendCharacterDataLoad \/ IgnoreAttackRequest \/ SendMonsterKilled
  BY <1>3, DispatchingType DEF SendCharacterDataLoad, IgnoreAttackRequest, SendMonsterKilled,
    GroundOK, ScreensOK, screens
<1> QED BY <1>1, <1>2, <1>3

(* Messages about monsters and items keep the types.                       *)
LEMMA ThingMessageType ==
  ASSUME GroundOK, ScreensOK, BusOK,
         \/ SendCreatureMove \/ SendCreatureRespawn \/ SendPlayerAttackResult
         \/ SendItemMapNew \/ SendItemMapRemove
  PROVE  GroundOK' /\ BusOK' /\ ScreensOK'
<1>0. /\ drawnMobs \in [Player -> SUBSET Monster] /\ drawnDrops \in [Player -> SUBSET Drop]
  BY DEF ScreensOK
<1>1. CASE SendCreatureMove
  <2>1. Head(batch).mob \in Monster /\ BusOK' /\ UNCHANGED <<place, index, mob, drops, exp>>
    BY <1>1, DispatchingType, EventFields DEF SendCreatureMove
  <2>2. ASSUME NEW was, NEW is
        PROVE  /\ Erase(drawnMobs, was, Head(batch).mob) \in [Player -> SUBSET Monster]
               /\ Draw(Erase(drawnMobs, was, Head(batch).mob), is, Head(batch).mob)
                    \in [Player -> SUBSET Monster]
    BY <1>0, <2>1, DrawType
  <2>3. drawnMobs' \in [Player -> SUBSET Monster]
    BY <1>0, <1>1, <2>2 DEF SendCreatureMove
  <2> QED BY <1>1, <2>1, <2>3 DEF SendCreatureMove, GroundOK, ScreensOK
<1>2. CASE SendCreatureRespawn
  <2>1. Head(batch).mob \in Monster /\ BusOK' /\ UNCHANGED <<place, index, mob, drops, exp>>
    BY <1>2, DispatchingType, EventFields DEF SendCreatureRespawn
  <2>2. drawnMobs' \in [Player -> SUBSET Monster]
    BY <1>0, <1>2, <2>1, DrawType DEF SendCreatureRespawn
  <2> QED BY <1>2, <2>1, <2>2 DEF SendCreatureRespawn, GroundOK, ScreensOK
<1>3. CASE SendPlayerAttackResult
  <2>1. Head(batch).mob \in Monster /\ BusOK' /\ UNCHANGED <<place, index, mob, drops, exp>>
    BY <1>3, DispatchingType, EventFields DEF SendPlayerAttackResult
  <2>2. drawnMobs' \in [Player -> SUBSET Monster]
    BY <1>0, <1>3, <2>1, DrawType DEF SendPlayerAttackResult
  <2> QED BY <1>3, <2>1, <2>2 DEF SendPlayerAttackResult, GroundOK, ScreensOK
<1>4. CASE SendItemMapNew \/ SendItemMapRemove
  <2>1. Head(batch).drop \in Drop /\ BusOK' /\ UNCHANGED <<place, index, mob, drops, exp>>
    BY <1>4, DispatchingType, EventFields DEF SendItemMapNew, SendItemMapRemove
  <2>2. drawnDrops' \in [Player -> SUBSET Drop]
    <3>1. \A clients : /\ Draw(drawnDrops, clients, Head(batch).drop) \in [Player -> SUBSET Drop]
                       /\ Erase(drawnDrops, clients, Head(batch).drop) \in [Player -> SUBSET Drop]
      BY <1>0, <2>1, DrawType
    <3> QED BY <1>4, <3>1 DEF SendItemMapNew, SendItemMapRemove
  <2> QED BY <1>4, <2>1, <2>2 DEF SendItemMapNew, SendItemMapRemove, GroundOK, ScreensOK
<1> QED BY <1>1, <1>2, <1>3, <1>4

(* The simulation keeps the types.                                         *)

(* What a monster does to itself, and what it publishes about it.          *)
LEMMA MonsterType ==
  ASSUME GroundOK, BusOK, ScreensOK, NEW m \in Monster, Ticking(m),
         NEW self \in Mob, mob' = [mob EXCEPT ![m] = self],
         log' = log \/ \E e \in Event : Publish(<<e>>)
  PROVE  GroundOK' /\ BusOK' /\ ScreensOK'
<1>1. log' \in Seq(Event)
  BY EventsType, PublishType DEF BusOK
<1>2. mob' \in [Monster -> Mob]
  BY DEF GroundOK
<1> QED BY <1>1, <1>2 DEF Ticking, GroundOK, BusOK, ScreensOK, screens

(* An item that expires keeps the types.                                   *)
LEMMA ExpireType ==
  ASSUME GroundOK, BusOK, ScreensOK, NEW d \in Drop, Expire(d)
  PROVE  GroundOK' /\ BusOK' /\ ScreensOK'
<1> DEFINE remove == [kind |-> "drop remove", drop |-> d, at |-> drops[d].at]
<1>1. drops[d] \in Item /\ drops \in [Drop -> Item]
  BY DEF GroundOK, Item
<1>2. ASSUME NEW item \in Item PROVE [item EXCEPT !.is = "gone"] \in Item
  BY DEF Item
<1>3. drops' \in [Drop -> Item]
  BY <1>1, <1>2 DEF Expire
<1>4. remove \in Event /\ Publish(<<remove>>)
  BY <1>1 DEF Event, Item, Expire
<1>5. log' \in Seq(Event)
  <2> HIDE DEF remove
  <2> QED BY <1>4, EventsType, PublishType
<1> QED BY <1>3, <1>5 DEF Expire, GroundOK, BusOK, ScreensOK, screens, Item

(* A respawn keeps the types.                                              *)
LEMMA RespawnType ==
  ASSUME GroundOK, BusOK, ScreensOK, NEW m \in Monster, TickRespawn(m)
  PROVE  GroundOK' /\ BusOK' /\ ScreensOK'
<1>1. CASE UNCHANGED <<mob, log>>
  BY <1>1 DEF TickRespawn, Ticking, GroundOK, BusOK, ScreensOK, screens
<1>2. ASSUME NEW tile \in SpawnTiles(m), mob' = [mob EXCEPT ![m] = Respawned(m, tile)],
             Publish(<<[kind |-> "respawn", mob |-> m]>>)
      PROVE  GroundOK' /\ BusOK' /\ ScreensOK'
  <2>1. Respawned(m, tile) \in Mob
    BY KilledType DEF SpawnTiles
  <2>2. [kind |-> "respawn", mob |-> m] \in Event
    BY DEF Event
  <2> QED BY <1>2, <2>1, <2>2, MonsterType DEF TickRespawn
<1> QED BY <1>1, <1>2 DEF TickRespawn

(* A monster that steps, or changes its mind without a step.               *)
LEMMA MoveToType ==
  ASSUME GroundOK, BusOK, ScreensOK, NEW m \in Monster, Ticking(m), NEW self \in Mob,
         \/ \E tile \in Tile : MoveTo(m, self, tile)
         \/ Become(m, self)
  PROVE  GroundOK' /\ BusOK' /\ ScreensOK'
<1>1. CASE Become(m, self)
  BY <1>1, MonsterType DEF Become
<1>2. ASSUME NEW tile \in Tile, MoveTo(m, self, tile) PROVE GroundOK' /\ BusOK' /\ ScreensOK'
  <2> DEFINE e == [kind |-> "mob move", mob |-> m, from |-> mob[m].at, to |-> tile]
  <2>1. [self EXCEPT !.at = tile] \in Mob /\ mob[m].at \in Tile
    BY DEF Mob, GroundOK
  <2>2. e \in Event
    BY <2>1 DEF Event
  <2>3. log' = log \/ Publish(<<e>>)
    <3>1. log \o <<>> = log
      BY DEF BusOK
    <3> QED BY <1>2, <3>1 DEF MoveTo, Publish
  <2>4. mob' = [mob EXCEPT ![m] = [self EXCEPT !.at = tile]]
    BY <1>2 DEF MoveTo
  <2> HIDE DEF e
  <2> QED BY <2>1, <2>2, <2>3, <2>4, MonsterType
<1> QED BY <1>1, <1>2

(* A monster after a player keeps the types.                               *)
LEMMA PursueType ==
  ASSUME GroundOK, BusOK, ScreensOK, NEW m \in Monster, Ticking(m), Pursue(m)
  PROVE  GroundOK' /\ BusOK' /\ ScreensOK'
<1> DEFINE target == mob[m].target
<1>0. mob[m] \in Mob /\ mob[m].at \in Tile
  BY DEF GroundOK, Mob
<1>1. CASE Become(m, EnterIdle(mob[m], FALSE))
  <2>1. EnterIdle(mob[m], FALSE) \in Mob
    BY <1>0, RestType
  <2> QED BY <1>1, <2>1, MoveToType
<1>2. ASSUME NEW t \in CurrentTarget(m),
             MoveTo(m, EnterChase(mob[m], target, TRUE), Towards(mob[m].at, t))
      PROVE  GroundOK' /\ BusOK' /\ ScreensOK'
  <2>1. target \in Player
    BY DEF CurrentTarget, OnMap
  <2>2. Towards(mob[m].at, t) \in Tile
    BY <1>0, StepType DEF Towards
  <2>3. EnterChase(mob[m], target, TRUE) \in Mob
    BY <1>0, <2>1, HuntType
  <2> QED BY <1>2, <2>2, <2>3, MoveToType
<1>3. ASSUME NEW t \in CurrentTarget(m), mob' = [mob EXCEPT ![m] = EnterAttacking(@, target)],
             Publish(<<[kind |-> "attack requested", mob |-> m, target |-> target]>>)
      PROVE  GroundOK' /\ BusOK' /\ ScreensOK'
  <2>1. target \in Player
    BY DEF CurrentTarget, OnMap
  <2>2. [kind |-> "attack requested", mob |-> m, target |-> target] \in Event
    BY <2>1 DEF Event
  <2>3. EnterAttacking(mob[m], target) \in Mob
    BY <1>0, <2>1, HuntType
  <2>4. mob' = [mob EXCEPT ![m] = EnterAttacking(mob[m], target)]
    BY <1>3 DEF GroundOK
  <2> QED BY <1>3, <2>2, <2>3, <2>4, MonsterType
<1> QED BY <1>1, <1>2, <1>3 DEF Pursue

(* Whatever a monster decides keeps the types.                             *)
LEMMA ThinkType ==
  ASSUME GroundOK, BusOK, ScreensOK, NEW m \in Monster, TickCreatureAi(m)
  PROVE  GroundOK' /\ BusOK' /\ ScreensOK'
<1>0. mob[m] \in Mob /\ mob[m].at \in Tile /\ Ticking(m)
  BY DEF GroundOK, Mob, TickCreatureAi
<1>1. CASE UNCHANGED <<mob, log>>
  BY <1>1 DEF TickCreatureAi, Ticking, GroundOK, BusOK, ScreensOK, screens
<1>2. CASE DecideIdle(m)
  <2>1. EnterWander(mob[m]) \in Mob /\ EnterIdle(mob[m], TRUE) \in Mob
    BY <1>0, RestType
  <2>2. ASSUME NEW p \in AggroCandidate(m) PROVE EnterChase(mob[m], p, FALSE) \in Mob
    BY <1>0, HuntType DEF AggroCandidate, OnMap
  <2>3. \E self \in Mob : Become(m, self)
    BY <1>2, <2>1, <2>2 DEF DecideIdle
  <2> QED BY <1>0, <2>3, MoveToType
<1>3. CASE DecideWander(m)
  <2>1. AfterStep(mob[m]) \in Mob
    BY <1>0, RestType
  <2>2. \E delta \in {-1, 0, 1} : MoveTo(m, AfterStep(mob[m]), Step(mob[m].at, delta))
    BY <1>3 DEF DecideWander
  <2>3. \E tile \in Tile : MoveTo(m, AfterStep(mob[m]), tile)
    BY <1>0, <2>2, StepType
  <2> QED BY <1>0, <2>1, <2>3, MoveToType
<1>4. CASE DecideChase(m) \/ DecideAttacking(m)
  BY <1>0, <1>4, PursueType DEF DecideChase, DecideAttacking
<1> QED BY <1>1, <1>2, <1>3, <1>4 DEF TickCreatureAi

(* Between the phases only the bus changes.                                *)
LEMMA PhaseType ==
  ASSUME GroundOK, BusOK, ScreensOK, BeginDispatch \/ BeginSimulation \/ EndTick
  PROVE  GroundOK' /\ BusOK' /\ ScreensOK'
<1>1. UNCHANGED <<ground, screens>>
  BY DEF BeginDispatch, BeginSimulation, EndTick
<1>2. BusOK'
  BY EmptySeq DEF BeginDispatch, BeginSimulation, EndTick, BusOK
<1> QED BY <1>1, <1>2 DEF ground, screens, GroundOK, ScreensOK

(* Every step keeps the types.                                             *)
LEMMA TypeNext == TypeOK /\ [Next]_vars => TypeOK'
<1> SUFFICES ASSUME GroundOK, BusOK, ScreensOK, [Next]_vars
             PROVE  GroundOK' /\ BusOK' /\ ScreensOK'
  BY DEF TypeOK, GroundOK, BusOK, ScreensOK
<1>1. ASSUME UNCHANGED vars PROVE GroundOK' /\ BusOK' /\ ScreensOK'
  BY <1>1 DEF vars, ground, bus, screens, GroundOK, BusOK, ScreensOK
<1> QED
  BY <1>1, SpawnPlayerType, DespawnPlayerType, MoveType, AttackType, DropRequestType,
     ViewType, MessageType, ThingMessageType, ExpireType, RespawnType, ThinkType, PhaseType
  DEF Next, Handle, Dispatch, Simulate

(* The types are an invariant.                                             *)
LEMMA TypeInvariant == Spec => []TypeOK
<1>1. Init => TypeOK
  BY TypeInit DEF TypeOK, GroundOK, BusOK, ScreensOK
<1> QED BY <1>1, TypeNext, PTL DEF Spec

(* Every variable of WorldMap keeps its type: nobody leaves the grid, and  *)
(* every event names a player, a monster, a drop and tiles there are.      *)
THEOREM WorldMapTypeCorrect == Spec => []TypeOK
BY TypeInvariant

-----------------------------------------------------------------------------
(* The index                                                               *)

(* Only these three touch what the index is about.                         *)
LEMMA PlacesKept ==
  ASSUME [Next]_vars, \A p \in Player : ~(SpawnPlayer(p) \/ DespawnPlayer(p) \/ Move(p))
  PROVE  UNCHANGED <<place, index>>
<1> DEFINE Same == UNCHANGED <<place, index>>
<1>1. ASSUME NEW p \in Player, NEW m \in Monster, Attack(p, m) PROVE Same
  BY <1>1 DEF Attack
<1>2. ASSUME NEW d \in Drop, SpawnDrop(d) \/ ClaimDrop(d) \/ PutDropBack(d) \/ Expire(d) PROVE Same
  BY <1>2 DEF SpawnDrop, ClaimDrop, PutDropBack, Expire
<1>3. ASSUME NEW m \in Monster, TickRespawn(m) \/ TickCreatureAi(m) PROVE Same
  BY <1>3 DEF TickRespawn, TickCreatureAi, Ticking
<1>4. ASSUME NEW kind, Dispatching(kind) PROVE Same
  BY <1>4 DEF Dispatching
<1>5. ASSUME Dispatch PROVE Same
  <2> HIDE DEF Same
  <2> QED BY <1>4, <1>5 DEF Dispatch, SendViewChange, SendCharMove, SendCharRemove,
        SendCharacterDataLoad, SendCreatureMove, SendCreatureRespawn, IgnoreAttackRequest,
        SendMonsterKilled, SendPlayerAttackResult, SendItemMapNew, SendItemMapRemove
<1>6. ASSUME BeginDispatch \/ BeginSimulation \/ EndTick \/ UNCHANGED vars PROVE Same
  BY <1>6 DEF BeginDispatch, BeginSimulation, EndTick, vars, ground
<1> HIDE DEF Same
<1>7. Same
  BY <1>1, <1>2, <1>3, <1>5, <1>6 DEF Next, Handle, Simulate
<1> QED BY <1>7 DEF Same

(* Every step keeps the index that of the places.                          *)
LEMMA IndexNext == TypeOK /\ IndexMatchesPlaces /\ [Next]_vars => IndexMatchesPlaces'
<1> SUFFICES ASSUME TypeOK, IndexMatchesPlaces, [Next]_vars, NEW z \in Zone
             PROVE  index'[z] = {p \in OnMap' : IsNeighboring(z, ZoneOf(place'[p]))}
  BY DEF IndexMatchesPlaces
<1>1. /\ index[z] = {p \in OnMap : IsNeighboring(z, ZoneOf(place[p]))}
      /\ index \in [Zone -> SUBSET Player] /\ place \in [Player -> Tile \cup {Unborn, Gone}]
  BY DEF IndexMatchesPlaces, TypeOK
<1>2. Unborn \notin Tile /\ Gone \notin Tile
  BY DEF Tile
<1>3. ASSUME NEW p \in Player, SpawnPlayer(p)
      PROVE  index'[z] = {q \in OnMap' : IsNeighboring(z, ZoneOf(place'[q]))}
  <2>1. PICK tile \in Tile : /\ place' = [place EXCEPT ![p] = tile]
                             /\ index' = Indexed(index, p, ZoneOf(tile))
    BY <1>3 DEF SpawnPlayer
  <2>2. p \notin OnMap
    BY <1>2, <1>3 DEF SpawnPlayer, OnMap
  <2> QED BY <1>1, <2>1, <2>2 DEF Indexed, Around, OnMap
<1>4. ASSUME NEW p \in Player, DespawnPlayer(p)
      PROVE  index'[z] = {q \in OnMap' : IsNeighboring(z, ZoneOf(place'[q]))}
  <2>1. /\ place' = [place EXCEPT ![p] = Gone]
        /\ index' = Unindexed(index, p, ZoneOf(place[p]))
    BY <1>4 DEF DespawnPlayer
  <2> QED BY <1>1, <1>2, <2>1 DEF Unindexed, Around, OnMap
<1>5. ASSUME NEW p \in Player, Move(p)
      PROVE  index'[z] = {q \in OnMap' : IsNeighboring(z, ZoneOf(place'[q]))}
  <2>1. PICK tile \in Tile :
          /\ place' = [place EXCEPT ![p] = tile]
          /\ index' = Reindexed(index, p, ZoneOf(place[p]), ZoneOf(tile))
    BY <1>5 DEF Move
  <2>2. p \in OnMap /\ p \in OnMap' /\ OnMap' = OnMap
    BY <1>1, <1>5, <2>1 DEF Move, OnMap
  <2>3. /\ place'[p] = tile
        /\ \A q \in OnMap \ {p} : place'[q] = place[q]
    BY <1>1, <2>1 DEF OnMap
  <2>4. CASE ZoneOf(place[p]) = ZoneOf(tile)
    BY <1>1, <2>1, <2>2, <2>3, <2>4 DEF Reindexed
  <2>5. CASE ZoneOf(place[p]) # ZoneOf(tile)
    <3>1. index' = Indexed(Unindexed(index, p, ZoneOf(place[p])), p, ZoneOf(tile))
      BY <2>1, <2>5 DEF Reindexed
    <3>2. index'[z] = IF IsNeighboring(z, ZoneOf(tile)) THEN index[z] \cup {p} ELSE index[z] \ {p}
      BY <1>1, <2>2, <3>1 DEF Indexed, Unindexed, Around
    <3> QED BY <1>1, <2>2, <2>3, <3>2
  <2> QED BY <2>4, <2>5
<1>6. CASE \A p \in Player : ~(SpawnPlayer(p) \/ DespawnPlayer(p) \/ Move(p))
  BY <1>1, <1>6, PlacesKept DEF OnMap
<1> QED BY <1>3, <1>4, <1>5, <1>6

(* Each zone of the index holds exactly the players on the map whose view  *)
(* covers it: ViewersOf never dereferences a player that left.             *)
THEOREM IndexCorrect == Spec => []IndexMatchesPlaces
<1>1. Init => IndexMatchesPlaces
  BY DEF Init, IndexMatchesPlaces, OnMap, Tile
<1> QED BY <1>1, IndexNext, TypeInvariant, PTL DEF Spec

-----------------------------------------------------------------------------
(* Corpses                                                                 *)

InertStep ==
  /\ \A m \in Monster :
       /\ mob[m].hp = 0 =>
            \/ mob'[m] = mob[m] /\ Told(m) = {}
            \/ /\ mob[m].armed /\ mob'[m].hp = MaxHp
               /\ \A i \in Told(m) : log'[i].kind = "respawn"
       /\ IF Dies(m) THEN \E i \in Told(m) : Deaths(m) = {i} ELSE Deaths(m) = {}
  /\ \A p \in Player : exp'[p] # exp[p] => \E m \in Monster : Dies(m)

MobKind == {"mob move", "respawn", "killed", "attack resolved", "attack requested"}

(* The events a step appends, by their place in the log.                   *)
LEMMA Appended ==
  ASSUME TypeOK, NEW events \in Seq(Event), Publish(events), NEW i \in (Len(log) + 1)..Len(log')
  PROVE  \E j \in 1..Len(events) : i = Len(log) + j /\ log'[i] = events[j]
<1>1. log \in Seq(Event) /\ log' = log \o events
  BY DEF TypeOK, Publish
<1>2. i - Len(log) \in 1..Len(events) /\ log'[i] = events[i - Len(log)]
  BY <1>1, ConcatProperties
<1>3. i = Len(log) + (i - Len(log))
  BY <1>1
<1> QED BY <1>2, <1>3

(* Nothing is told of a monster by a step that publishes nothing.          *)
LEMMA Silence ==
  ASSUME TypeOK, NEW m, log' = log \/ log' = <<>>
  PROVE  Told(m) = {} /\ Deaths(m) = {}
<1>1. Len(log) \in Nat /\ Len(<<>>) = 0
  BY DEF TypeOK
<1>2. (Len(log) + 1)..Len(log') = {}
  BY <1>1
<1> QED BY <1>2 DEF Told, Deaths

(* One event tells of the monster it names, if it names one.               *)
LEMMA ToldByOne ==
  ASSUME TypeOK, NEW e \in Event, Publish(<<e>>), NEW m
  PROVE  /\ \A i \in Told(m) : log'[i] = e /\ e.kind \in MobKind /\ e.mob = m
         /\ e.kind # "killed" => Deaths(m) = {}
<1>1. <<e>> \in Seq(Event) /\ Len(<<e>>) = 1 /\ <<e>>[1] = e
  BY EventsType
<1>2. ASSUME NEW i \in (Len(log) + 1)..Len(log') PROVE log'[i] = e
  <2>1. PICK j \in 1..Len(<<e>>) : log'[i] = <<e>>[j]
    BY <1>1, Appended
  <2>2. j = 1
    BY <1>1, <2>1
  <2> QED BY <1>1, <2>1, <2>2
<1> QED BY <1>2 DEF Told, Deaths, MobKind

(* A step that leaves the monsters alone and publishes an event about none *)
(* of them, or nothing.                                                    *)
LEMMA InertElsewhere ==
  ASSUME TypeOK, UNCHANGED <<mob, exp>>, \A m \in Monster : Told(m) = {}
  PROVE  InertStep
BY DEF InertStep, Deaths, Dies

(* Players and drops come and go without a word about monsters.            *)
LEMMA InertRequests ==
  ASSUME TypeOK, NEW p \in Player, SpawnPlayer(p) \/ DespawnPlayer(p) \/ Move(p)
  PROVE  InertStep
<1>1. UNCHANGED <<mob, exp>>
  BY DEF SpawnPlayer, DespawnPlayer, Move
<1>2. PICK events \in Seq(Event) :
        Publish(events) /\ \A j \in 1..Len(events) : events[j].kind \notin MobKind
  <2> DEFINE Quietly(events) ==
        Publish(events) /\ \A j \in 1..Len(events) : events[j].kind \notin MobKind
  <2> SUFFICES \E events \in Seq(Event) : Quietly(events)
    OBVIOUS
  <2>1. ASSUME NEW e \in Event, e.kind \notin MobKind, Publish(<<e>>)
        PROVE  \E events \in Seq(Event) : Quietly(events)
    <3>1. <<e>> \in Seq(Event) /\ Quietly(<<e>>)
      BY <2>1, EventsType
    <3> QED BY <3>1
  <2>2. ASSUME NEW e \in Event, NEW f \in Event, e.kind \notin MobKind, f.kind \notin MobKind,
               Publish(<<e, f>>)
        PROVE  \E events \in Seq(Event) : Quietly(events)
    <3>1. <<e, f>> \in Seq(Event) /\ Quietly(<<e, f>>)
      BY <2>2, EventsType
    <3> QED BY <3>1
  <2> HIDE DEF Quietly
  <2>3. CASE SpawnPlayer(p)
    <3>1. PICK tile \in Tile :
            Publish(<<[kind |-> "join", who |-> p],
                      [kind |-> "zone", who |-> p, from |-> None, to |-> ZoneOf(tile)]>>)
      BY <2>3 DEF SpawnPlayer
    <3>2. ZoneOf(tile) \in Zone
      BY ZoneType
    <3>3. /\ [kind |-> "join", who |-> p] \in Event
          /\ [kind |-> "zone", who |-> p, from |-> None, to |-> ZoneOf(tile)] \in Event
      BY <3>2 DEF Event
    <3> QED BY <2>2, <3>1, <3>3 DEF MobKind
  <2>4. CASE DespawnPlayer(p)
    <3>1. Publish(<<[kind |-> "leave", who |-> p]>>) /\ [kind |-> "leave", who |-> p] \in Event
      BY <2>4 DEF DespawnPlayer, Event
    <3> QED BY <2>1, <3>1 DEF MobKind
  <2>5. CASE Move(p)
    <3>1. PICK tile \in Tile :
            Publish(ZoneChange(p, ZoneOf(place[p]), ZoneOf(tile))
                      \o <<[kind |-> "move", who |-> p, to |-> tile]>>)
      BY <2>5 DEF Move
    <3>2. ZoneOf(tile) \in Zone /\ ZoneOf(place[p]) \in Zone
      BY <2>5, ZoneType DEF Move, OnMap
    <3> DEFINE move == [kind |-> "move", who |-> p, to |-> tile]
               zone == [kind |-> "zone", who |-> p, from |-> ZoneOf(place[p]), to |-> ZoneOf(tile)]
               change == ZoneChange(p, ZoneOf(place[p]), ZoneOf(tile))
    <3>3. /\ move \in Event /\ move.kind \notin MobKind
          /\ zone \in Event /\ zone.kind \notin MobKind
      BY <3>2 DEF Event, MobKind
    <3>4. change = <<>> \/ change = <<zone>>
      BY DEF ZoneChange
    <3> HIDE DEF move, zone
    <3>5. change \in Seq(Event) /\ \A j \in 1..Len(change) : change[j].kind \notin MobKind
      <4>1. CASE change = <<>>
        BY <4>1, EmptySeq
      <4>2. CASE change = <<zone>>
        <5>1. <<zone>> \in Seq(Event) /\ \A j \in 1..Len(<<zone>>) : <<zone>>[j].kind \notin MobKind
          BY <3>3, EventsType
        <5> HIDE DEF change
        <5> QED BY <4>2, <5>1
      <4> QED BY <3>4, <4>1, <4>2
    <3>6. Publish(change \o <<move>>)
      BY <3>1 DEF move
    <3> HIDE DEF change
    <3>7. <<move>> \in Seq(Event) /\ Len(<<move>>) = 1 /\ <<move>>[1] = move
      BY <3>3, EventsType
    <3>8. change \o <<move>> \in Seq(Event)
      BY <3>5, <3>7, ConcatProperties
    <3>9. ASSUME NEW j \in 1..Len(change \o <<move>>)
          PROVE  (change \o <<move>>)[j].kind \notin MobKind
      <4>1. \/ j \in 1..Len(change) /\ (change \o <<move>>)[j] = change[j]
            \/ (change \o <<move>>)[j] = move
        BY <3>5, <3>7, ConcatProperties
      <4> QED BY <3>3, <3>5, <4>1
    <3>10. Quietly(change \o <<move>>)
      BY <3>6, <3>9 DEF Quietly
    <3> QED BY <3>8, <3>10
  <2> QED BY <2>3, <2>4, <2>5
<1>3. ASSUME NEW m \in Monster, NEW i \in Told(m) PROVE FALSE
  <2>1. i \in (Len(log) + 1)..Len(log') /\ log'[i].kind \in MobKind
    BY <1>3 DEF Told, MobKind
  <2>2. PICK j \in 1..Len(events) : log'[i] = events[j]
    <3>1. events \in Seq(Event) /\ Publish(events)
      BY <1>2
    <3> QED BY <2>1, <3>1, Appended
  <2>3. events[j].kind \notin MobKind
    BY <1>2
  <2> QED BY <2>1, <2>2, <2>3
<1> QED BY <1>1, <1>3, InertElsewhere

(* So do drops.                                                            *)
LEMMA InertDrops ==
  ASSUME TypeOK, NEW d \in Drop,
         SpawnDrop(d) \/ ClaimDrop(d) \/ PutDropBack(d) \/ Expire(d)
  PROVE  InertStep
<1> DEFINE add(tile) == [kind |-> "drop add", drop |-> d, at |-> tile]
           remove(tile) == [kind |-> "drop remove", drop |-> d, at |-> tile]
<1>1. UNCHANGED <<mob, exp>>
  BY DEF SpawnDrop, ClaimDrop, PutDropBack, Expire
<1>2. drops[d].at \in Tile
  BY DEF TypeOK
<1>3. PICK tile \in Tile : Publish(<<add(tile)>>) \/ Publish(<<remove(tile)>>)
  BY <1>2 DEF SpawnDrop, ClaimDrop, PutDropBack, Expire
<1>4. /\ add(tile) \in Event /\ remove(tile) \in Event
      /\ add(tile).kind \notin MobKind /\ remove(tile).kind \notin MobKind
  BY DEF Event, MobKind
<1> HIDE DEF add, remove
<1>5. \A m \in Monster : Told(m) = {}
  BY <1>3, <1>4, ToldByOne
<1> QED BY <1>1, <1>5, InertElsewhere

(* Who is hit lives, and who dies is told of once.                         *)
LEMMA InertAttack ==
  ASSUME TypeOK, NEW p \in Player, NEW target \in Monster, Attack(p, target)
  PROVE  InertStep
<1> DEFINE resolved(hp) == [kind |-> "attack resolved", who |-> p, mob |-> target,
                            at |-> mob[target].at, hp |-> hp]
           killed == [kind |-> "killed", mob |-> target, at |-> mob[target].at]
<1>0. /\ mob \in [Monster -> Mob] /\ exp \in [Player -> 0..MaxExp]
      /\ mob[target].at \in Tile /\ mob[target].hp \in 0..MaxHp /\ mob[target].hp > 0
  BY DEF TypeOK, Mob, Attack, CanBeHit
<1>1. PICK hp \in 0..MaxHp :
        \/ /\ hp > 0
           /\ mob' = [mob EXCEPT ![target].hp = hp]
           /\ Publish(<<resolved(hp)>>)
           /\ UNCHANGED exp
        \/ /\ mob' = [mob EXCEPT ![target] = Killed(target)]
           /\ Publish(<<killed, resolved(hp)>>)
           /\ exp' = [exp EXCEPT ![p] = Gained(p)]
  <2>1. PICK damage \in 1..MaxHp :
          LET hp == IF damage < mob[target].hp THEN mob[target].hp - damage ELSE 0 IN
            IF hp > 0
              THEN /\ mob' = [mob EXCEPT ![target].hp = hp]
                   /\ Publish(<<resolved(hp)>>)
                   /\ UNCHANGED exp
              ELSE /\ mob' = [mob EXCEPT ![target] = Killed(target)]
                   /\ Publish(<<killed, resolved(hp)>>)
                   /\ exp' = [exp EXCEPT ![p] = Gained(p)]
    BY DEF Attack
  <2> HIDE DEF resolved, killed
  <2>2. (IF damage < mob[target].hp THEN mob[target].hp - damage ELSE 0) \in 0..MaxHp
    BY <1>0
  <2> QED BY <2>1, <2>2
<1>2. /\ resolved(hp) \in Event /\ resolved(hp).mob = target /\ resolved(hp).kind = "attack resolved"
      /\ killed \in Event /\ killed.mob = target /\ killed.kind = "killed"
  BY <1>0 DEF Event
<1>3. \A m \in Monster \ {target} : mob'[m] = mob[m]
  BY <1>0, <1>1
<1> HIDE DEF resolved, killed
<1>4. CASE hp > 0 /\ mob' = [mob EXCEPT ![target].hp = hp] /\ Publish(<<resolved(hp)>>)
           /\ UNCHANGED exp
  <2>1. mob'[target].hp = hp
    BY <1>0, <1>4 DEF Mob
  <2>2. \A m \in Monster : ~Dies(m)
    BY <1>0, <1>3, <1>4, <2>1 DEF Dies
  <2>3. \A m \in Monster : Deaths(m) = {} /\ (m # target => Told(m) = {})
    <3> SUFFICES ASSUME NEW m \in Monster
                 PROVE  Deaths(m) = {} /\ (m # target => Told(m) = {})
      OBVIOUS
    <3>1. Deaths(m) = {} /\ \A i \in Told(m) : resolved(hp).mob = m
      BY <1>2, <1>4, ToldByOne
    <3> QED BY <1>2, <3>1
  <2> QED BY <1>0, <1>3, <1>4, <2>2, <2>3 DEF InertStep
<1>5. CASE /\ mob' = [mob EXCEPT ![target] = Killed(target)]
           /\ Publish(<<killed, resolved(hp)>>)
  <2>1. Killed(target).hp = 0
    BY <1>0 DEF Killed, EnterIdle, Enter, Mob
  <2>2. Dies(target) /\ \A m \in Monster \ {target} : ~Dies(m)
    BY <1>0, <1>3, <1>5, <2>1 DEF Dies
  <2> DEFINE first == Len(log) + 1
  <2>3. /\ <<killed, resolved(hp)>> \in Seq(Event)
        /\ Len(<<killed, resolved(hp)>>) = 2
        /\ <<killed, resolved(hp)>>[1] = killed /\ <<killed, resolved(hp)>>[2] = resolved(hp)
    BY <1>2, EventsType
  <2>4. Len(log) \in Nat /\ log \in Seq(Event)
    BY DEF TypeOK
  <2>5. ASSUME NEW i \in (Len(log) + 1)..Len(log')
        PROVE  log'[i].mob = target /\ (log'[i].kind = "killed" => i = first)
    <3>1. PICK j \in 1..2 : i = Len(log) + j /\ log'[i] = <<killed, resolved(hp)>>[j]
      BY <1>5, <2>3, Appended
    <3>2. CASE j = 1
      BY <1>2, <2>3, <3>1, <3>2
    <3>3. CASE j = 2
      <4>1. log'[i] = resolved(hp)
        BY <2>3, <3>1, <3>3
      <4> QED BY <1>2, <4>1
    <3> QED BY <3>2, <3>3
  <2>6. first \in (Len(log) + 1)..Len(log') /\ log'[first] = killed
    <3>1. log' = log \o <<killed, resolved(hp)>>
      BY <1>5 DEF Publish
    <3>2. Len(log') = Len(log) + 2 /\ log'[Len(log) + 1] = <<killed, resolved(hp)>>[1]
      BY <2>3, <2>4, <3>1, ConcatProperties
    <3> QED BY <2>3, <2>4, <3>2
  <2>7. \A m \in Monster \ {target} : Told(m) = {} /\ Deaths(m) = {}
    BY <2>5 DEF Told, Deaths
  <2>8. first \in Told(target) /\ Deaths(target) = {first}
    BY <1>2, <2>5, <2>6 DEF Told, Deaths
  <2> HIDE DEF first
  <2> QED BY <1>0, <1>3, <2>2, <2>7, <2>8 DEF InertStep
<1> QED BY <1>1, <1>4, <1>5

(* A corpse rests until its timer fires.                                   *)
LEMMA InertRespawn ==
  ASSUME TypeOK, NEW corpse \in Monster, TickRespawn(corpse)
  PROVE  InertStep
<1>0. /\ mob \in [Monster -> Mob] /\ mob[corpse].hp = 0 /\ UNCHANGED exp
  BY DEF TypeOK, TickRespawn, Ticking
<1>1. CASE UNCHANGED <<mob, log>>
  BY <1>0, <1>1, Silence, InertElsewhere
<1>2. CASE ~UNCHANGED <<mob, log>>
  <2> DEFINE respawn == [kind |-> "respawn", mob |-> corpse]
  <2>1. PICK tile \in SpawnTiles(corpse) :
          /\ mob[corpse].armed
          /\ mob' = [mob EXCEPT ![corpse] = Respawned(corpse, tile)]
          /\ Publish(<<respawn>>)
    BY <1>2 DEF TickRespawn
  <2>2. Respawned(corpse, tile).hp = MaxHp
    BY <1>0 DEF Respawned, EnterIdle, Enter, Mob
  <2>3. respawn \in Event /\ respawn.kind = "respawn" /\ respawn.mob = corpse
    BY DEF Event
  <2> HIDE DEF respawn
  <2>4. \A m \in Monster :
          /\ Deaths(m) = {} /\ (m # corpse => Told(m) = {})
          /\ \A i \in Told(m) : log'[i].kind = "respawn"
    BY <2>1, <2>3, ToldByOne
  <2>5. \A m \in Monster : ~Dies(m)
    BY <1>0, <2>1, <2>2 DEF Dies
  <2>6. mob'[corpse].hp = MaxHp /\ \A m \in Monster \ {corpse} : mob'[m] = mob[m]
    BY <1>0, <2>1, <2>2
  <2> QED BY <1>0, <2>1, <2>4, <2>5, <2>6 DEF InertStep
<1> QED BY <1>1, <1>2

(* The living think, and live.                                             *)
LEMMA InertThinking ==
  ASSUME TypeOK, NEW thinker \in Monster, TickCreatureAi(thinker)
  PROVE  InertStep
<1>0. /\ mob \in [Monster -> Mob] /\ mob[thinker].hp > 0 /\ UNCHANGED exp
      /\ mob[thinker] \in Mob /\ mob[thinker].at \in Tile
  BY DEF TypeOK, Mob, TickCreatureAi, Thinks, Ticking
<1> DEFINE Alive(self) == self.hp = mob[thinker].hp
           Thought(self) == mob' = [mob EXCEPT ![thinker] = self] /\ Alive(self)
           Says(e) == /\ e.kind \in {"mob move", "attack requested"} /\ e.mob = thinker
                      /\ Publish(<<e>>)
<1>1. ASSUME NEW self, Thought(self), (log' = log) \/ \E e \in Event : Says(e)
      PROVE  InertStep
  <2>1. mob'[thinker].hp = mob[thinker].hp /\ \A m \in Monster \ {thinker} : mob'[m] = mob[m]
    BY <1>0, <1>1
  <2>2. \A m \in Monster : ~Dies(m)
    BY <1>0, <2>1 DEF Dies
  <2>3. \A m \in Monster : Deaths(m) = {} /\ (m # thinker => Told(m) = {})
    <3> SUFFICES ASSUME NEW m \in Monster
                 PROVE  Deaths(m) = {} /\ (m # thinker => Told(m) = {})
      OBVIOUS
    <3>1. CASE log' = log
      BY <3>1, Silence
    <3>2. CASE \E e \in Event : Says(e)
      <4>1. PICK e \in Event : Says(e)
        BY <3>2
      <4>2. e.kind # "killed" /\ e.mob = thinker /\ Publish(<<e>>)
        BY <4>1
      <4>3. Deaths(m) = {} /\ \A i \in Told(m) : e.mob = m
        BY <4>2, ToldByOne
      <4> QED BY <4>2, <4>3
    <3> QED BY <1>1, <3>1, <3>2
  <2> QED BY <1>0, <2>1, <2>2, <2>3 DEF InertStep
<1>2. \A self \in Mob : \A delayed, target :
        /\ EnterIdle(self, delayed).hp = self.hp /\ EnterWander(self).hp = self.hp
        /\ EnterChase(self, target, delayed).hp = self.hp
        /\ EnterAttacking(self, target).hp = self.hp
        /\ AfterStep(self).hp = self.hp
  BY DEF Enter, Mob, EnterIdle, EnterWander, EnterChase, EnterAttacking, AfterStep
<1>3. ASSUME NEW self, Become(thinker, self), Alive(self) PROVE InertStep
  BY <1>1, <1>3 DEF Become
<1>4. ASSUME NEW self \in Mob, NEW tile \in Tile, MoveTo(thinker, self, tile), Alive(self)
      PROVE  InertStep
  <2> DEFINE moved == [kind |-> "mob move", mob |-> thinker, from |-> mob[thinker].at, to |-> tile]
  <2>1. [self EXCEPT !.at = tile].hp = self.hp
    BY DEF Mob
  <2>2. Thought([self EXCEPT !.at = tile])
    BY <1>4, <2>1 DEF MoveTo
  <2>3. moved \in Event /\ moved.kind = "mob move" /\ moved.mob = thinker
    BY <1>0 DEF Event
  <2>4. CASE tile = mob[thinker].at
    <3>1. log' = log \o <<>> /\ log \in Seq(Event)
      BY <1>4, <2>4 DEF MoveTo, Publish, TypeOK
    <3>2. log' = log
      BY <3>1, ConcatEmptySeq
    <3> QED BY <1>1, <2>2, <3>2
  <2>5. CASE tile # mob[thinker].at
    <3>1. Publish(<<moved>>)
      BY <1>4, <2>5 DEF MoveTo
    <3>2. \E e \in Event : Says(e)
      <4> HIDE DEF moved
      <4> QED BY <2>3, <3>1
    <3> HIDE DEF Thought, Says
    <3> QED BY <1>1, <2>2, <3>2
  <2> QED BY <2>4, <2>5
<1>5. CASE UNCHANGED <<mob, log>>
  BY <1>0, <1>5, Silence, InertElsewhere
<1>6. CASE DecideIdle(thinker)
  <2>1. /\ Alive(EnterWander(mob[thinker])) /\ Alive(EnterIdle(mob[thinker], TRUE))
        /\ \A p : Alive(EnterChase(mob[thinker], p, FALSE))
    BY <1>0, <1>2
  <2>2. \E self : Become(thinker, self) /\ Alive(self)
    <3> HIDE DEF Alive
    <3> QED BY <1>6, <2>1 DEF DecideIdle
  <2> QED BY <1>3, <2>2
<1>7. CASE DecideWander(thinker)
  <2>1. AfterStep(mob[thinker]) \in Mob
    BY <1>0, RestType
  <2>2. Alive(AfterStep(mob[thinker]))
    BY <1>0, <1>2
  <2>3. PICK delta \in {-1, 0, 1} :
          MoveTo(thinker, AfterStep(mob[thinker]), Step(mob[thinker].at, delta))
    BY <1>7 DEF DecideWander
  <2>4. Step(mob[thinker].at, delta) \in Tile
    BY <1>0, StepType
  <2> HIDE DEF Alive
  <2> QED BY <1>4, <2>1, <2>2, <2>3, <2>4
<1>8. CASE DecideChase(thinker) \/ DecideAttacking(thinker)
  <2> DEFINE target == mob[thinker].target
  <2>1. Pursue(thinker)
    BY <1>8 DEF DecideChase, DecideAttacking
  <2>2. /\ Alive(EnterIdle(mob[thinker], FALSE))
        /\ Alive(EnterChase(mob[thinker], target, TRUE))
        /\ Alive(EnterAttacking(mob[thinker], target))
    BY <1>0, <1>2
  <2>3. \/ Become(thinker, EnterIdle(mob[thinker], FALSE))
        \/ \E t \in CurrentTarget(thinker) :
             \/ MoveTo(thinker, EnterChase(mob[thinker], target, TRUE), Towards(mob[thinker].at, t))
             \/ /\ mob' = [mob EXCEPT ![thinker] = EnterAttacking(@, target)]
                /\ Publish(<<[kind |-> "attack requested", mob |-> thinker, target |-> target]>>)
    BY <2>1 DEF Pursue
  <2> HIDE DEF Alive
  <2>4. CASE Become(thinker, EnterIdle(mob[thinker], FALSE))
    BY <1>3, <2>2, <2>4
  <2>5. ASSUME NEW t \in CurrentTarget(thinker)
        PROVE  target \in Player /\ t \in Tile
    BY DEF CurrentTarget, OnMap
  <2>6. ASSUME NEW t \in CurrentTarget(thinker),
               MoveTo(thinker, EnterChase(mob[thinker], target, TRUE), Towards(mob[thinker].at, t))
        PROVE  InertStep
    <3>1. target \in Player
      BY <2>5
    <3>2. EnterChase(mob[thinker], target, TRUE) \in Mob
      BY <1>0, <3>1, HuntType
    <3>3. Towards(mob[thinker].at, t) \in Tile
      BY <1>0, StepType DEF Towards
    <3> QED BY <1>4, <2>2, <2>6, <3>2, <3>3
  <2>7. ASSUME NEW t \in CurrentTarget(thinker),
               mob' = [mob EXCEPT ![thinker] = EnterAttacking(@, target)],
               Publish(<<[kind |-> "attack requested", mob |-> thinker, target |-> target]>>)
        PROVE  InertStep
    <3> DEFINE request == [kind |-> "attack requested", mob |-> thinker, target |-> target]
    <3>1. request \in Event /\ request.kind = "attack requested" /\ request.mob = thinker
      BY <2>5, <2>7 DEF Event
    <3>2. Thought(EnterAttacking(mob[thinker], target))
      BY <1>0, <2>2, <2>7
    <3>3. \E e \in Event : Says(e)
      <4>1. Publish(<<request>>)
        BY <2>7
      <4> HIDE DEF request
      <4> QED BY <3>1, <4>1
    <3> HIDE DEF Thought, Says
    <3> QED BY <1>1, <3>2, <3>3
  <2> QED BY <2>3, <2>4, <2>6, <2>7
<1> QED BY <1>5, <1>6, <1>7, <1>8 DEF TickCreatureAi

(* No step touches a corpse or tells of it but its respawn, or pays        *)
(* without a kill.                                                         *)
LEMMA InertNext == TypeOK /\ [Next]_vars => InertStep
<1> SUFFICES ASSUME TypeOK, [Next]_vars PROVE InertStep
  OBVIOUS
<1>1. ASSUME UNCHANGED <<mob, exp>>, log' = log \/ log' = <<>> PROVE InertStep
  BY <1>1, Silence, InertElsewhere
<1>2. ASSUME NEW kind, Dispatching(kind) PROVE InertStep
  BY <1>1, <1>2 DEF Dispatching
<1>3. ASSUME Dispatch PROVE InertStep
  BY <1>2, <1>3 DEF Dispatch, SendViewChange, SendCharMove, SendCharRemove,
        SendCharacterDataLoad, SendCreatureMove, SendCreatureRespawn, IgnoreAttackRequest,
        SendMonsterKilled, SendPlayerAttackResult, SendItemMapNew, SendItemMapRemove
<1>4. ASSUME BeginDispatch \/ BeginSimulation \/ EndTick \/ UNCHANGED vars
      PROVE  UNCHANGED <<mob, exp>> /\ (log' = log \/ log' = <<>>)
  BY <1>4 DEF BeginDispatch, BeginSimulation, EndTick, vars, ground, bus
<1> QED BY <1>1, <1>3, <1>4, InertRequests, InertDrops, InertAttack, InertRespawn, InertThinking
        DEF Next, Handle, Simulate

(* A dead monster stays as it is, unspoken of, until its timer brings it   *)
(* back; every death is published once, by the step that kills, and        *)
(* experience is paid only by such a step.                                 *)
THEOREM CorpsesAreInertCorrect == Spec => CorpsesAreInert
<1>1. TypeOK /\ [Next]_vars => [InertStep]_vars
  BY InertNext
<1> QED BY <1>1, TypeInvariant, PTL DEF Spec, CorpsesAreInert, InertStep

-----------------------------------------------------------------------------
(* Sight                                                                   *)

(* A queued leave is of a player that is gone.                             *)
LeaversIn(events) ==
  \A i \in 1..Len(events) : events[i].kind = "leave" => place[events[i].who] = Gone

(* Nobody sees itself or a player that has not joined yet.                 *)
SightInv ==
  /\ SightIsMutual
  /\ \A p, q \in Player : p \in sees[q] => place[p] # Unborn /\ p # q
  /\ LeaversIn(log) /\ LeaversIn(batch)

(* Players that are gone stay gone.                                        *)
LEMMA GoneForGood ==
  ASSUME TypeOK, [Next]_vars, NEW p \in Player, place[p] = Gone
  PROVE  place'[p] = Gone
<1>1. Gone \notin Tile /\ place \in [Player -> Tile \cup {Unborn, Gone}]
  BY DEF Tile, TypeOK
<1>2. ASSUME NEW q \in Player, SpawnPlayer(q) \/ DespawnPlayer(q) \/ Move(q)
      PROVE  place'[p] = Gone
  BY <1>1, <1>2 DEF SpawnPlayer, DespawnPlayer, Move, OnMap
<1> QED BY <1>2, PlacesKept

(* Published events that are no leaves keep the queued leaves as they are. *)
LEMMA LeaversPublished ==
  ASSUME TypeOK, [Next]_vars, LeaversIn(log),
         NEW events \in Seq(Event), Publish(events), LeaversIn(events)'
  PROVE  LeaversIn(log)'
<1> SUFFICES ASSUME NEW i \in 1..Len(log'), log'[i].kind = "leave"
             PROVE  place'[log'[i].who] = Gone
  BY DEF LeaversIn
<1>1. log \in Seq(Event) /\ log' = log \o events
  BY DEF TypeOK, Publish
<1>2. CASE i \in 1..Len(log)
  <2>1. log'[i] = log[i] /\ log[i] \in Event
    BY <1>1, <1>2, ConcatProperties, ElementOfSeq
  <2>2. log[i].who \in Player /\ place[log[i].who] = Gone
    BY <1>2, <2>1, EventFields DEF LeaversIn
  <2> QED BY <2>1, <2>2, GoneForGood
<1>3. CASE i \notin 1..Len(log)
  <2>1. i - Len(log) \in 1..Len(events) /\ log'[i] = events[i - Len(log)]
    BY <1>1, <1>3, ConcatProperties
  <2> QED BY <2>1 DEF LeaversIn
<1> QED BY <1>2, <1>3

(* One event that is no leave, or that of a player that left.              *)
LEMMA LeaversOne ==
  ASSUME TypeOK, [Next]_vars, LeaversIn(log), NEW e \in Event, Publish(<<e>>),
         e.kind # "leave" \/ place'[e.who] = Gone
  PROVE  LeaversIn(log)'
<1>1. <<e>> \in Seq(Event) /\ LeaversIn(<<e>>)'
  BY EventsType DEF LeaversIn
<1> QED BY <1>1, LeaversPublished

(* Two events that are no leaves.                                          *)
LEMMA LeaversTwo ==
  ASSUME TypeOK, [Next]_vars, LeaversIn(log), NEW e \in Event, NEW f \in Event,
         Publish(<<e, f>>), e.kind # "leave", f.kind # "leave"
  PROVE  LeaversIn(log)'
<1>1. <<e, f>> \in Seq(Event)
  BY EventsType
<1>2. LeaversIn(<<e, f>>)'
  BY DEF LeaversIn
<1> QED BY <1>1, <1>2, LeaversPublished

(* Leaves that were queued stay leaves of players that are gone.           *)
LEMMA LeaversStay ==
  ASSUME TypeOK, [Next]_vars
  PROVE  \A q \in Seq(Event) : LeaversIn(q) =>
           \A i \in 1..Len(q) : q[i].kind = "leave" => place'[q[i].who] = Gone
<1> SUFFICES ASSUME NEW q \in Seq(Event), LeaversIn(q), NEW i \in 1..Len(q), q[i].kind = "leave"
             PROVE  place'[q[i].who] = Gone
  OBVIOUS
<1>1. q[i] \in Event
  BY ElementOfSeq
<1>2. q[i].who \in Player /\ place[q[i].who] = Gone
  BY <1>1, EventFields DEF LeaversIn
<1> QED BY <1>2, GoneForGood

(* Two published sequences of one event are one of two.                    *)
LEMMA Joined ==
  ASSUME NEW e \in Event, NEW f \in Event
  PROVE  <<>> \o <<e>> = <<e>> /\ <<f>> \o <<e>> = <<f, e>>
<1>1. <<e>> \in Seq(Event) /\ <<f>> \in Seq(Event) /\ <<f, e>> \in Seq(Event)
  BY EventsType
<1>2. <<>> \o <<e>> = <<e>>
  BY <1>1, ConcatEmptySeq
<1>3. <<f>> \o <<e>> \in Seq(Event) /\ Len(<<f>> \o <<e>>) = 2
  BY <1>1, ConcatProperties
<1>4. (<<f>> \o <<e>>)[1] = f /\ (<<f>> \o <<e>>)[2] = e
  BY <1>1, ConcatProperties
<1>5. \A i \in 1..2 : (<<f>> \o <<e>>)[i] = <<f, e>>[i]
  BY <1>4
<1>6. Len(<<f, e>>) = 2
  OBVIOUS
<1> QED BY <1>1, <1>2, <1>3, <1>5, <1>6, SeqEqual

(* Every request keeps the queued leaves those of players that are gone.   *)
LEMMA HandleLeavers ==
  ASSUME TypeOK, [Next]_vars, LeaversIn(log), Handle
  PROVE  LeaversIn(log)'
<1>0. GroundOK /\ BusOK
  BY DEF TypeOK, GroundOK, BusOK
<1>1. ASSUME NEW p \in Player, SpawnPlayer(p) PROVE LeaversIn(log)'
  <2> DEFINE join == [kind |-> "join", who |-> p]
             zone(tile) == [kind |-> "zone", who |-> p, from |-> None, to |-> ZoneOf(tile)]
  <2>1. PICK tile \in Tile : Publish(<<join, zone(tile)>>)
    BY <1>1 DEF SpawnPlayer
  <2>2. /\ join \in Event /\ join.kind # "leave"
        /\ zone(tile) \in Event /\ zone(tile).kind # "leave"
    BY ZoneType DEF Event
  <2> HIDE DEF join, zone
  <2> QED BY <2>1, <2>2, LeaversTwo
<1>2. ASSUME NEW p \in Player, DespawnPlayer(p) PROVE LeaversIn(log)'
  <2> DEFINE leave == [kind |-> "leave", who |-> p]
  <2>1. Publish(<<leave>>) /\ place' = [place EXCEPT ![p] = Gone]
    BY <1>2 DEF DespawnPlayer
  <2>2. leave \in Event /\ leave.who = p
    BY DEF Event
  <2>3. place'[p] = Gone
    BY <1>0, <2>1 DEF GroundOK
  <2> HIDE DEF leave
  <2> QED BY <2>1, <2>2, <2>3, LeaversOne
<1>3. ASSUME NEW p \in Player, Move(p) PROVE LeaversIn(log)'
  <2> DEFINE move(tile) == [kind |-> "move", who |-> p, to |-> tile]
             zone(tile) == [kind |-> "zone", who |-> p, from |-> ZoneOf(place[p]),
                            to |-> ZoneOf(tile)]
  <2>1. PICK tile \in Tile :
          Publish(ZoneChange(p, ZoneOf(place[p]), ZoneOf(tile)) \o <<move(tile)>>)
    BY <1>3 DEF Move
  <2>2. /\ move(tile) \in Event /\ move(tile).kind # "leave"
        /\ zone(tile) \in Event /\ zone(tile).kind # "leave"
    BY <1>3, ZoneType DEF Event, Move, OnMap
  <2>3. \/ ZoneChange(p, ZoneOf(place[p]), ZoneOf(tile)) = <<>>
        \/ ZoneChange(p, ZoneOf(place[p]), ZoneOf(tile)) = <<zone(tile)>>
    BY DEF ZoneChange
  <2> HIDE DEF move, zone
  <2>4. <<>> \o <<move(tile)>> = <<move(tile)>>
        /\ <<zone(tile)>> \o <<move(tile)>> = <<zone(tile), move(tile)>>
    BY <2>2, Joined
  <2> QED BY <2>1, <2>2, <2>3, <2>4, LeaversOne, LeaversTwo
<1>4. ASSUME NEW p \in Player, NEW m \in Monster, Attack(p, m) PROVE LeaversIn(log)'
  <2> DEFINE resolved(hp) == [kind |-> "attack resolved", who |-> p, mob |-> m,
                              at |-> mob[m].at, hp |-> hp]
             killed == [kind |-> "killed", mob |-> m, at |-> mob[m].at]
  <2>1. mob[m].at \in Tile /\ mob[m].hp \in 0..MaxHp
    BY <1>0 DEF GroundOK, Mob
  <2>2. PICK hp \in 0..MaxHp : Publish(<<resolved(hp)>>) \/ Publish(<<killed, resolved(hp)>>)
    <3>1. PICK damage \in 1..MaxHp :
            LET hp == IF damage < mob[m].hp THEN mob[m].hp - damage ELSE 0 IN
              Publish(<<resolved(hp)>>) \/ Publish(<<killed, resolved(hp)>>)
      BY <1>4 DEF Attack
    <3> HIDE DEF resolved, killed
    <3>2. (IF damage < mob[m].hp THEN mob[m].hp - damage ELSE 0) \in 0..MaxHp
      BY <2>1
    <3> QED BY <3>1, <3>2
  <2>3. /\ resolved(hp) \in Event /\ resolved(hp).kind # "leave"
        /\ killed \in Event /\ killed.kind # "leave"
    BY <2>1 DEF Event
  <2> HIDE DEF resolved, killed
  <2> QED BY <2>2, <2>3, LeaversOne, LeaversTwo
<1>5. ASSUME NEW d \in Drop, SpawnDrop(d) \/ ClaimDrop(d) \/ PutDropBack(d) PROVE LeaversIn(log)'
  <2> DEFINE add(tile) == [kind |-> "drop add", drop |-> d, at |-> tile]
             remove(tile) == [kind |-> "drop remove", drop |-> d, at |-> tile]
  <2>1. PICK tile \in Tile : Publish(<<add(tile)>>) \/ Publish(<<remove(tile)>>)
    <3>1. drops[d].at \in Tile
      BY <1>0 DEF GroundOK
    <3> QED BY <1>5, <3>1 DEF SpawnDrop, ClaimDrop, PutDropBack
  <2>2. /\ add(tile) \in Event /\ add(tile).kind # "leave"
        /\ remove(tile) \in Event /\ remove(tile).kind # "leave"
    BY DEF Event
  <2> HIDE DEF add, remove
  <2> QED BY <2>1, <2>2, LeaversOne
<1> QED BY <1>1, <1>2, <1>3, <1>4, <1>5 DEF Handle

(* So does the simulation, which publishes one event or none.              *)
LEMMA SimulateLeavers ==
  ASSUME TypeOK, [Next]_vars, LeaversIn(log), Simulate
  PROVE  LeaversIn(log)'
<1>0. GroundOK /\ BusOK
  BY DEF TypeOK, GroundOK, BusOK
<1>1. ASSUME log' = log PROVE LeaversIn(log)'
  BY <1>0, <1>1, LeaversStay DEF LeaversIn, BusOK
<1>2. ASSUME NEW d \in Drop, Expire(d) PROVE LeaversIn(log)'
  <2> DEFINE remove == [kind |-> "drop remove", drop |-> d, at |-> drops[d].at]
  <2>1. drops[d].at \in Tile
    BY <1>0 DEF GroundOK
  <2>2. Publish(<<remove>>) /\ remove \in Event /\ remove.kind # "leave"
    BY <1>2, <2>1 DEF Event, Expire
  <2> HIDE DEF remove
  <2> QED BY <2>2, LeaversOne
<1>3. ASSUME NEW m \in Monster, TickRespawn(m) PROVE LeaversIn(log)'
  <2> DEFINE respawn == [kind |-> "respawn", mob |-> m]
  <2>1. log' = log \/ Publish(<<respawn>>)
    BY <1>3 DEF TickRespawn
  <2>2. respawn \in Event /\ respawn.kind # "leave"
    BY DEF Event
  <2> HIDE DEF respawn
  <2> QED BY <1>1, <2>1, <2>2, LeaversOne
<1>4. ASSUME NEW m \in Monster, NEW self, NEW tile \in Tile, MoveTo(m, self, tile)
      PROVE  LeaversIn(log)'
  <2> DEFINE e == [kind |-> "mob move", mob |-> m, from |-> mob[m].at, to |-> tile]
  <2>1. mob[m].at \in Tile
    BY <1>0 DEF GroundOK, Mob
  <2>2. e \in Event /\ e.kind # "leave"
    BY <2>1 DEF Event
  <2>3. log' = log \/ Publish(<<e>>)
    <3>1. log \o <<>> = log
      BY <1>0 DEF BusOK
    <3> QED BY <1>4, <3>1 DEF MoveTo, Publish
  <2> HIDE DEF e
  <2> QED BY <1>1, <2>2, <2>3, LeaversOne
<1>5. ASSUME NEW m \in Monster, Pursue(m) PROVE LeaversIn(log)'
  <2> DEFINE attack == [kind |-> "attack requested", mob |-> m, target |-> mob[m].target]
  <2>1. ASSUME NEW t \in CurrentTarget(m)
        PROVE  mob[m].target \in Player /\ Towards(mob[m].at, t) \in Tile
    <3>1. mob[m].at \in Tile
      BY <1>0 DEF GroundOK, Mob
    <3> QED BY <3>1, StepType DEF CurrentTarget, OnMap, Towards
  <2>2. ASSUME NEW t \in CurrentTarget(m), Publish(<<attack>>) PROVE LeaversIn(log)'
    <3>1. attack \in Event /\ attack.kind # "leave"
      BY <2>1 DEF Event
    <3> HIDE DEF attack
    <3> QED BY <2>2, <3>1, LeaversOne
  <2>3. \/ log' = log
        \/ \E t \in CurrentTarget(m) :
             \/ MoveTo(m, EnterChase(mob[m], mob[m].target, TRUE), Towards(mob[m].at, t))
             \/ Publish(<<attack>>)
    BY <1>5 DEF Pursue, Become
  <2> HIDE DEF attack
  <2> QED BY <1>1, <1>4, <2>1, <2>2, <2>3
<1>6. ASSUME NEW m \in Monster, TickCreatureAi(m) PROVE LeaversIn(log)'
  <2>1. mob[m].at \in Tile
    BY <1>0 DEF GroundOK, Mob
  <2>2. CASE log' = log
    BY <1>1, <2>2
  <2>3. CASE DecideIdle(m)
    BY <1>1, <2>3 DEF DecideIdle, Become
  <2>4. CASE DecideWander(m)
    BY <1>4, <2>1, <2>4, StepType DEF DecideWander
  <2>5. CASE DecideChase(m) \/ DecideAttacking(m)
    BY <1>5, <2>5 DEF DecideChase, DecideAttacking
  <2> QED BY <1>6, <2>2, <2>3, <2>4, <2>5 DEF TickCreatureAi
<1> QED BY <1>2, <1>3, <1>6 DEF Simulate

(* Every step keeps the queued leaves those of players that are gone.      *)
LEMMA LeaversNext ==
  TypeOK /\ LeaversIn(log) /\ LeaversIn(batch) /\ [Next]_vars => LeaversIn(log)' /\ LeaversIn(batch)'
<1> SUFFICES ASSUME TypeOK, LeaversIn(log), LeaversIn(batch), [Next]_vars
             PROVE  LeaversIn(log)' /\ LeaversIn(batch)'
  OBVIOUS
<1>0. log \in Seq(Event) /\ batch \in Seq(Event)
  BY DEF TypeOK
<1>1. ASSUME log' = log PROVE LeaversIn(log)'
  BY <1>0, <1>1, LeaversStay DEF LeaversIn
<1>2. ASSUME batch' = batch PROVE LeaversIn(batch)'
  BY <1>0, <1>2, LeaversStay DEF LeaversIn
<1>3. CASE Handle
  BY <1>2, <1>3, HandleLeavers DEF Handle, SpawnPlayer, DespawnPlayer, Move, Attack, SpawnDrop,
    ClaimDrop, PutDropBack, Handling
<1>4. CASE Simulate
  BY <1>2, <1>4, SimulateLeavers DEF Simulate, Expire, TickRespawn, TickCreatureAi, Ticking
<1>5. ASSUME NEW kind, Dispatching(kind) PROVE LeaversIn(log)' /\ LeaversIn(batch)'
  <2>1. batch # <<>> /\ batch' = Tail(batch) /\ log' = log
    BY <1>5 DEF Dispatching
  <2>2. \A i \in 1..Len(Tail(batch)) : i + 1 \in 1..Len(batch) /\ Tail(batch)[i] = batch[i + 1]
    BY <1>0, <2>1, HeadTailProperties, EmptySeq
  <2>3. LeaversIn(batch)'
    BY <1>0, <2>1, <2>2, LeaversStay DEF LeaversIn
  <2> QED BY <1>1, <2>1, <2>3
<1>6. CASE Dispatch
  BY <1>5, <1>6 DEF Dispatch, SendViewChange, SendCharMove, SendCharRemove,
        SendCharacterDataLoad, SendCreatureMove, SendCreatureRespawn, IgnoreAttackRequest,
        SendMonsterKilled, SendPlayerAttackResult, SendItemMapNew, SendItemMapRemove
<1>7. CASE BeginDispatch
  <2>1. batch' = log /\ log' = <<>>
    BY <1>7 DEF BeginDispatch
  <2>2. LeaversIn(batch)'
    BY <1>0, <2>1, LeaversStay DEF LeaversIn
  <2>3. Len(log') = 0
    BY <2>1, EmptySeq
  <2> QED BY <2>2, <2>3 DEF LeaversIn
<1>8. CASE BeginSimulation \/ EndTick \/ UNCHANGED vars
  BY <1>1, <1>2, <1>8 DEF BeginSimulation, EndTick, vars, bus
<1> QED BY <1>3, <1>4, <1>6, <1>7, <1>8 DEF Next

(* Only these touch what sight depends on.                                 *)
LEMMA SightKept ==
  ASSUME [Next]_vars, ~SendViewChange, ~SendCharRemove,
         \A p \in Player : ~SpawnPlayer(p)
  PROVE  sees' = sees
<1> DEFINE Same == sees' = sees
<1>1. ASSUME NEW p \in Player, DespawnPlayer(p) \/ Move(p) PROVE Same
  BY <1>1 DEF DespawnPlayer, Move
<1>2. ASSUME NEW p \in Player, NEW m \in Monster, Attack(p, m) PROVE Same
  BY <1>2 DEF Attack
<1>3. ASSUME NEW d \in Drop, SpawnDrop(d) \/ ClaimDrop(d) \/ PutDropBack(d) \/ Expire(d) PROVE Same
  BY <1>3 DEF SpawnDrop, ClaimDrop, PutDropBack, Expire
<1>4. ASSUME NEW m \in Monster, TickRespawn(m) \/ TickCreatureAi(m) PROVE Same
  BY <1>4 DEF TickRespawn, TickCreatureAi, Ticking
<1>5. ASSUME Dispatch PROVE Same
  BY <1>5 DEF Dispatch, SendCharMove, SendCharacterDataLoad, SendCreatureMove,
    SendCreatureRespawn, IgnoreAttackRequest, SendMonsterKilled, SendPlayerAttackResult,
    SendItemMapNew, SendItemMapRemove
<1>6. ASSUME BeginDispatch \/ BeginSimulation \/ EndTick \/ UNCHANGED vars PROVE Same
  BY <1>6 DEF BeginDispatch, BeginSimulation, EndTick, vars, ground
<1> HIDE DEF Same
<1>7. Same
  BY <1>1, <1>2, <1>3, <1>4, <1>5, <1>6 DEF Next, Handle, Simulate
<1> QED BY <1>7 DEF Same

Unseen == \A p, q \in Player : p \in sees[q] => place[p] # Unborn /\ p # q

(* A player that joins sees nobody and is seen by nobody.                  *)
LEMMA SpawnKeepsSight ==
  ASSUME TypeOK, SightIsMutual, Unseen, NEW p \in Player, SpawnPlayer(p)
  PROVE  SightIsMutual' /\ Unseen'
<1>1. PICK tile \in Tile : place' = [place EXCEPT ![p] = tile]
  BY DEF SpawnPlayer
<1>2. /\ place[p] = Unborn /\ sees' = [sees EXCEPT ![p] = {}] /\ Unborn \notin Tile
      /\ sees \in [Player -> SUBSET Player] /\ place \in [Player -> Tile \cup {Unborn, Gone}]
  BY DEF SpawnPlayer, TypeOK, Tile
<1>3. \A q \in Player : p \notin sees[q] /\ p \notin sees'[q]
  BY <1>2 DEF Unseen
<1>4. ASSUME NEW q \in OnMap', NEW r \in OnMap' PROVE q \in sees'[r] <=> r \in sees'[q]
  <2>1. CASE q = p \/ r = p
    BY <1>2, <1>3, <2>1 DEF OnMap
  <2>2. CASE q # p /\ r # p
    BY <1>1, <1>2, <2>2 DEF SightIsMutual, OnMap
  <2> QED BY <2>1, <2>2
<1>5. ASSUME NEW q \in Player, NEW r \in Player, q \in sees'[r]
      PROVE  place'[q] # Unborn /\ q # r
  BY <1>1, <1>2, <1>3, <1>5 DEF Unseen
<1> QED BY <1>4, <1>5 DEF SightIsMutual, Unseen

(* A player that leaves is on the map of nobody.                           *)
LEMMA LeaveKeepsSight ==
  ASSUME TypeOK, SightIsMutual, Unseen, NEW p \in Player, DespawnPlayer(p)
  PROVE  SightIsMutual' /\ Unseen'
<1>1. /\ place' = [place EXCEPT ![p] = Gone] /\ sees' = sees
      /\ Gone \notin Tile /\ Gone # Unborn
      /\ place \in [Player -> Tile \cup {Unborn, Gone}]
  BY DEF DespawnPlayer, TypeOK, Tile
<1>2. OnMap' \subseteq OnMap
  BY <1>1 DEF OnMap
<1> QED BY <1>1, <1>2 DEF SightIsMutual, Unseen

(* A move leaves sight to the zone change it publishes.                    *)
LEMMA MoveKeepsSight ==
  ASSUME TypeOK, SightIsMutual, Unseen, NEW p \in Player, Move(p)
  PROVE  SightIsMutual' /\ Unseen'
<1>1. PICK tile \in Tile : place' = [place EXCEPT ![p] = tile]
  BY DEF Move
<1>2. /\ sees' = sees /\ p \in OnMap /\ Unborn \notin Tile
      /\ place \in [Player -> Tile \cup {Unborn, Gone}]
  BY DEF Move, TypeOK, Tile
<1>3. OnMap' = OnMap
  BY <1>1, <1>2 DEF OnMap
<1> QED BY <1>1, <1>2, <1>3 DEF SightIsMutual, Unseen

(* SyncVisiblePlayers changes both sides at once.                          *)
LEMMA SyncKeepsSight ==
  ASSUME TypeOK, SightIsMutual, Unseen, SendViewChange
  PROVE  SightIsMutual' /\ Unseen'
<1> DEFINE p == Head(batch).who
<1>1. place' = place
  BY DEF SendViewChange, Dispatching
<1>2. CASE p \notin OnMap
  BY <1>1, <1>2 DEF SendViewChange, SightIsMutual, Unseen, OnMap
<1>3. CASE p \in OnMap
  <2> HIDE DEF p
  <2>0. /\ p \in Player /\ sees \in [Player -> SUBSET Player] /\ Unborn \notin Tile
        /\ \A q \in OnMap : place[q] \in Tile /\ q \in Player
    BY <1>3 DEF OnMap, TypeOK, Tile
  <2>1. SyncVisiblePlayers(p)
    BY <1>3 DEF SendViewChange, p
  <2>2. p \notin LosesSight(p) /\ p \notin GainsSight(p) /\ InView(p) \subseteq OnMap \ {p}
    <3>1. InView(p) \subseteq OnMap \ {p}
      BY DEF InView
    <3>2. p \notin LosesSight(p)
      BY <2>0 DEF LosesSight, Unseen
    <3> QED BY <3>1, <3>2 DEF GainsSight
  <2>3. sees'[p] = InView(p)
    BY <2>0, <2>1, <2>2 DEF SyncVisiblePlayers
  <2>4. ASSUME NEW q \in OnMap, q # p
        PROVE  /\ p \in sees'[q] <=> q \in InView(p)
               /\ \A r \in OnMap \ {p} : r \in sees'[q] <=> r \in sees[q]
    <3>1. q \in LosesSight(p) <=> q \in sees[p] /\ q \notin InView(p)
      BY <1>3, <2>0, <2>4 DEF LosesSight, SightIsMutual
    <3>2. q \in GainsSight(p) <=> q \in InView(p) /\ q \notin sees[p]
      BY <1>3, <2>4 DEF GainsSight, SightIsMutual
    <3>3. p \in sees[q] <=> q \in sees[p]
      BY <1>3, <2>4 DEF SightIsMutual
    <3>4. sees'[q] = IF q \in LosesSight(p) THEN sees[q] \ {p}
                     ELSE IF q \in GainsSight(p) THEN sees[q] \cup {p} ELSE sees[q]
      BY <2>0, <2>1, <2>4, <3>1, <3>2 DEF SyncVisiblePlayers
    <3> QED BY <3>1, <3>2, <3>3, <3>4
  <2>5. OnMap' = OnMap
    BY <1>1 DEF OnMap
  <2>6. SightIsMutual'
    <3> SUFFICES ASSUME NEW q \in OnMap, NEW r \in OnMap PROVE q \in sees'[r] <=> r \in sees'[q]
      BY <2>5 DEF SightIsMutual
    <3>1. CASE q = p
      BY <2>2, <2>3, <2>4, <3>1
    <3>2. CASE r = p
      BY <2>2, <2>3, <2>4, <3>2
    <3>3. CASE q # p /\ r # p
      BY <2>4, <3>3 DEF SightIsMutual
    <3> QED BY <3>1, <3>2, <3>3
  <2>7. Unseen'
    <3> SUFFICES ASSUME NEW q \in Player, NEW r \in Player, q \in sees'[r]
                 PROVE  place[q] # Unborn /\ q # r
      BY <1>1 DEF Unseen
    <3>1. CASE r = p
      BY <2>0, <2>2, <2>3, <3>1
    <3>2. CASE r # p
      <4>1. sees'[r] \subseteq sees[r] \cup {p}
        BY <2>0, <2>1, <2>2, <3>2 DEF SyncVisiblePlayers
      <4>2. place[p] # Unborn
        BY <1>3, <2>0
      <4>3. q = p \/ q \in sees[r]
        BY <4>1
      <4> QED BY <3>2, <4>2, <4>3 DEF Unseen
    <3> QED BY <3>1, <3>2
  <2> QED BY <2>6, <2>7
<1> QED BY <1>2, <1>3

(* The message of a leave makes clients forget a player that is gone.      *)
LEMMA RemoveKeepsSight ==
  ASSUME TypeOK, SightIsMutual, Unseen, LeaversIn(batch), SendCharRemove
  PROVE  SightIsMutual' /\ Unseen'
<1> DEFINE who == Head(batch).who
<1>1. /\ batch \in Seq(Event) /\ batch # <<>> /\ Head(batch).kind = "leave" /\ place' = place
      /\ sees \in [Player -> SUBSET Player]
  BY DEF SendCharRemove, Dispatching, TypeOK
<1>2. Head(batch) = batch[1] /\ 1 \in 1..Len(batch)
  BY <1>1, EmptySeq
<1>3. place[who] = Gone
  BY <1>1, <1>2 DEF LeaversIn
<1>4. PICK viewers : sees' = [c \in Player |-> IF c \in viewers THEN sees[c] \ {who} ELSE sees[c]]
  BY DEF SendCharRemove, Forgotten, Erase
<1> HIDE DEF who
<1>5. who \notin OnMap
  BY <1>3 DEF OnMap, Tile
<1>6. \A q \in Player : sees'[q] \subseteq sees[q]
                        /\ \A r \in OnMap : r \in sees'[q] <=> r \in sees[q]
  BY <1>4, <1>5
<1>7. OnMap' = OnMap /\ OnMap \subseteq Player
  BY <1>1 DEF OnMap
<1> QED BY <1>1, <1>6, <1>7 DEF SightIsMutual, Unseen

(* Every step keeps sight mutual.                                          *)
LEMMA SightNext == TypeOK /\ SightInv /\ [Next]_vars => SightInv'
<1> SUFFICES ASSUME TypeOK, SightInv, [Next]_vars PROVE SightInv'
  OBVIOUS
<1>1. SightIsMutual /\ Unseen /\ LeaversIn(log) /\ LeaversIn(batch)
  BY DEF SightInv, Unseen
<1>2. LeaversIn(log)' /\ LeaversIn(batch)'
  BY <1>1, LeaversNext
<1>3. SightIsMutual' /\ Unseen'
  <2>1. CASE \/ SendViewChange \/ SendCharRemove
             \/ \E p \in Player : SpawnPlayer(p) \/ DespawnPlayer(p) \/ Move(p)
    BY <1>1, <2>1, SpawnKeepsSight, LeaveKeepsSight, MoveKeepsSight, SyncKeepsSight,
       RemoveKeepsSight
  <2>2. CASE ~ \/ SendViewChange \/ SendCharRemove
               \/ \E p \in Player : SpawnPlayer(p) \/ DespawnPlayer(p) \/ Move(p)
    <3>1. place' = place /\ sees' = sees
      BY <2>2, PlacesKept, SightKept
    <3> QED BY <1>1, <3>1 DEF SightIsMutual, Unseen, OnMap
  <2> QED BY <2>1, <2>2
<1> QED BY <1>2, <1>3 DEF SightInv, Unseen

(* Of two players on the map both have loaded the other or neither,        *)
(* whatever joins, leaves and zone changes are still queued.               *)
THEOREM SightIsMutualCorrect == Spec => []SightIsMutual
<1>1. Init => SightInv
  <2> SUFFICES ASSUME Init PROVE SightInv
    OBVIOUS
  <2>1. Len(log) = 0 /\ Len(batch) = 0
    BY EmptySeq DEF Init
  <2> QED BY <2>1 DEF Init, SightInv, SightIsMutual, OnMap, LeaversIn
<1>2. SightInv => SightIsMutual
  BY DEF SightInv
<1> QED BY <1>1, <1>2, SightNext, TypeInvariant, PTL DEF Spec
=============================================================================
