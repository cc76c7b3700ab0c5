# A verification development of shiltz

shiltz is a server for an online game: a login server and a game server (C++20, Boost.Asio), two
processes over one SQLite file. This directory holds TLA+ models of its concurrent core, the TLC runs
that check them on small instances and TLAPS proofs of the main results for every instance. Every
definition is translated from `src/`; `PROJECT.json` maps each one to the lines it stands for and lists
the hazards the properties are for.

## 1. The system

| Part | State it keeps | Operations | Talks to |
| --- | --- | --- | --- |
| TCP server (`common/Server.cpp`) | connection registry (under a mutex), per connection a read buffer and a write queue (on a strand) | accept, read and frame, send, broadcast, disconnect | calls `OnClientConnected`, `OnFrame`, `OnClientDisconnected` of the server built on it |
| Game server (`GameServer.cpp`) | world strand, tick timer | turns socket events into requests, ticks the world every 100 ms | pushes to `World::ingress`; hands database results to the world strand |
| World (`world/World.cpp`) | connections, connection -> player, character -> connection, ingress queue, current batch | connect, join, leave, find, tick | handlers, maps |
| Handlers (`handlers/*.cpp`) | none | one function per client message | read the cached `Player`, queue database jobs, change the cache in the jobs' callbacks |
| Persistence (`Persistence.h`) | one database thread with a FIFO queue | `Run`, `Save` | repositories; posts outcomes to the world strand |
| Repositories | the rows | compare-and-swap of item slots, relative and guarded money updates, absolute position and level updates | SQLite |
| Map (`world/Map.cpp`) | players, creatures, drops, event bus, visibility index | spawn, despawn, move, attack, tick | systems through the event bus |
| Systems (`world/systems`) | none | turn events into sight and packets for whoever can see them | outbox |
| Creatures and AI | health, state, timers | damage, death, respawn, chase, wander | map, drops, experience |
| Login server (`servers/login`) | session store, a pool of one thread | authenticate, list, create, delete, relocate characters, hand over | the same database as the game server |
| Migrations (`storage/MigrationRunner.cpp`) | `schema_migrations` | run what is not recorded | SQLite |

How they interact: I/O threads only push requests. A tick swaps the queue out and handles it request by
request on the world strand, then lets the maps dispatch their events and simulate. A handler checks the
request against the cached player and queues a job; the job runs on the database thread; its callback is
posted to the world strand and runs between ticks. So there are three FIFO queues (ingress, jobs,
callbacks), and every check a handler makes may be stale when its job runs, and again when its callback
runs. The two servers share nothing but the rows.

What is hard:

* **Stale state.** A handler sees a cache that queued jobs have not changed yet, and a callback looks its
  player up by connection, which may play another character by then.
* **Interleaving.** Enter, exit and hang-up of several connections for one character; two characters of
  one account on one bank; two players on one drop or one monster; two servers on one row.
* **Ordering.** Connect before the first frame, disconnect after the last; position saves in order; events
  of one tick told to clients against a map that is already further on.
* **Failure.** A job may throw at any point, a save may stop between two statements, a process between a
  commit and its callback, a socket in the middle of a write.

## 2. Modules

| Module | What it is | Source |
| --- | --- | --- |
| `Session` | connections, ingress, tick, registries, load / save jobs and callbacks | `World.cpp`, `Session.cpp`, `Persistence.h` |
| `Presence` | abstract: who is known and who plays which character | |
| `Items` | bag, equipment, bank, ground and shops over guarded transactions | `Inventory.cpp`, `Trade.cpp`, `Store.cpp`, repositories |
| `WorldMap` | one map: places, zones, event bus, sight, monsters, drops, what clients draw | `Map.cpp`, `systems/`, `Creature.cpp`, `CreatureAi.cpp` |
| `Progress` | experience, levels, stats, skills, quests, appraisals | `LevelUp.cpp`, `Quest.cpp`, `ItemConfirmNpc.cpp`, ... |
| `Login` | the login server beside the game server, on the same rows | `servers/login` |
| `Server` | accept, framing, strands, write queues | `common/Server.cpp` |
| `Sums` | the sum of a function's values over a set, for properties that balance accounts | |
| `SessionProofs`, `ItemsProofs`, `WorldMapProofs`, `ProgressProofs`, `LoginProofs`, `ServerProofs` | theorems about the module each is named for | |
| `ScreenProofs` | theorems about what the clients of `WorldMap` draw (characters, drops, monsters), on top of `WorldMapProofs` | |
| `SumTheorems` | what a sum comes to, for any finite set, and a sum along a queue | |
| `MCSession`, `MCItems`, `MCWorldMap`, `MCProgress`, `MCLogin`, `MCServer` | those modules for TLC: starting rows, symmetry | |

They compose in layers. `Server` shows that a connection's callbacks come as connect, frames in order,
disconnect; `Session` starts from that and shows who plays which character; `Items` and `Progress` start
from a player on a connection, keep the part of `Session` that can hurt them (enter, exit, another
character on the connection, a callback that finds it) and add the rows. `WorldMap` is the part of a tick
that `Session` leaves out. `Login` has a game server reduced to what touches the shared rows.

### Server

A connection is `fresh`, `registered` (in the registry, its `Start` not yet run), `reading` (a read is
outstanding), `draining` (frames are cut out of its buffer) or `closed`. `HandleRead` takes any number of
the units on the wire, `DrainFrame` cuts one frame, `ReadOn` reads again; `SendTo`/`Broadcast` look the
targets up and `Send` posts to their strands later, one action each since the lock is released in
between; `PushSend` runs on the strand and starts a write if none is outstanding; `HandleWrite`,
`HandleWriteError`, `HandleDisconnect` are the completions. A client may send frames with a prefix shorter
than a header, after which whatever follows is read as a prefix. Bytes are abstracted to units of
which two make a prefix. On such a prefix the code logs that it drops the connection (`Server.cpp:90`) but clears the
buffer and reads on: the model does what the code does, so the connection stays open and what comes next is
cut anywhere; `CallbacksFollowTheClient` promises frames only up to there.

### Session

`ingress` is `World::ingress`, `batch` what the running tick has left of `m_requests`; `connections`,
`byConn`, `byChar` are `World`'s three containers; `pool` the players on the maps, keyed by instance id from
`nextInst`; `jobs` the queue of the database thread; `callbacks` what was posted to the world strand; `db`
the rows. `net` and `frames` are the clients' side; `left` is a history variable (where each character
stood when it last left).

`Accept`, `OnFrame`, `HangUp` run on I/O threads at any moment. `DrainIngress` begins a tick; the `Handle*`
actions are its requests, one at a time, in order (jobs may run between two of them, callbacks may not,
since they share the strand with the tick). `RunLoad`, `RunSell`, `RunSavePosition` and `JobThrows` are the
database thread. `OnLoaded`, `OnSold`, `OnDone` are callbacks. Of the player messages the module takes one
that only changes memory (move) and one that changes rows first (sell); all the others have one of these
two shapes. A position is a model value, of which only `Loaded` ones are on a map the atlas holds; a
character's row has one item slot, full or not, and the money made from it. A load may fail for reasons
outside the module.

### Items

`slots`, `money`, `banks` are rows. A slot's row holds an item, `Empty` (`item_id` NULL, the row is kept) or
`Virgin` (no row yet). `player[c]` is the player of connection `c` with its cached slots, wallet and, while its
bank is open, the cached boxes and balance. `ground` holds the drops, numbered from `nextDrop`; a pickup takes
its drop off the ground before its transaction runs (`Claimed`), a refusal puts it back (`Returned`).

Every handler that changes items queues one transaction record: the slots it writes with the content it
expects and the content it wants, a payment, the drop it has claimed and the item it will put on the
ground. `RunTransaction` and `RefuseTransaction` are the database's answer: `Holds` is the compare-and-swap
of `Save*Slot` / `Clear*Slot` (an INSERT into a slot without a row compares nothing), `Affordable` is
`TrySpendMoney`, `Stored` drops the quantity of what goes to `equipment_slot`, which has no such column. The
done callbacks (`OnMoved`, `OnBought`, ...) update the cache of whichever player the connection has by then.

An item is an `item_id`, a quantity and whether it is refined (refined items never stack and move whole);
refine level, item level and option bits are that one flag. Every unit costs one coin, bought or sold, so
`Worth` is conserved by trade. `Unchecked` names the writes whose guard compares less than the slot holds: a
slot without a row, and quantities in `equipment_slot`. There is one map, without distances. An open request says whether its
password is right.

### WorldMap

The world strand goes round three phases: requests change the map at once and publish events; `Dispatch`
handles the published events, oldest first, one action each (a listener may publish more, which are
dispatched in the same drain); drops expire and monsters act, and what they publish waits for the next
tick. `place`, `index`, `sees`, `mob`, `drops` are `Map`'s, `drawn*` what each client has been told, with the
client modelled by what it must do with each packet (draw, move, remove). Zones, distances and steps
treat both axes alike, so the grid is one-dimensional; a timer is a flag (`armed`), and one that runs may
fire at any tick, so that a running respawn could be started over is not modelled; an attack does any
damage; a wandering monster takes any direction.

### Progress

`db` are the rows (one stat, one skill, a bag), `player` the caches, `jobs` and `callbacks` the queues.
Kills, level-ups, stats and skills change the cache and queue a save of single statements (`RunStatement`
runs one, so a save can stop half-way); quests and appraisals queue a transaction made from a snapshot of
the cache and change the cache in their callback. `stored` says which bag slots have a row: creation seeds
none, `StartStored` are those used before, and a write into a slot without one compares nothing
(`SlotMatches`, `StoreSlots`).
`wages` is a history of what repeatable quests paid, `unguarded` one of the characters in whose bag such a
write landed although its handler had seen an item there, `earned` one of what was awarded, `overtaken` one of
the characters that ever joined on a row its own saves had left behind: with a save still queued, or with
another row loaded than the database has by then. Each kill is
worth one experience and each level costs `Need`. `TickCharacter` recomputes the derived stats of whoever
is flagged, and `StatusClass` is the lookup from a job to the class whose constants are used. A skill-up
request has one entry or two of the one skill; `SkillCost` is what all levels up to each cost together.
Simplified here: a player's hit points, which nothing in the source lowers, are left out; of the derived stats
there is one, from the raw stats alone (bonuses of items and sets are table values); an item's option bits
are never appraised, rolled or none.

### Login

`accounts`, `sessions`, `db` are the tables and `txn` what the pool's open transaction has written; `pool` the
jobs of the one-thread pool with the statements each has still to run; `accountOf` and `sessionOf` the
`LoginSessionStore`; `jobs`, `loaded`, `playing` a game server that loads by session, character name and
username and saves positions. `Crash` is an exception in the pool or a stop at any moment: what is not
committed is gone, and so is the store. A client shows the game server whatever session id, username and name
it likes (`HandleEnter`), whether or not the login server gave it one: `CG_ENTER` ties them to nothing but each
other and the rows (`Found`, `IsClaimed`). A `BEGIN IMMEDIATE` of one process keeps the other's writes out
until its `COMMIT`. A list's reply is left out: what a list changes is the sweep of expired characters
before it. `CG_ENTER`'s SELECTs are one read.

## 3. Runs

| Run | Instance | Shows |
| --- | --- | --- |
| `session` | 2 connections, 1 character, 2 places, 2 frames each (2.9 M states) | `RegistriesAgree`, `NobodyPlaysAfterDisconnect`, `SoldOnce`, `SaveIsLastDeparture` |
| `session_fair` | 2 connections, 2 characters, 1 frame each, a map that is not loaded, one failing job, fairness | `ImplementsPresence`, `DisconnectIsForgotten` |
| `items` | 2 connections, 2 characters of one account, 2 bag slots, a bank with one box, 3 requests, 2 enters, 1 failure, 5 of them in all (1.1 M states) | `TypeOK` (no balance below zero), `ItemsConserved`, `DropsAreInOnePlace` |
| `worldmap` | 3 players, 1 monster, 1 drop, 5 tiles in 3 zones, 4 requests (2.1 M states) | `IndexMatchesPlaces`, `SightIsMutual`, `ClientsDrawWhoIsNear`, `DropsInViewAreShown`, `CorpsesAreInert` |
| `progress` | 1 connection, 2 characters, 4 kinds of quest, 2 slots of which one has a row, 4 requests, 2 enters, 1 failure, 5 of them in all (0.2 M states) | `PaidExactlyOnce`, `StatPointsAddUp`, `DerivedStatsFollow`, `ItemsStay` |
| `login` | 2 clients, 2 usernames and passwords, 1 name, 1 session id to show, 5 requests or 4 and a crash (3.1 M states) | `EveryCharacterHasItsRows`, `NamesAreUnique`, `HandsOverItsOwn`, `PlaysWhatItNamed` |
| `server` | 1 connection, 2 sending threads, 2 frames of 3 to 5 units, 3 sends, fairness | `OneWriteOfTheFront`, `CallbacksFollowTheClient`, `WrittenInOrder`, `QueuesDrain`, `HangUpsAreNoticed` |
| `session_rejoin` | as `session` | **violated**: `RejoinsWhereItLeft` |
| `items_new_bag` | 1 connection, 2 characters, a bag slot without a row | **violated**: `NothingDuplicated` |
| `items_bank_open` | 1 character, one box that is emptied | **violated**: `RightPasswordOpens` |
| `map_monsters` | 2 players, 1 monster that wanders and scatters | **violated**: `MonstersInViewAreShown` |
| `progress_rewards` | as `progress`, only kills, levels and quests | **violated**: `RewardsCompose` |

Every passing run but `session_fair` also checks its module's `TypeOK`.

The bounds. `MaxEvents` of `Items`, `Progress` and `Login` bounds requests, enters and failures together, so that a
run has many requests or a failure next to fewer of them; the proofs cover any number of each.

* `session`: two connections for one character is the least that makes a duplicate login, a relogin and an
  exit race each other; two frames a connection are enough for enter followed by exit on both, next to
  the connect and disconnect that cost no frame.
* `items`: a stale-snapshot race needs two requests of one snapshot, so three leave one to use what the
  race produced, and a failure meets any two of two players or any three of one; two joins let both characters play at once, or one connection change character; two
  caches of one bank need two opens and a transfer. Every slot has been used before and there
  are no equipment slots (`UsedSlots`), so no write is `Unchecked` and the run checks conservation at its full
  strength; `items_new_bag` shows that it takes the first.
* `worldmap`: three zones are the least in which a player can see one end and not the other; three players
  let one leave and one arrive in the view of a third in the same tick; an attack may do any damage, so
  four requests hold two hits on one monster between two joins.
  Players join in the order of their ids, as each is given its own right before it joins. Here deadlock is checked: a map
  always ticks.
* `progress`: one slot has a row and one has none, so a write lands both ways; four requests hold a level-up between a quest and its callback, or two quests and two
  appraisals of one snapshot, and three go with a second enter or with a failure; the quests are one that repeats, one that needs the flag of another, one
  that stacks, one that warps. Two enters let a second load race the exit: the player
  then plays on with the level and stats of before (the cause of `session_rejoin`), and its saves, one of the
  level, one of the stats, can leave the stats of one career next to the level of the other.
  `StatPointsAddUp` is for every character but those, the `overtaken`.
* `login`: a second login, a creation by each client, or enter and relocation, next to the list that
  sweeps; one name makes every creation contend. The clock has two ticks and the grace period is two, so a
  deletion expires and a cancellation can come before. Clients show the game server session 1, before and after
  there is one and whoever's it is, with any username and name; a second id only adds logins before the enter
  (the run passes with two, in twice the time).
* `server`: connections share only the registry, and the proofs cover any number of them; a chunk of five
  units glues frames and cuts prefixes; a prefix of three units is impossible.

`CHECK_DEADLOCK FALSE` in all runs but those of `WorldMap`: frames, requests and joins are bounded, and a server
whose clients are silent has nothing to do.

Fairness. `Session!FairSpec`: the tick timer re-arms itself (`GameServer::ScheduleTick`), so draining and
handling a batch are weakly fair; the database thread runs while it has a job (weak); the world strand is
FIFO, a posted callback gets its turn although ticks keep taking the strand, so callbacks are strongly
fair. `Server!Fairness`: the io_context runs what is ready, and every outstanding read or write of a socket
completes, with data or with an error; a peer that keeps its connection open and never reads is outside.
Clients owe nothing in either.

## 4. What the violated runs say

Each has a cause. For all but `items_bank_open`, where one request is enough, section 5 proves that the cause is
the only one: under a named hypothesis that keeps it out the property is a theorem.

* `session_rejoin`: `Session.cpp:112` counts on a re-login's load being queued behind the exit's save. A load
  queued by a second connection before the exit reads the old position; by the time its callback runs
  the character is offline and joins with it. As long as no job fails, that is the only way: if clients enter
  with a character one at a time (`OneEnterAtATime`) it stands where it left (`RejoinsCorrect`).
* `items_new_bag`: item slots are written by compare-and-swap, except into a slot that never had a row. A
  callback that finds its player by connection can leave a stack in another character's cache, and a
  purchase onto that slot makes it real. With a row in every slot and no equipment (`UsedSlots`) nothing is
  duplicated (`NothingDuplicatedCorrect`).
* `items_bank_open`: `BankRepository::LoadAllItems` does not skip rows whose `item_id` is NULL, as the inventory
  and equipment loads do, and the bank of a player who emptied a box no longer opens.
* `map_monsters`: a monster's move is published by the simulation, after the tick's dispatch, and sent in the
  next one to viewers worked out from where the players are by then. A client can keep a ghost, or miss a
  monster that stands next to its player. Only the step of a living monster into another zone does it; without
  one (`StaysInZone`) kills, rebirths, joins and zone changes keep every screen right
  (`MonstersInViewAreShownCorrect`).
* `progress_rewards`: money and experience are relative updates so that queued writes compose
  (`CharacterRepository.h:59`), but a level-up saves experience as an absolute value of the cache.
  If every level-up starts from a cache that is up to date (`LevelsUpToDate`) nothing is lost
  (`RewardsComposeCorrect`).

## 5. Proofs

Each proof module extends the module it is about, for any value of its constants that satisfies the
module's named assumption (bounds are naturals, special values are none of the ordinary ones, the
starting rows are well-formed, and, in `Progress`, `None` is no player: `NoPlayerAssumption`). TLC evaluates those
assumptions in every run.

Five theorems have a hypothesis besides. Four are about a property that a violated run refutes without it:
`NothingDuplicatedCorrect` of the starting rows, `RejoinsCorrect`, `MonstersInViewAreShownCorrect` and
`RewardsComposeCorrect` of the steps. `GuardedRewardsCorrect`, of the starting rows, drops the exception of
`PaidExactlyOnce`. Behaviours that satisfy it still do what the property is about: stacks are
split, bought and dropped, characters leave and come back at once, monsters wander in their zones, die and are
reborn elsewhere, quests pay and levels rise.

`SessionProofs`

* `TypeCorrect`: `TypeOK` is inductive.
* `RegistriesCorrect`: `RegistriesAgree` with one strengthening, that every instance id in the pool is below
  `nextInst`; without it a join could hand out an id in use and the pool would no longer tell two players
  apart. One lemma for each of the three ways the registries change (join, leave, update in place).
* `SoldOnceCorrect`: `SoldOnce` is inductive on its own; only `RunSell` touches slot or money.
* `KnownCorrect`, `NobodyPlaysCorrect`: a connection is forgotten only if its disconnect is handled after its
  connect. `QueueInv` says so of the queue (ingress behind batch) by position: connect and disconnect each
  appear at most as the socket's state allows, in that order, and a known connection whose socket is closed
  has its disconnect still in the queue.
* `PresenceImplemented`: with these invariants every step of `Session` is a step of `Presence` or a stutter
  under the mapping `known <- connections`, `departed <- Departed`, `playing <-` the characters of `byConn`.
* `SaveIsLastDepartureCorrect`: `SavesInv` says, as long as no job has failed, where a character's position will
  be once its queued saves have run: the place of the last of them, or the row's when none is queued, is
  where it last left (`EndsAt`).
* `RejoinsCorrect`: an action property, under `OneEnterAtATime` (the tick handles a request to enter with a
  character only while it is offline and nobody awaits it) and `NoJobFails`. `AwaitInv` says that an awaited
  character is offline, so no departure comes between its load and the callback; that one load or one callback
  awaits it; that its queued saves are all in front of the load; and that what a callback carries is where the
  character last left. The last follows from `SavesInv` when the load runs: no save is left, so the row is it.

`ItemsProofs`

* `ItemsTypeCorrect`: `TypeInv` is the types with what each kind of job and callback carries; a wallet or a
  bank is only debited behind the guard that reads the row, so none goes below zero.
* `DropsAreInOnePlaceCorrect`: `Places` says that the ground, the claims of the queued jobs and the put-backs
  of the callbacks are pairwise apart and all numbered below `nextDrop`; without the last a new drop could
  have the number of one that comes back.
* `ItemsConservedCorrect`: an action property. `Total` is `Worth` as a sum of parts: balances, rows, the ground,
  the claims of the queued jobs and what the callbacks will put down (`WorthIsTotal`). `ConserveInv` adds to the
  types and `DropsInv` that the ground is finite and that every queued transaction is `Balanced`: by the slots
  its handler saw, what it writes, pays and spawns makes up for what it clears, debits and claims (`Made` is 0,
  or at most 0 for a deletion or a withdrawal). That is shown once for each handler, when it queues the job
  (`BaggingAsks`, `TradingAsks`, `BankingAsks`), and says nothing of the rows, which may be others by the time the
  job runs. There the guards come in: if each compared its slot, the rows were what the handler saw and the
  total changes by `Made` (`CommittedMakes`); if one fails, nothing changes. Claims and put-backs only move
  between the ground and the queues; `DropsInv` is what keeps a put-back from merging with a drop that is there
  already.
* `NothingDuplicatedCorrect`: under `UsedSlots` no slot loses its row, so no write is ever `Unchecked` and there is
  never more than at the start. It is the property that `items_new_bag` violates without that hypothesis.

`ServerProofs`

* `ServerTypeCorrect`, `OneWriteCorrect`: `ServerInv` is the types, `OneWriteOfTheFront` and that the buffer and the
  wire hold only units that were sent; the last is what makes a prefix that is looked up one of `Length`.
* `WrittenInOrderCorrect`: `OrderInv` numbers the messages of one sender to one client through all the places
  they pass (written, queue, strand, looked up but not posted): numbers increase along that order, and the
  message in the front of the queue while a write is outstanding is not yet written.
* `CallbacksFollowCorrect`: `CallbacksInv` joins, for a connection that is open and has not yet come to a prefix
  shorter than a header, what is buffered to what is on the wire (`Stream`): the whole is the frames from the
  next one on, cut anywhere (`StreamIsFramed`). A read moves the cut, a drained frame is the first of them, so
  `OnFrame` gets each once, whole and in order; `CallsMatchState` says which callbacks have been made in each
  state.

`WorldMapProofs`

* `WorldMapTypeCorrect`: types, with nobody off the grid.
* `IndexCorrect`: `IndexMatchesPlaces` is inductive with the types: a join, a leave and a change of zone each
  update exactly the zones around the player.
* `SightIsMutualCorrect`: `SightInv` is mutual sight plus: nobody sees itself or a player that was never on the
  map, and every queued leave is of a player that is gone. Without the last a leave dispatched late could
  take away the sight of somebody still there.
* `CorpsesAreInertCorrect`: an action property, from the types: action by action, what becomes of each monster
  and which events are appended to the bus. A corpse changes by its respawn only and nothing but the respawn
  is published about it; a kill is published once, by the step that takes the last hit point, and only such a
  step pays experience.

`ScreenProofs`

While events are queued a screen may be wrong in many ways. The invariants say that every mistake is still to
be put right: `Due(news, done, undo, cause)` is that something is done, or an event of `cause` is queued that
does it, and that behind every queued event of `undo` there is one of `cause` again. With nothing queued,
what is due is done. `DueMore`, `DueNext` and `DueNow` are the three ways it goes on: an event is published,
the first is dispatched, the thing is done at once.

* `DropsInViewAreShownCorrect`: `DropsDue`, each item in a player's view is due on its client's screen: undone
  by its removal or by a zone change that loses it, done by its appearance or by a zone change that shows it.
  An item put back after a refusal is one that appears behind its own removal. The index has to match the
  places for an appearance to reach all who should see it.
* `ClientsDrawWhoIsNearCorrect`: `ViewInv` is that a client draws whom its player sees (`DrawsWhomItSees`), that of
  two on the map sight is due to be what their zones say (`SightDue`: any zone change of either does that, as
  it is dispatched against where both are by then), that whoever is gone is due to be forgotten
  (`LeaveDue`), and that what is drawn of a character is due to be where it stands (`PlaceDue`: undone by a move
  to where it no longer is, done by its last move). It rests on `SightInv`, since a zone change tells both
  sides only of those of whom they agree.
* `MonstersInViewAreShownCorrect`, under `StaysInZone` (a monster alive before and after a step is in the same
  zone): `MobsInv`. A client's drawing of a monster is due to be right (`MobsDue`): what undoes it depends on
  whether the monster lives and is in view (`Spoils`), what does it is a zone change of the player, a kill or a
  rebirth (`Mends`). For that every kill that is queued is of a monster that lies there dead, no requested event
  is left by the time monsters act (`NewsOfMobs`), and a player who never joined draws nothing (`UnbornBlind`).
  A move across zones is the one message worked out from where the players will be later, and nothing behind
  it puts the screen right.

`ProgressProofs`

* `ProgressTypeCorrect`: `ProgressInv` is the types with levels up to `MaxLevel`, every queued save with a
  statement left, every queued appraisal of items that were never appraised, and stacked rewards without
  option bits. The loop of a level-up needs that it ends (`LevelsPaidType`, a least number).
* `DerivedStatsFollowCorrect`: each player is flagged or has the stats of its row (`Current`), for a class with
  constants; `HandleEffect` and `CallbackEffect` sum up what a request and a callback can do to the players.
* `ItemsStayCorrect`: an action property, from `ProgressInv`; a reward or an appraisal whose guard holds starts
  from what the row has.
* `PaidExactlyOnceCorrect`: `Paid` is an equation for each row and a condition on its bag. The equation: money
  and the fees of the appraisals that landed are the money and fees it started with, the sum of the rewards whose
  flags it has, and the wages. A reward's transaction sets its flag only if it was not set, so each adds one term
  to a sum (`SumTheorems`), or to the wages if it repeats. The condition, for a character that is not
  `unguarded`: a one-time quest left one item at most, and none without its flag (`RewardsInBag`). A write that was
  compared changes the slot its handler saw, and one that was not, into a slot that had been seen free, finds
  it free, because whatever is in the bag is in a slot with a row (`SlateInv`). The exception is real: a callback
  can leave a reward in the cache of another character, and that character's appraisal of it is inserted into its
  slot without a row. Only the database thread touches rows, so all this holds whatever is queued, cached, failing
  or stopped half-way.
* `GuardedRewardsCorrect`: under `FullSlate` (`StartStored = Slot`) no write is unguarded, so no bag holds a one-time
  reward twice or without its flag.
* `StatPointsAddUpCorrect`: a level and its stats are saved by separate statements, so a row in the middle does
  not add up. `StatsInv` follows the queue instead. Of a character's queued saves (`Chain`) each is of a row
  that adds up, one that writes no level has the level it will find, and whatever writes a level writes the
  stats next, so a row adds up as soon as no queued save is left to write stats. The cache (`Cached`) adds up
  and has the level that the last save leaves, unless the character is `overtaken`.
* `RewardsComposeCorrect`, under `LevelsUpToDate` (a player's level changes only while its cache is worth what the
  row is and nothing that pays it is queued): `RewardsInv`, as long as no job has failed. What a row is worth,
  with one for each queued credit of its character, is what the character was awarded (`Owed`, a sum along the
  queue); a queued save of a level, being absolute, is of a row worth what it will find, and no credit is queued
  in front of it (`LevelSaves`).

`SumTheorems`

* `SumOver` is a fold of the community modules, whose recursive function is a `CHOOSE`. That such a function
  exists and that two of them agree is induction on the size of a finite set, in its first-order form: the
  set of the sizes for which it holds has 0 and every successor, so it is all of `Nat` (`SetInduction`, from
  the least element of its complement). The lemmas give the sum of no element, of one element more and of
  one element less, and from those what the accounts of `Items` and `Progress` need: one value changed, and a
  queue (`Along`) with one more at its end or one less at its front.

`LoginProofs`

* `LoginInv` has six parts: types; `PoolInv`, only the first job of the queue has begun, and what each job has
  left to do is a suffix of what its handler posted; `RowsInv`, the committed tables are sound, and the open
  transaction is the committed rows with the statements the first job has run applied to them, the name it
  creates still free; `OwnedInv`, every session handed, stored or on its way to be stored is of an account whose
  password the client gave; `SessionsInv`, no session without some client that did; `PlayersInv`, what was loaded
  and who plays `Fits`: the session is of the player's account, the account has the username that was named, and
  the character's id is used up and, if there still is such a row, the account's.
* `LoginTypeCorrect`, `RowsCorrect` (`EveryCharacterHasItsRows`), `NamesAreUniqueCorrect`: `RowsInv` is what makes a
  crash harmless: at every statement the committed rows are those of before the job. A name stays unique
  because nothing but the pool inserts characters, and the pool has one thread.
* `HandsOverItsOwnCorrect`: from `OwnedInv`; `lastRow` is the session just inserted when the store is told, because
  nothing of the pool's connection comes in between.
* `PlaysWhatItNamedCorrect`: whatever a client names, `Found` returns what `Fits`, since ids are unique; and no step
  undoes it, since sessions and accounts stay and characters keep their account or get a new id (`Kept`), also
  while the one that plays is swept. It does not say that a client plays only accounts it logged in to: the code
  has no such check, and the model no such restriction.

Model-checked only: liveness (`DisconnectIsForgotten`, `QueuesDrain`, `HangUpsAreNoticed`), which is out of the
prover's reach. The invariants and action properties of all passing runs are theorems.

## 6. Not modelled

* Migrations: they run once, before anything else; a script and its record are two steps, and a stop
  between them runs the script again, which the scripts do not all allow. One sequential loop.
* Wire formats and ciphers, parsers and tables, stat bonuses of items and sets: data without control.
* The SQLite wrapper, modelled by what its statements do; packet capture, scripts and emotions, which
  change no state.
* Within modelled parts: the change of a bank's password (`HandleStorePwModify`), NPCs, hit points of players,
  the replies to clients outside `WorldMap`, several `server_id`s, the atlas's other maps and shutdown.

What would come next: `Migration`, and the change of a bank's password.
