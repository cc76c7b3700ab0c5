------------------------------ MODULE Progress ------------------------------
(***************************************************************************)
(* What a character earns and spends: experience, levels, stat and skill   *)
(* points, quests and appraisals.                                          *)
(*                                                                         *)
(* Three ways to change a character live side by side. Kills, level-ups,   *)
(* stats and skills change the cache first and queue a save, of absolute   *)
(* values (a level-up, stats, skills) or of a difference (a kill). Quests  *)
(* and appraisals change the rows first, from a snapshot of the cache, and *)
(* the cache in their callback. A save of several statements is not a      *)
(* transaction: it can stop after any of them.                             *)
(*                                                                         *)
(* Every kill is worth one experience, every level costs Need, gives one   *)
(* stat point and one skill point. There is one stat and one skill.        *)
(***************************************************************************)
EXTENDS Integers, Sequences, FiniteSetsExt, Functions, Sums

CONSTANTS
  Conn, Char,
  Quest,       \* quest action ids
  QuestOf,     \* what each asks for and gives
  Slot,        \* bag slots, in the order FindFreeBagSlot looks at them
  Place,
  Need,        \* LevelRecord::exp
  MaxLevel,    \* the first level without a LevelRecord
  MaxSkill,    \* max_skill_level
  SkillCost,   \* skill_points of all the levels of a skill up to each
  Fee,         \* sell_price of an appraisable item
  JobId,       \* job_id of the characters
  BaseClass,   \* the class of each tiered job
  ClassStats,  \* max_hp of each class: tenths per stat point, and without any
  StartRow,
  StartStored, \* the slots with a row in inventory_slot, one that is empty by now included
  Given,       \* where an item a character starts with comes from
  None,
  Sent,        \* the requests clients send
  MaxRequests, MaxEnters,
  MaxFailures, \* jobs that throw and process stops
  MaxEvents    \* requests, enters and failures together

\* An item of the bag: where it came from, how many, and its option bits. A
\* reward that stacks has none to roll.
Item == [from : Quest \cup {Given}, count : Nat, option : {"never", "rolled", "none"}]

Row == [level : Nat, exp : Nat, stat : Nat, points : Nat, sp : Nat, skill : Nat,
        money : Nat, flags : SUBSET Quest, bag : [Slot -> Item \cup {None}], pos : Place]

ASSUME ProgressAssumption ==
  /\ QuestOf \in [Quest -> [once : BOOLEAN, needs : SUBSET Quest, minLevel : Nat, exp : Nat,
                            money : Nat, item : {"nothing", "gear", "stack"}, warp : Place \cup {None}]]
  /\ Slot \subseteq Nat /\ IsFiniteSet(Slot)
  /\ StartRow \in Row /\ StartRow.level <= MaxLevel
  /\ \A s \in Slot : StartRow.bag[s] # None => StartRow.bag[s].from \notin Quest
  /\ {s \in Slot : StartRow.bag[s] # None} \subseteq StartStored /\ StartStored \subseteq Slot
  /\ None \notin Place /\ None \notin Item
  /\ SkillCost \in [0..MaxSkill -> Nat]
  /\ ClassStats \in [DOMAIN ClassStats -> [hpRate : Nat, hpBase : Nat]]
  /\ {Need, MaxLevel, MaxSkill, Fee, MaxRequests, MaxEnters, MaxFailures, MaxEvents} \subseteq Nat
  /\ Need > 0 /\ Fee > 0
  /\ Sent \subseteq {"kill", "level", "stat", "skill", "quest", "appraise", "exit"}

VARIABLES
  db,        \* the rows of each character
  stored,    \* the bag slots of each character that have a row
  player,    \* the player of each connection, or None
  jobs,      \* Persistence's queue
  callbacks, \* finished jobs, on their way to the world strand
  earned,    \* history: the experience each character was awarded
  overtaken, \* history: who joined on a row its own saves had left behind
  wages,     \* history: the money each character was paid by repeatable quests
  unguarded, \* history: in whose bag a write landed that its guard did not compare
  requests, enters, failures

bounds == <<requests, enters, failures>>
slate == <<stored, wages, unguarded>>
history == <<earned, overtaken>>
vars == <<db, slate, player, jobs, callbacks, history, bounds>>

\* A cached character: the rows it was loaded from, the stats derived from them
\* at the last tick, and whether they changed since.
Player == [char : Char, row : Row, derived : Nat, dirty : BOOLEAN]

ASSUME NoPlayerAssumption == None \notin Player

\* The single statements a save is made of.
Statement == {"level", "stats", "skillPoints", "skills", "credit", "position"}

Job ==
       [kind : {"load"}, conn : Conn, char : Char]
  \cup [kind : {"save"}, char : Char, row : Row, todo : Seq(Statement)]
  \cup [kind : {"quest"}, conn : Conn, char : Char, row : Row, quest : Quest]
  \cup [kind : {"appraise"}, conn : Conn, char : Char, row : Row, slots : SUBSET Slot]

Callback ==
       [kind : {"loaded"}, conn : Conn, char : Char, row : Row]
  \cup [kind : {"turnedIn", "appraised"}, conn : Conn, outcome : Row, quest : Quest \cup {None},
        slots : SUBSET Slot]

-----------------------------------------------------------------------------
(* Enter and leave, as in Session                                          *)

Online(ch) == \E c \in Conn : player[c] # None /\ player[c].char = ch

EventsLeft == requests + enters + failures < MaxEvents

Run(job) == jobs' = Append(jobs, job)

HandleEnter(c, ch) ==
  /\ enters < MaxEnters /\ EventsLeft
  /\ enters' = enters + 1
  /\ Run([kind |-> "load", conn |-> c, char |-> ch])
  /\ UNCHANGED <<db, slate, player, callbacks, history, requests, failures>>

\* A request of a connection that plays.
Request(c, kind) ==
  /\ kind \in Sent
  /\ requests < MaxRequests /\ EventsLeft
  /\ requests' = requests + 1
  /\ player[c] # None
  /\ UNCHANGED <<db, slate, callbacks, overtaken, enters, failures>>

\* Change the cached character and save some of its fields.
CacheAndSave(c, changed, statements) ==
  /\ player' = [player EXCEPT ![c] = changed]
  /\ Run([kind |-> "save", char |-> changed.char, row |-> changed.row, todo |-> statements])

\* Mutant: the derived stats are not flagged.
LeaveClean(cached) == cached

MarkDirty(cached) == [cached EXCEPT !.dirty = TRUE]

HandleCgExit(c) ==
  /\ Request(c, "exit")
  /\ player' = [player EXCEPT ![c] = None]
  /\ Run([kind |-> "save", char |-> player[c].char, row |-> player[c].row,
          todo |-> <<"position">>])
  /\ UNCHANGED earned

-----------------------------------------------------------------------------
(* The cache first                                                         *)

\* A kill credits the cache at once and the row by a relative save.
HandleAttackToCreature(c) ==
  /\ Request(c, "kill")
  /\ CacheAndSave(c, [player[c] EXCEPT !.row.exp = @ + 1], <<"credit">>)
  /\ earned' = [earned EXCEPT ![player[c].char] = @ + 1]

\* How many levels the experience pays for: each needs more than Need.
LevelsPaid(row) ==
  CHOOSE n \in 0..MaxLevel :
    /\ row.level + n <= MaxLevel
    /\ n > 0 => row.exp - (n - 1) * Need > Need
    /\ row.level + n = MaxLevel \/ row.exp - n * Need <= Need

LevelUp(row, n) ==
  [row EXCEPT !.level = @ + n, !.exp = @ - n * Need, !.points = @ + n, !.sp = @ + n]

\* Three statements, each its own commit.
HandleLevelUpCheck(c) ==
  /\ Request(c, "level")
  /\ LET row == player[c].row IN
       IF LevelsPaid(row) = 0
         THEN UNCHANGED <<player, jobs>>
         ELSE CacheAndSave(c, MarkDirty([player[c] EXCEPT !.row = LevelUp(row, LevelsPaid(row))]),
                           <<"level", "stats", "skillPoints">>)
  /\ UNCHANGED earned

\* Mutant: a stat can be raised without points.
AnyAmount(row, n) == n > 0

\* Mutant: the points are not taken.
FreeStat(row, n) == [row EXCEPT !.stat = @ + n]

Allocatable(row, n) == n > 0 /\ n <= row.points

\* Character::RaiseStat.
RaiseStat(row, n) == [row EXCEPT !.stat = @ + n, !.points = @ - n]

HandleCharStatusUp(c, n) ==
  /\ Request(c, "stat")
  /\ LET row == player[c].row IN
       IF Allocatable(row, n)
         THEN CacheAndSave(c, MarkDirty([player[c] EXCEPT !.row = RaiseStat(row, n)]), <<"stats">>)
         ELSE UNCHANGED <<player, jobs>>
  /\ UNCHANGED earned

\* The cost of one entry, from the level the skill has before the request.
EntryCost(row, n) == SkillCost[row.skill + n] - SkillCost[row.skill]

EntryFits(row, n) == n > 0 /\ row.skill + n <= MaxSkill

\* ValidateSkillUpRequest looks at every entry on its own, all of them before
\* the first is applied. A request has one entry, or a second one of more levels
\* of the same skill.
EntriesFit(row, n, more) == EntryFits(row, n) /\ (more # 0 => EntryFits(row, more))

TotalCost(row, n, more) == EntryCost(row, n) + EntryCost(row, more)

SkillUpAllowed(row, n, more) == EntriesFit(row, n, more) /\ TotalCost(row, n, more) <= row.sp

SkillUp(row, n, more) ==
  [row EXCEPT !.skill = @ + n + more, !.sp = @ - TotalCost(row, n, more)]

HandleCharSkillUpEx(c, n, more) ==
  /\ Request(c, "skill")
  /\ LET row == player[c].row IN
       IF SkillUpAllowed(row, n, more)
         THEN CacheAndSave(c, [player[c] EXCEPT !.row = SkillUp(row, n, more)],
                           <<"skillPoints", "skills">>)
         ELSE UNCHANGED <<player, jobs>>
  /\ UNCHANGED earned

-----------------------------------------------------------------------------
(* The rows first                                                          *)

ConditionsMet(q, row) ==
  QuestOf[q].needs \subseteq row.flags /\ QuestOf[q].minLevel <= row.level

HandleQuestResult(c, q) ==
  /\ Request(c, "quest")
  /\ IF ConditionsMet(q, player[c].row)
       THEN Run([kind |-> "quest", conn |-> c, char |-> player[c].char,
                 row |-> player[c].row, quest |-> q])
       ELSE UNCHANGED jobs
  /\ UNCHANGED <<player, earned>>

NeverAppraised(row, s) == row.bag[s] # None /\ row.bag[s].option = "never"

\* The slots of the request that hold something to appraise.
HandleItemConfirmNpcRequest(c, slots) ==
  /\ Request(c, "appraise")
  /\ Run([kind |-> "appraise", conn |-> c, char |-> player[c].char, row |-> player[c].row,
          slots |-> {s \in slots : NeverAppraised(player[c].row, s)}])
  /\ UNCHANGED <<player, earned>>

-----------------------------------------------------------------------------
(* The DB thread                                                           *)

Post(callback) == callbacks' = Append(callbacks, callback)

Running(kind) ==
  /\ jobs # <<>>
  /\ Head(jobs).kind = kind
  /\ UNCHANGED <<player, overtaken, requests, enters>>

\* CharacterRepository::Load selects every column but unallocated_sp.
LoadCharacter(ch) == [db[ch] EXCEPT !.sp = 0]

RunLoad ==
  /\ Running("load")
  /\ jobs' = Tail(jobs)
  /\ Post([kind |-> "loaded", conn |-> Head(jobs).conn, char |-> Head(jobs).char,
           row |-> LoadCharacter(Head(jobs).char)])
  /\ UNCHANGED <<db, slate, earned, failures>>

\* SaveLevel, SaveRawStats, SaveSkillPoints, SaveSkillLevels, AddExp, SavePosition.
Saved(row, saved, statement) ==
  CASE statement = "level" -> [row EXCEPT !.level = saved.level, !.exp = saved.exp]
    [] statement = "stats" -> [row EXCEPT !.stat = saved.stat, !.points = saved.points]
    [] statement = "skillPoints" -> [row EXCEPT !.sp = saved.sp]
    [] statement = "skills" -> [row EXCEPT !.skill = saved.skill]
    [] statement = "credit" -> [row EXCEPT !.exp = @ + 1]
    [] statement = "position" -> [row EXCEPT !.pos = saved.pos]

RunStatement ==
  /\ Running("save")
  /\ LET job == Head(jobs) IN
       /\ db' = [db EXCEPT ![job.char] = Saved(@, job.row, Head(job.todo))]
       /\ jobs' = IF Len(job.todo) = 1 THEN Tail(jobs)
                  ELSE [jobs EXCEPT ![1].todo = Tail(@)]
  /\ UNCHANGED <<slate, callbacks, earned, failures>>

\* Mutant: SetFlag instead of TryClaimFlag.
SetFlag(row, q) == TRUE

TryClaimFlag(row, q) == QuestOf[q].once => q \notin row.flags

\* Mutant: a slot is written whatever it holds by now.
SlotIgnored(job, s) == TRUE

\* The guard of ItemRepository's saves: the row holds what the snapshot held. A
\* slot without a row takes the INSERT branch, which compares nothing.
SlotMatches(job, s) ==
  s \in stored[job.char] => db[job.char].bag[s] = job.row.bag[s]

\* The slots that land have a row from then on.
StoreSlots(job, landed) ==
  /\ stored' = [stored EXCEPT ![job.char] = @ \cup landed]
  /\ unguarded' =
       IF \E s \in landed : s \notin stored[job.char] /\ job.row.bag[s] # None
         THEN unguarded \cup {job.char} ELSE unguarded

\* The first free slot of the snapshot, or none.
FindFreeBagSlot(row) ==
  LET free == {s \in Slot : row.bag[s] = None} IN {s \in free : \A t \in free : s <= t}

\* The slot a reward goes to: its own stack, or else a free slot.
RewardSlot(job) ==
  LET stack == {s \in Slot : /\ QuestOf[job.quest].item = "stack"
                             /\ job.row.bag[s] # None
                             /\ job.row.bag[s].from = job.quest} IN
    IF stack # {} THEN stack ELSE FindFreeBagSlot(job.row)

\* GrantRewardItem: the slot that lands; one that changed meanwhile is skipped.
Granted(job) ==
  IF QuestOf[job.quest].item = "nothing" THEN {}
  ELSE {s \in RewardSlot(job) : SlotMatches(job, s)}

\* What the slot holds then, counted from the snapshot.
Reward(job, s) ==
  [from |-> job.quest,
   count |-> 1 + IF job.row.bag[s] = None THEN 0 ELSE job.row.bag[s].count,
   option |-> IF QuestOf[job.quest].item = "gear" THEN "never" ELSE "none"]

\* ApplyConsequences, all in one transaction.
Rewarded(row, job) ==
  LET q == QuestOf[job.quest] IN
    [row EXCEPT
       !.flags = IF q.once THEN @ \cup {job.quest} ELSE @,
       !.bag = [s \in Slot |-> IF s \in Granted(job) THEN Reward(job, s) ELSE @[s]],
       !.money = @ + q.money,
       !.exp = @ + q.exp,
       !.pos = IF q.warp = None THEN @ ELSE q.warp]

\* What a quest without a flag pays, every time.
Wage(q) == IF QuestOf[q].once THEN 0 ELSE QuestOf[q].money

RunQuest ==
  /\ Running("quest")
  /\ jobs' = Tail(jobs)
  /\ LET job == Head(jobs) IN
       IF TryClaimFlag(db[job.char], job.quest)
         THEN /\ db' = [db EXCEPT ![job.char] = Rewarded(@, job)]
              /\ Post([kind |-> "turnedIn", conn |-> job.conn, quest |-> job.quest,
                       outcome |-> Rewarded(db[job.char], job), slots |-> Granted(job)])
              /\ StoreSlots(job, Granted(job))
              /\ earned' = [earned EXCEPT ![job.char] = @ + QuestOf[job.quest].exp]
              /\ wages' = [wages EXCEPT ![job.char] = @ + Wage(job.quest)]
         ELSE UNCHANGED <<db, slate, callbacks, earned>>
  /\ UNCHANGED failures

\* Some gates of the item are rolled; whatever they come to, it is appraised.
RollOptionBits(item) == [item EXCEPT !.option = "rolled"]

\* Which slots land: in the request's order, as many as the cached money pays for.
Appraisals(job) ==
  LET there == {s \in job.slots : SlotMatches(job, s)} IN
    {landed \in SUBSET there :
       \/ Cardinality(landed) = job.row.money \div Fee
       \/ landed = there /\ Cardinality(there) * Fee <= job.row.money}

Appraised(row, job, landed) ==
  [row EXCEPT
     !.bag = [s \in Slot |->
       IF s \in landed THEN RollOptionBits(job.row.bag[s]) ELSE @[s]],
     !.money = @ - Cardinality(landed) * Fee]

\* One debit for what landed; without the money the transaction is rolled back.
RunAppraise ==
  /\ Running("appraise")
  /\ jobs' = Tail(jobs)
  /\ LET job == Head(jobs) IN
       \E landed \in Appraisals(job) :
         IF landed # {} /\ Cardinality(landed) * Fee <= db[job.char].money
           THEN /\ db' = [db EXCEPT ![job.char] = Appraised(@, job, landed)]
                /\ StoreSlots(job, landed)
                /\ Post([kind |-> "appraised", conn |-> job.conn, quest |-> None,
                         outcome |-> Appraised(db[job.char], job, landed), slots |-> landed])
           ELSE UNCHANGED <<db, stored, unguarded, callbacks>>
  /\ UNCHANGED <<wages, earned, failures>>

\* Persistence::Attempt: the rest of the job is dropped; a transaction leaves
\* nothing, a save leaves the statements that ran.
JobThrows ==
  /\ failures < MaxFailures /\ EventsLeft
  /\ failures' = failures + 1
  /\ \E kind \in {"load", "save", "quest", "appraise"} : Running(kind)
  /\ jobs' = Tail(jobs)
  /\ UNCHANGED <<db, slate, callbacks, earned>>

\* The process stops, another starts on the same rows.
Crash ==
  /\ failures < MaxFailures /\ EventsLeft
  /\ failures' = failures + 1
  /\ player' = [c \in Conn |-> None]
  /\ jobs' = <<>> /\ callbacks' = <<>>
  /\ UNCHANGED <<db, slate, history, requests, enters>>

-----------------------------------------------------------------------------
(* Callbacks                                                               *)

Calling(kind) ==
  /\ callbacks # <<>>
  /\ Head(callbacks).kind = kind
  /\ callbacks' = Tail(callbacks)
  /\ UNCHANGED <<db, slate, jobs, earned, bounds>>

\* A save of the character waits to be written, or is half written.
SaveQueued(ch) == \E i \in DOMAIN jobs : jobs[i].kind = "save" /\ jobs[i].char = ch

\* A join only asks whether the character is online by now.
OnLoaded ==
  /\ Calling("loaded")
  /\ LET done == Head(callbacks) IN
       IF Online(done.char) \/ player[done.conn] # None
         THEN UNCHANGED <<player, overtaken>>
         ELSE /\ player' = [player EXCEPT ![done.conn] =
                    [char |-> done.char, row |-> done.row, derived |-> 0, dirty |-> TRUE]]
              /\ overtaken' = IF SaveQueued(done.char) \/ done.row # LoadCharacter(done.char)
                                THEN overtaken \cup {done.char} ELSE overtaken

\* What the cached row takes over from the outcome: the slots that landed, and
\* the fields the quest pays in.
TurnedIn(row, done) ==
  LET q == QuestOf[done.quest] IN
    [row EXCEPT
       !.flags = IF q.once THEN @ \cup {done.quest} ELSE @,
       !.bag = [s \in Slot |-> IF s \in done.slots THEN done.outcome.bag[s] ELSE @[s]],
       !.money = IF q.money # 0 THEN done.outcome.money ELSE @,
       !.exp = IF q.exp # 0 THEN done.outcome.exp ELSE @]

\* A warp ends the connection's play without a save, its destination is in the
\* row; any other quest is copied into whichever character the connection plays.
OnTurnedIn ==
  /\ Calling("turnedIn")
  /\ LET done == Head(callbacks) IN
       player' =
         IF player[done.conn] = None THEN player
         ELSE IF QuestOf[done.quest].warp # None THEN [player EXCEPT ![done.conn] = None]
         ELSE [player EXCEPT ![done.conn].row = TurnedIn(@, done)]
  /\ UNCHANGED overtaken

\* The slots that were appraised, and the money.
Confirmed(row, done) ==
  [row EXCEPT
     !.bag = [s \in Slot |-> IF s \in done.slots THEN done.outcome.bag[s] ELSE @[s]],
     !.money = done.outcome.money]

OnAppraised ==
  /\ Calling("appraised")
  /\ LET done == Head(callbacks) IN
       player' = IF player[done.conn] = None THEN player
                 ELSE [player EXCEPT ![done.conn].row = Confirmed(@, done)]
  /\ UNCHANGED overtaken

-----------------------------------------------------------------------------
(* The tick                                                                *)

\* The class a job's formulas are found under.
StatusClass(job) == IF job \in DOMAIN BaseClass THEN BaseClass[job] ELSE job

ClassConstants(job) == ClassStats[StatusClass(job)]

\* RawStatCalculator, for one of the stats.
DerivedStats(row) ==
  LET constants == ClassConstants(JobId) IN
    (row.stat * constants.hpRate) \div 10 + 20 * row.level + constants.hpBase

\* Without constants for the class, the stats stay as they are.
RecalculateDerivedStats(cached) ==
  [cached EXCEPT !.derived = IF StatusClass(JobId) \in DOMAIN ClassStats
                               THEN DerivedStats(cached.row) ELSE @]

\* Every dirty player, after the batch of requests and before events are
\* dispatched.
TickCharacter ==
  /\ \E c \in Conn : player[c] # None /\ player[c].dirty
  /\ player' = [c \in Conn |->
       IF player[c] # None /\ player[c].dirty
         THEN [RecalculateDerivedStats(player[c]) EXCEPT !.dirty = FALSE]
         ELSE player[c]]
  /\ UNCHANGED <<db, slate, jobs, callbacks, history, bounds>>

-----------------------------------------------------------------------------
Init ==
  /\ db = [ch \in Char |-> StartRow]
  /\ stored = [ch \in Char |-> StartStored]
  /\ player = [c \in Conn |-> None]
  /\ jobs = <<>> /\ callbacks = <<>>
  /\ earned = [ch \in Char |-> StartRow.exp + (StartRow.level - 1) * Need]
  /\ overtaken = {}
  /\ wages = [ch \in Char |-> 0] /\ unguarded = {}
  /\ requests = 0 /\ enters = 0 /\ failures = 0

Handle(c) ==
  \/ \E ch \in Char : HandleEnter(c, ch)
  \/ HandleCgExit(c)
  \/ HandleAttackToCreature(c)
  \/ HandleLevelUpCheck(c)
  \/ \E n \in 1..2 : HandleCharStatusUp(c, n)
  \/ \E n \in 1..MaxSkill, more \in 0..MaxSkill : HandleCharSkillUpEx(c, n, more)
  \/ \E q \in Quest : HandleQuestResult(c, q)
  \/ \E slots \in SUBSET Slot \ {{}} : HandleItemConfirmNpcRequest(c, slots)

RunJob == RunLoad \/ RunStatement \/ RunQuest \/ RunAppraise \/ JobThrows

RunCallback == OnLoaded \/ OnTurnedIn \/ OnAppraised

Next ==
  \/ \E c \in Conn : Handle(c)
  \/ RunJob
  \/ Crash
  \/ RunCallback
  \/ TickCharacter

Spec == Init /\ [][Next]_vars
-----------------------------------------------------------------------------
(* Properties                                                              *)

TypeOK ==
  /\ db \in [Char -> Row] /\ stored \in [Char -> SUBSET Slot]
  /\ player \in [Conn -> Player \cup {None}]
  /\ jobs \in Seq(Job) /\ callbacks \in Seq(Callback)
  /\ earned \in [Char -> Int] /\ overtaken \subseteq Char
  /\ wages \in [Char -> Nat] /\ unguarded \subseteq Char
  /\ requests \in 0..MaxRequests /\ enters \in 0..MaxEnters /\ failures \in 0..MaxFailures

Rolled(row) == {s \in Slot : row.bag[s] # None /\ row.bag[s].option = "rolled"}

\* The bag has no item that a one-time quest gave twice, or did not give.
RewardsInBag(row) ==
  \A q \in {p \in Quest : QuestOf[p].once} :
    LET from == {s \in Slot : row.bag[s] # None /\ row.bag[s].from = q} IN
      /\ Cardinality(from) <= 1
      /\ from # {} => q \in row.flags

\* Whatever quests and appraisals are queued at once, from however stale a cache
\* and for whichever character, and wherever the process stops: a one-time quest
\* has paid exactly when its flag is set and left one item at most, a repeatable
\* one has paid each time, an appraisal has cost its fee exactly when the item's
\* options were rolled, and nothing else touched the wallet (Quest.cpp:288,
\* ItemConfirmNpc.cpp:243). The items are out of this promise for a character in
\* whose bag a write landed that nothing compared: an appraisal of what only the
\* cache held, in a slot without a row (ItemRepository.cpp:49).
PaidExactlyOnce ==
  \A ch \in Char :
    /\ db[ch].money + Cardinality(Rolled(db[ch])) * Fee
         = StartRow.money + Cardinality(Rolled(StartRow)) * Fee + wages[ch]
           + SumOver([q \in Quest |-> QuestOf[q].money], db[ch].flags \ StartRow.flags)
    /\ ch \notin unguarded => RewardsInBag(db[ch])

\* Two rewards granted from one snapshot, or a reward and an appraisal, never
\* replace one another, although each was worked out from the cache
\* (Quest.cpp:196): an item stays where it is, its stack does not shrink and its
\* options are not rolled back.
ItemsStay ==
  [][\A ch \in Char, s \in Slot :
       LET item == db[ch].bag[s]  after == db'[ch].bag[s] IN
         item # None =>
           /\ after # None
           /\ after.from = item.from /\ after.count >= item.count
           /\ item.option = "rolled" => after.option = "rolled"]_vars

Unearned(row) == row.stat + row.points - row.level

\* A level's stat points exist once, spent or unspent. Level and stats are
\* absolute values, saved one statement at a time: still, as long as every save
\* runs, a row with nothing left to save and a cache have just the points their
\* level gave. Only a character that once joined on a row its own saves had left
\* behind (two loads that raced an exit) is out of this promise: it writes the
\* stats of one career next to the level of the other.
StatPointsAddUp ==
  failures = 0 =>
    /\ \A ch \in Char \ overtaken :
         ~SaveQueued(ch) => Unearned(db[ch]) = Unearned(StartRow)
    /\ \A c \in Conn :
         player[c] # None /\ player[c].char \notin overtaken =>
           Unearned(player[c].row) = Unearned(StartRow)

\* Stats derived in a tick stay those of the character until something flags
\* them: no level, stat, quest or appraisal, whichever character's, leaves a
\* player that later ticks skip with old ones (Character.h:58, Map.cpp:230).
DerivedStatsFollow ==
  \A c \in Conn :
    player[c] # None /\ ~player[c].dirty => player[c].derived = DerivedStats(player[c].row)

\* "Money/fame/exp are relative ... so two queued writes for the same character
\* compose correctly instead of one silently clobbering the other"
\* (CharacterRepository.h:59): when nothing is left to write, the row's level and
\* experience are worth what the character was awarded.
RewardsCompose ==
  jobs = <<>> /\ failures = 0 =>
    \A ch \in Char : db[ch].exp + (db[ch].level - 1) * Need = earned[ch]
=============================================================================
