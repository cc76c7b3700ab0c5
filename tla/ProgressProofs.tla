---------------------------- MODULE ProgressProofs -----------------------------
(***************************************************************************)
(* Proofs about Progress, for any characters, quests and slots, any costs  *)
(* and levels, and any number of requests and failures.                    *)
(***************************************************************************)
EXTENDS Progress, SumTheorems, SequenceTheorems, TLAPS

\* An item a quest stacks has no option bits: it is not appraised.
SoundItem ==
  {item \in Item : item.from \in Quest /\ QuestOf[item.from].item = "stack" => item.option = "none"}

SoundRow ==
  [level : 0..MaxLevel, exp : Nat, stat : Nat, points : Nat, sp : Nat, skill : Nat, money : Nat,
   flags : SUBSET Quest, bag : [Slot -> SoundItem \cup {None}], pos : Place]

SoundPlayer == [char : Char, row : SoundRow, derived : Nat, dirty : BOOLEAN]

LoadJob == [kind : {"load"}, conn : Conn, char : Char]
SaveJob ==
  {job \in [kind : {"save"}, char : Char, row : SoundRow, todo : Seq(Statement)] : job.todo # <<>>}
QuestJob == [kind : {"quest"}, conn : Conn, char : Char, row : SoundRow, quest : Quest]
AppraiseJob ==
  {job \in [kind : {"appraise"}, conn : Conn, char : Char, row : SoundRow, slots : SUBSET Slot] :
     \A s \in job.slots : NeverAppraised(job.row, s)}

SoundJob == LoadJob \cup SaveJob \cup QuestJob \cup AppraiseJob

LoadedCallback == [kind : {"loaded"}, conn : Conn, char : Char, row : SoundRow]
QuestCallback ==
  [kind : {"turnedIn"}, conn : Conn, outcome : SoundRow, quest : Quest, slots : SUBSET Slot]
AppraisedCallback ==
  [kind : {"appraised"}, conn : Conn, outcome : SoundRow, quest : {None}, slots : SUBSET Slot]

SoundCallback == LoadedCallback \cup QuestCallback \cup AppraisedCallback

\* TypeOK, with every row's level below the table's end, every queued save with a
\* statement left, and every queued appraisal of items that never had one.
ProgressInv ==
  /\ db \in [Char -> SoundRow]
  /\ player \in [Conn -> SoundPlayer \cup {None}]
  /\ jobs \in Seq(SoundJob) /\ callbacks \in Seq(SoundCallback)
  /\ earned \in [Char -> Int] /\ overtaken \subseteq Char
  /\ requests \in 0..MaxRequests /\ enters \in 0..MaxEnters /\ failures \in 0..MaxFailures

-----------------------------------------------------------------------------
(* Arithmetic                                                              *)

(* Products, quotients and the numbers among the constants.                *)
LEMMA NatProduct ==
  ASSUME NEW m \in Nat, NEW n \in Nat
  PROVE  m * n \in Nat /\ m \div 10 \in Nat /\ 20 * m \in Nat
OBVIOUS

(* The numbers among the constants.                                        *)
LEMMA ConstantNats ==
  /\ Need \in Nat /\ Need > 0 /\ MaxLevel \in Nat /\ MaxSkill \in Nat
  /\ Fee \in Nat /\ Fee > 0
  /\ MaxRequests \in Nat /\ MaxEnters \in Nat /\ MaxFailures \in Nat
BY ProgressAssumption

(* One level more costs Need more.                                         *)
LEMMA OneMore ==
  ASSUME NEW n \in Nat, NEW m \in Nat
  PROVE  n * m = (n - 1) * m + m
OBVIOUS

(* The loop of a level-up ends, with experience left and a level there is. *)
LEMMA LevelsPaidType ==
  ASSUME NEW row \in SoundRow
  PROVE  /\ LevelsPaid(row) \in 0..MaxLevel
         /\ row.level + LevelsPaid(row) <= MaxLevel
         /\ row.exp - LevelsPaid(row) * Need \in Nat
<1> USE ConstantNats
<1> DEFINE level == row.level
           exp == row.exp
           Paid(n) == /\ level + n <= MaxLevel
                      /\ n > 0 => exp - (n - 1) * Need > Need
                      /\ level + n = MaxLevel \/ exp - n * Need <= Need
           T == {n \in Nat : level + n >= MaxLevel \/ exp - n * Need <= Need}
<1>1. level \in 0..MaxLevel /\ exp \in Nat
  BY DEF SoundRow
<1> HIDE DEF level, exp
<1>2. MaxLevel - level \in T
  BY <1>1
<1>3. PICK n \in T : \A m \in T : n <= m
  BY <1>2, LeastNat
<1>4. n \in 0..MaxLevel /\ level + n <= MaxLevel
  BY <1>1, <1>2, <1>3
<1>5. n > 0 => exp - (n - 1) * Need > Need
  <2> SUFFICES ASSUME n > 0 PROVE exp - (n - 1) * Need > Need
    OBVIOUS
  <2>1. n - 1 \in Nat /\ n - 1 \notin T
    BY <1>3
  <2>2. (n - 1) * Need \in Nat
    BY <2>1, NatProduct
  <2> QED BY <1>1, <2>1, <2>2
<1>6. Paid(n)
  BY <1>1, <1>3, <1>4, <1>5
<1>7. LevelsPaid(row) = CHOOSE k \in 0..MaxLevel : Paid(k)
  BY DEF LevelsPaid, level, exp
<1> DEFINE paid == LevelsPaid(row)
<1>8. paid \in 0..MaxLevel /\ Paid(paid)
  BY <1>4, <1>6, <1>7
<1> HIDE DEF paid
<1>9. exp - paid * Need \in Nat
  <2>1. CASE paid = 0
    BY <1>1, <2>1
  <2>2. CASE paid > 0
    <3>1. paid - 1 \in Nat /\ paid \in Nat
      BY <1>8, <2>2
    <3>2. (paid - 1) * Need \in Nat /\ paid * Need = (paid - 1) * Need + Need
      BY <3>1, NatProduct, OneMore
    <3> QED BY <1>1, <1>8, <2>2, <3>2
  <2> QED BY <1>8, <2>1, <2>2
<1> QED BY <1>8, <1>9 DEF paid, level, exp

-----------------------------------------------------------------------------
(* Rows                                                                    *)

(* The row the characters start with.                                      *)
LEMMA StartRowSound == StartRow \in SoundRow
<1>1. StartRow \in Row /\ StartRow.level \in 0..MaxLevel
  BY ProgressAssumption DEF Row
<1>2. StartRow.bag \in [Slot -> SoundItem \cup {None}]
  <2>1. StartRow.bag \in [Slot -> Item \cup {None}]
    BY <1>1 DEF Row
  <2>2. \A s \in Slot : StartRow.bag[s] \in SoundItem \cup {None}
    BY <2>1, ProgressAssumption DEF SoundItem
  <2> QED BY <2>1, <2>2
<1> QED BY <1>1, <1>2 DEF Row, SoundRow

(* What a handler makes of the cached row.                                 *)
LEMMA CachedRowSound ==
  ASSUME NEW row \in SoundRow
  PROVE  /\ [row EXCEPT !.exp = row.exp + 1] \in SoundRow
         /\ LevelUp(row, LevelsPaid(row)) \in SoundRow
         /\ \A n \in Nat : Allocatable(row, n) => RaiseStat(row, n) \in SoundRow
         /\ \A n \in Nat, more \in Nat :
              SkillUpAllowed(row, n, more) => SkillUp(row, n, more) \in SoundRow
<1>1. [row EXCEPT !.exp = row.exp + 1] \in SoundRow
  BY DEF SoundRow
<1>2. LevelUp(row, LevelsPaid(row)) \in SoundRow
  <2> DEFINE n == LevelsPaid(row)
  <2>1. /\ n \in 0..MaxLevel /\ row.level + n <= MaxLevel
        /\ row.exp - n * Need \in Nat
    BY LevelsPaidType
  <2> HIDE DEF n
  <2>2. LevelUp(row, n) \in SoundRow
    <3> DEFINE exp == row.exp - n * Need
    <3>1. /\ row.level + n \in 0..MaxLevel /\ row.points + n \in Nat /\ row.sp + n \in Nat
          /\ exp \in Nat
      BY <2>1, ConstantNats DEF SoundRow
    <3>2. LevelUp(row, n) = [row EXCEPT !.level = row.level + n, !.exp = exp,
                                        !.points = row.points + n, !.sp = row.sp + n]
      BY DEF LevelUp
    <3> HIDE DEF exp
    <3> QED BY <3>1, <3>2 DEF SoundRow
  <2> QED BY <2>2 DEF n
<1>3. ASSUME NEW n \in Nat, Allocatable(row, n) PROVE RaiseStat(row, n) \in SoundRow
  <2> DEFINE stat == row.stat + n
             points == row.points - n
  <2>1. stat \in Nat /\ points \in Nat
    BY <1>3 DEF Allocatable, SoundRow
  <2>2. RaiseStat(row, n) = [row EXCEPT !.stat = stat, !.points = points]
    BY DEF RaiseStat
  <2> HIDE DEF stat, points
  <2> QED BY <2>1, <2>2 DEF SoundRow
<1>4. ASSUME NEW n \in Nat, NEW more \in Nat, SkillUpAllowed(row, n, more)
      PROVE  SkillUp(row, n, more) \in SoundRow
  <2> DEFINE cost == TotalCost(row, n, more)
             skill == row.skill + n + more
             sp == row.sp - cost
  <2>1. /\ row.skill \in 0..MaxSkill /\ row.skill + n \in 0..MaxSkill
        /\ row.skill + more \in 0..MaxSkill
    BY <1>4, ConstantNats DEF SkillUpAllowed, EntriesFit, EntryFits, SoundRow
  <2>2. SkillCost \in [0..MaxSkill -> Nat]
    BY ProgressAssumption
  <2>3. cost \in Int /\ cost <= row.sp /\ skill \in Nat
    <3>1. EntryCost(row, n) \in Int /\ EntryCost(row, more) \in Int
      BY <2>1, <2>2 DEF EntryCost
    <3>2. cost \in Int
      BY <3>1 DEF TotalCost
    <3>3. skill \in Nat
      BY <2>1
    <3> QED BY <1>4, <3>2, <3>3 DEF SkillUpAllowed
  <2>4. SkillUp(row, n, more) = [row EXCEPT !.skill = skill, !.sp = sp]
    BY DEF SkillUp
  <2> HIDE DEF cost, skill
  <2>5. sp \in Nat
    BY <2>3 DEF SoundRow
  <2> HIDE DEF sp
  <2> QED BY <2>3, <2>4, <2>5 DEF SoundRow
<1> QED BY <1>1, <1>2, <1>3, <1>4

(* What one statement of a save makes of the stored row; it leaves the     *)
(* bag, the money and the quest flags alone.                               *)
LEMMA SavedSound ==
  ASSUME NEW row \in SoundRow, NEW saved \in SoundRow, NEW statement \in Statement
  PROVE  /\ Saved(row, saved, statement) \in SoundRow
         /\ Saved(row, saved, statement).bag = row.bag
         /\ Saved(row, saved, statement).money = row.money
         /\ Saved(row, saved, statement).flags = row.flags
<1>1. CASE statement = "level"
  BY <1>1 DEF Saved, SoundRow
<1>2. CASE statement = "stats"
  BY <1>2 DEF Saved, SoundRow
<1>3. CASE statement = "skillPoints"
  BY <1>3 DEF Saved, SoundRow
<1>4. CASE statement = "skills"
  BY <1>4 DEF Saved, SoundRow
<1>5. CASE statement = "credit"
  BY <1>5 DEF Saved, SoundRow
<1>6. CASE statement = "position"
  BY <1>6 DEF Saved, SoundRow
<1> QED BY <1>1, <1>2, <1>3, <1>4, <1>5, <1>6 DEF Statement

(* The fields of a quest.                                                  *)
LEMMA QuestFields ==
  ASSUME NEW q \in Quest
  PROVE  /\ QuestOf[q].once \in BOOLEAN /\ QuestOf[q].exp \in Nat /\ QuestOf[q].money \in Nat
         /\ QuestOf[q].minLevel \in Nat
         /\ QuestOf[q].item \in {"nothing", "gear", "stack"}
         /\ QuestOf[q].warp \in Place \cup {None}
BY ProgressAssumption

(* A reward is put on top of a stack of the same quest, or in a slot that  *)
(* the snapshot has empty.                                                 *)
LEMMA RewardSound ==
  ASSUME NEW job \in QuestJob, NEW s \in Granted(job)
  PROVE  /\ s \in Slot
         /\ Reward(job, s) \in SoundItem
         /\ SlotMatches(job, s)
         /\ job.row.bag[s] # None =>
              /\ Reward(job, s).from = job.row.bag[s].from
              /\ Reward(job, s).count >= job.row.bag[s].count
              /\ job.row.bag[s].option = "none"
<1> DEFINE held == job.row.bag[s]
<1>1. s \in RewardSlot(job) /\ SlotMatches(job, s)
  BY DEF Granted
<1>2. /\ s \in Slot
      /\ held # None => QuestOf[job.quest].item = "stack" /\ held.from = job.quest
  BY <1>1 DEF RewardSlot, FindFreeBagSlot
<1>3. job.quest \in Quest /\ held \in SoundItem \cup {None}
  BY <1>2 DEF QuestJob, SoundRow
<1> DEFINE count == 1 + IF held = None THEN 0 ELSE held.count
           option == IF QuestOf[job.quest].item = "gear" THEN "never" ELSE "none"
<1>4. count \in Nat /\ (held # None => count >= held.count)
  BY <1>3 DEF SoundItem, Item
<1>5. Reward(job, s) = [from |-> job.quest, count |-> count, option |-> option]
  BY DEF Reward
<1>6. option \in {"never", "none"} /\ (QuestOf[job.quest].item = "stack" => option = "none")
  OBVIOUS
<1> HIDE DEF count, option
<1>7. Reward(job, s) \in SoundItem
  BY <1>3, <1>4, <1>5, <1>6 DEF SoundItem, Item
<1>8. held # None => held.option = "none"
  BY <1>2, <1>3 DEF SoundItem
<1> QED BY <1>1, <1>2, <1>4, <1>5, <1>7, <1>8

(* What a quest makes of the stored row.                                   *)
LEMMA RewardedSound ==
  ASSUME NEW row \in SoundRow, NEW job \in QuestJob
  PROVE  /\ Rewarded(row, job) \in SoundRow
         /\ Rewarded(row, job).bag =
              [s \in Slot |-> IF s \in Granted(job) THEN Reward(job, s) ELSE row.bag[s]]
<1> DEFINE q == QuestOf[job.quest]
           flags == IF q.once THEN row.flags \cup {job.quest} ELSE row.flags
           bag == [s \in Slot |-> IF s \in Granted(job) THEN Reward(job, s) ELSE row.bag[s]]
           money == row.money + q.money
           exp == row.exp + q.exp
           pos == IF q.warp = None THEN row.pos ELSE q.warp
<1>1. Rewarded(row, job) = [row EXCEPT !.flags = flags, !.bag = bag, !.money = money,
                                       !.exp = exp, !.pos = pos]
  BY DEF Rewarded
<1>2. job.quest \in Quest
  BY DEF QuestJob
<1>3. flags \in SUBSET Quest /\ money \in Nat /\ exp \in Nat /\ pos \in Place
  BY <1>2, QuestFields DEF SoundRow
<1>4. bag \in [Slot -> SoundItem \cup {None}]
  <2>1. row.bag \in [Slot -> SoundItem \cup {None}]
    BY DEF SoundRow
  <2> QED BY <2>1, RewardSound
<1> HIDE DEF flags, bag, money, exp, pos
<1>5. /\ [row EXCEPT !.flags = flags, !.bag = bag, !.money = money, !.exp = exp, !.pos = pos]
           \in SoundRow
      /\ [row EXCEPT !.flags = flags, !.bag = bag, !.money = money, !.exp = exp, !.pos = pos].bag
           = bag
  BY <1>3, <1>4 DEF SoundRow
<1> QED BY <1>1, <1>5 DEF bag

(* Only what was never appraised is.                                       *)
LEMMA RolledSound ==
  ASSUME NEW job \in AppraiseJob, NEW s \in job.slots
  PROVE  /\ s \in Slot /\ job.row.bag[s] \in SoundItem
         /\ RollOptionBits(job.row.bag[s]) \in SoundItem
         /\ RollOptionBits(job.row.bag[s]).from = job.row.bag[s].from
         /\ RollOptionBits(job.row.bag[s]).count = job.row.bag[s].count
         /\ RollOptionBits(job.row.bag[s]).option = "rolled"
<1> DEFINE item == job.row.bag[s]
<1>1. s \in Slot /\ item \in SoundItem /\ item.option = "never"
  BY DEF AppraiseJob, NeverAppraised, SoundRow
<1> HIDE DEF item
<1>2. item \in Item /\ ~(item.from \in Quest /\ QuestOf[item.from].item = "stack")
  BY <1>1 DEF SoundItem
<1>3. [item EXCEPT !.option = "rolled"] \in Item
  BY <1>2 DEF Item
<1>4. /\ [item EXCEPT !.option = "rolled"].from = item.from
      /\ [item EXCEPT !.option = "rolled"].count = item.count
      /\ [item EXCEPT !.option = "rolled"].option = "rolled"
  BY <1>2 DEF Item
<1>5. [item EXCEPT !.option = "rolled"] \in SoundItem
  BY <1>2, <1>3, <1>4 DEF SoundItem
<1> QED BY <1>1, <1>4, <1>5 DEF RollOptionBits, item

(* What an appraisal makes of the stored row, with the money for it there. *)
LEMMA AppraisedSound ==
  ASSUME NEW row \in SoundRow, NEW job \in AppraiseJob, NEW landed \in SUBSET job.slots,
         Cardinality(landed) * Fee <= row.money
  PROVE  /\ Appraised(row, job, landed) \in SoundRow
         /\ Appraised(row, job, landed).bag =
              [s \in Slot |-> IF s \in landed THEN RollOptionBits(job.row.bag[s]) ELSE row.bag[s]]
<1> DEFINE bag == [s \in Slot |-> IF s \in landed THEN RollOptionBits(job.row.bag[s])
                                                  ELSE row.bag[s]]
           money == row.money - Cardinality(landed) * Fee
<1>1. Appraised(row, job, landed) = [row EXCEPT !.bag = bag, !.money = money]
  BY DEF Appraised
<1>2. money \in Nat
  <2>1. landed \subseteq Slot /\ IsFiniteSet(Slot)
    BY ProgressAssumption DEF AppraiseJob
  <2>2. Cardinality(landed) \in Nat
    BY <2>1, FS_Subset, FS_CardinalityType
  <2>3. Cardinality(landed) * Fee \in Nat
    BY <2>2, ConstantNats, NatProduct
  <2> QED BY <2>3 DEF SoundRow
<1>3. bag \in [Slot -> SoundItem \cup {None}]
  <2>1. row.bag \in [Slot -> SoundItem \cup {None}]
    BY DEF SoundRow
  <2> QED BY <2>1, RolledSound
<1> HIDE DEF bag, money
<1>4. /\ [row EXCEPT !.bag = bag, !.money = money] \in SoundRow
      /\ [row EXCEPT !.bag = bag, !.money = money].bag = bag
  BY <1>2, <1>3 DEF SoundRow
<1> QED BY <1>1, <1>4 DEF bag

(* The class constants yield a number.                                     *)
LEMMA DerivedType ==
  ASSUME NEW row \in SoundRow, StatusClass(JobId) \in DOMAIN ClassStats
  PROVE  DerivedStats(row) \in Nat
<1> DEFINE constants == ClassStats[StatusClass(JobId)]
<1>1. constants.hpRate \in Nat /\ constants.hpBase \in Nat
  BY ProgressAssumption
<1> HIDE DEF constants
<1>2. row.stat \in Nat /\ row.level \in Nat
  BY ConstantNats DEF SoundRow
<1>3. (row.stat * constants.hpRate) \div 10 \in Nat /\ 20 * row.level \in Nat
  BY <1>1, <1>2, NatProduct
<1>4. DerivedStats(row) = (row.stat * constants.hpRate) \div 10 + 20 * row.level + constants.hpBase
  BY DEF DerivedStats, ClassConstants, constants
<1> QED BY <1>1, <1>3, <1>4

-----------------------------------------------------------------------------
(* Queues                                                                  *)

(* A queue of some length is not empty.                                    *)
LEMMA NotEmpty ==
  ASSUME NEW S, NEW s \in Seq(S), Len(s) >= 1
  PROVE  s # <<>>
BY EmptySeq

(* The first element of a queue, and what is left behind it.               *)
LEMMA RestOf ==
  ASSUME NEW S, NEW s \in Seq(S), s # <<>>
  PROVE  /\ Len(s) \in Nat \ {0} /\ Head(s) = s[1] /\ Head(s) \in S /\ Tail(s) \in Seq(S)
         /\ Len(s) # 1 => Tail(s) # <<>>
<1>1. Len(s) \in Nat /\ Len(s) # 0
  BY EmptySeq, LenProperties
<1>2. Head(s) = s[1] /\ s[1] \in S
  BY <1>1, HeadTailProperties, ElementOfSeq
<1>3. Tail(s) \in Seq(S) /\ Len(Tail(s)) = Len(s) - 1
  BY <1>1, HeadTailProperties
<1>4. Len(s) # 1 => Tail(s) # <<>>
  <2>1. Len(Tail(s)) >= 1 => Tail(s) # <<>>
    BY <1>3, NotEmpty
  <2> QED BY <1>1, <1>3, <2>1
<1> QED BY <1>1, <1>2, <1>3, <1>4

(* The kind of a job says what it is made of.                              *)
LEMMA JobFields ==
  ASSUME NEW job \in SoundJob
  PROVE  /\ job.char \in Char
         /\ job.kind = "load" => job \in LoadJob
         /\ job.kind = "save" => job \in SaveJob
         /\ job.kind = "quest" => job \in QuestJob
         /\ job.kind = "appraise" => job \in AppraiseJob
<1>1. CASE job \in LoadJob
  BY <1>1 DEF LoadJob
<1>2. CASE job \in SaveJob
  BY <1>2 DEF SaveJob
<1>3. CASE job \in QuestJob
  BY <1>3 DEF QuestJob
<1>4. CASE job \in AppraiseJob
  BY <1>4 DEF AppraiseJob
<1> QED BY <1>1, <1>2, <1>3, <1>4 DEF SoundJob

(* The kind of a callback likewise.                                        *)
LEMMA CallbackFields ==
  ASSUME NEW done \in SoundCallback
  PROVE  /\ done.conn \in Conn
         /\ done.kind = "loaded" => done \in LoadedCallback
         /\ done.kind = "turnedIn" => done \in QuestCallback
         /\ done.kind = "appraised" => done \in AppraisedCallback
BY DEF SoundCallback, LoadedCallback, QuestCallback, AppraisedCallback

(* What a step of the DB thread starts with.                               *)
LEMMA RunningType ==
  ASSUME ProgressInv, NEW kind, Running(kind)
  PROVE  /\ jobs # <<>> /\ Head(jobs) = jobs[1] /\ Head(jobs).kind = kind
         /\ Head(jobs) \in SoundJob /\ Head(jobs).char \in Char
         /\ Tail(jobs) \in Seq(SoundJob)
         /\ db[Head(jobs).char] \in SoundRow
BY RestOf, JobFields DEF ProgressInv, Running

(* What a step of the world strand takes off the queue.                    *)
LEMMA CallingType ==
  ASSUME ProgressInv, NEW kind, Calling(kind)
  PROVE  /\ Head(callbacks) \in SoundCallback /\ Head(callbacks).kind = kind
         /\ callbacks' \in Seq(SoundCallback)
BY RestOf DEF ProgressInv, Calling

-----------------------------------------------------------------------------
(* The invariant: requests                                                 *)

(* A request that changes no cache and queues a sound job.                 *)
LEMMA QueueJob ==
  ASSUME ProgressInv, NEW job \in SoundJob, Run(job)
  PROVE  jobs' \in Seq(SoundJob)
BY AppendProperties DEF ProgressInv, Run

(* A change of the cache with its save.                                    *)
LEMMA CacheAndSaveSound ==
  ASSUME ProgressInv, NEW c \in Conn, NEW changed \in SoundPlayer,
         NEW statements \in Seq(Statement), statements # <<>>,
         CacheAndSave(c, changed, statements)
  PROVE  player' \in [Conn -> SoundPlayer \cup {None}] /\ jobs' \in Seq(SoundJob)
<1> DEFINE job == [kind |-> "save", char |-> changed.char, row |-> changed.row, todo |-> statements]
<1>1. job \in SoundJob
  BY DEF SoundJob, SaveJob, SoundPlayer
<1>2. Run(job) /\ player' = [player EXCEPT ![c] = changed]
  BY DEF CacheAndSave
<1> HIDE DEF job
<1> QED BY <1>1, <1>2, QueueJob DEF ProgressInv

(* A player with another sound row, flagged or not.                        *)
LEMMA NewRowSound ==
  ASSUME NEW cached \in SoundPlayer, NEW row \in SoundRow
  PROVE  /\ [cached EXCEPT !.row = row] \in SoundPlayer
         /\ MarkDirty([cached EXCEPT !.row = row]) \in SoundPlayer
BY DEF MarkDirty, SoundPlayer

(* Every request keeps the invariant.                                      *)
LEMMA HandleSound ==
  ASSUME ProgressInv, NEW c \in Conn, Handle(c)
  PROVE  ProgressInv'
<1> USE ConstantNats
<1> DEFINE row == player[c].row
<1>a. ASSUME NEW kind, Request(c, kind)
      PROVE  /\ player[c] \in SoundPlayer /\ row \in SoundRow /\ player[c].char \in Char
             /\ requests' \in 0..MaxRequests
             /\ UNCHANGED <<db, callbacks, overtaken, enters, failures>>
  <2>1. player[c] \in SoundPlayer
    BY <1>a DEF Request, ProgressInv
  <2> QED BY <1>a, <2>1 DEF Request, ProgressInv, SoundPlayer
<1>b. ASSUME NEW kind, Request(c, kind), UNCHANGED earned,
             player' \in [Conn -> SoundPlayer \cup {None}], jobs' \in Seq(SoundJob)
      PROVE  ProgressInv'
  BY <1>a, <1>b DEF ProgressInv
<1>c. player \in [Conn -> SoundPlayer \cup {None}] /\ jobs \in Seq(SoundJob)
  BY DEF ProgressInv
<1>1. ASSUME NEW ch \in Char, HandleEnter(c, ch) PROVE ProgressInv'
  <2>1. [kind |-> "load", conn |-> c, char |-> ch] \in SoundJob
    BY DEF SoundJob, LoadJob
  <2>2. jobs' \in Seq(SoundJob)
    BY <1>1, <2>1, QueueJob DEF HandleEnter
  <2> QED BY <1>1, <2>2 DEF HandleEnter, ProgressInv, history
<1>2. CASE HandleCgExit(c)
  <2> DEFINE job == [kind |-> "save", char |-> player[c].char, row |-> row, todo |-> <<"position">>]
  <2>1. <<"position">> \in Seq(Statement) /\ <<"position">> # <<>>
    BY DEF Statement
  <2>2. job \in SoundJob
    BY <1>2, <1>a, <2>1 DEF HandleCgExit, SoundJob, SaveJob
  <2>3. jobs' \in Seq(SoundJob)
    BY <1>2, <2>2, QueueJob DEF HandleCgExit
  <2>4. player' \in [Conn -> SoundPlayer \cup {None}]
    BY <1>2, <1>c DEF HandleCgExit
  <2> QED BY <1>2, <1>b, <2>3, <2>4 DEF HandleCgExit
<1>3. CASE HandleAttackToCreature(c)
  <2> DEFINE changed == [player[c] EXCEPT !.row.exp = @ + 1]
  <2>1. player[c] \in SoundPlayer /\ row \in SoundRow /\ player[c].char \in Char
    BY <1>3, <1>a DEF HandleAttackToCreature
  <2>2. changed = [player[c] EXCEPT !.row = [row EXCEPT !.exp = row.exp + 1]]
    OBVIOUS
  <2>3. changed \in SoundPlayer
    BY <2>1, <2>2, CachedRowSound, NewRowSound
  <2>4. <<"credit">> \in Seq(Statement) /\ <<"credit">> # <<>>
    BY DEF Statement
  <2>5. CacheAndSave(c, changed, <<"credit">>)
    BY <1>3 DEF HandleAttackToCreature
  <2> HIDE DEF changed
  <2>6. player' \in [Conn -> SoundPlayer \cup {None}] /\ jobs' \in Seq(SoundJob)
    BY <2>3, <2>4, <2>5, CacheAndSaveSound
  <2>7. earned' \in [Char -> Int]
    BY <1>3, <2>1 DEF HandleAttackToCreature, ProgressInv
  <2> QED BY <1>3, <1>a, <2>6, <2>7 DEF HandleAttackToCreature, ProgressInv
<1>4. CASE HandleLevelUpCheck(c)
  <2> DEFINE leveled == LevelUp(row, LevelsPaid(row))
             statements == <<"level", "stats", "skillPoints">>
  <2>1. player[c] \in SoundPlayer /\ leveled \in SoundRow
    BY <1>4, <1>a, CachedRowSound DEF HandleLevelUpCheck
  <2>2. statements \in Seq(Statement) /\ statements # <<>>
    BY DEF Statement
  <2>3. \/ UNCHANGED <<player, jobs>>
        \/ CacheAndSave(c, MarkDirty([player[c] EXCEPT !.row = leveled]), statements)
    BY <1>4 DEF HandleLevelUpCheck
  <2> HIDE DEF leveled, statements
  <2>4. player' \in [Conn -> SoundPlayer \cup {None}] /\ jobs' \in Seq(SoundJob)
    BY <1>c, <2>1, <2>2, <2>3, NewRowSound, CacheAndSaveSound
  <2> QED BY <1>4, <1>b, <2>4 DEF HandleLevelUpCheck
<1>5. ASSUME NEW n \in 1..2, HandleCharStatusUp(c, n) PROVE ProgressInv'
  <2> DEFINE raised == RaiseStat(row, n)
  <2>1. player[c] \in SoundPlayer /\ row \in SoundRow
    BY <1>5, <1>a DEF HandleCharStatusUp
  <2>2. Allocatable(row, n) => raised \in SoundRow
    <3>1. n \in Nat
      OBVIOUS
    <3> HIDE DEF row
    <3> QED BY <2>1, <3>1, CachedRowSound
  <2>3. <<"stats">> \in Seq(Statement) /\ <<"stats">> # <<>>
    BY DEF Statement
  <2>4. \/ UNCHANGED <<player, jobs>>
        \/ /\ Allocatable(row, n)
           /\ CacheAndSave(c, MarkDirty([player[c] EXCEPT !.row = raised]), <<"stats">>)
    BY <1>5 DEF HandleCharStatusUp
  <2> HIDE DEF raised
  <2>5. player' \in [Conn -> SoundPlayer \cup {None}] /\ jobs' \in Seq(SoundJob)
    BY <1>c, <2>1, <2>2, <2>3, <2>4, NewRowSound, CacheAndSaveSound
  <2> QED BY <1>5, <1>b, <2>5 DEF HandleCharStatusUp
<1>6. ASSUME NEW n \in 1..MaxSkill, NEW more \in 0..MaxSkill, HandleCharSkillUpEx(c, n, more)
      PROVE  ProgressInv'
  <2> DEFINE raised == SkillUp(row, n, more)
             statements == <<"skillPoints", "skills">>
  <2>1. player[c] \in SoundPlayer /\ row \in SoundRow
    BY <1>6, <1>a DEF HandleCharSkillUpEx
  <2>2. SkillUpAllowed(row, n, more) => raised \in SoundRow
    <3>1. n \in Nat /\ more \in Nat
      OBVIOUS
    <3> HIDE DEF row
    <3> QED BY <2>1, <3>1, CachedRowSound
  <2>3. statements \in Seq(Statement) /\ statements # <<>>
    BY DEF Statement
  <2>4. \/ UNCHANGED <<player, jobs>>
        \/ /\ SkillUpAllowed(row, n, more)
           /\ CacheAndSave(c, [player[c] EXCEPT !.row = raised], statements)
    BY <1>6 DEF HandleCharSkillUpEx
  <2> HIDE DEF raised, statements
  <2>5. player' \in [Conn -> SoundPlayer \cup {None}] /\ jobs' \in Seq(SoundJob)
    BY <1>c, <2>1, <2>2, <2>3, <2>4, NewRowSound, CacheAndSaveSound
  <2> QED BY <1>6, <1>b, <2>5 DEF HandleCharSkillUpEx
<1>7. ASSUME NEW q \in Quest, HandleQuestResult(c, q) PROVE ProgressInv'
  <2> DEFINE job == [kind |-> "quest", conn |-> c, char |-> player[c].char, row |-> row, quest |-> q]
  <2>1. job \in SoundJob
    BY <1>7, <1>a DEF HandleQuestResult, SoundJob, QuestJob
  <2>2. Run(job) \/ UNCHANGED jobs
    BY <1>7 DEF HandleQuestResult
  <2> HIDE DEF job
  <2>3. jobs' \in Seq(SoundJob)
    BY <1>c, <2>1, <2>2, QueueJob
  <2> QED BY <1>7, <1>b, <1>c, <2>3 DEF HandleQuestResult
<1>8. ASSUME NEW slots \in SUBSET Slot, HandleItemConfirmNpcRequest(c, slots) PROVE ProgressInv'
  <2> DEFINE there == {s \in slots : NeverAppraised(row, s)}
             job == [kind |-> "appraise", conn |-> c, char |-> player[c].char, row |-> row,
                     slots |-> there]
  <2>1. there \in SUBSET Slot /\ \A s \in there : NeverAppraised(row, s)
    OBVIOUS
  <2>2. Run(job)
    BY <1>8 DEF HandleItemConfirmNpcRequest
  <2>3. row \in SoundRow /\ player[c].char \in Char
    BY <1>8, <1>a DEF HandleItemConfirmNpcRequest
  <2> HIDE DEF there, row
  <2>4. job \in SoundJob
    BY <2>1, <2>3 DEF SoundJob, AppraiseJob
  <2> HIDE DEF job
  <2>5. jobs' \in Seq(SoundJob)
    BY <2>2, <2>4, QueueJob
  <2> QED BY <1>8, <1>b, <1>c, <2>5 DEF HandleItemConfirmNpcRequest
<1> QED BY <1>1, <1>2, <1>3, <1>4, <1>5, <1>6, <1>7, <1>8, Zenon DEF Handle

-----------------------------------------------------------------------------
(* The invariant: the DB thread                                            *)

(* A save that has more statements stays at the head of the queue.         *)
LEMMA RestOfSave ==
  ASSUME NEW q \in Seq(SoundJob), q # <<>>, q[1] \in SaveJob, Len(q[1].todo) # 1
  PROVE  [q EXCEPT ![1].todo = Tail(@)] \in Seq(SoundJob)
<1> DEFINE job == q[1]
           rest == Tail(job.todo)
           left == [job EXCEPT !.todo = rest]
<1>1. job \in SaveJob /\ job.todo \in Seq(Statement) /\ job.todo # <<>>
  BY DEF SaveJob
<1>2. rest \in Seq(Statement) /\ rest # <<>>
  BY <1>1, RestOf
<1>3. [q EXCEPT ![1].todo = Tail(@)] = [q EXCEPT ![1] = left]
  BY Zenon DEF left, rest, job
<1> HIDE DEF job, rest
<1>4. left \in SoundJob
  BY <1>1, <1>2 DEF SaveJob, SoundJob
<1> HIDE DEF left
<1>5. 1 \in 1..Len(q)
  BY RestOf
<1>6. [q EXCEPT ![1] = left] \in Seq(SoundJob)
  BY <1>4, <1>5, ExceptSeq
<1> QED BY <1>3, <1>6, Zenon

(* A statement is saved from a job that has one.                           *)
LEMMA RunStatementSound ==
  ASSUME ProgressInv, RunStatement
  PROVE  /\ db' \in [Char -> SoundRow] /\ jobs' \in Seq(SoundJob)
         /\ \A ch \in Char : /\ db'[ch].bag = db[ch].bag
                             /\ db'[ch].money = db[ch].money /\ db'[ch].flags = db[ch].flags
<1> DEFINE job == Head(jobs)
           saved == Saved(db[job.char], job.row, Head(job.todo))
<1>1. /\ jobs # <<>> /\ job = jobs[1] /\ job \in SaveJob
      /\ job.char \in Char /\ Tail(jobs) \in Seq(SoundJob) /\ db[job.char] \in SoundRow
  BY RunningType, JobFields DEF RunStatement
<1>2. job.row \in SoundRow /\ job.todo \in Seq(Statement) /\ job.todo # <<>>
  BY <1>1 DEF SaveJob
<1>3. Head(job.todo) \in Statement
  BY <1>2, RestOf
<1>4. /\ saved \in SoundRow /\ saved.bag = db[job.char].bag
      /\ saved.money = db[job.char].money /\ saved.flags = db[job.char].flags
  BY <1>1, <1>2, <1>3, SavedSound
<1>5. db' = [db EXCEPT ![job.char] = saved]
  BY DEF RunStatement
<1>6. jobs' = IF Len(job.todo) = 1 THEN Tail(jobs) ELSE [jobs EXCEPT ![1].todo = Tail(@)]
  BY DEF RunStatement
<1>7. jobs' \in Seq(SoundJob)
  <2>1. jobs \in Seq(SoundJob)
    BY DEF ProgressInv
  <2> HIDE DEF job, saved
  <2> QED BY <1>1, <1>6, <2>1, RestOfSave
<1> HIDE DEF saved, job
<1> QED BY <1>1, <1>4, <1>5, <1>7 DEF ProgressInv

(* A quest's rows, and what its callback brings.                           *)
LEMMA RunQuestSound ==
  ASSUME ProgressInv, RunQuest
  PROVE  /\ db' \in [Char -> SoundRow] /\ callbacks' \in Seq(SoundCallback)
         /\ earned' \in [Char -> Int]
         /\ Head(jobs) \in QuestJob
         /\ \A ch \in Char : \/ db'[ch] = db[ch]
                             \/ /\ ch = Head(jobs).char
                                /\ TryClaimFlag(db[ch], Head(jobs).quest)
                                /\ db'[ch] = Rewarded(db[ch], Head(jobs))
<1> DEFINE job == Head(jobs)
           row == Rewarded(db[job.char], job)
           done == [kind |-> "turnedIn", conn |-> job.conn, quest |-> job.quest, outcome |-> row,
                    slots |-> Granted(job)]
<1>1. job \in QuestJob /\ job.char \in Char /\ db[job.char] \in SoundRow
  BY RunningType, JobFields DEF RunQuest
<1>2. row \in SoundRow
  BY <1>1, RewardedSound
<1>3. Granted(job) \in SUBSET Slot
  BY <1>1, RewardSound
<1>4. QuestOf[job.quest].exp \in Nat
  BY <1>1, QuestFields DEF QuestJob
<1> DEFINE sum == earned[job.char] + QuestOf[job.quest].exp
<1>5. \/ UNCHANGED <<db, callbacks, earned>>
      \/ /\ TryClaimFlag(db[job.char], job.quest)
         /\ db' = [db EXCEPT ![job.char] = row]
         /\ callbacks' = Append(callbacks, done)
         /\ earned' = [earned EXCEPT ![job.char] = sum]
  BY DEF RunQuest, Post
<1> DEFINE slots == Granted(job)
<1>6. done \in SoundCallback
  <2>1. slots \in SUBSET Slot
    BY <1>3
  <2>2. done = [kind |-> "turnedIn", conn |-> job.conn, quest |-> job.quest, outcome |-> row,
                slots |-> slots]
    OBVIOUS
  <2> HIDE DEF job, row, slots, done
  <2> QED BY <1>1, <1>2, <2>1, <2>2 DEF SoundCallback, QuestCallback, QuestJob
<1> HIDE DEF done, slots
<1>7. callbacks' \in Seq(SoundCallback)
  <2>1. callbacks' = callbacks \/ callbacks' = Append(callbacks, done)
    BY <1>5
  <2>2. callbacks \in Seq(SoundCallback)
    BY DEF ProgressInv
  <2>3. Append(callbacks, done) \in Seq(SoundCallback)
    BY <1>6, <2>2, AppendProperties
  <2> QED BY <2>1, <2>2, <2>3
<1>8. \A ch \in Char : \/ db'[ch] = db[ch]
                       \/ /\ ch = job.char /\ TryClaimFlag(db[ch], job.quest)
                          /\ db'[ch] = Rewarded(db[ch], job)
  BY <1>1, <1>5 DEF ProgressInv
<1>9. db' \in [Char -> SoundRow] /\ earned' \in [Char -> Int]
  <2>1. sum \in Int
    BY <1>1, <1>4 DEF ProgressInv
  <2> HIDE DEF row, job, sum
  <2> QED BY <1>1, <1>2, <1>5, <2>1 DEF ProgressInv
<1> QED BY <1>1, <1>7, <1>8, <1>9

(* An appraisal's rows, and what its callback brings.                      *)
LEMMA RunAppraiseSound ==
  ASSUME ProgressInv, RunAppraise
  PROVE  /\ db' \in [Char -> SoundRow] /\ callbacks' \in Seq(SoundCallback)
         /\ Head(jobs) \in AppraiseJob
         /\ \A ch \in Char :
              \/ db'[ch] = db[ch]
              \/ \E landed \in SUBSET Head(jobs).slots :
                   /\ ch = Head(jobs).char
                   /\ \A s \in landed : SlotMatches(Head(jobs), s)
                   /\ Cardinality(landed) * Fee <= db[ch].money
                   /\ db'[ch] = Appraised(db[ch], Head(jobs), landed)
<1> DEFINE job == Head(jobs)
<1>1. job \in AppraiseJob /\ job.char \in Char /\ db[job.char] \in SoundRow
  BY RunningType, JobFields DEF RunAppraise
<1>2. PICK landed \in Appraisals(job) :
        IF landed # {} /\ Cardinality(landed) * Fee <= db[job.char].money
          THEN /\ db' = [db EXCEPT ![job.char] = Appraised(@, job, landed)]
               /\ Post([kind |-> "appraised", conn |-> job.conn, quest |-> None,
                        outcome |-> Appraised(db[job.char], job, landed), slots |-> landed])
          ELSE UNCHANGED <<db, callbacks>>
  BY DEF RunAppraise
<1>3. landed \in SUBSET job.slots /\ \A s \in landed : SlotMatches(job, s)
  BY DEF Appraisals
<1>4. landed \in SUBSET Slot
  BY <1>1, <1>3 DEF AppraiseJob
<1>5. CASE UNCHANGED <<db, callbacks>>
  BY <1>1, <1>5 DEF ProgressInv
<1>6. CASE /\ Cardinality(landed) * Fee <= db[job.char].money
           /\ db' = [db EXCEPT ![job.char] = Appraised(@, job, landed)]
           /\ Post([kind |-> "appraised", conn |-> job.conn, quest |-> None,
                    outcome |-> Appraised(db[job.char], job, landed), slots |-> landed])
  <2> DEFINE row == Appraised(db[job.char], job, landed)
             done == [kind |-> "appraised", conn |-> job.conn, quest |-> None, outcome |-> row,
                      slots |-> landed]
  <2>1. row \in SoundRow
    BY <1>1, <1>3, <1>6, AppraisedSound
  <2>2. db' = [db EXCEPT ![job.char] = row] /\ callbacks' = Append(callbacks, done)
    BY <1>6 DEF Post
  <2>3. \A ch \in Char : \/ db'[ch] = db[ch]
                         \/ ch = job.char /\ db'[ch] = Appraised(db[ch], job, landed)
    BY <1>1, <2>2 DEF ProgressInv
  <2> HIDE DEF row
  <2>4. done \in SoundCallback
    <3> HIDE DEF job
    <3> QED BY <1>1, <1>4, <2>1 DEF SoundCallback, AppraisedCallback, AppraiseJob
  <2> HIDE DEF done
  <2>5. db' \in [Char -> SoundRow] /\ callbacks' \in Seq(SoundCallback)
    BY <1>1, <2>1, <2>2, <2>4, AppendProperties DEF ProgressInv
  <2> QED BY <1>1, <1>3, <1>6, <2>3, <2>5
<1> QED BY <1>2, <1>5, <1>6

(* Every step of the DB thread keeps the invariant.                        *)
LEMMA RunJobSound ==
  ASSUME ProgressInv, RunJob
  PROVE  ProgressInv'
<1> USE ConstantNats
<1>1. CASE RunLoad
  <2> DEFINE job == Head(jobs)
             row == LoadCharacter(job.char)
             done == [kind |-> "loaded", conn |-> job.conn, char |-> job.char, row |-> row]
  <2>1. job \in LoadJob /\ db[job.char] \in SoundRow /\ Tail(jobs) \in Seq(SoundJob)
    BY <1>1, RunningType, JobFields DEF RunLoad
  <2>2. row \in SoundRow
    BY <2>1 DEF LoadCharacter, SoundRow
  <2>3. callbacks' = Append(callbacks, done)
    BY <1>1 DEF RunLoad, Post
  <2>4. jobs' \in Seq(SoundJob)
    BY <1>1, <2>1 DEF RunLoad
  <2> HIDE DEF job, row
  <2>5. done \in SoundCallback
    BY <2>1, <2>2 DEF SoundCallback, LoadedCallback, LoadJob
  <2> HIDE DEF done
  <2>6. callbacks' \in Seq(SoundCallback)
    BY <2>3, <2>5, AppendProperties DEF ProgressInv
  <2> QED BY <1>1, <2>4, <2>6 DEF RunLoad, Running, ProgressInv
<1>2. CASE RunStatement
  BY <1>2, RunStatementSound DEF RunStatement, Running, ProgressInv
<1>3. CASE RunQuest
  <2>1. jobs' \in Seq(SoundJob)
    BY <1>3, RunningType DEF RunQuest
  <2> QED BY <1>3, <2>1, RunQuestSound DEF RunQuest, Running, ProgressInv
<1>4. CASE RunAppraise
  <2>1. jobs' \in Seq(SoundJob)
    BY <1>4, RunningType DEF RunAppraise
  <2> QED BY <1>4, <2>1, RunAppraiseSound DEF RunAppraise, Running, ProgressInv
<1>5. CASE JobThrows
  <2>1. PICK kind \in {"load", "save", "quest", "appraise"} : Running(kind)
    BY <1>5 DEF JobThrows
  <2>2. jobs' \in Seq(SoundJob)
    BY <1>5, <2>1, RunningType DEF JobThrows
  <2>3. failures' \in 0..MaxFailures
    BY <1>5 DEF JobThrows, ProgressInv
  <2> QED BY <1>5, <2>1, <2>2, <2>3 DEF JobThrows, Running, ProgressInv
<1> QED BY <1>1, <1>2, <1>3, <1>4, <1>5 DEF RunJob

-----------------------------------------------------------------------------
(* The invariant: callbacks and the tick                                   *)

(* The slots a callback writes hold what the rows hold.                    *)
LEMMA MergedBag ==
  ASSUME NEW row \in SoundRow, NEW outcome \in SoundRow, NEW slots \in SUBSET Slot
  PROVE  [s \in Slot |-> IF s \in slots THEN outcome.bag[s] ELSE row.bag[s]]
           \in [Slot -> SoundItem \cup {None}]
<1>1. /\ row.bag \in [Slot -> SoundItem \cup {None}]
      /\ outcome.bag \in [Slot -> SoundItem \cup {None}]
  BY DEF SoundRow
<1> QED BY <1>1

(* A turned-in quest keeps the row sound, its level, stat and points.      *)
LEMMA TurnedInSound ==
  ASSUME NEW row \in SoundRow, NEW done \in QuestCallback
  PROVE  /\ TurnedIn(row, done) \in SoundRow
         /\ TurnedIn(row, done).stat = row.stat /\ TurnedIn(row, done).level = row.level
         /\ TurnedIn(row, done).points = row.points
<1> DEFINE q == QuestOf[done.quest]
           flags == IF q.once THEN row.flags \cup {done.quest} ELSE row.flags
           bag == [s \in Slot |-> IF s \in done.slots THEN done.outcome.bag[s] ELSE row.bag[s]]
           money == IF q.money # 0 THEN done.outcome.money ELSE row.money
           exp == IF q.exp # 0 THEN done.outcome.exp ELSE row.exp
<1>1. TurnedIn(row, done) = [row EXCEPT !.flags = flags, !.bag = bag, !.money = money, !.exp = exp]
  BY DEF TurnedIn
<1>2. done.quest \in Quest /\ done.outcome \in SoundRow /\ done.slots \in SUBSET Slot
  BY DEF QuestCallback
<1>3. bag \in [Slot -> SoundItem \cup {None}]
  BY <1>2, MergedBag
<1>4. flags \in SUBSET Quest /\ money \in Nat /\ exp \in Nat
  BY <1>2 DEF SoundRow
<1> HIDE DEF flags, bag, money, exp
<1>5. [row EXCEPT !.flags = flags, !.bag = bag, !.money = money, !.exp = exp] \in SoundRow
  BY <1>3, <1>4 DEF SoundRow
<1>6. /\ TurnedIn(row, done).stat = row.stat /\ TurnedIn(row, done).level = row.level
      /\ TurnedIn(row, done).points = row.points
  BY <1>1 DEF SoundRow
<1> QED BY <1>1, <1>5, <1>6

(* An appraisal's callback likewise.                                       *)
LEMMA ConfirmedSound ==
  ASSUME NEW row \in SoundRow, NEW done \in AppraisedCallback
  PROVE  /\ Confirmed(row, done) \in SoundRow
         /\ Confirmed(row, done).stat = row.stat /\ Confirmed(row, done).level = row.level
         /\ Confirmed(row, done).points = row.points
<1> DEFINE bag == [s \in Slot |-> IF s \in done.slots THEN done.outcome.bag[s] ELSE row.bag[s]]
           money == done.outcome.money
<1>1. Confirmed(row, done) = [row EXCEPT !.bag = bag, !.money = money]
  BY DEF Confirmed
<1>2. done.outcome \in SoundRow /\ done.slots \in SUBSET Slot
  BY DEF AppraisedCallback
<1>3. bag \in [Slot -> SoundItem \cup {None}]
  BY <1>2, MergedBag
<1>4. money \in Nat
  BY <1>2 DEF SoundRow
<1> HIDE DEF bag, money
<1> QED BY <1>1, <1>3, <1>4 DEF SoundRow

(* What a callback can make of the players: nothing, one leaves, one joins *)
(* with stats to derive, on the row of its saves or overtaken by them, or  *)
(* one gets another row of the same level, stat and points.                *)
LEMMA CallbackEffect ==
  ASSUME ProgressInv, RunCallback
  PROVE  \/ player' = player
         \/ \E c \in Conn :
              \/ player' = [player EXCEPT ![c] = None]
              \/ \E joined \in SoundPlayer :
                   /\ joined.dirty /\ ~Online(joined.char)
                   /\ player' = [player EXCEPT ![c] = joined]
                   /\ \/ joined.char \in overtaken'
                      \/ ~SaveQueued(joined.char) /\ joined.row = LoadCharacter(joined.char)
              \/ \E row \in SoundRow :
                   /\ player[c] # None
                   /\ row.stat = player[c].row.stat /\ row.level = player[c].row.level
                   /\ row.points = player[c].row.points
                   /\ player' = [player EXCEPT ![c] = [player[c] EXCEPT !.row = row]]
<1> DEFINE done == Head(callbacks)
           c == done.conn
<1>1. CASE OnLoaded
  <2>1. done \in LoadedCallback /\ c \in Conn
    BY <1>1, CallingType, CallbackFields DEF OnLoaded
  <2> DEFINE joined == [char |-> done.char, row |-> done.row, derived |-> 0, dirty |-> TRUE]
  <2>2. \/ player' = player
        \/ /\ player' = [player EXCEPT ![c] = joined] /\ ~Online(done.char)
           /\ \/ done.char \in overtaken'
              \/ ~SaveQueued(done.char) /\ done.row = LoadCharacter(done.char)
    BY <1>1 DEF OnLoaded
  <2> HIDE DEF done
  <2>3. /\ joined \in SoundPlayer /\ joined.dirty
        /\ joined.char = done.char /\ joined.row = done.row
    BY <2>1 DEF LoadedCallback, SoundPlayer
  <2> HIDE DEF joined
  <2> QED BY <2>1, <2>2, <2>3
<1>2. CASE OnTurnedIn
  <2>1. done \in QuestCallback /\ c \in Conn
    BY <1>2, CallingType, CallbackFields DEF OnTurnedIn
  <2> DEFINE row == TurnedIn(player[c].row, done)
  <2>2. \/ player' = player
        \/ player' = [player EXCEPT ![c] = None]
        \/ player[c] # None /\ player' = [player EXCEPT ![c] = [player[c] EXCEPT !.row = row]]
    BY <1>2 DEF OnTurnedIn
  <2>3. player[c] # None => player[c].row \in SoundRow
    BY <2>1 DEF ProgressInv, SoundPlayer
  <2>4. player[c] # None =>
          /\ row \in SoundRow /\ row.stat = player[c].row.stat
          /\ row.level = player[c].row.level /\ row.points = player[c].row.points
    BY <2>1, <2>3, TurnedInSound
  <2> HIDE DEF row, c
  <2> QED BY <2>1, <2>2, <2>4
<1>3. CASE OnAppraised
  <2>1. done \in AppraisedCallback /\ c \in Conn
    BY <1>3, CallingType, CallbackFields DEF OnAppraised
  <2> DEFINE row == Confirmed(player[c].row, done)
  <2>2. \/ player' = player
        \/ player[c] # None /\ player' = [player EXCEPT ![c] = [player[c] EXCEPT !.row = row]]
    BY <1>3 DEF OnAppraised
  <2>3. player[c] # None => player[c].row \in SoundRow
    BY <2>1 DEF ProgressInv, SoundPlayer
  <2>4. player[c] # None =>
          /\ row \in SoundRow /\ row.stat = player[c].row.stat
          /\ row.level = player[c].row.level /\ row.points = player[c].row.points
    BY <2>1, <2>3, ConfirmedSound
  <2> HIDE DEF row, c
  <2> QED BY <2>1, <2>2, <2>4
<1> QED BY <1>1, <1>2, <1>3 DEF RunCallback

(* Every callback keeps the invariant.                                     *)
LEMMA RunCallbackSound ==
  ASSUME ProgressInv, RunCallback
  PROVE  ProgressInv'
<1>1. callbacks' \in Seq(SoundCallback) /\ UNCHANGED <<db, jobs, earned, requests, enters, failures>>
  BY CallingType DEF RunCallback, OnLoaded, OnTurnedIn, OnAppraised, Calling, bounds
<1>2. player' \in [Conn -> SoundPlayer \cup {None}]
  <2>1. player \in [Conn -> SoundPlayer \cup {None}]
    BY DEF ProgressInv
  <2>2. ASSUME NEW c \in Conn, NEW value \in SoundPlayer \cup {None},
               player' = [player EXCEPT ![c] = value]
        PROVE  player' \in [Conn -> SoundPlayer \cup {None}]
    BY <2>1, <2>2
  <2>3. ASSUME NEW c \in Conn, NEW row \in SoundRow, player[c] # None,
               player' = [player EXCEPT ![c] = [player[c] EXCEPT !.row = row]]
        PROVE  player' \in [Conn -> SoundPlayer \cup {None}]
    <3> DEFINE changed == [player[c] EXCEPT !.row = row]
    <3>1. changed \in SoundPlayer
      BY <2>1, <2>3, NewRowSound
    <3> HIDE DEF changed
    <3>2. player' = [player EXCEPT ![c] = changed]
      BY <2>3, Zenon DEF changed
    <3> QED BY <2>2, <3>1, <3>2
  <2> QED BY <2>1, <2>2, <2>3, CallbackEffect
<1>3. overtaken' \subseteq Char
  <2>1. Calling("loaded") => Head(callbacks).char \in Char
    <3> SUFFICES ASSUME Calling("loaded") PROVE Head(callbacks).char \in Char
      OBVIOUS
    <3>1. Head(callbacks) \in LoadedCallback
      BY CallingType, CallbackFields
    <3> HIDE DEF LoadedCallback
    <3> QED BY <3>1 DEF LoadedCallback
  <2> QED BY <2>1 DEF RunCallback, OnLoaded, OnTurnedIn, OnAppraised, ProgressInv
<1> QED BY <1>1, <1>2, <1>3 DEF ProgressInv

(* What the tick makes of a player whose class has constants.              *)
LEMMA Recalculated ==
  ASSUME NEW cached \in SoundPlayer
  PROVE  LET ticked == [RecalculateDerivedStats(cached) EXCEPT !.dirty = FALSE] IN
           /\ ticked \in SoundPlayer /\ ticked.row = cached.row
           /\ StatusClass(JobId) \in DOMAIN ClassStats => ticked.derived = DerivedStats(cached.row)
<1> DEFINE derived == IF StatusClass(JobId) \in DOMAIN ClassStats THEN DerivedStats(cached.row)
                                                                 ELSE cached.derived
<1>1. derived \in Nat
  BY DerivedType DEF SoundPlayer
<1>2. RecalculateDerivedStats(cached) = [cached EXCEPT !.derived = derived]
  BY DEF RecalculateDerivedStats
<1>3. StatusClass(JobId) \in DOMAIN ClassStats => derived = DerivedStats(cached.row)
  OBVIOUS
<1> HIDE DEF derived
<1> QED BY <1>1, <1>2, <1>3 DEF SoundPlayer

(* The tick keeps the invariant.                                           *)
LEMMA TickSound ==
  ASSUME ProgressInv, TickCharacter
  PROVE  ProgressInv'
<1> DEFINE ticked(c) == [RecalculateDerivedStats(player[c]) EXCEPT !.dirty = FALSE]
<1>1. player \in [Conn -> SoundPlayer \cup {None}]
  BY DEF ProgressInv
<1>2. \A c \in Conn : player[c] # None => ticked(c) \in SoundPlayer
  BY <1>1, Recalculated
<1>3. player' = [c \in Conn |-> IF player[c] # None /\ player[c].dirty THEN ticked(c) ELSE player[c]]
  BY DEF TickCharacter
<1> HIDE DEF ticked
<1>4. player' \in [Conn -> SoundPlayer \cup {None}]
  BY <1>1, <1>2, <1>3
<1> QED BY <1>4 DEF TickCharacter, ProgressInv, history, bounds

-----------------------------------------------------------------------------
(* Type correctness                                                        *)

(* At the start every row is the start row.                                *)
LEMMA ProgressInit == Init => ProgressInv
<1> SUFFICES ASSUME Init PROVE ProgressInv
  OBVIOUS
<1>1. StartRow \in SoundRow /\ StartRow.exp \in Nat /\ StartRow.level \in Nat
  BY StartRowSound, ConstantNats DEF SoundRow
<1> DEFINE worth == StartRow.exp + (StartRow.level - 1) * Need
<1>2. worth \in Int
  BY <1>1, ConstantNats
<1> HIDE DEF worth
<1>3. earned = [ch \in Char |-> worth]
  BY DEF Init, worth
<1>4. db = [ch \in Char |-> StartRow] /\ player = [c \in Conn |-> None]
  BY DEF Init
<1>5. jobs \in Seq(SoundJob) /\ callbacks \in Seq(SoundCallback)
  BY EmptySeq DEF Init
<1>6. requests \in 0..MaxRequests /\ enters \in 0..MaxEnters /\ failures \in 0..MaxFailures
  BY ConstantNats DEF Init
<1> QED BY <1>1, <1>2, <1>3, <1>4, <1>5, <1>6 DEF Init, ProgressInv

(* Every step keeps the invariant.                                         *)
LEMMA ProgressNext == ProgressInv /\ [Next]_vars => ProgressInv'
<1> SUFFICES ASSUME ProgressInv, [Next]_vars PROVE ProgressInv'
  OBVIOUS
<1>1. ASSUME NEW c \in Conn, Handle(c) PROVE ProgressInv'
  BY <1>1, HandleSound
<1>2. CASE RunJob
  BY <1>2, RunJobSound
<1>3. CASE Crash
  <2>1. failures' \in 0..MaxFailures
    BY <1>3, ConstantNats DEF Crash, ProgressInv
  <2>2. jobs' \in Seq(SoundJob) /\ callbacks' \in Seq(SoundCallback)
    BY <1>3, EmptySeq DEF Crash
  <2> QED BY <1>3, <2>1, <2>2 DEF Crash, ProgressInv, history
<1>4. CASE RunCallback
  BY <1>4, RunCallbackSound
<1>5. CASE TickCharacter
  BY <1>5, TickSound
<1>6. CASE UNCHANGED vars
  BY <1>6 DEF vars, history, bounds, ProgressInv
<1> QED BY <1>1, <1>2, <1>3, <1>4, <1>5, <1>6 DEF Next

-----------------------------------------------------------------------------
(* The slots with a row                                                    *)

\* What is known of the rows beside their contents: an item lies in a slot that
\* has a row, and where every slot has one from the start no guard is passed over.
SlateInv ==
  /\ stored \in [Char -> SUBSET Slot]
  /\ wages \in [Char -> Nat] /\ unguarded \subseteq Char
  /\ \A ch \in Char, s \in Slot : db[ch].bag[s] # None => s \in stored[ch]
  /\ StartStored = Slot => unguarded = {} /\ \A ch \in Char : stored[ch] = Slot

(* Where an item lies, a save compares it with its snapshot.               *)
LEMMA Compared ==
  ASSUME SlateInv, NEW job, job.char \in Char, NEW s \in Slot, SlotMatches(job, s),
         db[job.char].bag[s] # None
  PROVE  db[job.char].bag[s] = job.row.bag[s]
BY DEF SlateInv, SlotMatches

(* Only three kinds of job write rows.                                     *)
LEMMA OtherSteps ==
  ASSUME [Next]_vars
  PROVE  RunStatement \/ RunQuest \/ RunAppraise \/ UNCHANGED <<db, slate>>
<1>1. ASSUME NEW c \in Conn, Handle(c) PROVE UNCHANGED <<db, slate>>
  BY <1>1 DEF Handle, HandleEnter, HandleCgExit, HandleAttackToCreature, HandleLevelUpCheck,
              HandleCharStatusUp, HandleCharSkillUpEx, HandleQuestResult,
              HandleItemConfirmNpcRequest, Request
<1>2. ASSUME RunLoad \/ JobThrows \/ Crash \/ RunCallback \/ TickCharacter \/ UNCHANGED vars
      PROVE  UNCHANGED <<db, slate>>
  BY <1>2 DEF RunLoad, JobThrows, Crash, RunCallback, OnLoaded, OnTurnedIn, OnAppraised, Calling,
              TickCharacter, vars
<1> QED BY <1>1, <1>2 DEF Next, RunJob

(* What a quest's job leaves, if it is not refused.                        *)
LEMMA QuestStep ==
  ASSUME ProgressInv, RunQuest
  PROVE  LET job == Head(jobs) IN
           /\ job \in QuestJob /\ job.char \in Char
           /\ \/ UNCHANGED <<db, slate>>
              \/ /\ TryClaimFlag(db[job.char], job.quest)
                 /\ db' = [db EXCEPT ![job.char] = Rewarded(db[job.char], job)]
                 /\ StoreSlots(job, Granted(job))
                 /\ wages' = [wages EXCEPT ![job.char] = wages[job.char] + Wage(job.quest)]
<1>1. Head(jobs) \in QuestJob /\ Head(jobs).char \in Char
  BY RunningType, JobFields DEF RunQuest
<1> QED BY <1>1 DEF RunQuest

(* What an appraisal leaves, if anything lands.                            *)
LEMMA AppraisalStep ==
  ASSUME ProgressInv, RunAppraise
  PROVE  LET job == Head(jobs) IN
           /\ job \in AppraiseJob /\ job.char \in Char
           /\ \/ UNCHANGED <<db, slate>>
              \/ \E landed \in SUBSET job.slots :
                   /\ \A s \in landed : SlotMatches(job, s)
                   /\ Cardinality(landed) * Fee <= db[job.char].money
                   /\ db' = [db EXCEPT ![job.char] = Appraised(db[job.char], job, landed)]
                   /\ StoreSlots(job, landed)
                   /\ wages' = wages
<1>1. Head(jobs) \in AppraiseJob /\ Head(jobs).char \in Char
  BY RunningType, JobFields DEF RunAppraise
<1> DEFINE job == Head(jobs)
<1>2. PICK landed \in Appraisals(job) :
        IF landed # {} /\ Cardinality(landed) * Fee <= db[job.char].money
          THEN /\ db' = [db EXCEPT ![job.char] = Appraised(@, job, landed)]
               /\ StoreSlots(job, landed)
          ELSE UNCHANGED <<db, stored, unguarded>>
  BY DEF RunAppraise
<1>3. landed \in SUBSET job.slots /\ \A s \in landed : SlotMatches(job, s)
  BY DEF Appraisals
<1>4. wages' = wages
  BY DEF RunAppraise
<1>5. CASE UNCHANGED <<db, stored, unguarded>>
  BY <1>1, <1>4, <1>5 DEF slate
<1>6. CASE /\ Cardinality(landed) * Fee <= db[job.char].money
           /\ db' = [db EXCEPT ![job.char] = Appraised(db[job.char], job, landed)]
           /\ StoreSlots(job, landed)
  BY <1>1, <1>3, <1>4, <1>6
<1> QED BY <1>2, <1>5, <1>6

\* A save that lands in some slots of a character.
Lands(job, landed, row) ==
  /\ job.char \in Char /\ landed \in SUBSET Slot
  /\ StoreSlots(job, landed)
  /\ db' = [db EXCEPT ![job.char] = row]
  /\ \A s \in Slot : s \notin landed => row.bag[s] = db[job.char].bag[s]
  /\ wages' \in [Char -> Nat]

(* The slots a step stores have rows, and only they are new in the bag.    *)
LEMMA StoreKeepsSlate ==
  ASSUME ProgressInv, SlateInv, NEW job, NEW landed, NEW row, Lands(job, landed, row)
  PROVE  SlateInv'
<1> USE DEF Lands
<1>1. /\ stored \in [Char -> SUBSET Slot] /\ unguarded \subseteq Char
      /\ stored' = [stored EXCEPT ![job.char] = stored[job.char] \cup landed]
  BY DEF SlateInv, StoreSlots
<1>2. stored' \in [Char -> SUBSET Slot] /\ unguarded' \subseteq Char
  BY <1>1 DEF StoreSlots
<1>3. ASSUME NEW ch \in Char, NEW s \in Slot, db'[ch].bag[s] # None PROVE s \in stored'[ch]
  <2>1. CASE ch = job.char
    <3>1. db'[ch] = row
      BY <2>1 DEF ProgressInv
    <3>2. s \in landed \/ db[ch].bag[s] # None
      BY <1>3, <2>1, <3>1
    <3> QED BY <1>1, <2>1, <3>2 DEF SlateInv
  <2>2. CASE ch # job.char
    BY <1>1, <1>3, <2>2 DEF SlateInv, ProgressInv
  <2> QED BY <2>1, <2>2
<1>4. StartStored = Slot => unguarded' = {} /\ \A ch \in Char : stored'[ch] = Slot
  BY <1>1 DEF SlateInv, StoreSlots
<1> QED BY <1>2, <1>3, <1>4 DEF SlateInv

(* At the start an item lies where there is a row.                         *)
LEMMA SlateInit == Init => SlateInv
BY ProgressAssumption DEF Init, SlateInv

(* Every step keeps it so.                                                 *)
LEMMA SlateNext == ProgressInv /\ SlateInv /\ [Next]_vars => SlateInv'
<1> SUFFICES ASSUME ProgressInv, SlateInv, [Next]_vars PROVE SlateInv'
  OBVIOUS
<1> DEFINE job == Head(jobs)
<1>1. CASE UNCHANGED <<db, slate>>
  BY <1>1 DEF SlateInv, slate
<1>2. CASE RunStatement
  BY <1>2, RunStatementSound DEF RunStatement, SlateInv, slate
<1>3. ASSUME job \in QuestJob, job.char \in Char,
             db' = [db EXCEPT ![job.char] = Rewarded(db[job.char], job)],
             StoreSlots(job, Granted(job)),
             wages' = [wages EXCEPT ![job.char] = wages[job.char] + Wage(job.quest)]
      PROVE  SlateInv'
  <2> DEFINE landed == Granted(job)
             row == Rewarded(db[job.char], job)
  <2>1. landed \in SUBSET Slot
    BY <1>3, RewardSound
  <2>2. db[job.char] \in SoundRow
    BY <1>3 DEF ProgressInv
  <2>3. row.bag = [s \in Slot |-> IF s \in landed THEN Reward(job, s) ELSE db[job.char].bag[s]]
    <3> DEFINE before == db[job.char]
    <3> HIDE DEF before
    <3>1. before \in SoundRow
      BY <2>2 DEF before
    <3>2. Rewarded(before, job).bag =
            [s \in Slot |-> IF s \in Granted(job) THEN Reward(job, s) ELSE before.bag[s]]
      BY <1>3, <3>1, RewardedSound
    <3> QED BY <3>2 DEF before
  <2>4. Wage(job.quest) \in Nat
    BY <1>3, QuestFields DEF Wage, QuestJob
  <2>5. wages' \in [Char -> Nat]
    BY <1>3, <2>4 DEF SlateInv
  <2> HIDE DEF landed, row
  <2>6. StoreSlots(job, landed) /\ db' = [db EXCEPT ![job.char] = row]
    BY <1>3 DEF landed, row
  <2>7. \A s \in Slot : s \notin landed => row.bag[s] = db[job.char].bag[s]
    BY <2>3
  <2> HIDE DEF job
  <2>8. Lands(job, landed, row)
    BY <1>3, <2>1, <2>5, <2>6, <2>7 DEF Lands
  <2> QED BY <2>8, StoreKeepsSlate
<1>4. ASSUME job \in AppraiseJob, job.char \in Char, NEW landed \in SUBSET job.slots,
             Cardinality(landed) * Fee <= db[job.char].money,
             db' = [db EXCEPT ![job.char] = Appraised(db[job.char], job, landed)],
             StoreSlots(job, landed), wages' = wages
      PROVE  SlateInv'
  <2> DEFINE row == Appraised(db[job.char], job, landed)
  <2>1. landed \in SUBSET Slot
    BY <1>4 DEF AppraiseJob
  <2>2. db[job.char] \in SoundRow
    BY <1>4 DEF ProgressInv
  <2>3. row.bag = [s \in Slot |-> IF s \in landed THEN RollOptionBits(job.row.bag[s])
                                  ELSE db[job.char].bag[s]]
    <3> DEFINE before == db[job.char]
    <3> HIDE DEF before
    <3>1. before \in SoundRow /\ Cardinality(landed) * Fee <= before.money
      BY <1>4, <2>2 DEF before
    <3>2. Appraised(before, job, landed).bag =
            [s \in Slot |-> IF s \in landed THEN RollOptionBits(job.row.bag[s]) ELSE before.bag[s]]
      BY <1>4, <3>1, AppraisedSound
    <3> QED BY <3>2 DEF before
  <2> HIDE DEF row
  <2>4. db' = [db EXCEPT ![job.char] = row]
    BY <1>4 DEF row
  <2>5. \A s \in Slot : s \notin landed => row.bag[s] = db[job.char].bag[s]
    BY <2>3
  <2>6. wages' \in [Char -> Nat]
    BY <1>4 DEF SlateInv
  <2> HIDE DEF job
  <2>7. Lands(job, landed, row)
    BY <1>4, <2>1, <2>4, <2>5, <2>6 DEF Lands
  <2> QED BY <2>7, StoreKeepsSlate
<1>5. CASE RunQuest
  BY <1>1, <1>3, <1>5, QuestStep
<1>6. CASE RunAppraise
  <2>1. job \in AppraiseJob /\ job.char \in Char
    BY <1>6, AppraisalStep
  <2>2. \/ UNCHANGED <<db, slate>>
        \/ \E landed \in SUBSET job.slots :
             /\ Cardinality(landed) * Fee <= db[job.char].money
             /\ db' = [db EXCEPT ![job.char] = Appraised(db[job.char], job, landed)]
             /\ StoreSlots(job, landed)
             /\ wages' = wages
    BY <1>6, AppraisalStep
  <2> HIDE DEF job
  <2> QED BY <1>1, <1>4, <2>1, <2>2
<1> QED BY <1>1, <1>2, <1>5, <1>6, OtherSteps

(* No points below zero.                                                   *)
LEMMA SoundIsTyped ==
  /\ SoundRow \subseteq Row /\ SoundPlayer \subseteq Player
  /\ SoundJob \subseteq Job /\ SoundCallback \subseteq Callback
<1>1. SoundItem \subseteq Item /\ 0..MaxLevel \subseteq Nat
  BY ConstantNats DEF SoundItem
<1>2. SoundRow \subseteq Row
  BY <1>1 DEF SoundRow, Row
<1>3. SoundPlayer \subseteq Player
  BY <1>2 DEF SoundPlayer, Player
<1>4. SoundJob \subseteq Job
  <2>1. LoadJob \subseteq Job
    BY DEF LoadJob, Job
  <2>2. SaveJob \subseteq Job
    BY <1>2 DEF SaveJob, Job
  <2>3. QuestJob \subseteq Job
    BY <1>2 DEF QuestJob, Job
  <2>4. AppraiseJob \subseteq Job
    BY <1>2 DEF AppraiseJob, Job
  <2> QED BY <2>1, <2>2, <2>3, <2>4 DEF SoundJob
<1>5. SoundCallback \subseteq Callback
  <2>1. LoadedCallback \subseteq Callback
    BY <1>2 DEF LoadedCallback, Callback
  <2>2. QuestCallback \subseteq Callback
    BY <1>2 DEF QuestCallback, Callback
  <2>3. AppraisedCallback \subseteq Callback
    BY <1>2 DEF AppraisedCallback, Callback
  <2> QED BY <2>1, <2>2, <2>3 DEF SoundCallback
<1> QED BY <1>2, <1>3, <1>4, <1>5

(* Nothing is ever spent that is not there: no handler, from however stale *)
(* a cache, leaves a balance, experience or points below zero.             *)
THEOREM ProgressTypeCorrect == Spec => []TypeOK
<1>1. ProgressInv /\ SlateInv => TypeOK
  <2> SUFFICES ASSUME ProgressInv, SlateInv PROVE TypeOK
    OBVIOUS
  <2>1. jobs \in Seq(Job) /\ callbacks \in Seq(Callback)
    BY SoundIsTyped, SeqMonotonic DEF ProgressInv
  <2>2. db \in [Char -> Row] /\ player \in [Conn -> Player \cup {None}]
    BY SoundIsTyped DEF ProgressInv
  <2> QED BY <2>1, <2>2 DEF ProgressInv, SlateInv, TypeOK
<1> QED BY <1>1, ProgressInit, ProgressNext, SlateInit, SlateNext, PTL DEF Spec

-----------------------------------------------------------------------------
(* Derived stats                                                           *)

\* A player flagged for the next tick, or with the stats of its row.
Current(cached) == cached.dirty \/ cached.derived = DerivedStats(cached.row)

(* Only the level and the stat count.                                      *)
LEMMA SameStats ==
  ASSUME NEW cached \in SoundPlayer, Current(cached), NEW row \in SoundRow,
         row.stat = cached.row.stat, row.level = cached.row.level
  PROVE  Current([cached EXCEPT !.row = row])
<1> DEFINE changed == [cached EXCEPT !.row = row]
<1>1. changed.row = row /\ changed.dirty = cached.dirty /\ changed.derived = cached.derived
  BY DEF SoundPlayer
<1>2. DerivedStats(row) = DerivedStats(cached.row)
  BY DEF DerivedStats
<1> HIDE DEF changed
<1>3. Current(changed)
  BY <1>1, <1>2 DEF Current
<1> QED BY <1>3 DEF changed

(* What a request can make of the players.                                 *)
LEMMA HandleEffect ==
  ASSUME ProgressInv, NEW c \in Conn, Handle(c)
  PROVE  \/ player' = player
         \/ player' = [player EXCEPT ![c] = None]
         \/ \E changed \in SoundPlayer : changed.dirty /\ player' = [player EXCEPT ![c] = changed]
         \/ \E row \in SoundRow :
              /\ player[c] # None
              /\ row.stat = player[c].row.stat /\ row.level = player[c].row.level
              /\ player' = [player EXCEPT ![c] = [player[c] EXCEPT !.row = row]]
<1> DEFINE old == player[c].row
<1>a. ASSUME NEW kind, Request(c, kind)
      PROVE  player[c] # None /\ player[c] \in SoundPlayer /\ old \in SoundRow
  BY <1>a DEF Request, ProgressInv, SoundPlayer
<1>b. ASSUME player[c] \in SoundPlayer, NEW row \in SoundRow,
             player' = [player EXCEPT ![c] = MarkDirty([player[c] EXCEPT !.row = row])]
      PROVE  \E changed \in SoundPlayer : changed.dirty /\ player' = [player EXCEPT ![c] = changed]
  <2> DEFINE changed == MarkDirty([player[c] EXCEPT !.row = row])
  <2>1. changed \in SoundPlayer
    BY <1>b, NewRowSound
  <2>2. changed.dirty
    BY <1>b DEF MarkDirty, SoundPlayer
  <2> HIDE DEF changed
  <2> QED BY <1>b, <2>1, <2>2 DEF changed
<1>1. ASSUME NEW ch \in Char, HandleEnter(c, ch) PROVE player' = player
  BY <1>1 DEF HandleEnter
<1>2. CASE HandleCgExit(c)
  BY <1>2 DEF HandleCgExit
<1>3. CASE HandleAttackToCreature(c)
  <2> DEFINE row == [old EXCEPT !.exp = old.exp + 1]
  <2>1. player[c] # None /\ old \in SoundRow
    BY <1>3, <1>a DEF HandleAttackToCreature
  <2>2. player' = [player EXCEPT ![c] = [player[c] EXCEPT !.row = row]]
    BY <1>3 DEF HandleAttackToCreature, CacheAndSave
  <2>3. row \in SoundRow
    BY <2>1, CachedRowSound
  <2>4. row.stat = old.stat /\ row.level = old.level
    BY <2>1 DEF SoundRow
  <2> HIDE DEF row
  <2> QED BY <2>1, <2>2, <2>3, <2>4
<1>4. CASE HandleLevelUpCheck(c)
  <2> DEFINE row == LevelUp(old, LevelsPaid(old))
  <2>1. player[c] \in SoundPlayer /\ row \in SoundRow
    BY <1>4, <1>a, CachedRowSound DEF HandleLevelUpCheck
  <2>2. \/ player' = player
        \/ player' = [player EXCEPT ![c] = MarkDirty([player[c] EXCEPT !.row = row])]
    BY <1>4 DEF HandleLevelUpCheck, CacheAndSave
  <2> HIDE DEF row
  <2> QED BY <1>b, <2>1, <2>2
<1>5. ASSUME NEW n \in 1..2, HandleCharStatusUp(c, n)
      PROVE  \/ player' = player
             \/ \E changed \in SoundPlayer :
                  changed.dirty /\ player' = [player EXCEPT ![c] = changed]
  <2> DEFINE row == RaiseStat(old, n)
  <2>1. player[c] \in SoundPlayer /\ old \in SoundRow
    BY <1>5, <1>a DEF HandleCharStatusUp
  <2>2. Allocatable(old, n) => row \in SoundRow
    <3>1. n \in Nat
      OBVIOUS
    <3> HIDE DEF old
    <3> QED BY <2>1, <3>1, CachedRowSound
  <2>3. \/ player' = player
        \/ /\ Allocatable(old, n)
           /\ player' = [player EXCEPT ![c] = MarkDirty([player[c] EXCEPT !.row = row])]
    BY <1>5 DEF HandleCharStatusUp, CacheAndSave
  <2> HIDE DEF row
  <2> QED BY <1>b, <2>1, <2>2, <2>3
<1>6. ASSUME NEW n \in 1..MaxSkill, NEW more \in 0..MaxSkill, HandleCharSkillUpEx(c, n, more)
      PROVE  \/ player' = player
             \/ \E row \in SoundRow :
                  /\ player[c] # None
                  /\ row.stat = player[c].row.stat /\ row.level = player[c].row.level
                  /\ player' = [player EXCEPT ![c] = [player[c] EXCEPT !.row = row]]
  <2> DEFINE row == SkillUp(old, n, more)
  <2>1. player[c] # None /\ old \in SoundRow
    BY <1>6, <1>a DEF HandleCharSkillUpEx
  <2>2. SkillUpAllowed(old, n, more) => row \in SoundRow
    <3>1. n \in Nat /\ more \in Nat
      BY ConstantNats
    <3> HIDE DEF old
    <3> QED BY <2>1, <3>1, CachedRowSound
  <2>3. row.stat = old.stat /\ row.level = old.level
    <3> HIDE DEF old
    <3> QED BY <2>1 DEF SkillUp, SoundRow
  <2>4. \/ player' = player
        \/ /\ SkillUpAllowed(old, n, more)
           /\ player' = [player EXCEPT ![c] = [player[c] EXCEPT !.row = row]]
    BY <1>6 DEF HandleCharSkillUpEx, CacheAndSave
  <2> HIDE DEF row
  <2> QED BY <2>1, <2>2, <2>3, <2>4
<1>7. ASSUME NEW q \in Quest, HandleQuestResult(c, q) PROVE player' = player
  BY <1>7 DEF HandleQuestResult
<1>8. ASSUME NEW slots \in SUBSET Slot, HandleItemConfirmNpcRequest(c, slots)
      PROVE  player' = player
  BY <1>8 DEF HandleItemConfirmNpcRequest
<1> QED BY <1>1, <1>2, <1>3, <1>4, <1>5, <1>6, <1>7, <1>8, Zenon DEF Handle

(* Every step keeps every player current.                                  *)
LEMMA CurrentNext ==
  ASSUME StatusClass(JobId) \in DOMAIN ClassStats, ProgressInv, [Next]_vars,
         NEW d \in Conn, player[d] # None => Current(player[d])
  PROVE  player'[d] # None => Current(player'[d])
<1>0. player \in [Conn -> SoundPlayer \cup {None}]
  BY DEF ProgressInv
<1>1. ASSUME player' = player PROVE player'[d] # None => Current(player'[d])
  BY <1>1
<1>2. ASSUME NEW c \in Conn, player' = [player EXCEPT ![c] = None]
      PROVE  player'[d] # None => Current(player'[d])
  BY <1>0, <1>2
<1>3. ASSUME NEW c \in Conn, NEW changed \in SoundPlayer, changed.dirty,
             player' = [player EXCEPT ![c] = changed]
      PROVE  player'[d] # None => Current(player'[d])
  BY <1>0, <1>3 DEF Current
<1>4. ASSUME NEW c \in Conn, NEW row \in SoundRow, player[c] # None,
             row.stat = player[c].row.stat, row.level = player[c].row.level,
             player' = [player EXCEPT ![c] = [player[c] EXCEPT !.row = row]]
      PROVE  player'[d] # None => Current(player'[d])
  <2> DEFINE changed == [player[c] EXCEPT !.row = row]
  <2>1. player[c] \in SoundPlayer
    BY <1>0, <1>4
  <2>2. Current(player[c]) => Current(changed)
    BY <1>4, <2>1, SameStats
  <2>3. player' = [player EXCEPT ![c] = changed]
    BY <1>4, Zenon
  <2> HIDE DEF changed
  <2>4. player'[d] = IF d = c THEN changed ELSE player[d]
    BY <1>0, <2>3
  <2> QED BY <1>4, <2>2, <2>4
<1>5. CASE TickCharacter
  <2> DEFINE ticked == [RecalculateDerivedStats(player[d]) EXCEPT !.dirty = FALSE]
  <2>1. player[d] # None => ticked.row = player[d].row /\ ticked.derived = DerivedStats(player[d].row)
    BY <1>0, Recalculated
  <2>2. player'[d] = IF player[d] # None /\ player[d].dirty THEN ticked ELSE player[d]
    BY <1>5 DEF TickCharacter
  <2> HIDE DEF ticked
  <2> QED BY <2>1, <2>2 DEF Current
<1>6. CASE RunJob
  <2>1. player' = player
    BY <1>6 DEF RunJob, RunLoad, RunStatement, RunQuest, RunAppraise, JobThrows, Running
  <2> QED BY <1>1, <2>1
<1>7. CASE Crash
  BY <1>7 DEF Crash
<1>8. ASSUME NEW c \in Conn, Handle(c) PROVE player'[d] # None => Current(player'[d])
  BY <1>1, <1>2, <1>3, <1>4, <1>8, HandleEffect
<1>9. CASE RunCallback
  BY <1>1, <1>2, <1>3, <1>4, <1>9, CallbackEffect
<1>10. CASE UNCHANGED vars
  BY <1>1, <1>10 DEF vars
<1> QED BY <1>5, <1>6, <1>7, <1>8, <1>9, <1>10 DEF Next

(* Whatever levels, stats, quests and appraisals interleave, no player is  *)
(* left with stats of an older row that the tick would skip.               *)
THEOREM DerivedStatsFollowCorrect ==
  ASSUME StatusClass(JobId) \in DOMAIN ClassStats
  PROVE  Spec => []DerivedStatsFollow
<1> DEFINE AllCurrent == \A c \in Conn : player[c] # None => Current(player[c])
<1>1. Init => AllCurrent
  BY DEF Init
<1>2. ProgressInv /\ AllCurrent /\ [Next]_vars => AllCurrent'
  <2> SUFFICES ASSUME ProgressInv, AllCurrent, [Next]_vars, NEW d \in Conn
               PROVE  player'[d] # None => Current(player'[d])
    BY DEF Current
  <2> QED BY CurrentNext
<1>3. AllCurrent => DerivedStatsFollow
  BY DEF DerivedStatsFollow, Current
<1> QED BY <1>1, <1>2, <1>3, ProgressInit, ProgressNext, PTL DEF Spec

-----------------------------------------------------------------------------
(* Items                                                                   *)

\* What ItemsStay says of a slot.
Stays(item, after) ==
  item # None =>
    /\ after # None
    /\ after.from = item.from /\ after.count >= item.count
    /\ item.option = "rolled" => after.option = "rolled"

(* A quest's reward lands on what its snapshot held, or nowhere.           *)
LEMMA RewardedStays ==
  ASSUME ProgressInv, SlateInv, NEW job \in QuestJob, NEW s \in Slot, job.char \in Char
  PROVE  Stays(db[job.char].bag[s], Rewarded(db[job.char], job).bag[s])
<1> DEFINE row == db[job.char]
<1>1. row \in SoundRow
  BY DEF ProgressInv
<1>2. Rewarded(row, job).bag[s] = IF s \in Granted(job) THEN Reward(job, s) ELSE row.bag[s]
  <2> HIDE DEF row
  <2>1. Rewarded(row, job).bag =
          [t \in Slot |-> IF t \in Granted(job) THEN Reward(job, t) ELSE row.bag[t]]
    BY <1>1, RewardedSound
  <2> QED BY <2>1
<1>3. row.bag[s] \in SoundItem \cup {None}
  BY <1>1 DEF SoundRow
<1>4. None \notin Item
  BY ProgressAssumption
<1>5. s \in Granted(job) =>
        /\ Reward(job, s) \in SoundItem
        /\ row.bag[s] # None => row.bag[s] = job.row.bag[s]
        /\ job.row.bag[s] # None =>
             /\ Reward(job, s).from = job.row.bag[s].from
             /\ Reward(job, s).count >= job.row.bag[s].count
             /\ job.row.bag[s].option = "none"
  BY RewardSound, Compared
<1> HIDE DEF row
<1>6. Stays(row.bag[s], Rewarded(row, job).bag[s])
  BY <1>2, <1>3, <1>4, <1>5 DEF Stays, SoundItem, Item
<1> QED BY <1>6 DEF row

(* An appraisal rolls what its snapshot held, or nothing.                  *)
LEMMA AppraisedStays ==
  ASSUME ProgressInv, SlateInv, NEW job \in AppraiseJob, NEW s \in Slot, job.char \in Char,
         NEW landed \in SUBSET job.slots, \A t \in landed : SlotMatches(job, t),
         Cardinality(landed) * Fee <= db[job.char].money
  PROVE  Stays(db[job.char].bag[s], Appraised(db[job.char], job, landed).bag[s])
<1> DEFINE row == db[job.char]
           after == Appraised(row, job, landed).bag[s]
           rolled == RollOptionBits(job.row.bag[s])
<1>1. row \in SoundRow
  BY DEF ProgressInv
<1>2. after = IF s \in landed THEN rolled ELSE row.bag[s]
  <2>0. Cardinality(landed) * Fee <= row.money
    OBVIOUS
  <2> HIDE DEF row
  <2>1. Appraised(row, job, landed).bag =
          [t \in Slot |-> IF t \in landed THEN RollOptionBits(job.row.bag[t]) ELSE row.bag[t]]
    BY <1>1, <2>0, AppraisedSound
  <2> QED BY <2>1
<1>3. row.bag[s] \in SoundItem \cup {None}
  BY <1>1 DEF SoundRow
<1>4. None \notin Item
  BY ProgressAssumption
<1>5. s \in landed =>
        /\ rolled \in SoundItem
        /\ row.bag[s] # None => row.bag[s] = job.row.bag[s]
        /\ rolled.from = job.row.bag[s].from /\ rolled.count = job.row.bag[s].count
        /\ rolled.option = "rolled"
  BY RolledSound, Compared
<1> HIDE DEF row, rolled, after
<1>6. Stays(row.bag[s], after)
  BY <1>2, <1>3, <1>4, <1>5 DEF Stays, SoundItem, Item
<1> QED BY <1>6 DEF row, after

(* No step takes an item out of its slot.                                  *)
LEMMA StepStays ==
  ASSUME ProgressInv, SlateInv, [Next]_vars, NEW ch \in Char, NEW s \in Slot
  PROVE  Stays(db[ch].bag[s], db'[ch].bag[s])
<1>1. ASSUME db'[ch].bag = db[ch].bag PROVE Stays(db[ch].bag[s], db'[ch].bag[s])
  <2>1. db[ch].bag[s] \in SoundItem \cup {None}
    BY DEF ProgressInv, SoundRow
  <2> QED BY <1>1, <2>1 DEF Stays, SoundItem, Item
<1>2. CASE RunStatement
  BY <1>1, <1>2, RunStatementSound
<1>3. CASE RunQuest
  <2>1. Head(jobs) \in QuestJob
    BY <1>3, RunQuestSound
  <2>2. \A x \in Char : \/ db'[x] = db[x]
                        \/ x = Head(jobs).char /\ db'[x] = Rewarded(db[x], Head(jobs))
    BY <1>3, RunQuestSound
  <2> QED BY <1>1, <2>1, <2>2, RewardedStays
<1>4. CASE RunAppraise
  <2>1. Head(jobs) \in AppraiseJob
    BY <1>4, RunAppraiseSound
  <2>2. \/ db'[ch] = db[ch]
        \/ \E landed \in SUBSET Head(jobs).slots :
             /\ ch = Head(jobs).char
             /\ \A t \in landed : SlotMatches(Head(jobs), t)
             /\ Cardinality(landed) * Fee <= db[ch].money
             /\ db'[ch] = Appraised(db[ch], Head(jobs), landed)
    BY <1>4, RunAppraiseSound
  <2> QED BY <1>1, <2>1, <2>2, AppraisedStays
<1> QED BY <1>1, <1>2, <1>3, <1>4, OtherSteps

(* However many rewards and appraisals are worked out from one snapshot,   *)
(* none replaces what another has put into the bag.                        *)
THEOREM ItemsStayCorrect == Spec => ItemsStay
<1> DEFINE Kept == \A ch \in Char, s \in Slot :
             LET item == db[ch].bag[s]  after == db'[ch].bag[s] IN
               item # None =>
                 /\ after # None
                 /\ after.from = item.from /\ after.count >= item.count
                 /\ item.option = "rolled" => after.option = "rolled"
<1>1. ProgressInv /\ SlateInv /\ [Next]_vars => [Kept]_vars
  <2> SUFFICES ASSUME ProgressInv, SlateInv, [Next]_vars PROVE Kept
    OBVIOUS
  <2> QED BY StepStays DEF Stays
<1>2. Spec => [][Kept]_vars
  BY <1>1, ProgressInit, ProgressNext, SlateInit, SlateNext, PTL DEF Spec
<1> QED BY <1>2 DEF ItemsStay

-----------------------------------------------------------------------------
(* Rewards and fees                                                        *)

MoneyOf == [q \in Quest |-> QuestOf[q].money]

\* The flags a character has set since it was created.
Claimed(row) == row.flags \ StartRow.flags

\* The slots that hold something a quest gave.
Origin(row, q) == {s \in Slot : row.bag[s] # None /\ row.bag[s].from = q}

\* The money of one row, with what repeatable quests paid; a flag is never taken
\* back.
MoneyPaid(row, wage) ==
  /\ StartRow.flags \subseteq row.flags /\ IsFiniteSet(Claimed(row))
  /\ row.money + Cardinality(Rolled(row)) * Fee
       = StartRow.money + Cardinality(Rolled(StartRow)) * Fee + wage
         + SumOver(MoneyOf, Claimed(row))

\* The slots that land hold what the snapshot held, or nothing as it did.
Matched(job, landed) == \A s \in landed : db[job.char].bag[s] = job.row.bag[s]

(* What quests pay.                                                        *)
LEMMA MoneyType == MoneyOf \in [Quest -> Int]
BY QuestFields DEF MoneyOf

(* Only the bag, the money and the flags count.                            *)
LEMMA SamePaid ==
  ASSUME NEW row, NEW after, NEW wage,
         after.bag = row.bag, after.money = row.money, after.flags = row.flags
  PROVE  /\ MoneyPaid(row, wage) => MoneyPaid(after, wage)
         /\ RewardsInBag(row) => RewardsInBag(after)
<1>1. Rolled(after) = Rolled(row) /\ Claimed(after) = Claimed(row)
  BY DEF Rolled, Claimed
<1>2. \A q \in Quest : Origin(after, q) = Origin(row, q)
  BY DEF Origin
<1> QED BY <1>1, <1>2 DEF MoneyPaid, RewardsInBag, Origin

(* A write lands on what its snapshot held, or where nothing lies; on the   *)
(* snapshot's in any case unless its guard was passed over.                 *)
LEMMA LandsOn ==
  ASSUME SlateInv, NEW job, job.char \in Char, NEW landed \in SUBSET Slot,
         \A s \in landed : SlotMatches(job, s), StoreSlots(job, landed)
  PROVE  /\ unguarded \subseteq unguarded'
         /\ job.char \notin unguarded' => Matched(job, landed)
<1>1. unguarded \subseteq unguarded'
  BY DEF StoreSlots
<1>2. ASSUME job.char \notin unguarded', NEW s \in landed
      PROVE  db[job.char].bag[s] = job.row.bag[s]
  <2>1. s \in stored[job.char] \/ job.row.bag[s] = None
    BY <1>2 DEF StoreSlots
  <2>2. CASE s \in stored[job.char]
    BY <2>2 DEF SlotMatches
  <2>3. CASE s \notin stored[job.char]
    BY <2>1, <2>3 DEF SlateInv
  <2> QED BY <2>2, <2>3
<1> QED BY <1>1, <1>2 DEF Matched

(* Sets of slots are finite.                                               *)
LEMMA SlotsFinite ==
  ASSUME NEW T \in SUBSET Slot
  PROVE  IsFiniteSet(T) /\ Cardinality(T) \in Nat /\ Cardinality(T) * Fee \in Nat
<1>1. IsFiniteSet(T) /\ Cardinality(T) \in Nat
  BY FS_Subset, FS_CardinalityType, ProgressAssumption
<1> QED BY <1>1, ConstantNats, NatProduct

(* Nothing has been paid to a new character.                               *)
LEMMA StartPaid == MoneyPaid(StartRow, 0) /\ RewardsInBag(StartRow)
<1>1. Claimed(StartRow) = {}
  BY DEF Claimed
<1>2. SumOver(MoneyOf, {}) = 0
  BY MoneyType, SumEmpty
<1>3. StartRow.money \in Nat /\ Cardinality(Rolled(StartRow)) * Fee \in Nat
  BY StartRowSound, SlotsFinite DEF SoundRow, Rolled
<1>4. \A q \in Quest : Origin(StartRow, q) = {}
  BY ProgressAssumption DEF Origin
<1>5. StartRow.money + Cardinality(Rolled(StartRow)) * Fee
        = StartRow.money + Cardinality(Rolled(StartRow)) * Fee + 0
          + SumOver(MoneyOf, Claimed(StartRow))
  <2> DEFINE fees == Cardinality(Rolled(StartRow)) * Fee
             sum == SumOver(MoneyOf, Claimed(StartRow))
  <2>1. fees \in Nat /\ sum = 0 /\ StartRow.money \in Nat
    BY <1>1, <1>2, <1>3
  <2> HIDE DEF fees, sum
  <2>2. StartRow.money + fees = StartRow.money + fees + 0 + sum
    BY <2>1
  <2> QED BY <2>2 DEF fees, sum
<1>6. IsFiniteSet({}) /\ Cardinality({}) = 0
  BY FS_EmptySet
<1>7. RewardsInBag(StartRow)
  BY <1>4, <1>6 DEF RewardsInBag, Origin
<1> QED BY <1>1, <1>5, <1>6, <1>7 DEF MoneyPaid

(* A quest's job: the slot it writes, if none holds its reward already.    *)
LEMMA GrantedOnce ==
  ASSUME NEW job \in QuestJob, Granted(job) # {}, Matched(job, Granted(job)),
         \A s \in Slot : db[job.char].bag[s] # None => db[job.char].bag[s].from # job.quest
  PROVE  IsFiniteSet(Granted(job)) /\ Cardinality(Granted(job)) <= 1
<1> DEFINE stack == {s \in Slot : /\ QuestOf[job.quest].item = "stack"
                                  /\ job.row.bag[s] # None
                                  /\ job.row.bag[s].from = job.quest}
<1>1. \A s \in Granted(job) : s \in Slot /\ s \notin stack /\ s \in RewardSlot(job)
  BY DEF Granted, Matched, RewardSlot, FindFreeBagSlot
<1>2. RewardSlot(job) = IF stack # {} THEN stack ELSE FindFreeBagSlot(job.row)
  BY DEF RewardSlot
<1>3. Granted(job) \subseteq FindFreeBagSlot(job.row)
  BY <1>1, <1>2
<1>4. PICK s \in Granted(job) : TRUE
  OBVIOUS
<1>5. \A t \in FindFreeBagSlot(job.row) : t \in Nat /\ s <= t /\ t <= s /\ s \in Nat
  BY <1>3, <1>4, ProgressAssumption DEF FindFreeBagSlot
<1>6. Granted(job) = {s}
  BY <1>3, <1>4, <1>5
<1>7. IsFiniteSet({s}) /\ Cardinality({s}) = 1
  BY FS_Singleton
<1> QED BY <1>6, <1>7

(* A quest claims its flag, if it has one, and pays once for it, or every   *)
(* time if it has none.                                                     *)
LEMMA RewardedPaid ==
  ASSUME ProgressInv, SlateInv, NEW job \in QuestJob, job.char \in Char,
         MoneyPaid(db[job.char], wages[job.char]), TryClaimFlag(db[job.char], job.quest)
  PROVE  /\ MoneyPaid(Rewarded(db[job.char], job), wages[job.char] + Wage(job.quest))
         /\ Matched(job, Granted(job)) /\ RewardsInBag(db[job.char])
              => RewardsInBag(Rewarded(db[job.char], job))
<1> DEFINE row == db[job.char]
           q == job.quest
           after == Rewarded(row, job)
           once == QuestOf[q].once
           wage == wages[job.char]
<1>1. row \in SoundRow /\ q \in Quest /\ MoneyPaid(row, wage) /\ (once => q \notin row.flags)
  BY DEF ProgressInv, QuestJob, TryClaimFlag
<1>2. /\ after.flags = IF once THEN row.flags \cup {q} ELSE row.flags
      /\ after.money = row.money + QuestOf[q].money
      /\ after.bag = [s \in Slot |-> IF s \in Granted(job) THEN Reward(job, s) ELSE row.bag[s]]
  <2> HIDE DEF row
  <2> QED BY <1>1 DEF Rewarded, SoundRow
<1>3. None \notin Item /\ StartRow.flags \subseteq row.flags /\ IsFiniteSet(Claimed(row))
  BY <1>1, ProgressAssumption DEF MoneyPaid
<1>4. ASSUME NEW s \in Granted(job)
      PROVE  /\ s \in Slot /\ after.bag[s] # None
             /\ after.bag[s].from = q /\ after.bag[s].option # "rolled"
             /\ row.bag[s] # None => row.bag[s].from = q /\ row.bag[s].option # "rolled"
  <2>1. /\ s \in Slot /\ Reward(job, s) \in SoundItem
        /\ row.bag[s] # None => row.bag[s] = job.row.bag[s]
        /\ job.row.bag[s] # None => /\ Reward(job, s).from = job.row.bag[s].from
                                    /\ job.row.bag[s].option = "none"
    BY RewardSound, Compared
  <2>2. Reward(job, s).from = q /\ Reward(job, s).option # "rolled"
    BY DEF Reward
  <2>3. Reward(job, s) # None
    BY <1>3, <2>1 DEF SoundItem
  <2> HIDE DEF row, after
  <2> QED BY <1>2, <2>1, <2>2, <2>3
<1>5. \A s \in Slot : s \notin Granted(job) => after.bag[s] = row.bag[s]
  BY <1>2
<1>w. wage \in Nat /\ Wage(q) \in Nat /\ Wage(q) = IF once THEN 0 ELSE QuestOf[q].money
  BY <1>1, QuestFields DEF SlateInv, Wage
<1>g. Matched(job, Granted(job)) = \A s \in Granted(job) : row.bag[s] = job.row.bag[s]
  BY DEF Matched
<1> HIDE DEF row, after, once, wage
<1>6. Rolled(after) = Rolled(row)
  BY <1>4, <1>5 DEF Rolled
<1>7. IsFiniteSet(Claimed(after)) /\ StartRow.flags \subseteq after.flags
  <2>1. Claimed(after) = Claimed(row) \/ Claimed(after) = Claimed(row) \cup {q}
    BY <1>1, <1>2, <1>3 DEF Claimed
  <2>2. StartRow.flags \subseteq after.flags
    BY <1>2, <1>3
  <2> QED BY <1>3, <2>1, <2>2, FS_AddElement
<1>8. Wage(q) + SumOver(MoneyOf, Claimed(after))
        = SumOver(MoneyOf, Claimed(row)) + QuestOf[q].money
  <2>0. Claimed(row) \in SUBSET Quest /\ MoneyOf[q] = QuestOf[q].money
    BY <1>1 DEF Claimed, SoundRow, MoneyOf
  <2>1. SumOver(MoneyOf, Claimed(row)) \in Int /\ QuestOf[q].money \in Nat
    BY <1>1, <1>3, <2>0, MoneyType, SumType, QuestFields
  <2>2. CASE once
    <3>1. Claimed(after) = Claimed(row) \cup {q} /\ q \notin Claimed(row)
      BY <1>1, <1>2, <1>3, <2>2 DEF Claimed
    <3>2. SumOver(MoneyOf, Claimed(after)) = SumOver(MoneyOf, Claimed(row)) + QuestOf[q].money
      BY <1>1, <1>3, <2>0, <3>1, MoneyType, SumAdd
    <3> QED BY <1>w, <2>1, <2>2, <3>2
  <2>3. CASE ~once
    <3>1. Claimed(after) = Claimed(row)
      BY <1>2, <2>3 DEF Claimed
    <3> QED BY <1>w, <2>1, <2>3, <3>1
  <2> QED BY <2>2, <2>3
<1>9. after.money + Cardinality(Rolled(after)) * Fee
        = StartRow.money + Cardinality(Rolled(StartRow)) * Fee + (wage + Wage(q))
          + SumOver(MoneyOf, Claimed(after))
  <2> DEFINE fees == Cardinality(Rolled(row)) * Fee
             startFees == Cardinality(Rolled(StartRow)) * Fee
             sum == SumOver(MoneyOf, Claimed(row))
             sumAfter == SumOver(MoneyOf, Claimed(after))
             pay == QuestOf[q].money
             more == Wage(q)
             money == row.money
             startMoney == StartRow.money
  <2>1. fees \in Nat /\ startFees \in Nat /\ more \in Nat /\ wage \in Nat
    BY <1>w, SlotsFinite DEF Rolled
  <2>2. sum \in Int /\ sumAfter \in Int
    <3>1. Claimed(row) \in SUBSET Quest /\ Claimed(after) \in SUBSET Quest
      BY <1>1, <1>2 DEF Claimed, SoundRow
    <3> QED BY <1>3, <1>7, <3>1, MoneyType, SumType
  <2>3. money \in Nat /\ startMoney \in Nat /\ pay \in Nat
    BY <1>1, QuestFields, StartRowSound DEF SoundRow
  <2>4. money + fees = startMoney + startFees + wage + sum
    BY <1>1 DEF MoneyPaid
  <2>5. more + sumAfter = sum + pay /\ after.money = money + pay
    BY <1>2, <1>8
  <2> HIDE DEF fees, startFees, sum, sumAfter, pay, more, money, startMoney
  <2>6. (money + pay) + fees = startMoney + startFees + (wage + more) + sumAfter
    BY <2>1, <2>2, <2>3, <2>4, <2>5
  <2> QED BY <1>6, <2>5, <2>6 DEF fees, startFees, sumAfter, more, startMoney
<1>10. ASSUME Matched(job, Granted(job)), RewardsInBag(row), NEW p \in Quest, QuestOf[p].once
       PROVE  Cardinality(Origin(after, p)) <= 1 /\ (Origin(after, p) # {} => p \in after.flags)
  <2>0. \A r \in Quest : QuestOf[r].once =>
          Cardinality(Origin(row, r)) <= 1 /\ (Origin(row, r) # {} => r \in row.flags)
    BY <1>10 DEF RewardsInBag, Origin
  <2>1. CASE p # q
    <3>1. Origin(after, p) = Origin(row, p)
      BY <1>4, <1>5, <2>1 DEF Origin
    <3> QED BY <1>2, <1>10, <2>0, <3>1
  <2>2. CASE p = q
    <3>1. Origin(row, q) = {} /\ q \in after.flags
      BY <1>1, <1>2, <1>10, <2>0, <2>2 DEF once
    <3>2. Origin(after, q) = Granted(job)
      BY <1>4, <1>5, <3>1 DEF Origin
    <3>3. \A s \in Slot : db[job.char].bag[s] # None => db[job.char].bag[s].from # job.quest
      BY <3>1 DEF Origin, row
    <3>4. Cardinality(Granted(job)) <= 1
      <4>1. CASE Granted(job) = {}
        BY <4>1, FS_EmptySet
      <4>2. CASE Granted(job) # {}
        BY <1>10, <3>3, <4>2, GrantedOnce
      <4> QED BY <4>1, <4>2
    <3> QED BY <2>2, <3>1, <3>2, <3>4
  <2> QED BY <2>1, <2>2
<1>11. Matched(job, Granted(job)) /\ RewardsInBag(row) => RewardsInBag(after)
  BY <1>10 DEF RewardsInBag, Origin
<1>12. MoneyPaid(after, wage + Wage(q))
  BY <1>7, <1>9 DEF MoneyPaid
<1> QED BY <1>11, <1>12 DEF after, row, wage

(* An appraisal costs its fee for every item it rolls, none of which was.  *)
LEMMA AppraisedPaid ==
  ASSUME ProgressInv, SlateInv, NEW job \in AppraiseJob, job.char \in Char, NEW wage,
         MoneyPaid(db[job.char], wage), wage \in Nat,
         NEW landed \in SUBSET job.slots, \A t \in landed : SlotMatches(job, t),
         Cardinality(landed) * Fee <= db[job.char].money
  PROVE  /\ MoneyPaid(Appraised(db[job.char], job, landed), wage)
         /\ Matched(job, landed) /\ RewardsInBag(db[job.char])
              => RewardsInBag(Appraised(db[job.char], job, landed))
<1> DEFINE row == db[job.char]
           after == Appraised(row, job, landed)
<1>1. row \in SoundRow /\ MoneyPaid(row, wage) /\ landed \subseteq Slot
  BY DEF ProgressInv, AppraiseJob
<1>2. /\ after.flags = row.flags
      /\ after.money = row.money - Cardinality(landed) * Fee
      /\ after.bag = [s \in Slot |-> IF s \in landed THEN RollOptionBits(job.row.bag[s])
                                                    ELSE row.bag[s]]
  <2> HIDE DEF row
  <2> QED BY <1>1 DEF Appraised, SoundRow
<1>3. None \notin Item
  BY ProgressAssumption
<1>4. ASSUME NEW s \in landed
      PROVE  /\ s \in Slot /\ after.bag[s] # None /\ after.bag[s].option = "rolled"
             /\ after.bag[s].from = job.row.bag[s].from /\ job.row.bag[s] # None
             /\ row.bag[s] # None => row.bag[s].option # "rolled"
  <2>1. /\ s \in Slot /\ job.row.bag[s] \in SoundItem
        /\ RollOptionBits(job.row.bag[s]) \in SoundItem
        /\ RollOptionBits(job.row.bag[s]).from = job.row.bag[s].from
        /\ RollOptionBits(job.row.bag[s]).option = "rolled"
    BY RolledSound
  <2>2. /\ row.bag[s] # None => row.bag[s] = job.row.bag[s]
        /\ job.row.bag[s].option = "never"
    BY <2>1, Compared DEF AppraiseJob, NeverAppraised
  <2>3. job.row.bag[s] # None /\ RollOptionBits(job.row.bag[s]) # None
    BY <1>3, <2>1 DEF SoundItem
  <2> HIDE DEF row, after
  <2> QED BY <1>2, <2>1, <2>2, <2>3
<1>5. \A s \in Slot : s \notin landed => after.bag[s] = row.bag[s]
  BY <1>2
<1>g. Matched(job, landed) = \A s \in landed : row.bag[s] = job.row.bag[s]
  BY DEF Matched
<1>a. Cardinality(landed) * Fee <= row.money
  OBVIOUS
<1> HIDE DEF row, after
<1>6. Rolled(after) = Rolled(row) \cup landed /\ Rolled(row) \cap landed = {}
  BY <1>4, <1>5 DEF Rolled
<1>7. Cardinality(Rolled(after)) = Cardinality(Rolled(row)) + Cardinality(landed)
  <2>1. IsFiniteSet(Rolled(row)) /\ IsFiniteSet(landed)
    BY <1>1, SlotsFinite DEF Rolled
  <2>2. Cardinality(Rolled(row) \cup landed)
          = Cardinality(Rolled(row)) + Cardinality(landed) - Cardinality({})
    BY <1>6, <2>1, FS_Union
  <2>3. Cardinality(Rolled(row)) \in Nat /\ Cardinality(landed) \in Nat /\ Cardinality({}) = 0
    BY <2>1, FS_CardinalityType, FS_EmptySet
  <2> QED BY <1>6, <2>2, <2>3
<1>8. Claimed(after) = Claimed(row)
  BY <1>2 DEF Claimed
<1>9. after.money + Cardinality(Rolled(after)) * Fee = row.money + Cardinality(Rolled(row)) * Fee
  <2> DEFINE m == Cardinality(Rolled(row))
             n == Cardinality(landed)
  <2>1. m \in Nat /\ n \in Nat /\ row.money \in Nat /\ Fee \in Nat
    BY <1>1, SlotsFinite, ConstantNats DEF Rolled, SoundRow
  <2> HIDE DEF m, n
  <2>2. (m + n) * Fee = m * Fee + n * Fee /\ m * Fee \in Nat /\ n * Fee \in Nat
    BY <2>1
  <2>3. (row.money - n * Fee) + (m + n) * Fee = row.money + m * Fee
    <3> DEFINE a == m * Fee
               b == n * Fee
               money == row.money
    <3>1. a \in Nat /\ b \in Nat /\ money \in Nat
      BY <2>1, <2>2
    <3> HIDE DEF a, b, money
    <3>2. (money - b) + (a + b) = money + a
      BY <3>1
    <3> QED BY <2>2, <3>2 DEF a, b, money
  <2> QED BY <1>2, <1>7, <2>3 DEF m, n
<1>10. MoneyPaid(after, wage)
  BY <1>1, <1>2, <1>8, <1>9 DEF MoneyPaid
<1>11. ASSUME Matched(job, landed), RewardsInBag(row) PROVE RewardsInBag(after)
  <2>0. ASSUME NEW s \in Slot
        PROVE  /\ after.bag[s] # None <=> row.bag[s] # None
               /\ row.bag[s] # None => after.bag[s].from = row.bag[s].from
    <3>1. CASE s \in landed
      <4>1. row.bag[s] = job.row.bag[s]
        BY <1>11, <1>g, <3>1
      <4> QED BY <1>4, <3>1, <4>1
    <3>2. CASE s \notin landed
      BY <1>5, <3>2
    <3> QED BY <3>1, <3>2
  <2>1. \A p \in Quest : Origin(after, p) = Origin(row, p)
    BY <2>0 DEF Origin
  <2> QED BY <1>2, <1>11, <2>1 DEF RewardsInBag, Origin
<1> QED BY <1>10, <1>11 DEF row, after

\* PaidExactlyOnce of one character.
Paid(ch) ==
  MoneyPaid(db[ch], wages[ch]) /\ (ch \notin unguarded => RewardsInBag(db[ch]))

(* Nothing changes for a character whose rows are not written.             *)
LEMMA SameCharacter ==
  ASSUME NEW ch, Paid(ch), db'[ch] = db[ch], wages'[ch] = wages[ch], unguarded \subseteq unguarded'
  PROVE  Paid(ch)'
BY DEF Paid, MoneyPaid, RewardsInBag, Claimed, Rolled

(* Every step leaves every character paid for.                             *)
LEMMA StepPaid ==
  ASSUME ProgressInv, SlateInv, [Next]_vars, NEW ch \in Char, Paid(ch)
  PROVE  Paid(ch)'
<1> DEFINE job == Head(jobs)
           row == db[job.char]
<1>0. ASSUME NEW after, NEW wage, db'[ch] = after, wages'[ch] = wage, MoneyPaid(after, wage),
             ch \notin unguarded' => RewardsInBag(after)
      PROVE  Paid(ch)'
  BY <1>0 DEF Paid, MoneyPaid, RewardsInBag, Claimed, Rolled
<1>1. CASE UNCHANGED <<db, slate>>
  BY <1>1, SameCharacter DEF slate
<1>2. CASE RunStatement
  <2>1. /\ db'[ch].bag = db[ch].bag /\ db'[ch].money = db[ch].money
        /\ db'[ch].flags = db[ch].flags
    BY <1>2, RunStatementSound
  <2>2. wages' = wages /\ unguarded' = unguarded
    BY <1>2 DEF RunStatement, slate
  <2>3. /\ MoneyPaid(db'[ch], wages[ch])
        /\ ch \notin unguarded => RewardsInBag(db'[ch])
    BY <2>1, SamePaid DEF Paid
  <2> QED BY <1>0, <2>2, <2>3
<1>3. CASE RunQuest
  <2>1. job \in QuestJob /\ job.char \in Char
    BY <1>3, QuestStep
  <2>2. \/ UNCHANGED <<db, slate>>
        \/ /\ TryClaimFlag(row, job.quest)
           /\ db' = [db EXCEPT ![job.char] = Rewarded(row, job)]
           /\ StoreSlots(job, Granted(job))
           /\ wages' = [wages EXCEPT ![job.char] = wages[job.char] + Wage(job.quest)]
    BY <1>3, QuestStep
  <2>3. ASSUME TryClaimFlag(row, job.quest),
               db' = [db EXCEPT ![job.char] = Rewarded(row, job)],
               StoreSlots(job, Granted(job)),
               wages' = [wages EXCEPT ![job.char] = wages[job.char] + Wage(job.quest)]
        PROVE  Paid(ch)'
    <3>1. /\ unguarded \subseteq unguarded'
          /\ job.char \notin unguarded' => Matched(job, Granted(job))
      <4>1. \A s \in Granted(job) : s \in Slot /\ SlotMatches(job, s)
        BY <2>1, RewardSound
      <4> QED BY <2>1, <2>3, <4>1, LandsOn
    <3>2. CASE ch # job.char
      <4>1. db'[ch] = db[ch] /\ wages'[ch] = wages[ch]
        BY <2>3, <3>2 DEF ProgressInv, SlateInv
      <4> QED BY <3>1, <4>1, SameCharacter
    <3>3. CASE ch = job.char
      <4>1. /\ db'[ch] = Rewarded(row, job)
            /\ wages'[ch] = wages[job.char] + Wage(job.quest)
        BY <2>3, <3>3 DEF ProgressInv, SlateInv
      <4>2. MoneyPaid(row, wages[job.char]) /\ (ch \notin unguarded => RewardsInBag(row))
        BY <3>3 DEF Paid
      <4>3. /\ MoneyPaid(Rewarded(row, job), wages[job.char] + Wage(job.quest))
            /\ Matched(job, Granted(job)) /\ RewardsInBag(row) => RewardsInBag(Rewarded(row, job))
        BY <2>1, <2>3, <4>2, RewardedPaid
      <4>4. ch \notin unguarded' => RewardsInBag(Rewarded(row, job))
        BY <3>1, <3>3, <4>2, <4>3
      <4> HIDE DEF row, job
      <4> QED BY <1>0, <4>1, <4>3, <4>4
    <3> QED BY <3>2, <3>3
  <2> QED BY <1>1, <2>2, <2>3
<1>4. CASE RunAppraise
  <2>1. job \in AppraiseJob /\ job.char \in Char
    BY <1>4, AppraisalStep
  <2>2. \/ UNCHANGED <<db, slate>>
        \/ \E landed \in SUBSET job.slots :
             /\ \A s \in landed : SlotMatches(job, s)
             /\ Cardinality(landed) * Fee <= row.money
             /\ db' = [db EXCEPT ![job.char] = Appraised(row, job, landed)]
             /\ StoreSlots(job, landed)
             /\ wages' = wages
    BY <1>4, AppraisalStep
  <2>3. ASSUME NEW landed \in SUBSET job.slots, \A s \in landed : SlotMatches(job, s),
               Cardinality(landed) * Fee <= row.money,
               db' = [db EXCEPT ![job.char] = Appraised(row, job, landed)],
               StoreSlots(job, landed), wages' = wages
        PROVE  Paid(ch)'
    <3>1. /\ unguarded \subseteq unguarded'
          /\ job.char \notin unguarded' => Matched(job, landed)
      <4>1. landed \in SUBSET Slot
        BY <2>1 DEF AppraiseJob
      <4> QED BY <2>1, <2>3, <4>1, LandsOn
    <3>2. CASE ch # job.char
      <4>1. db'[ch] = db[ch] /\ wages'[ch] = wages[ch]
        BY <2>3, <3>2 DEF ProgressInv
      <4> QED BY <3>1, <4>1, SameCharacter
    <3>3. CASE ch = job.char
      <4>1. db'[ch] = Appraised(row, job, landed) /\ wages'[ch] = wages[job.char]
        BY <2>3, <3>3 DEF ProgressInv
      <4>2. /\ MoneyPaid(row, wages[job.char]) /\ (ch \notin unguarded => RewardsInBag(row))
            /\ wages[job.char] \in Nat
        BY <2>1, <3>3 DEF Paid, SlateInv
      <4>3. /\ MoneyPaid(Appraised(row, job, landed), wages[job.char])
            /\ Matched(job, landed) /\ RewardsInBag(row)
                 => RewardsInBag(Appraised(row, job, landed))
        BY <2>1, <2>3, <4>2, AppraisedPaid
      <4>4. ch \notin unguarded' => RewardsInBag(Appraised(row, job, landed))
        BY <3>1, <3>3, <4>2, <4>3
      <4> HIDE DEF row, job
      <4> QED BY <1>0, <4>1, <4>3, <4>4
    <3> QED BY <3>2, <3>3
  <2> QED BY <1>1, <2>2, <2>3
<1> QED BY <1>1, <1>2, <1>3, <1>4, OtherSteps

(* However many quests and appraisals are queued, from however stale a     *)
(* cache, and wherever the process stops, a reward is paid once for its    *)
(* flag, or every time if the quest has none, and a fee once for its item. *)
THEOREM PaidExactlyOnceCorrect == Spec => []PaidExactlyOnce
<1> DEFINE AllPaid == \A ch \in Char : Paid(ch)
<1>1. Init => AllPaid
  BY StartPaid DEF Init, Paid
<1>2. ProgressInv /\ SlateInv /\ AllPaid /\ [Next]_vars => AllPaid'
  <2> SUFFICES ASSUME ProgressInv, SlateInv, AllPaid, [Next]_vars, NEW ch \in Char
               PROVE  Paid(ch)'
    OBVIOUS
  <2> QED BY StepPaid
<1>3. AllPaid => PaidExactlyOnce
  BY DEF PaidExactlyOnce, Paid, MoneyPaid, Claimed, MoneyOf
<1> QED BY <1>1, <1>2, <1>3, ProgressInit, ProgressNext, SlateInit, SlateNext, PTL DEF Spec

\* Every bag slot has a row from the start.
FullSlate == StartStored = Slot

(* It stays so.                                                            *)
LEMMA FullNext == FullSlate /\ [Next]_vars => FullSlate'
BY DEF FullSlate

(* Then no guard is passed over, and without exception no one-time quest   *)
(* gives a character its item twice, or without its flag.                  *)
THEOREM GuardedRewardsCorrect == FullSlate /\ Spec => [](\A ch \in Char : RewardsInBag(db[ch]))
<1>1. FullSlate /\ SlateInv /\ PaidExactlyOnce => \A ch \in Char : RewardsInBag(db[ch])
  BY DEF FullSlate, PaidExactlyOnce, SlateInv
<1>2. Spec => []SlateInv
  BY ProgressInit, ProgressNext, SlateInit, SlateNext, PTL DEF Spec
<1>3. FullSlate /\ Spec => []FullSlate
  BY FullNext, PTL DEF Spec
<1> QED BY <1>1, <1>2, <1>3, PaidExactlyOnceCorrect, PTL

-----------------------------------------------------------------------------
(* Stat points                                                             *)

\* What a save still has to write, from the handlers' lists.
Todos ==
  {<<"level", "stats", "skillPoints">>, <<"stats", "skillPoints">>, <<"skillPoints">>, <<"stats">>,
   <<"skillPoints", "skills">>, <<"skills">>, <<"credit">>, <<"position">>}

\* A queued save of ch, one that will write its level, one that will write its
\* stats: whatever writes a level then writes the stats.
SaveOf(job, ch) == job.kind = "save" /\ job.char = ch
LevelOf(job, ch) == SaveOf(job, ch) /\ Head(job.todo) = "level"
StatsOf(job, ch) == SaveOf(job, ch) /\ Head(job.todo) \in {"level", "stats"}

AddsUp(row) == Unearned(row) = Unearned(StartRow)

\* The saves of a queue are of rows that add up; one that writes no level has
\* the level it will find; what none of them writes adds up in the row.
Chain(q, row, ch) ==
  /\ \A j \in DOMAIN q : SaveOf(q[j], ch) =>
       /\ q[j].todo \in Todos /\ AddsUp(q[j].row)
       /\ (\A k \in 1..j : ~LevelOf(q[k], ch)) => row.level = q[j].row.level
  /\ \A i, j \in DOMAIN q :
       /\ i < j /\ SaveOf(q[i], ch) /\ SaveOf(q[j], ch)
       /\ \A k \in (i + 1)..j : ~LevelOf(q[k], ch)
       => q[i].row.level = q[j].row.level
  /\ (\A j \in DOMAIN q : ~StatsOf(q[j], ch)) => AddsUp(row)

\* The cache adds up, and has the level the last save leaves.
Cached(q, row, ch, cached) ==
  /\ AddsUp(cached)
  /\ \A i \in DOMAIN q :
       SaveOf(q[i], ch) /\ (\A k \in DOMAIN q : k > i => ~LevelOf(q[k], ch))
         => q[i].row.level = cached.level
  /\ (\A k \in DOMAIN q : ~LevelOf(q[k], ch)) => row.level = cached.level

\* All rows of ch: the stored one, the queued ones and the cached one.
Follows(ch) ==
  /\ Chain(jobs, db[ch], ch)
  /\ \A c \in Conn : player[c] # None /\ player[c].char = ch =>
       Cached(jobs, db[ch], ch, player[c].row)

StatsInv ==
  /\ \A c, d \in Conn :
       player[c] # None /\ player[d] # None /\ player[c].char = player[d].char => c = d
  /\ failures = 0 => \A ch \in Char \ overtaken : Follows(ch)

(* They are lists of statements.                                           *)
LEMMA TodosType ==
  ASSUME NEW todo \in Todos
  PROVE  todo \in Seq(Statement) /\ todo # <<>>
<1>1. CASE todo = <<"level", "stats", "skillPoints">>
  BY <1>1 DEF Statement
<1>2. CASE todo = <<"stats", "skillPoints">>
  BY <1>2 DEF Statement
<1>3. CASE todo = <<"skillPoints", "skills">>
  BY <1>3 DEF Statement
<1>4. CASE \E statement \in Statement : todo = <<statement>>
  BY <1>4
<1> QED BY <1>1, <1>2, <1>3, <1>4 DEF Todos, Statement

(* What is left of a save after a statement.                               *)
LEMMA RestOfTodo ==
  ASSUME NEW todo \in Todos
  PROVE  /\ Head(todo) \in Statement
         /\ Len(todo) # 1 => Tail(todo) \in Todos
         /\ Head(todo) = "level" => Len(todo) # 1 /\ Head(Tail(todo)) = "stats"
         /\ Head(todo) # "level" /\ Len(todo) # 1 => Head(Tail(todo)) \notin {"level", "stats"}
<1>1. CASE todo = <<"level", "stats", "skillPoints">>
  BY <1>1 DEF Todos, Statement
<1>2. CASE todo = <<"stats", "skillPoints">>
  BY <1>2 DEF Todos, Statement
<1>3. CASE todo = <<"skillPoints", "skills">>
  BY <1>3 DEF Todos, Statement
<1>4. CASE todo \in {<<"skillPoints">>, <<"stats">>, <<"skills">>, <<"credit">>, <<"position">>}
  BY <1>4 DEF Todos, Statement
<1> QED BY <1>1, <1>2, <1>3, <1>4 DEF Todos

(* A credit is a save of its own.                                          *)
LEMMA TodoEnds ==
  ASSUME NEW todo \in Todos, Len(todo) # 1
  PROVE  Head(todo) # "credit" /\ Head(Tail(todo)) \notin {"level", "credit"}
<1>1. CASE todo = <<"level", "stats", "skillPoints">>
  BY <1>1
<1>2. CASE todo = <<"stats", "skillPoints">>
  BY <1>2
<1>3. CASE todo = <<"skillPoints", "skills">>
  BY <1>3
<1> QED BY <1>1, <1>2, <1>3 DEF Todos

(* Another row with the level and the points changes nothing.              *)
LEMMA SameRow ==
  ASSUME NEW q, NEW row, NEW ch, NEW cached, NEW after,
         after.level = row.level, after.stat = row.stat, after.points = row.points
  PROVE  /\ Chain(q, row, ch) => Chain(q, after, ch)
         /\ Cached(q, row, ch, cached) => Cached(q, after, ch, cached)
BY DEF Chain, Cached, AddsUp, Unearned

(* Nor does another job in the place of another, of saves of others.       *)
LEMMA SameSaves ==
  ASSUME NEW n \in Nat, NEW q, NEW r, DOMAIN q = 1..n, DOMAIN r = 1..n, NEW row, NEW ch, NEW cached,
         \A i \in 1..n : q[i] = r[i] \/ (~SaveOf(q[i], ch) /\ ~SaveOf(r[i], ch))
  PROVE  /\ Chain(q, row, ch) => Chain(r, row, ch)
         /\ Cached(q, row, ch, cached) => Cached(r, row, ch, cached)
<1>1. \A i \in 1..n : /\ SaveOf(q[i], ch) <=> SaveOf(r[i], ch)
                      /\ SaveOf(q[i], ch) => q[i] = r[i]
                      /\ LevelOf(q[i], ch) <=> LevelOf(r[i], ch)
                      /\ StatsOf(q[i], ch) <=> StatsOf(r[i], ch)
  BY DEF LevelOf, StatsOf
<1>2. \A i, j \in 1..n : \A k \in (i + 1)..j : k \in 1..n
  OBVIOUS
<1>3. \A j \in 1..n : \A k \in 1..j : k \in 1..n
  OBVIOUS
<1> QED BY <1>1, <1>2, <1>3 DEF Chain, Cached

(* A job that is no save of ch goes off the front.                         *)
LEMMA OneLessJob ==
  ASSUME NEW n \in Nat, NEW q, NEW r, DOMAIN q = 1..(n + 1), DOMAIN r = 1..n,
         NEW row, NEW ch, NEW cached,
         \A i \in 1..n : r[i] = q[i + 1], ~SaveOf(q[1], ch)
  PROVE  /\ Chain(q, row, ch) => Chain(r, row, ch)
         /\ Cached(q, row, ch, cached) => Cached(r, row, ch, cached)
<1>1. ~LevelOf(q[1], ch) /\ ~StatsOf(q[1], ch)
  BY DEF LevelOf, StatsOf
<1>2. \A k \in 1..(n + 1) : k = 1 \/ (k - 1 \in 1..n /\ r[k - 1] = q[k])
  OBVIOUS
<1>3. \A i \in 1..n : i + 1 \in 1..(n + 1)
  OBVIOUS
<1>4. ASSUME Chain(q, row, ch) PROVE Chain(r, row, ch)
  <2>1. ASSUME NEW j \in 1..n, SaveOf(r[j], ch)
        PROVE  /\ r[j].todo \in Todos /\ AddsUp(r[j].row)
               /\ (\A k \in 1..j : ~LevelOf(r[k], ch)) => row.level = r[j].row.level
    <3>1. j + 1 \in 1..(n + 1) /\ q[j + 1] = r[j]
      OBVIOUS
    <3>2. ASSUME \A k \in 1..j : ~LevelOf(r[k], ch), NEW k \in 1..(j + 1)
          PROVE  ~LevelOf(q[k], ch)
      <4>1. k = 1 \/ (k - 1 \in 1..j /\ r[k - 1] = q[k])
        OBVIOUS
      <4> QED BY <1>1, <3>2, <4>1
    <3> QED BY <1>4, <2>1, <3>1, <3>2 DEF Chain
  <2>2. ASSUME NEW i \in 1..n, NEW j \in 1..n, i < j, SaveOf(r[i], ch), SaveOf(r[j], ch),
               \A k \in (i + 1)..j : ~LevelOf(r[k], ch)
        PROVE  r[i].row.level = r[j].row.level
    <3> DEFINE a == i + 1
               b == j + 1
    <3>1. /\ a \in 1..(n + 1) /\ q[a] = r[i] /\ b \in 1..(n + 1) /\ q[b] = r[j]
          /\ a < b
      BY <2>2
    <3>2. ASSUME NEW k \in (a + 1)..b PROVE ~LevelOf(q[k], ch)
      <4>1. k - 1 \in (i + 1)..j /\ r[k - 1] = q[k]
        OBVIOUS
      <4> QED BY <2>2, <4>1
    <3> HIDE DEF a, b
    <3>3. SaveOf(q[a], ch) /\ SaveOf(q[b], ch) /\ a \in DOMAIN q /\ b \in DOMAIN q
      BY <2>2, <3>1
    <3>4. q[a].row.level = q[b].row.level
      BY <1>4, <3>1, <3>2, <3>3, Zenon DEF Chain
    <3> QED BY <3>1, <3>4
  <2>3. ASSUME \A j \in 1..n : ~StatsOf(r[j], ch) PROVE AddsUp(row)
    <3>1. \A k \in 1..(n + 1) : ~StatsOf(q[k], ch)
      BY <1>1, <1>2, <2>3
    <3> QED BY <1>4, <3>1 DEF Chain
  <2> QED BY <2>1, <2>2, <2>3 DEF Chain
<1>5. ASSUME Cached(q, row, ch, cached) PROVE Cached(r, row, ch, cached)
  <2>1. ASSUME NEW i \in 1..n, SaveOf(r[i], ch), \A k \in 1..n : k > i => ~LevelOf(r[k], ch)
        PROVE  r[i].row.level = cached.level
    <3>1. i + 1 \in 1..(n + 1) /\ q[i + 1] = r[i]
      OBVIOUS
    <3>2. ASSUME NEW k \in 1..(n + 1), k > i + 1 PROVE ~LevelOf(q[k], ch)
      <4>1. k - 1 \in 1..n /\ k - 1 > i /\ r[k - 1] = q[k]
        BY <3>2
      <4> QED BY <2>1, <4>1
    <3> QED BY <1>5, <2>1, <3>1, <3>2 DEF Cached
  <2>2. ASSUME \A k \in 1..n : ~LevelOf(r[k], ch) PROVE row.level = cached.level
    <3>1. \A k \in 1..(n + 1) : ~LevelOf(q[k], ch)
      BY <1>1, <1>2, <2>2
    <3> QED BY <1>5, <3>1 DEF Cached
  <2> QED BY <1>5, <2>1, <2>2 DEF Cached
<1> QED BY <1>4, <1>5

(* Another job at the end.                                                 *)
LEMMA OneMoreJob ==
  ASSUME NEW n \in Nat, NEW q, NEW r, DOMAIN q = 1..n, DOMAIN r = 1..(n + 1),
         NEW row, NEW ch, NEW cached, \A i \in 1..n : r[i] = q[i],
         ~SaveOf(r[n + 1], ch)
  PROVE  /\ Chain(q, row, ch) => Chain(r, row, ch)
         /\ Cached(q, row, ch, cached) => Cached(r, row, ch, cached)
<1> DEFINE last == n + 1
<1>1. ~SaveOf(r[last], ch) /\ ~LevelOf(r[last], ch) /\ ~StatsOf(r[last], ch)
  BY DEF LevelOf, StatsOf
<1>2. \A i \in 1..last : i \in 1..n \/ i = last
  OBVIOUS
<1>3. 1..n \subseteq 1..last
  OBVIOUS
<1>4. DOMAIN r = 1..last
  OBVIOUS
<1> HIDE DEF last
<1>5. \A i, j \in 1..n : (\A k \in (i + 1)..j : k \in 1..n) /\ (\A k \in 1..j : k \in 1..n)
  OBVIOUS
<1>6. ASSUME Chain(q, row, ch) PROVE Chain(r, row, ch)
  BY <1>1, <1>2, <1>3, <1>4, <1>5, <1>6 DEF Chain
<1>7. ASSUME Cached(q, row, ch, cached) PROVE Cached(r, row, ch, cached)
  BY <1>1, <1>2, <1>3, <1>4, <1>7 DEF Cached
<1> QED BY <1>6, <1>7

(* A save of the cache at the end.                                         *)
LEMMA OneMoreSave ==
  ASSUME NEW n \in Nat, NEW q, NEW r, DOMAIN q = 1..n, DOMAIN r = 1..(n + 1),
         NEW row, NEW ch, NEW cached, \A i \in 1..n : r[i] = q[i],
         Chain(q, row, ch), Cached(q, row, ch, cached),
         SaveOf(r[n + 1], ch), r[n + 1].todo \in Todos, AddsUp(r[n + 1].row),
         LevelOf(r[n + 1], ch) \/ r[n + 1].row.level = cached.level
  PROVE  Chain(r, row, ch) /\ Cached(r, row, ch, r[n + 1].row)
<1> DEFINE last == n + 1
           job == r[last]
<1>1. /\ SaveOf(job, ch) /\ job.todo \in Todos /\ AddsUp(job.row)
      /\ LevelOf(job, ch) \/ job.row.level = cached.level
  OBVIOUS
<1>2. /\ DOMAIN r = 1..last /\ last \in 1..last /\ \A i \in 1..last : i \in 1..n \/ i = last
      /\ 1..n \subseteq 1..last
  OBVIOUS
<1>3. \A i \in 1..n : last \in (i + 1)..last /\ \A k \in 1..n : k > i => k \in (i + 1)..last
  OBVIOUS
<1>4. \A i, j \in 1..n : (\A k \in (i + 1)..j : k \in 1..n) /\ (\A k \in 1..j : k \in 1..n)
  OBVIOUS
<1>5. \A i \in 1..n : ~(last < i) /\ last # i
  OBVIOUS
<1>a. r[last] = job
  OBVIOUS
<1>b. ~(last < last) /\ \A i \in 1..last : ~(i > last)
  OBVIOUS
<1> HIDE DEF last, job
<1>6. ASSUME NEW j \in 1..last, SaveOf(r[j], ch)
      PROVE  /\ r[j].todo \in Todos /\ AddsUp(r[j].row)
             /\ (\A k \in 1..j : ~LevelOf(r[k], ch)) => row.level = r[j].row.level
  <2>1. CASE j \in 1..n
    BY <1>4, <1>6, <2>1 DEF Chain
  <2>2. CASE j = last
    <3>1. ASSUME \A k \in 1..last : ~LevelOf(r[k], ch) PROVE row.level = job.row.level
      <4>1. \A k \in 1..n : ~LevelOf(q[k], ch)
        BY <1>2, <3>1
      <4>2. row.level = cached.level
        BY <4>1 DEF Cached
      <4> QED BY <1>1, <1>2, <1>a, <3>1, <4>2
    <3> QED BY <1>1, <1>a, <2>2, <3>1
  <2> QED BY <1>2, <2>1, <2>2
<1>7. ASSUME NEW i \in 1..last, NEW j \in 1..last, i < j, SaveOf(r[i], ch), SaveOf(r[j], ch),
             \A k \in (i + 1)..j : ~LevelOf(r[k], ch)
      PROVE  r[i].row.level = r[j].row.level
  <2>1. CASE i \in 1..n /\ j \in 1..n
    BY <1>4, <1>7, <2>1 DEF Chain
  <2>2. CASE i \in 1..n /\ j = last
    <3>1. \A k \in 1..n : k > i => ~LevelOf(q[k], ch)
      BY <1>3, <1>7, <2>2
    <3>2. q[i].row.level = cached.level
      BY <1>7, <2>2, <3>1 DEF Cached
    <3>3. job.row.level = cached.level
      BY <1>1, <1>3, <1>7, <1>a, <2>2
    <3> QED BY <1>a, <2>2, <3>2, <3>3
  <2> QED BY <1>2, <1>5, <1>7, <1>b, <2>1, <2>2
<1>8. ASSUME \A j \in 1..last : ~StatsOf(r[j], ch) PROVE AddsUp(row)
  <2>1. \A j \in 1..n : ~StatsOf(q[j], ch)
    BY <1>2, <1>8
  <2> QED BY <2>1 DEF Chain
<1>9. Chain(r, row, ch)
  BY <1>2, <1>6, <1>7, <1>8 DEF Chain
<1>10. Cached(r, row, ch, job.row)
  <2>1. ASSUME NEW i \in 1..last, SaveOf(r[i], ch), \A k \in 1..last : k > i => ~LevelOf(r[k], ch)
        PROVE  r[i].row.level = job.row.level
    <3>1. CASE i = last
      BY <1>a, <3>1
    <3>2. CASE i \in 1..n
      <4>1. i < last /\ \A k \in (i + 1)..last : k \in 1..last /\ k > i
        BY <3>2 DEF last
      <4> QED BY <1>1, <1>2, <1>7, <1>a, <2>1, <4>1
    <3> QED BY <1>2, <3>1, <3>2
  <2>2. ASSUME \A k \in 1..last : ~LevelOf(r[k], ch) PROVE row.level = job.row.level
    BY <1>1, <1>2, <1>6, <1>a, <2>2
  <2> QED BY <1>1, <1>2, <2>1, <2>2 DEF Cached
<1> QED BY <1>9, <1>10 DEF job, last

(* A statement of a save: what is left of it is a save still, or no save.  *)
LEMMA OneStatement ==
  ASSUME NEW n \in Nat, n > 0, NEW q, NEW r, DOMAIN q = 1..n, DOMAIN r = 1..n,
         NEW ch, NEW cached, NEW row \in SoundRow, \A i \in 2..n : r[i] = q[i],
         SaveOf(q[1], ch), q[1].row \in SoundRow, Chain(q, row, ch),
         IF Len(q[1].todo) = 1 THEN ~SaveOf(r[1], ch)
         ELSE SaveOf(r[1], ch) /\ r[1].row = q[1].row /\ r[1].todo = Tail(q[1].todo)
  PROVE  LET after == Saved(row, q[1].row, Head(q[1].todo)) IN
           /\ Chain(r, after, ch)
           /\ Cached(q, row, ch, cached) => Cached(r, after, ch, cached)
<1> DEFINE job == q[1]
           statement == Head(job.todo)
           after == Saved(row, job.row, statement)
<1>1. 1 \in 1..n /\ job.todo \in Todos /\ AddsUp(job.row) /\ job.row \in SoundRow /\ SaveOf(job, ch)
  BY DEF Chain
<1>2. /\ statement \in Statement
      /\ Len(job.todo) # 1 => Tail(job.todo) \in Todos
      /\ statement = "level" => Len(job.todo) # 1 /\ Head(Tail(job.todo)) = "stats"
      /\ statement # "level" /\ Len(job.todo) # 1 => Head(Tail(job.todo)) \notin {"level", "stats"}
  BY <1>1, RestOfTodo
<1>3. /\ after.level = IF statement = "level" THEN job.row.level ELSE row.level
      /\ statement = "stats" => after.stat = job.row.stat /\ after.points = job.row.points
      /\ statement \notin {"level", "stats"} => after.stat = row.stat /\ after.points = row.points
  BY <1>1, <1>2 DEF Statement, Saved, SoundRow
<1>4. ~LevelOf(r[1], ch) /\ (SaveOf(r[1], ch) => r[1].row = job.row /\ r[1].todo \in Todos)
  BY <1>2 DEF LevelOf
<1>5. StatsOf(r[1], ch) <=> statement = "level"
  BY <1>1, <1>2 DEF StatsOf
<1>6. \A k \in 1..n : k = 1 \/ (k \in 2..n /\ r[k] = q[k])
  OBVIOUS
<1>7. LevelOf(job, ch) <=> statement = "level"
  BY <1>1 DEF LevelOf
<1>8. statement # "level" => row.level = job.row.level
  <2> SUFFICES ASSUME statement # "level" PROVE row.level = job.row.level
    OBVIOUS
  <2>1. \A k \in 1..1 : ~LevelOf(q[k], ch)
    BY <1>7
  <2> QED BY <1>1, <2>1 DEF Chain
<1>9. after.level = job.row.level
  BY <1>3, <1>8
<1>a. Chain(q, row, ch) /\ DOMAIN q = 1..n /\ DOMAIN r = 1..n /\ q[1] = job /\ n \in Nat
  OBVIOUS
<1> HIDE DEF job, statement, after
<1>10. ASSUME NEW j \in 1..n, SaveOf(r[j], ch)
       PROVE  /\ r[j].todo \in Todos /\ AddsUp(r[j].row)
              /\ (\A k \in 1..j : ~LevelOf(r[k], ch)) => after.level = r[j].row.level
  <2>1. CASE j = 1
    BY <1>1, <1>4, <1>9, <1>10, <2>1
  <2>2. CASE j # 1
    <3>1. j \in 2..n /\ r[j] = q[j] /\ 1 < j /\ \A k \in (1 + 1)..j : k \in 1..j /\ k # 1 /\ k \in 1..n
      BY <1>6, <2>2
    <3>2. ASSUME \A k \in 1..j : ~LevelOf(r[k], ch) PROVE after.level = r[j].row.level
      <4>1. \A k \in (1 + 1)..j : ~LevelOf(q[k], ch)
        BY <1>6, <3>1, <3>2
      <4>2. job.row.level = q[j].row.level
        BY <1>1, <1>10, <1>a, <3>1, <4>1 DEF Chain
      <4> QED BY <1>9, <3>1, <4>2
    <3>3. q[j].todo \in Todos /\ AddsUp(q[j].row)
      BY <1>10, <1>a, <3>1 DEF Chain
    <3> QED BY <3>1, <3>2, <3>3
  <2> QED BY <2>1, <2>2
<1>11. ASSUME NEW i \in 1..n, NEW j \in 1..n, i < j, SaveOf(r[i], ch), SaveOf(r[j], ch),
              \A k \in (i + 1)..j : ~LevelOf(r[k], ch)
       PROVE  r[i].row.level = r[j].row.level
  <2>1. r[j] = q[j] /\ \A k \in (i + 1)..j : k \in 1..n /\ r[k] = q[k]
    BY <1>6, <1>11
  <2>2. SaveOf(q[i], ch) /\ r[i].row = q[i].row
    BY <1>1, <1>4, <1>6, <1>11, <1>a
  <2>3. \A k \in (i + 1)..j : ~LevelOf(q[k], ch)
    BY <1>11, <2>1
  <2>4. q[i].row.level = q[j].row.level
    BY <1>11, <1>a, <2>1, <2>2, <2>3 DEF Chain
  <2> QED BY <2>1, <2>2, <2>4
<1>12. ASSUME \A j \in 1..n : ~StatsOf(r[j], ch) PROVE AddsUp(after)
  <2>1. statement # "level"
    BY <1>1, <1>5, <1>12
  <2>2. CASE statement = "stats"
    BY <1>1, <1>3, <1>9, <2>2 DEF AddsUp, Unearned
  <2>3. CASE statement # "stats"
    <3>1. ~StatsOf(job, ch)
      BY <2>1, <2>3 DEF StatsOf, statement
    <3>2. \A j \in 1..n : ~StatsOf(q[j], ch)
      BY <1>6, <1>12, <1>a, <3>1
    <3>3. AddsUp(row)
      BY <1>a, <3>2 DEF Chain
    <3> QED BY <1>3, <2>1, <2>3, <3>3 DEF AddsUp, Unearned
  <2> QED BY <2>2, <2>3
<1>13. Chain(r, after, ch)
  BY <1>10, <1>11, <1>12, <1>a DEF Chain
<1>14. ASSUME Cached(q, row, ch, cached) PROVE Cached(r, after, ch, cached)
  <2>1. ASSUME NEW i \in 1..n, SaveOf(r[i], ch), \A k \in 1..n : k > i => ~LevelOf(r[k], ch)
        PROVE  r[i].row.level = cached.level
    <3>1. SaveOf(q[i], ch) /\ r[i].row = q[i].row
      BY <1>1, <1>4, <1>6, <1>a, <2>1
    <3>2. \A k \in 1..n : k > i => k # 1
      OBVIOUS
    <3>3. \A k \in 1..n : k > i => ~LevelOf(q[k], ch)
      BY <1>6, <2>1, <3>2
    <3> QED BY <1>14, <1>a, <3>1, <3>3 DEF Cached
  <2>2. ASSUME \A k \in 1..n : ~LevelOf(r[k], ch) PROVE after.level = cached.level
    <3>1. \A k \in 1..n : k > 1 => ~LevelOf(q[k], ch)
      BY <1>6, <2>2
    <3>2. job.row.level = cached.level
      BY <1>1, <1>14, <1>a, <3>1 DEF Cached
    <3> QED BY <1>9, <3>2
  <2> QED BY <1>14, <1>a, <2>1, <2>2 DEF Cached
<1> QED BY <1>13, <1>14 DEF after, statement, job

(* Rewards and appraisals leave level, stat and points of a row alone.     *)
LEMMA SameStoredStats ==
  ASSUME ProgressInv, RunQuest \/ RunAppraise, NEW ch \in Char
  PROVE  /\ db'[ch].level = db[ch].level /\ db'[ch].stat = db[ch].stat
         /\ db'[ch].points = db[ch].points
<1> DEFINE row == db[ch]
<1>1. row \in SoundRow
  BY DEF ProgressInv
<1>2. CASE RunQuest
  <2>1. db'[ch] = row \/ db'[ch] = Rewarded(row, Head(jobs))
    BY <1>2, RunQuestSound
  <2> HIDE DEF row
  <2>2. \A job : /\ Rewarded(row, job).level = row.level /\ Rewarded(row, job).stat = row.stat
                 /\ Rewarded(row, job).points = row.points
    BY <1>1 DEF Rewarded, SoundRow
  <2> QED BY <2>1, <2>2 DEF row
<1>3. CASE RunAppraise
  <2>1. db'[ch] = row \/ \E landed : db'[ch] = Appraised(row, Head(jobs), landed)
    BY <1>3, RunAppraiseSound
  <2> HIDE DEF row
  <2>2. \A job, landed : /\ Appraised(row, job, landed).level = row.level
                         /\ Appraised(row, job, landed).stat = row.stat
                         /\ Appraised(row, job, landed).points = row.points
    BY <1>1 DEF Appraised, SoundRow
  <2> QED BY <2>1, <2>2 DEF row
<1> QED BY <1>2, <1>3

(* A level gives a point, a raised stat takes one.                         *)
LEMMA HandlerAddsUp ==
  ASSUME NEW row \in SoundRow, AddsUp(row)
  PROVE  /\ AddsUp(LevelUp(row, LevelsPaid(row)))
         /\ \A n \in Nat : Allocatable(row, n) =>
              AddsUp(RaiseStat(row, n)) /\ RaiseStat(row, n).level = row.level
         /\ \A n, more : AddsUp(SkillUp(row, n, more)) /\ SkillUp(row, n, more).level = row.level
         /\ AddsUp([row EXCEPT !.exp = row.exp + 1]) /\ [row EXCEPT !.exp = row.exp + 1].level = row.level
<1>0. row.level \in Nat /\ row.stat \in Nat /\ row.points \in Nat
  BY ConstantNats DEF SoundRow
<1>1. AddsUp(LevelUp(row, LevelsPaid(row)))
  <2> DEFINE n == LevelsPaid(row)
             after == LevelUp(row, n)
  <2>1. n \in Nat
    BY LevelsPaidType, ConstantNats
  <2> HIDE DEF n
  <2>2. after.level = row.level + n /\ after.stat = row.stat /\ after.points = row.points + n
    BY DEF LevelUp, SoundRow
  <2> HIDE DEF after
  <2>3. AddsUp(after)
    BY <1>0, <2>1, <2>2 DEF AddsUp, Unearned
  <2> QED BY <2>3 DEF after, n
<1>2. ASSUME NEW n \in Nat
      PROVE  AddsUp(RaiseStat(row, n)) /\ RaiseStat(row, n).level = row.level
  <2> DEFINE after == RaiseStat(row, n)
  <2>1. after.level = row.level /\ after.stat = row.stat + n /\ after.points = row.points - n
    BY DEF RaiseStat, SoundRow
  <2> HIDE DEF after
  <2>2. AddsUp(after)
    BY <1>0, <2>1 DEF AddsUp, Unearned
  <2> QED BY <2>1, <2>2 DEF after
<1>3. ASSUME NEW n, NEW more
      PROVE  AddsUp(SkillUp(row, n, more)) /\ SkillUp(row, n, more).level = row.level
  <2> DEFINE after == SkillUp(row, n, more)
  <2>1. after.level = row.level /\ after.stat = row.stat /\ after.points = row.points
    BY DEF SkillUp, SoundRow
  <2> HIDE DEF after
  <2>2. AddsUp(after)
    BY <2>1 DEF AddsUp, Unearned
  <2> QED BY <2>1, <2>2 DEF after
<1>4. /\ AddsUp([row EXCEPT !.exp = row.exp + 1])
      /\ [row EXCEPT !.exp = row.exp + 1].level = row.level
  BY DEF AddsUp, Unearned, SoundRow
<1> QED BY <1>1, <1>2, <1>3, <1>4

\* A handler saves the cached row: its points add up, and another level is saved.
SavesRow(c, job, row) ==
  /\ player[c] # None /\ job \in SoundJob
  /\ SaveOf(job, player[c].char) /\ job.row = row /\ job.todo \in Todos
  /\ AddsUp(player[c].row) => AddsUp(row)
  /\ Head(job.todo) = "level" \/ row.level = player[c].row.level
  /\ jobs' = Append(jobs, job)

(* What a request can make of the players and the queue.                   *)
LEMMA RequestStats ==
  ASSUME ProgressInv, NEW c \in Conn, Handle(c)
  PROVE  \/ player' = player /\ jobs' = jobs
         \/ player' = player /\ \E job \in SoundJob : job.kind # "save" /\ jobs' = Append(jobs, job)
         \/ \E job : SavesRow(c, job, player[c].row) /\ player' = [player EXCEPT ![c] = None]
         \/ \E job \in SoundJob, changed \in SoundPlayer :
              /\ SavesRow(c, job, changed.row)
              /\ changed.char = player[c].char /\ player' = [player EXCEPT ![c] = changed]
<1> DEFINE old == player[c]
           Effect == \/ player' = player /\ jobs' = jobs
                     \/ /\ player' = player
                        /\ \E job \in SoundJob : job.kind # "save" /\ jobs' = Append(jobs, job)
                     \/ \E job : SavesRow(c, job, old.row) /\ player' = [player EXCEPT ![c] = None]
                     \/ \E job \in SoundJob, changed \in SoundPlayer :
                          /\ SavesRow(c, job, changed.row)
                          /\ changed.char = old.char /\ player' = [player EXCEPT ![c] = changed]
<1>a. ASSUME NEW kind, Request(c, kind)
      PROVE  old # None /\ old \in SoundPlayer /\ old.row \in SoundRow /\ old.char \in Char
  BY <1>a DEF Request, ProgressInv, SoundPlayer
<1>b. ASSUME old # None, old \in SoundPlayer, NEW row \in SoundRow, NEW changed,
             changed = [old EXCEPT !.row = row] \/ changed = MarkDirty([old EXCEPT !.row = row]),
             NEW todo \in Todos, CacheAndSave(c, changed, todo),
             AddsUp(old.row) => AddsUp(row),
             Head(todo) = "level" \/ row.level = old.row.level
      PROVE  Effect
  <2> DEFINE job == [kind |-> "save", char |-> changed.char, row |-> changed.row, todo |-> todo]
  <2>1. changed \in SoundPlayer /\ changed.row = row /\ changed.char = old.char
    <3>1. changed \in SoundPlayer
      BY <1>b, NewRowSound
    <3>2. changed.row = row /\ changed.char = old.char
      BY <1>b DEF MarkDirty, SoundPlayer
    <3> QED BY <3>1, <3>2
  <2>2. todo \in Seq(Statement) /\ todo # <<>>
    BY <1>b, TodosType
  <2>3. job \in SoundJob
    BY <2>1, <2>2 DEF SoundJob, SaveJob, SoundPlayer
  <2>4. player' = [player EXCEPT ![c] = changed] /\ jobs' = Append(jobs, job)
    BY <1>b DEF CacheAndSave, Run
  <2>5. job.kind = "save" /\ job.char = old.char /\ job.row = row /\ job.todo = todo
    BY <2>1
  <2> HIDE DEF job
  <2>6. SavesRow(c, job, changed.row)
    BY <1>b, <2>1, <2>3, <2>4, <2>5 DEF SavesRow, SaveOf
  <2> QED BY <2>1, <2>3, <2>4, <2>6
<1>c. ASSUME NEW job \in SoundJob, job.kind # "save", Run(job), UNCHANGED player PROVE Effect
  BY <1>c DEF Run
<1>d. ASSUME UNCHANGED <<player, jobs>> PROVE Effect
  BY <1>d
<1>1. ASSUME NEW ch \in Char, HandleEnter(c, ch) PROVE Effect
  <2> DEFINE job == [kind |-> "load", conn |-> c, char |-> ch]
  <2>1. job \in SoundJob /\ job.kind # "save"
    BY DEF SoundJob, LoadJob
  <2>2. Run(job) /\ UNCHANGED player
    BY <1>1 DEF HandleEnter
  <2> HIDE DEF job, Effect
  <2> QED BY <1>c, <2>1, <2>2
<1>2. ASSUME HandleCgExit(c) PROVE Effect
  <2> DEFINE job == [kind |-> "save", char |-> old.char, row |-> old.row, todo |-> <<"position">>]
  <2>1. <<"position">> \in Seq(Statement) /\ <<"position">> # <<>> /\ <<"position">> \in Todos
    BY DEF Statement, Todos
  <2>2. old # None /\ old.row \in SoundRow /\ old.char \in Char
    BY <1>2, <1>a DEF HandleCgExit
  <2>3. job \in SoundJob
    BY <2>1, <2>2 DEF SoundJob, SaveJob
  <2>4. player' = [player EXCEPT ![c] = None] /\ jobs' = Append(jobs, job)
    BY <1>2 DEF HandleCgExit, Run
  <2>5. job.kind = "save" /\ job.char = old.char /\ job.row = old.row /\ job.todo = <<"position">>
    OBVIOUS
  <2> HIDE DEF job
  <2>6. SavesRow(c, job, old.row)
    BY <2>1, <2>2, <2>3, <2>4, <2>5 DEF SavesRow, SaveOf
  <2> QED BY <2>4, <2>6
<1>3. ASSUME HandleAttackToCreature(c) PROVE Effect
  <2> DEFINE row == [old.row EXCEPT !.exp = old.row.exp + 1]
             changed == [old EXCEPT !.row.exp = @ + 1]
  <2>1. old # None /\ old \in SoundPlayer /\ old.row \in SoundRow
    BY <1>3, <1>a DEF HandleAttackToCreature
  <2>2. changed = [old EXCEPT !.row = row]
    OBVIOUS
  <2>3. row \in SoundRow /\ (AddsUp(old.row) => AddsUp(row))
    BY <2>1, CachedRowSound, HandlerAddsUp
  <2>4. <<"credit">> \in Todos /\ row.level = old.row.level
    BY <2>1 DEF Todos, SoundRow
  <2>5. CacheAndSave(c, changed, <<"credit">>)
    BY <1>3 DEF HandleAttackToCreature
  <2> DEFINE todo == <<"credit">>
  <2>6. todo \in Todos /\ CacheAndSave(c, changed, todo)
    BY <2>4, <2>5
  <2> HIDE DEF changed, row, old, Effect, todo
  <2> QED BY <1>b, <2>1, <2>2, <2>3, <2>4, <2>6
<1>4. ASSUME HandleLevelUpCheck(c) PROVE Effect
  <2> DEFINE row == LevelUp(old.row, LevelsPaid(old.row))
             changed == MarkDirty([old EXCEPT !.row = row])
             todo == <<"level", "stats", "skillPoints">>
  <2>1. old # None /\ old \in SoundPlayer /\ old.row \in SoundRow
    BY <1>4, <1>a DEF HandleLevelUpCheck
  <2>2. UNCHANGED <<player, jobs>> \/ CacheAndSave(c, changed, todo)
    BY <1>4 DEF HandleLevelUpCheck
  <2>3. row \in SoundRow /\ (AddsUp(old.row) => AddsUp(row))
    BY <2>1, CachedRowSound, HandlerAddsUp
  <2>4. todo \in Todos /\ Head(todo) = "level"
    BY DEF Todos
  <2>5. changed = MarkDirty([old EXCEPT !.row = row])
    OBVIOUS
  <2> HIDE DEF row, changed, todo, old, Effect
  <2> QED BY <1>b, <1>d, <2>1, <2>2, <2>3, <2>4, <2>5
<1>5. ASSUME NEW n \in 1..2, HandleCharStatusUp(c, n) PROVE Effect
  <2> DEFINE row == RaiseStat(old.row, n)
             changed == MarkDirty([old EXCEPT !.row = row])
  <2>1. old # None /\ old \in SoundPlayer /\ old.row \in SoundRow
    BY <1>5, <1>a DEF HandleCharStatusUp
  <2>2. \/ UNCHANGED <<player, jobs>>
        \/ Allocatable(old.row, n) /\ CacheAndSave(c, changed, <<"stats">>)
    BY <1>5 DEF HandleCharStatusUp
  <2>3. n \in Nat
    OBVIOUS
  <2>4. <<"stats">> \in Todos
    BY DEF Todos
  <2>5. changed = MarkDirty([old EXCEPT !.row = row])
    OBVIOUS
  <2> HIDE DEF changed, old, Effect
  <2>6. Allocatable(old.row, n) => row \in SoundRow
    BY <2>1, <2>3, CachedRowSound
  <2>7. AddsUp(old.row) /\ Allocatable(old.row, n) => AddsUp(row)
    BY <2>1, <2>3, HandlerAddsUp
  <2>8. row.level = old.row.level
    BY <2>1 DEF RaiseStat, SoundRow
  <2> HIDE DEF row
  <2> QED BY <1>b, <1>d, <2>1, <2>2, <2>4, <2>5, <2>6, <2>7, <2>8
<1>6. ASSUME NEW n \in 1..MaxSkill, NEW more \in 0..MaxSkill, HandleCharSkillUpEx(c, n, more)
      PROVE  Effect
  <2> DEFINE row == SkillUp(old.row, n, more)
             changed == [old EXCEPT !.row = row]
             todo == <<"skillPoints", "skills">>
  <2>1. old # None /\ old \in SoundPlayer /\ old.row \in SoundRow
    BY <1>6, <1>a DEF HandleCharSkillUpEx
  <2>2. \/ UNCHANGED <<player, jobs>>
        \/ SkillUpAllowed(old.row, n, more) /\ CacheAndSave(c, changed, todo)
    BY <1>6 DEF HandleCharSkillUpEx
  <2>3. n \in Nat /\ more \in Nat
    BY ConstantNats
  <2>4. todo \in Todos
    BY DEF Todos
  <2>5. changed = [old EXCEPT !.row = row]
    OBVIOUS
  <2> HIDE DEF changed, todo, old, Effect
  <2>6. SkillUpAllowed(old.row, n, more) => row \in SoundRow
    BY <2>1, <2>3, CachedRowSound
  <2>7. AddsUp(old.row) => AddsUp(row)
    BY <2>1, HandlerAddsUp
  <2>8. row.level = old.row.level
    BY <2>1 DEF SkillUp, SoundRow
  <2> HIDE DEF row
  <2> QED BY <1>b, <1>d, <2>1, <2>2, <2>4, <2>5, <2>6, <2>7, <2>8
<1>7. ASSUME NEW q \in Quest, HandleQuestResult(c, q) PROVE Effect
  <2> DEFINE job == [kind |-> "quest", conn |-> c, char |-> old.char, row |-> old.row, quest |-> q]
  <2>1. old.row \in SoundRow /\ old.char \in Char
    BY <1>7, <1>a DEF HandleQuestResult
  <2>2. job \in SoundJob /\ job.kind # "save"
    BY <2>1 DEF SoundJob, QuestJob
  <2>3. UNCHANGED player /\ (UNCHANGED jobs \/ Run(job))
    BY <1>7 DEF HandleQuestResult
  <2> HIDE DEF job, Effect
  <2> QED BY <1>c, <1>d, <2>2, <2>3
<1>8. ASSUME NEW slots \in SUBSET Slot, HandleItemConfirmNpcRequest(c, slots) PROVE Effect
  <2> DEFINE there == {s \in slots : NeverAppraised(old.row, s)}
             job == [kind |-> "appraise", conn |-> c, char |-> old.char, row |-> old.row,
                     slots |-> there]
  <2>1. old.row \in SoundRow /\ old.char \in Char
    BY <1>8, <1>a DEF HandleItemConfirmNpcRequest
  <2>2. there \in SUBSET Slot /\ \A s \in there : NeverAppraised(old.row, s)
    OBVIOUS
  <2>3. UNCHANGED player /\ Run(job)
    BY <1>8 DEF HandleItemConfirmNpcRequest
  <2> HIDE DEF there
  <2>4. job \in SoundJob /\ job.kind # "save"
    BY <2>1, <2>2 DEF SoundJob, AppraiseJob
  <2> HIDE DEF job, Effect
  <2> QED BY <1>c, <2>3, <2>4
<1> HIDE DEF Effect
<1>9. Effect
  BY <1>1, <1>2, <1>3, <1>4, <1>5, <1>6, <1>7, <1>8 DEF Handle
<1> QED BY <1>9 DEF Effect

(* Another cached row with the level and the points changes nothing.       *)
LEMMA SameCached ==
  ASSUME NEW q, NEW row, NEW ch, NEW cached, NEW after, Cached(q, row, ch, cached),
         after.level = cached.level, after.stat = cached.stat, after.points = cached.points
  PROVE  Cached(q, row, ch, after)
BY DEF Cached, AddsUp, Unearned

(* A queue with a job more.                                                *)
LEMMA Queued ==
  ASSUME NEW q \in Seq(SoundJob), NEW job \in SoundJob, NEW r, r = Append(q, job)
  PROVE  /\ Len(q) \in Nat /\ DOMAIN q = 1..Len(q) /\ DOMAIN r = 1..(Len(q) + 1)
         /\ \A i \in 1..Len(q) : r[i] = q[i]
         /\ r[Len(q) + 1] = job
BY AppendProperties, LenProperties

(* Every request keeps the rows of a character together.                   *)
LEMMA RequestFollows ==
  ASSUME ProgressInv, StatsInv, NEW c \in Conn, Handle(c)
  PROVE  StatsInv'
<1>1. UNCHANGED <<db, overtaken, failures>>
  BY DEF Handle, HandleEnter, HandleCgExit, HandleAttackToCreature, HandleLevelUpCheck,
         HandleCharStatusUp, HandleCharSkillUpEx, HandleQuestResult, HandleItemConfirmNpcRequest,
         Request, history
<1>2. player \in [Conn -> SoundPlayer \cup {None}] /\ jobs \in Seq(SoundJob)
  BY DEF ProgressInv
<1> DEFINE n == Len(jobs)
<1>3. CASE player' = player /\ jobs' = jobs
  BY <1>1, <1>3 DEF StatsInv, Follows
<1>4. ASSUME player' = player, NEW job \in SoundJob, job.kind # "save", jobs' = Append(jobs, job)
      PROVE  StatsInv'
  <2> SUFFICES ASSUME failures = 0, NEW ch \in Char \ overtaken, Follows(ch) PROVE Follows(ch)'
    BY <1>1, <1>4 DEF StatsInv
  <2>1. /\ n \in Nat /\ DOMAIN jobs = 1..n /\ DOMAIN jobs' = 1..(n + 1)
        /\ \A i \in 1..n : jobs'[i] = jobs[i]
        /\ jobs'[n + 1] = job
    BY <1>2, <1>4, Queued
  <2>2. ~SaveOf(jobs'[n + 1], ch)
    BY <1>4, <2>1 DEF SaveOf
  <2> HIDE DEF n
  <2>3. \A cached : /\ Chain(jobs, db[ch], ch) => Chain(jobs', db[ch], ch)
                    /\ Cached(jobs, db[ch], ch, cached) => Cached(jobs', db[ch], ch, cached)
    BY <2>1, <2>2, OneMoreJob
  <2> QED BY <1>1, <1>4, <2>3 DEF Follows
<1>5. ASSUME NEW job, NEW row, SavesRow(c, job, row),
             \/ player' = [player EXCEPT ![c] = None]
             \/ \E changed \in SoundPlayer :
                  /\ changed.row = row /\ changed.char = player[c].char
                  /\ player' = [player EXCEPT ![c] = changed]
      PROVE  StatsInv'
  <2>1. /\ player[c] # None /\ job \in SoundJob /\ SaveOf(job, player[c].char) /\ job.row = row
        /\ job.todo \in Todos /\ jobs' = Append(jobs, job)
        /\ AddsUp(player[c].row) => AddsUp(row)
        /\ Head(job.todo) = "level" \/ row.level = player[c].row.level
    BY <1>5 DEF SavesRow
  <2>2. \A d \in Conn : /\ d # c => player'[d] = player[d]
                        /\ d = c /\ player'[d] # None =>
                             player'[d].char = player[c].char /\ player'[d].row = row
    BY <1>2, <1>5
  <2>3. \A d, e \in Conn :
          player'[d] # None /\ player'[e] # None /\ player'[d].char = player'[e].char => d = e
    BY <2>1, <2>2 DEF StatsInv
  <2>4. /\ n \in Nat /\ DOMAIN jobs = 1..n /\ DOMAIN jobs' = 1..(n + 1)
        /\ \A i \in 1..n : jobs'[i] = jobs[i]
        /\ jobs'[n + 1] = job
    BY <1>2, <2>1, Queued
  <2> HIDE DEF n
  <2>5. ASSUME failures = 0, NEW ch \in Char \ overtaken PROVE Follows(ch)'
    <3>1. Follows(ch)
      BY <2>5 DEF StatsInv
    <3>2. CASE ch = player[c].char
      <4>1. Chain(jobs, db[ch], ch) /\ Cached(jobs, db[ch], ch, player[c].row)
        BY <2>1, <3>1, <3>2 DEF Follows
      <4>2. AddsUp(row) /\ (LevelOf(job, ch) \/ row.level = player[c].row.level)
        BY <2>1, <3>2, <4>1 DEF Cached, LevelOf
      <4>3. Chain(jobs', db[ch], ch) /\ Cached(jobs', db[ch], ch, row)
        <5>1. /\ SaveOf(jobs'[n + 1], ch) /\ jobs'[n + 1].todo \in Todos
              /\ AddsUp(jobs'[n + 1].row) /\ jobs'[n + 1].row = row
              /\ LevelOf(jobs'[n + 1], ch) \/ jobs'[n + 1].row.level = player[c].row.level
          BY <2>1, <2>4, <3>2, <4>2
        <5> QED BY <2>4, <4>1, <5>1, OneMoreSave
      <4>4. ASSUME NEW d \in Conn, player'[d] # None, player'[d].char = ch
            PROVE  player'[d].row = row
        <5>1. d = c
          BY <2>1, <2>2, <3>2, <4>4 DEF StatsInv
        <5> QED BY <2>2, <4>4, <5>1
      <4> QED BY <1>1, <4>3, <4>4 DEF Follows
    <3>3. CASE ch # player[c].char
      <4>1. ~SaveOf(jobs'[n + 1], ch)
        BY <2>1, <2>4, <3>3 DEF SaveOf
      <4>2. \A cached : /\ Chain(jobs, db[ch], ch) => Chain(jobs', db[ch], ch)
                        /\ Cached(jobs, db[ch], ch, cached) => Cached(jobs', db[ch], ch, cached)
        BY <2>4, <4>1, OneMoreJob
      <4>3. \A d \in Conn : player'[d] # None /\ player'[d].char = ch => player'[d] = player[d]
        BY <2>2, <3>3
      <4> QED BY <1>1, <3>1, <4>2, <4>3 DEF Follows
    <3> QED BY <3>2, <3>3
  <2> QED BY <1>1, <2>3, <2>5 DEF StatsInv
<1> QED BY <1>3, <1>4, <1>5, RequestStats

(* A job goes off the queue, its row keeps its level and its points.       *)
LEMMA TailFollows ==
  ASSUME ProgressInv, NEW ch \in Char, Follows(ch), jobs # <<>>, ~SaveOf(Head(jobs), ch),
         jobs' = Tail(jobs), player' = player,
         db'[ch].level = db[ch].level, db'[ch].stat = db[ch].stat, db'[ch].points = db[ch].points
  PROVE  Follows(ch)'
<1> DEFINE n == Len(jobs) - 1
<1>1. /\ n \in Nat /\ DOMAIN jobs = 1..(n + 1) /\ DOMAIN jobs' = 1..n
      /\ \A i \in 1..n : jobs'[i] = jobs[i + 1]
      /\ Head(jobs) = jobs[1]
  BY HeadTailProperties, LenProperties, EmptySeq DEF ProgressInv
<1> HIDE DEF n
<1>2. \A cached : /\ Chain(jobs, db[ch], ch) => Chain(jobs', db[ch], ch)
                  /\ Cached(jobs, db[ch], ch, cached) => Cached(jobs', db[ch], ch, cached)
  BY <1>1, OneLessJob
<1>3. \A cached : /\ Chain(jobs', db[ch], ch) => Chain(jobs', db'[ch], ch)
                  /\ Cached(jobs', db[ch], ch, cached) => Cached(jobs', db'[ch], ch, cached)
  BY SameRow
<1> QED BY <1>2, <1>3 DEF Follows

(* Every statement keeps the rows of a character together.                 *)
LEMMA StatementFollows ==
  ASSUME ProgressInv, NEW ch \in Char, Follows(ch), RunStatement
  PROVE  Follows(ch)'
<1> DEFINE job == Head(jobs)
           n == Len(jobs)
           after == Saved(db[job.char], job.row, Head(job.todo))
<1>1. /\ jobs # <<>> /\ job \in SaveJob /\ job.char \in Char /\ job.kind = "save"
      /\ jobs \in Seq(SoundJob) /\ player' = player /\ job = jobs[1]
      /\ n \in Nat /\ n > 0 /\ DOMAIN jobs = 1..n
  <2>1. jobs # <<>> /\ job.kind = "save" /\ player' = player
    BY DEF RunStatement, Running
  <2>2. job \in SaveJob /\ job.char \in Char
    BY <2>1, RunningType, JobFields DEF RunStatement
  <2>3. jobs \in Seq(SoundJob)
    BY DEF ProgressInv
  <2> QED BY <2>1, <2>2, <2>3, EmptySeq, LenProperties, HeadTailProperties
<1>2. db'[ch] = IF ch = job.char THEN after ELSE db[ch]
  BY <1>1 DEF RunStatement, ProgressInv
<1>3. jobs' = IF Len(job.todo) = 1 THEN Tail(jobs) ELSE [jobs EXCEPT ![1].todo = Tail(@)]
  BY DEF RunStatement
<1>4. job.row \in SoundRow /\ db[ch] \in SoundRow
  BY <1>1 DEF SaveJob, ProgressInv
<1> DEFINE rest == [job EXCEPT !.todo = Tail(job.todo)]
<1>5. /\ rest.kind = "save" /\ rest.char = job.char /\ rest.row = job.row
      /\ rest.todo = Tail(job.todo)
  <2> HIDE DEF job
  <2> QED BY <1>1 DEF SaveJob
<1>6. Len(job.todo) # 1 => DOMAIN jobs' = 1..n /\ \A i \in 1..n : jobs'[i] = IF i = 1 THEN rest ELSE jobs[i]
  BY <1>1, <1>3
<1>7. Len(job.todo) = 1 => DOMAIN jobs' = 1..(n - 1) /\ \A i \in 1..(n - 1) : jobs'[i] = jobs[i + 1]
  BY <1>1, <1>3, HeadTailProperties, LenProperties
<1> HIDE DEF job, n, after, rest
<1>8. CASE ch # job.char
  <2>1. CASE Len(job.todo) = 1
    <3>1. jobs' = Tail(jobs) /\ ~SaveOf(Head(jobs), ch) /\ db'[ch] = db[ch]
      BY <1>2, <1>3, <1>8, <2>1 DEF SaveOf, job
    <3> QED BY <1>1, <3>1, TailFollows
  <2>2. CASE Len(job.todo) # 1
    <3>1. \A i \in 1..n : jobs[i] = jobs'[i] \/ (~SaveOf(jobs[i], ch) /\ ~SaveOf(jobs'[i], ch))
      BY <1>1, <1>5, <1>6, <1>8, <2>2 DEF SaveOf
    <3>2. \A cached : /\ Chain(jobs, db[ch], ch) => Chain(jobs', db[ch], ch)
                      /\ Cached(jobs, db[ch], ch, cached) => Cached(jobs', db[ch], ch, cached)
      BY <1>1, <1>6, <2>2, <3>1, SameSaves
    <3> QED BY <1>1, <1>2, <1>8, <3>2 DEF Follows
  <2> QED BY <2>1, <2>2
<1>9. CASE ch = job.char
  <2> DEFINE gone == [kind |-> "load"]
             head == IF Len(job.todo) = 1 THEN gone ELSE rest
             mid == [i \in 1..n |-> IF i = 1 THEN head ELSE jobs[i]]
  <2>1. /\ DOMAIN mid = 1..n /\ \A i \in 2..n : mid[i] = jobs[i]
        /\ mid[1] = head
    BY <1>1
  <2>2. SaveOf(jobs[1], ch) /\ Chain(jobs, db[ch], ch)
    BY <1>1, <1>9 DEF SaveOf, Follows
  <2>3. IF Len(job.todo) = 1 THEN ~SaveOf(head, ch)
        ELSE SaveOf(head, ch) /\ head.row = job.row /\ head.todo = Tail(job.todo)
    BY <1>5, <1>9 DEF SaveOf
  <2>a. Len(job.todo) # 1 => \A i \in 1..n : mid[i] = jobs'[i]
    BY <1>6
  <2> HIDE DEF mid, head
  <2>4. \A cached : /\ Chain(mid, after, ch)
                    /\ Cached(jobs, db[ch], ch, cached) => Cached(mid, after, ch, cached)
    BY <1>1, <1>4, <1>9, <2>1, <2>2, <2>3, OneStatement DEF after
  <2>5. \A cached : /\ Chain(jobs', after, ch)
                    /\ Cached(mid, after, ch, cached) => Cached(jobs', after, ch, cached)
    <3>1. CASE Len(job.todo) # 1
      <4>1. DOMAIN jobs' = 1..n /\ \A i \in 1..n : mid[i] = jobs'[i]
        BY <1>6, <2>a, <3>1
      <4> QED BY <1>1, <2>1, <2>4, <4>1, SameSaves
    <3>2. CASE Len(job.todo) = 1
      <4> DEFINE m == n - 1
      <4>1. /\ m \in Nat /\ DOMAIN mid = 1..(m + 1) /\ DOMAIN jobs' = 1..m
            /\ \A i \in 1..m : jobs'[i] = mid[i + 1]
        BY <1>1, <1>7, <2>1, <3>2
      <4>2. ~SaveOf(mid[1], ch)
        BY <2>1, <2>3, <3>2
      <4> HIDE DEF m
      <4> QED BY <2>4, <4>1, <4>2, OneLessJob
    <3> QED BY <3>1, <3>2
  <2> QED BY <1>1, <1>2, <1>9, <2>4, <2>5 DEF Follows
<1> QED BY <1>8, <1>9

(* Players whose rows keep their level and their points.                   *)
LEMMA PlayersFollow ==
  ASSUME StatsInv, UNCHANGED <<db, jobs, failures>>, overtaken \subseteq overtaken',
         \A d \in Conn : player'[d] # None =>
           /\ player[d] # None /\ player'[d].char = player[d].char
           /\ player'[d].row.level = player[d].row.level
           /\ player'[d].row.stat = player[d].row.stat
           /\ player'[d].row.points = player[d].row.points
  PROVE  StatsInv'
<1>1. \A d, e \in Conn :
        player'[d] # None /\ player'[e] # None /\ player'[d].char = player'[e].char => d = e
  BY DEF StatsInv
<1>2. ASSUME failures = 0, NEW ch \in Char \ overtaken' PROVE Follows(ch)'
  <2>1. Follows(ch)
    BY <1>2 DEF StatsInv
  <2>2. ASSUME NEW d \in Conn, player'[d] # None, player'[d].char = ch
        PROVE  Cached(jobs, db[ch], ch, player'[d].row)
    <3>1. Cached(jobs, db[ch], ch, player[d].row)
      BY <2>1, <2>2 DEF Follows
    <3> QED BY <2>2, <3>1, SameCached
  <2> QED BY <2>1, <2>2 DEF Follows
<1> QED BY <1>1, <1>2 DEF StatsInv

(* Every callback keeps the rows of a character together.                  *)
LEMMA CallbackFollows ==
  ASSUME ProgressInv, StatsInv, RunCallback
  PROVE  StatsInv'
<1>1. UNCHANGED <<db, jobs, failures>> /\ overtaken \subseteq overtaken'
  BY DEF RunCallback, OnLoaded, OnTurnedIn, OnAppraised, Calling, bounds
<1>2. player \in [Conn -> SoundPlayer \cup {None}]
  BY DEF ProgressInv
<1>3. ASSUME player' = player PROVE StatsInv'
  BY <1>1, <1>3, PlayersFollow
<1>4. ASSUME NEW c \in Conn, player' = [player EXCEPT ![c] = None] PROVE StatsInv'
  <2>1. \A d \in Conn : player'[d] # None => player'[d] = player[d]
    BY <1>2, <1>4
  <2> QED BY <1>1, <2>1, PlayersFollow
<1>5. ASSUME NEW c \in Conn, NEW row \in SoundRow, player[c] # None,
             row.stat = player[c].row.stat, row.level = player[c].row.level,
             row.points = player[c].row.points,
             player' = [player EXCEPT ![c] = [player[c] EXCEPT !.row = row]]
      PROVE  StatsInv'
  <2> DEFINE changed == [player[c] EXCEPT !.row = row]
  <2>1. changed.row = row /\ changed.char = player[c].char
    BY <1>2, <1>5 DEF SoundPlayer
  <2>2. player' = [player EXCEPT ![c] = changed]
    BY <1>5, Zenon
  <2> HIDE DEF changed
  <2>3. \A d \in Conn : player'[d] = IF d = c THEN changed ELSE player[d]
    BY <1>2, <2>2
  <2> QED BY <1>1, <1>5, <2>1, <2>3, PlayersFollow
<1>6. ASSUME NEW c \in Conn, NEW joined \in SoundPlayer, ~Online(joined.char),
             player' = [player EXCEPT ![c] = joined],
             \/ joined.char \in overtaken'
             \/ ~SaveQueued(joined.char) /\ joined.row = LoadCharacter(joined.char)
      PROVE  StatsInv'
  <2>1. \A d \in Conn : player'[d] = IF d = c THEN joined ELSE player[d]
    BY <1>2, <1>6
  <2>2. \A d \in Conn : player[d] # None => player[d].char # joined.char
    BY <1>6 DEF Online
  <2>3. \A d, e \in Conn :
          player'[d] # None /\ player'[e] # None /\ player'[d].char = player'[e].char => d = e
    BY <2>1, <2>2 DEF StatsInv
  <2>4. ASSUME failures = 0, NEW ch \in Char \ overtaken' PROVE Follows(ch)'
    <3>1. Follows(ch)
      BY <1>1, <2>4 DEF StatsInv
    <3>2. CASE ch # joined.char
      <4>1. \A d \in Conn : player'[d] # None /\ player'[d].char = ch => player'[d] = player[d]
        BY <2>1, <3>2
      <4> QED BY <1>1, <3>1, <4>1 DEF Follows
    <3>3. CASE ch = joined.char
      <4> DEFINE row == joined.row
      <4>1. ~SaveQueued(ch) /\ row = LoadCharacter(ch) /\ db[ch] \in SoundRow
        BY <1>6, <2>4, <3>3 DEF ProgressInv
      <4>2. row.level = db[ch].level /\ row.stat = db[ch].stat /\ row.points = db[ch].points
        BY <4>1 DEF LoadCharacter, SoundRow
      <4>3. \A i \in DOMAIN jobs : ~SaveOf(jobs[i], ch) /\ ~LevelOf(jobs[i], ch) /\ ~StatsOf(jobs[i], ch)
        BY <4>1 DEF SaveQueued, SaveOf, LevelOf, StatsOf
      <4> HIDE DEF row
      <4>4. AddsUp(row)
        BY <3>1, <4>2, <4>3 DEF Follows, Chain, AddsUp, Unearned
      <4>5. Cached(jobs, db[ch], ch, row)
        BY <4>2, <4>3, <4>4 DEF Cached
      <4>6. \A d \in Conn : player'[d] # None /\ player'[d].char = ch => player'[d].row = row
        BY <2>1, <2>2, <3>3 DEF row
      <4> QED BY <1>1, <3>1, <4>5, <4>6 DEF Follows
    <3> QED BY <3>2, <3>3
  <2> QED BY <1>1, <2>3, <2>4 DEF StatsInv
<1> QED BY <1>3, <1>4, <1>5, <1>6, CallbackEffect

(* Every step keeps the rows of a character together.                      *)
LEMMA StatsNext == ProgressInv /\ StatsInv /\ [Next]_vars => StatsInv'
<1> SUFFICES ASSUME ProgressInv, StatsInv, [Next]_vars PROVE StatsInv'
  OBVIOUS
<1>1. ASSUME NEW c \in Conn, Handle(c) PROVE StatsInv'
  BY <1>1, RequestFollows
<1>2. ASSUME player' = player, overtaken' = overtaken, failures' = failures,
             \A ch \in Char : Follows(ch) => Follows(ch)'
      PROVE  StatsInv'
  BY <1>2 DEF StatsInv
<1>3. ASSUME NEW kind, kind # "save", Running(kind), UNCHANGED failures, jobs' = Tail(jobs),
             \A ch \in Char : /\ db'[ch].level = db[ch].level /\ db'[ch].stat = db[ch].stat
                              /\ db'[ch].points = db[ch].points
      PROVE  StatsInv'
  <2>1. jobs # <<>> /\ \A ch : ~SaveOf(Head(jobs), ch)
    BY <1>3 DEF Running, SaveOf
  <2>2. player' = player /\ overtaken' = overtaken
    BY <1>3 DEF Running
  <2>3. \A ch \in Char : Follows(ch) => Follows(ch)'
    BY <1>3, <2>1, <2>2, TailFollows
  <2> QED BY <1>2, <1>3, <2>2, <2>3
<1>4. CASE RunLoad
  BY <1>3, <1>4 DEF RunLoad
<1>5. CASE RunStatement
  <2>1. player' = player /\ overtaken' = overtaken /\ failures' = failures
    BY <1>5 DEF RunStatement, Running
  <2> QED BY <1>2, <1>5, <2>1, StatementFollows
<1>6. CASE RunQuest \/ RunAppraise
  <2>1. \A ch \in Char : /\ db'[ch].level = db[ch].level /\ db'[ch].stat = db[ch].stat
                         /\ db'[ch].points = db[ch].points
    BY <1>6, SameStoredStats
  <2>2. \E kind \in {"quest", "appraise"} :
          Running(kind) /\ UNCHANGED failures /\ jobs' = Tail(jobs)
    BY <1>6 DEF RunQuest, RunAppraise
  <2> QED BY <1>3, <2>1, <2>2
<1>7. CASE JobThrows
  <2>1. failures' # 0 /\ player' = player
    BY <1>7 DEF JobThrows, Running, ProgressInv
  <2> QED BY <2>1 DEF StatsInv
<1>8. CASE Crash
  <2>1. failures' # 0 /\ \A d \in Conn : player'[d] = None
    BY <1>8 DEF Crash, ProgressInv
  <2> QED BY <2>1 DEF StatsInv
<1>9. CASE RunCallback
  BY <1>9, CallbackFollows
<1>10. CASE TickCharacter
  <2> DEFINE ticked(d) == [RecalculateDerivedStats(player[d]) EXCEPT !.dirty = FALSE]
  <2>1. player \in [Conn -> SoundPlayer \cup {None}]
    BY DEF ProgressInv
  <2>2. \A d \in Conn : player[d] # None =>
          ticked(d).row = player[d].row /\ ticked(d).char = player[d].char
    <3> SUFFICES ASSUME NEW d \in Conn, player[d] # None
                 PROVE  ticked(d).row = player[d].row /\ ticked(d).char = player[d].char
      OBVIOUS
    <3>1. player[d] \in SoundPlayer
      BY <2>1
    <3> QED BY <3>1 DEF RecalculateDerivedStats, SoundPlayer
  <2>3. player' = [c \in Conn |-> IF player[c] # None /\ player[c].dirty THEN ticked(c) ELSE player[c]]
    BY <1>10 DEF TickCharacter
  <2>4. UNCHANGED <<db, jobs, failures, overtaken>>
    BY <1>10 DEF TickCharacter, history, bounds
  <2> HIDE DEF ticked
  <2> QED BY <2>2, <2>3, <2>4, PlayersFollow
<1>11. CASE UNCHANGED vars
  BY <1>11 DEF vars, history, bounds, StatsInv, Follows
<1> QED BY <1>1, <1>4, <1>5, <1>6, <1>7, <1>8, <1>9, <1>10, <1>11 DEF Next, RunJob

(* Saved one by one, by however many sessions, with kills, quests and      *)
(* appraisals in between: a level's points are there once, as long as no   *)
(* character joins on a row that its own saves have left behind.           *)
THEOREM StatPointsAddUpCorrect == Spec => []StatPointsAddUp
<1>1. Init => StatsInv
  BY EmptySeq DEF Init, StatsInv, Follows, Chain, AddsUp
<1>2. ProgressInv /\ StatsInv => StatPointsAddUp
  <2> SUFFICES ASSUME ProgressInv, StatsInv, failures = 0 PROVE StatPointsAddUp
    BY DEF StatPointsAddUp
  <2>1. ASSUME NEW ch \in Char \ overtaken, ~SaveQueued(ch) PROVE AddsUp(db[ch])
    <3>1. Chain(jobs, db[ch], ch)
      BY <2>1 DEF StatsInv, Follows
    <3>2. \A i \in DOMAIN jobs : ~StatsOf(jobs[i], ch)
      BY <2>1 DEF SaveQueued, SaveOf, StatsOf
    <3> QED BY <3>1, <3>2 DEF Chain
  <2>2. ASSUME NEW c \in Conn, player[c] # None, player[c].char \notin overtaken
        PROVE  AddsUp(player[c].row)
    <3>1. player[c].char \in Char
      BY <2>2 DEF ProgressInv, SoundPlayer
    <3> QED BY <2>2, <3>1 DEF StatsInv, Follows, Cached
  <2> QED BY <2>1, <2>2 DEF StatPointsAddUp, AddsUp
<1> QED BY <1>1, <1>2, ProgressInit, ProgressNext, StatsNext, PTL DEF Spec

-----------------------------------------------------------------------------
(* Rewards                                                                 *)

\* What a row's level and experience are worth.
Worth(row) == row.exp + (row.level - 1) * Need

\* A queued credit of ch, and any job that will pay ch experience.
CreditOf(job, ch) == SaveOf(job, ch) /\ Head(job.todo) = "credit"
Pays(job, ch) ==
  CreditOf(job, ch) \/ (job.kind = "quest" /\ job.char = ch /\ QuestOf[job.quest].exp # 0)

Credit(ch) == [job \in SoundJob |-> IF CreditOf(job, ch) THEN 1 ELSE 0]

\* A queued save of a level is of a row worth what it will find, and finds.
LevelSaves(q, row, ch) ==
  \A j \in DOMAIN q : LevelOf(q[j], ch) =>
    Worth(q[j].row) = Worth(row) /\ \A i \in DOMAIN q : i < j => ~Pays(q[i], ch)

\* The stored row and the queued credits make what the character was awarded.
Owed(ch) ==
  /\ Worth(db[ch]) + Along(Credit(ch), jobs) = earned[ch]
  /\ LevelSaves(jobs, db[ch], ch)

RewardsInv ==
  failures = 0 =>
    /\ \A i \in DOMAIN jobs : jobs[i].kind = "save" => jobs[i].todo \in Todos
    /\ \A ch \in Char : Owed(ch)

\* The cached level and experience are worth what the stored ones are, and
\* nothing that pays waits for the DB thread.
UpToDate(c) ==
  /\ Worth(player[c].row) = Worth(db[player[c].char])
  /\ \A i \in DOMAIN jobs : ~Pays(jobs[i], player[c].char)

\* No player levels up but from an up-to-date cache.
LevelsUpToDate ==
  [][\A c \in Conn :
       player[c] # None /\ player'[c] # None /\ player'[c].row.level # player[c].row.level
         => UpToDate(c)]_vars

(* The weight of a credit.                                                 *)
LEMMA CreditType ==
  ASSUME NEW ch
  PROVE  Credit(ch) \in [SoundJob -> Nat]
BY DEF Credit

(* Worths are numbers.                                                     *)
LEMMA WorthType ==
  ASSUME NEW row \in SoundRow
  PROVE  Worth(row) \in Int /\ row.exp \in Nat /\ row.level \in Nat
<1>1. row.exp \in Nat /\ row.level \in Nat
  BY ConstantNats DEF SoundRow
<1>2. \A a, b \in Int : a * b \in Int
  OBVIOUS
<1> QED BY <1>1, <1>2, ConstantNats DEF Worth

(* No player is none.                                                      *)
LEMMA NoSoundPlayer == None \notin SoundPlayer
BY SoundIsTyped, NoPlayerAssumption

(* A level costs what it is worth.                                         *)
LEMMA LevelUpWorth ==
  ASSUME NEW row \in SoundRow, NEW n \in Nat
  PROVE  Worth(LevelUp(row, n)) = Worth(row)
<1>1. row.exp \in Int /\ row.level \in Int
  BY WorthType
<1>2. LevelUp(row, n).exp = row.exp - n * Need /\ LevelUp(row, n).level = row.level + n
  BY DEF LevelUp, SoundRow
<1>3. PICK l \in Int : l = row.level - 1
  BY <1>1
<1>4. LevelUp(row, n).level - 1 = l + n
  BY <1>1, <1>2, <1>3
<1>5. \A a, b \in Int, c \in Nat : (a + b) * c = a * c + b * c
  OBVIOUS
<1>6. (l + n) * Need = l * Need + n * Need /\ l * Need \in Int /\ n * Need \in Int
  BY <1>5, ConstantNats, <1>3
<1>7. Worth(LevelUp(row, n)) = (row.exp - n * Need) + (l * Need + n * Need)
  BY <1>2, <1>4, <1>6 DEF Worth
<1>8. Worth(row) = row.exp + l * Need
  BY <1>3 DEF Worth
<1> QED BY <1>1, <1>6, <1>7, <1>8

\* What a request queues: no save, a save of no level and no credit, a credit
\* just earned, or the level of the player that changed it.
Queues(c, job) ==
  \/ job.kind # "save" /\ earned' = earned
  \/ /\ job.kind = "save" /\ job.todo \in Todos /\ Head(job.todo) \notin {"level", "credit"}
     /\ earned' = earned
  \/ /\ job.kind = "save" /\ job.todo = <<"credit">>
     /\ earned' = [earned EXCEPT ![job.char] = earned[job.char] + 1]
  \/ /\ job.kind = "save" /\ job.todo \in Todos /\ Head(job.todo) = "level"
     /\ earned' = earned
     /\ player[c] # None /\ player'[c] # None /\ player[c].char = job.char
     /\ player'[c].row.level # player[c].row.level
     /\ Worth(job.row) = Worth(player[c].row)

(* What a request can make of the queue and of what was awarded.           *)
LEMMA RequestRewards ==
  ASSUME ProgressInv, NEW c \in Conn, Handle(c)
  PROVE  \/ jobs' = jobs /\ earned' = earned
         \/ \E job \in SoundJob : jobs' = Append(jobs, job) /\ Queues(c, job)
<1> DEFINE old == player[c]
           Effect == \/ jobs' = jobs /\ earned' = earned
                     \/ \E job \in SoundJob : jobs' = Append(jobs, job) /\ Queues(c, job)
<1>a. ASSUME NEW kind, Request(c, kind)
      PROVE  old # None /\ old \in SoundPlayer /\ old.row \in SoundRow /\ old.char \in Char
  BY <1>a DEF Request, ProgressInv, SoundPlayer
<1>b. ASSUME old \in SoundPlayer, NEW row \in SoundRow, NEW changed,
             changed = [old EXCEPT !.row = row] \/ changed = MarkDirty([old EXCEPT !.row = row]),
             NEW todo \in Todos, CacheAndSave(c, changed, todo)
      PROVE  \E job \in SoundJob :
               /\ job.kind = "save" /\ job.char = old.char /\ job.row = row /\ job.todo = todo
               /\ jobs' = Append(jobs, job) /\ player' = [player EXCEPT ![c] = changed]
               /\ changed \in SoundPlayer /\ changed.row = row
  <2> DEFINE job == [kind |-> "save", char |-> changed.char, row |-> changed.row, todo |-> todo]
  <2>1. changed \in SoundPlayer /\ changed.row = row /\ changed.char = old.char
    <3>1. changed \in SoundPlayer
      BY <1>b, NewRowSound
    <3>2. changed.row = row /\ changed.char = old.char
      BY <1>b DEF MarkDirty, SoundPlayer
    <3> QED BY <3>1, <3>2
  <2>2. todo \in Seq(Statement) /\ todo # <<>>
    BY <1>b, TodosType
  <2>3. job \in SoundJob
    BY <2>1, <2>2 DEF SoundJob, SaveJob, SoundPlayer
  <2>4. player' = [player EXCEPT ![c] = changed] /\ jobs' = Append(jobs, job)
    BY <1>b DEF CacheAndSave, Run
  <2>5. job.kind = "save" /\ job.char = old.char /\ job.row = row /\ job.todo = todo
    BY <2>1
  <2> HIDE DEF job
  <2> QED BY <2>1, <2>3, <2>4, <2>5
<1>c. ASSUME NEW job \in SoundJob, job.kind # "save", Run(job), UNCHANGED earned PROVE Effect
  BY <1>c DEF Run, Queues
<1>d. ASSUME UNCHANGED <<jobs, earned>> PROVE Effect
  BY <1>d
<1>e. ASSUME NEW job \in SoundJob, job.kind = "save", job.todo \in Todos,
             Head(job.todo) \notin {"level", "credit"}, Run(job), UNCHANGED earned
      PROVE  Effect
  BY <1>e DEF Run, Queues
<1>1. ASSUME NEW ch \in Char, HandleEnter(c, ch) PROVE Effect
  <2> DEFINE job == [kind |-> "load", conn |-> c, char |-> ch]
  <2>1. job \in SoundJob /\ job.kind # "save"
    BY DEF SoundJob, LoadJob
  <2>2. Run(job) /\ UNCHANGED earned
    BY <1>1 DEF HandleEnter, history
  <2> HIDE DEF job, Effect
  <2> QED BY <1>c, <2>1, <2>2
<1>2. ASSUME HandleCgExit(c) PROVE Effect
  <2> DEFINE job == [kind |-> "save", char |-> old.char, row |-> old.row, todo |-> <<"position">>]
  <2>1. <<"position">> \in Seq(Statement) /\ <<"position">> # <<>> /\ <<"position">> \in Todos
        /\ Head(<<"position">>) = "position"
    BY DEF Statement, Todos
  <2>2. old # None /\ old.row \in SoundRow /\ old.char \in Char
    BY <1>2, <1>a DEF HandleCgExit
  <2>3. job \in SoundJob
    BY <2>1, <2>2 DEF SoundJob, SaveJob
  <2>4. Run(job) /\ UNCHANGED earned
    BY <1>2 DEF HandleCgExit
  <2>5. job.kind = "save" /\ job.todo = <<"position">>
    OBVIOUS
  <2> HIDE DEF job, Effect
  <2> QED BY <1>e, <2>1, <2>3, <2>4, <2>5
<1>3. ASSUME HandleAttackToCreature(c) PROVE Effect
  <2> DEFINE row == [old.row EXCEPT !.exp = old.row.exp + 1]
             changed == [old EXCEPT !.row.exp = @ + 1]
  <2>1. old # None /\ old \in SoundPlayer /\ old.row \in SoundRow
    BY <1>3, <1>a DEF HandleAttackToCreature
  <2>2. changed = [old EXCEPT !.row = row]
    OBVIOUS
  <2>3. row \in SoundRow
    BY <2>1, CachedRowSound
  <2> DEFINE todo == <<"credit">>
  <2>4. todo \in Todos /\ CacheAndSave(c, changed, todo)
    BY <1>3 DEF HandleAttackToCreature, Todos
  <2>5. earned' = [earned EXCEPT ![old.char] = earned[old.char] + 1]
    BY <1>3 DEF HandleAttackToCreature
  <2>6. todo = <<"credit">>
    OBVIOUS
  <2> HIDE DEF changed, row, old, todo
  <2>7. PICK job \in SoundJob :
          /\ job.kind = "save" /\ job.char = old.char /\ job.todo = todo
          /\ jobs' = Append(jobs, job)
    BY <1>b, <2>1, <2>2, <2>3, <2>4
  <2>8. Queues(c, job)
    BY <2>5, <2>6, <2>7 DEF Queues
  <2> QED BY <2>7, <2>8
<1>4. ASSUME HandleLevelUpCheck(c) PROVE Effect
  <2> DEFINE n == LevelsPaid(old.row)
             row == LevelUp(old.row, n)
             changed == MarkDirty([old EXCEPT !.row = row])
             todo == <<"level", "stats", "skillPoints">>
  <2>1. old # None /\ old \in SoundPlayer /\ old.row \in SoundRow
    BY <1>4, <1>a DEF HandleLevelUpCheck
  <2>2. /\ UNCHANGED <<player, jobs>> \/ (n # 0 /\ CacheAndSave(c, changed, todo))
        /\ UNCHANGED earned
    BY <1>4 DEF HandleLevelUpCheck
  <2>3. n \in Nat /\ row \in SoundRow
    <3>1. n \in 0..MaxLevel
      BY <2>1, LevelsPaidType
    <3>2. row \in SoundRow
      BY <2>1, CachedRowSound
    <3> QED BY <3>1, <3>2, ConstantNats
  <2>4. todo \in Todos /\ Head(todo) = "level"
    BY DEF Todos
  <2>5. changed = MarkDirty([old EXCEPT !.row = row])
    OBVIOUS
  <2>6. Worth(row) = Worth(old.row)
    <3> HIDE DEF n
    <3> QED BY <2>1, <2>3, LevelUpWorth
  <2>7. row.level = old.row.level + n
    <3> HIDE DEF n
    <3> QED BY <2>1 DEF LevelUp, SoundRow
  <2>8. old.row.level \in Nat
    BY <2>1, WorthType
  <2>9. player \in [Conn -> SoundPlayer \cup {None}] /\ old = player[c]
    BY DEF ProgressInv
  <2> HIDE DEF row, changed, todo, old, n
  <2>10. CASE n # 0 /\ CacheAndSave(c, changed, todo)
    <3>1. PICK job \in SoundJob :
            /\ job.kind = "save" /\ job.char = old.char /\ job.row = row /\ job.todo = todo
            /\ jobs' = Append(jobs, job) /\ player' = [player EXCEPT ![c] = changed]
            /\ changed \in SoundPlayer /\ changed.row = row
      BY <1>b, <2>1, <2>3, <2>4, <2>5, <2>10
    <3>2. player'[c] = changed /\ changed # None
      BY <2>9, <3>1, NoSoundPlayer
    <3>3. changed.row.level # old.row.level
      BY <2>3, <2>7, <2>8, <2>10, <3>1
    <3>4. Queues(c, job)
      BY <2>1, <2>2, <2>4, <2>6, <2>9, <3>1, <3>2, <3>3 DEF Queues
    <3> QED BY <3>1, <3>4
  <2> QED BY <2>2, <2>10
<1>5. ASSUME NEW n \in 1..2, HandleCharStatusUp(c, n) PROVE Effect
  <2> DEFINE row == RaiseStat(old.row, n)
             changed == MarkDirty([old EXCEPT !.row = row])
             todo == <<"stats">>
  <2>1. old # None /\ old \in SoundPlayer /\ old.row \in SoundRow
    BY <1>5, <1>a DEF HandleCharStatusUp
  <2>2. /\ \/ UNCHANGED <<player, jobs>>
           \/ Allocatable(old.row, n) /\ CacheAndSave(c, changed, todo)
        /\ UNCHANGED earned
    BY <1>5 DEF HandleCharStatusUp
  <2>3. n \in Nat
    OBVIOUS
  <2>4. todo \in Todos /\ Head(todo) \notin {"level", "credit"}
    BY DEF Todos
  <2>5. changed = MarkDirty([old EXCEPT !.row = row])
    OBVIOUS
  <2> HIDE DEF changed, old, todo
  <2>6. Allocatable(old.row, n) => row \in SoundRow
    BY <2>1, <2>3, CachedRowSound
  <2> HIDE DEF row
  <2>7. CASE row \in SoundRow /\ CacheAndSave(c, changed, todo)
    <3>1. PICK job \in SoundJob :
            job.kind = "save" /\ job.todo = todo /\ jobs' = Append(jobs, job)
      BY <1>b, <2>1, <2>4, <2>5, <2>7
    <3>2. Queues(c, job)
      BY <2>2, <2>4, <3>1 DEF Queues
    <3> QED BY <3>1, <3>2
  <2> QED BY <2>2, <2>6, <2>7
<1>6. ASSUME NEW n \in 1..MaxSkill, NEW more \in 0..MaxSkill, HandleCharSkillUpEx(c, n, more)
      PROVE  Effect
  <2> DEFINE row == SkillUp(old.row, n, more)
             changed == [old EXCEPT !.row = row]
             todo == <<"skillPoints", "skills">>
  <2>1. old # None /\ old \in SoundPlayer /\ old.row \in SoundRow
    BY <1>6, <1>a DEF HandleCharSkillUpEx
  <2>2. /\ \/ UNCHANGED <<player, jobs>>
           \/ SkillUpAllowed(old.row, n, more) /\ CacheAndSave(c, changed, todo)
        /\ UNCHANGED earned
    BY <1>6 DEF HandleCharSkillUpEx
  <2>3. n \in Nat /\ more \in Nat
    BY ConstantNats
  <2>4. todo \in Todos /\ Head(todo) \notin {"level", "credit"}
    BY DEF Todos
  <2>5. changed = [old EXCEPT !.row = row]
    OBVIOUS
  <2> HIDE DEF changed, todo, old
  <2>6. SkillUpAllowed(old.row, n, more) => row \in SoundRow
    BY <2>1, <2>3, CachedRowSound
  <2> HIDE DEF row
  <2>7. CASE row \in SoundRow /\ CacheAndSave(c, changed, todo)
    <3>1. PICK job \in SoundJob :
            job.kind = "save" /\ job.todo = todo /\ jobs' = Append(jobs, job)
      BY <1>b, <2>1, <2>4, <2>5, <2>7
    <3>2. Queues(c, job)
      BY <2>2, <2>4, <3>1 DEF Queues
    <3> QED BY <3>1, <3>2
  <2> QED BY <2>2, <2>6, <2>7
<1>7. ASSUME NEW q \in Quest, HandleQuestResult(c, q) PROVE Effect
  <2> DEFINE job == [kind |-> "quest", conn |-> c, char |-> old.char, row |-> old.row, quest |-> q]
  <2>1. old.row \in SoundRow /\ old.char \in Char
    BY <1>7, <1>a DEF HandleQuestResult
  <2>2. job \in SoundJob /\ job.kind # "save"
    BY <2>1 DEF SoundJob, QuestJob
  <2>3. UNCHANGED earned /\ (UNCHANGED jobs \/ Run(job))
    BY <1>7 DEF HandleQuestResult
  <2> HIDE DEF job, Effect
  <2> QED BY <1>c, <1>d, <2>2, <2>3
<1>8. ASSUME NEW slots \in SUBSET Slot, HandleItemConfirmNpcRequest(c, slots) PROVE Effect
  <2> DEFINE there == {s \in slots : NeverAppraised(old.row, s)}
             job == [kind |-> "appraise", conn |-> c, char |-> old.char, row |-> old.row,
                     slots |-> there]
  <2>1. old.row \in SoundRow /\ old.char \in Char
    BY <1>8, <1>a DEF HandleItemConfirmNpcRequest
  <2>2. there \in SUBSET Slot /\ \A s \in there : NeverAppraised(old.row, s)
    OBVIOUS
  <2>3. UNCHANGED earned /\ Run(job)
    BY <1>8 DEF HandleItemConfirmNpcRequest
  <2> HIDE DEF there
  <2>4. job \in SoundJob /\ job.kind # "save"
    BY <2>1, <2>2 DEF SoundJob, AppraiseJob
  <2> HIDE DEF job, Effect
  <2> QED BY <1>c, <2>3, <2>4
<1> HIDE DEF Effect
<1>9. Effect
  BY <1>1, <1>2, <1>3, <1>4, <1>5, <1>6, <1>7, <1>8 DEF Handle
<1> QED BY <1>9 DEF Effect

(* A job more at the end of the queue.                                     *)
LEMMA LevelSavesAppend ==
  ASSUME NEW q \in Seq(SoundJob), NEW job \in SoundJob, NEW row, NEW ch, LevelSaves(q, row, ch),
         LevelOf(job, ch) =>
           Worth(job.row) = Worth(row) /\ \A i \in DOMAIN q : ~Pays(q[i], ch)
  PROVE  LevelSaves(Append(q, job), row, ch)
<1>1. PICK r : r = Append(q, job)
  OBVIOUS
<1>2. PICK n \in Nat :
        /\ DOMAIN q = 1..n /\ DOMAIN r = 1..(n + 1) /\ \A i \in 1..n : r[i] = q[i]
        /\ r[n + 1] = job
  BY <1>1, Queued
<1>3. ASSUME NEW j \in DOMAIN r, LevelOf(r[j], ch)
      PROVE  Worth(r[j].row) = Worth(row) /\ \A i \in DOMAIN r : i < j => ~Pays(r[i], ch)
  <2>1. CASE j \in 1..n
    <3>1. \A i \in 1..(n + 1) : i < j => i \in 1..n
      BY <1>2, <2>1
    <3> QED BY <1>2, <1>3, <2>1, <3>1 DEF LevelSaves
  <2>2. CASE j = n + 1
    <3>1. \A i \in 1..(n + 1) : i < j => i \in 1..n
      BY <1>2, <2>2
    <3> QED BY <1>2, <1>3, <2>2, <3>1
  <2> QED BY <1>2, <2>1, <2>2
<1> QED BY <1>1, <1>3 DEF LevelSaves

(* The first job goes off the queue: of the levels that are left, it paid  *)
(* none, so they are worth what the row is if the row's worth is the same  *)
(* unless it paid.                                                         *)
LEMMA LevelSavesTail ==
  ASSUME NEW q \in Seq(SoundJob), q # <<>>, NEW row, NEW after, NEW ch, LevelSaves(q, row, ch),
         Pays(Head(q), ch) \/ Worth(after) = Worth(row)
  PROVE  LevelSaves(Tail(q), after, ch)
<1>1. PICK r : r = Tail(q)
  OBVIOUS
<1>2. PICK n \in Nat :
        DOMAIN q = 1..(n + 1) /\ DOMAIN r = 1..n /\ Head(q) = q[1] /\ \A i \in 1..n : r[i] = q[i + 1]
  <2>1. /\ Len(q) \in Nat /\ Len(q) # 0 /\ DOMAIN q = 1..Len(q) /\ Head(q) = q[1]
        /\ r \in Seq(SoundJob) /\ Len(r) = Len(q) - 1 /\ \A i \in 1..Len(r) : r[i] = q[i + 1]
    BY <1>1, EmptySeq, LenProperties, HeadTailProperties
  <2>2. DOMAIN r = 1..Len(r) /\ Len(r) \in Nat /\ Len(q) = Len(r) + 1
    BY <2>1, LenProperties
  <2> QED BY <2>1, <2>2
<1>3. ASSUME NEW j \in DOMAIN r, LevelOf(r[j], ch)
      PROVE  Worth(r[j].row) = Worth(after) /\ \A i \in DOMAIN r : i < j => ~Pays(r[i], ch)
  <2>1. j + 1 \in DOMAIN q /\ r[j] = q[j + 1] /\ 1 \in DOMAIN q /\ 1 < j + 1
    BY <1>2
  <2>2. Worth(r[j].row) = Worth(row) /\ \A i \in DOMAIN q : i < j + 1 => ~Pays(q[i], ch)
    BY <1>3, <2>1 DEF LevelSaves
  <2>3. Worth(after) = Worth(row)
    BY <1>2, <2>1, <2>2
  <2>4. \A i \in DOMAIN r : i < j => i + 1 \in DOMAIN q /\ i + 1 < j + 1 /\ r[i] = q[i + 1]
    BY <1>2
  <2> QED BY <2>2, <2>3, <2>4
<1> QED BY <1>1, <1>3 DEF LevelSaves

(* A job that goes off the queue, and what it paid.                        *)
LEMMA OwedTail ==
  ASSUME ProgressInv, jobs # <<>>, jobs' = Tail(jobs), NEW ch \in Char, Owed(ch),
         NEW paid \in Nat, Worth(db'[ch]) = Worth(db[ch]) + paid,
         paid = 0 \/ Pays(Head(jobs), ch),
         earned'[ch] = earned[ch] + paid - Credit(ch)[Head(jobs)]
  PROVE  Owed(ch)'
<1>1. jobs \in Seq(SoundJob) /\ Head(jobs) \in SoundJob /\ Tail(jobs) \in Seq(SoundJob)
  BY RestOf DEF ProgressInv
<1>2. Credit(ch) \in [SoundJob -> Nat]
  BY CreditType
<1>3. /\ Along(Credit(ch), jobs) = Credit(ch)[Head(jobs)] + Along(Credit(ch), Tail(jobs))
      /\ Along(Credit(ch), jobs) \in Nat /\ Along(Credit(ch), Tail(jobs)) \in Nat
      /\ Credit(ch)[Head(jobs)] \in Nat
  BY <1>1, <1>2, AlongTail, AlongType
<1>4. Worth(db[ch]) \in Int /\ earned[ch] \in Int
  <2>1. db[ch] \in SoundRow /\ earned[ch] \in Int
    BY DEF ProgressInv
  <2>2. Worth(db[ch]) \in Int
    BY <2>1, WorthType
  <2> QED BY <2>1, <2>2
<1>5. Worth(db'[ch]) + Along(Credit(ch), jobs') = earned'[ch]
  BY <1>3, <1>4 DEF Owed
<1>6. LevelSaves(jobs', db'[ch], ch)
  <2>1. LevelSaves(jobs, db[ch], ch)
    BY DEF Owed
  <2>2. Pays(Head(jobs), ch) \/ Worth(db'[ch]) = Worth(db[ch])
    BY <1>4
  <2> QED BY <1>1, <2>1, <2>2, LevelSavesTail
<1> QED BY <1>5, <1>6 DEF Owed, Credit

(* A statement of a save, which may be a credit.                           *)
LEMMA StatementOwed ==
  ASSUME ProgressInv, RewardsInv, failures = 0, RunStatement, NEW ch \in Char
  PROVE  /\ Owed(ch)'
         /\ \A i \in DOMAIN jobs' : jobs'[i].kind = "save" => jobs'[i].todo \in Todos
<1> DEFINE job == Head(jobs)
           n == Len(jobs)
           statement == Head(job.todo)
           after == Saved(db[job.char], job.row, statement)
           rest == [job EXCEPT !.todo = Tail(job.todo)]
<1>1. /\ jobs # <<>> /\ job \in SaveJob /\ job \in SoundJob /\ job.char \in Char /\ job.kind = "save"
      /\ jobs \in Seq(SoundJob) /\ Tail(jobs) \in Seq(SoundJob) /\ job = jobs[1]
      /\ n \in Nat /\ n > 0 /\ DOMAIN jobs = 1..n
  <2>1. jobs # <<>> /\ job.kind = "save"
    BY DEF RunStatement, Running
  <2>2. job \in SaveJob /\ job.char \in Char
    BY <2>1, RunningType, JobFields DEF RunStatement
  <2>3. jobs \in Seq(SoundJob) /\ Tail(jobs) \in Seq(SoundJob) /\ job \in SoundJob
    BY <2>1, RestOf DEF ProgressInv
  <2> QED BY <2>1, <2>2, <2>3, EmptySeq, LenProperties, HeadTailProperties
<1>2. db'[ch] = (IF ch = job.char THEN after ELSE db[ch]) /\ earned' = earned
  BY <1>1 DEF RunStatement, ProgressInv
<1>3. jobs' = IF Len(job.todo) = 1 THEN Tail(jobs) ELSE [jobs EXCEPT ![1].todo = Tail(@)]
  BY DEF RunStatement
<1>4. job.row \in SoundRow /\ db[ch] \in SoundRow /\ db[job.char] \in SoundRow
  BY <1>1 DEF SaveJob, ProgressInv
<1>5. /\ rest.kind = "save" /\ rest.char = job.char /\ rest.row = job.row
      /\ rest.todo = Tail(job.todo)
  <2> HIDE DEF job
  <2> QED BY <1>1 DEF SaveJob
<1>6. Len(job.todo) # 1 => DOMAIN jobs' = 1..n /\ \A i \in 1..n : jobs'[i] = IF i = 1 THEN rest ELSE jobs[i]
  BY <1>1, <1>3
<1>7. jobs' \in Seq(SoundJob)
  BY RunStatementSound
<1>8. job.todo \in Todos /\ Owed(ch) /\ \A i \in 1..n : jobs[i].kind = "save" => jobs[i].todo \in Todos
  BY <1>1 DEF RewardsInv
<1>9. /\ statement \in Statement
      /\ Len(job.todo) # 1 => Tail(job.todo) \in Todos /\ Head(Tail(job.todo)) \notin {"level", "credit"}
      /\ Len(job.todo) # 1 => statement # "credit"
  <2> HIDE DEF job
  <2> QED BY <1>8, RestOfTodo, TodoEnds
<1>10. LevelOf(job, ch) => Worth(job.row) = Worth(db[ch])
  <2>1. 1 \in DOMAIN jobs
    BY <1>1
  <2> HIDE DEF job
  <2> QED BY <1>1, <1>8, <2>1 DEF Owed, LevelSaves
<1>11. Worth(db'[ch]) = Worth(db[ch]) + (IF CreditOf(job, ch) THEN 1 ELSE 0)
  <2> DEFINE row == db[job.char]
  <2>1. CASE ch # job.char
    <3>1. ~CreditOf(job, ch) /\ db'[ch] = db[ch] /\ Worth(db[ch]) \in Int
      BY <1>2, <1>4, <2>1, WorthType DEF CreditOf, SaveOf
    <3> QED BY <3>1
  <2>2. CASE ch = job.char
    <3>1. /\ statement = "level" => after.level = job.row.level /\ after.exp = job.row.exp
          /\ statement = "credit" => after.level = row.level /\ after.exp = row.exp + 1
          /\ statement \notin {"level", "credit"} => after.level = row.level /\ after.exp = row.exp
      <4> HIDE DEF statement, row, job
      <4> QED BY <1>4, <1>9 DEF Saved, Statement, SoundRow, row
    <3>2. (CreditOf(job, ch) <=> statement = "credit") /\ (LevelOf(job, ch) <=> statement = "level")
      BY <1>1, <2>2 DEF CreditOf, LevelOf, SaveOf
    <3>3. Worth(row) \in Int /\ row.exp \in Nat /\ row.level \in Nat
      BY <1>4, WorthType
    <3>4. db'[ch] = after /\ db[ch] = row
      BY <1>2, <2>2
    <3> HIDE DEF after, statement, row, job
    <3>5. CASE statement = "level"
      <4>1. Worth(after) = Worth(job.row)
        BY <3>1, <3>5 DEF Worth
      <4> QED BY <1>10, <3>2, <3>3, <3>4, <3>5, <4>1
    <3>6. CASE statement = "credit"
      <4>1. PICK w : w = (row.level - 1) * Need
        OBVIOUS
      <4>2. w \in Int
        BY <3>3, <4>1, ConstantNats
      <4>3. Worth(after) = (row.exp + 1) + w /\ Worth(row) = row.exp + w
        BY <3>1, <3>6, <4>1 DEF Worth
      <4> QED BY <3>2, <3>3, <3>4, <3>6, <4>2, <4>3
    <3>7. CASE statement \notin {"level", "credit"}
      <4>1. Worth(after) = Worth(row)
        BY <3>1, <3>7 DEF Worth
      <4> QED BY <3>2, <3>3, <3>4, <3>7, <4>1
    <3> QED BY <3>5, <3>6, <3>7
  <2> QED BY <2>1, <2>2
<1>12. Credit(ch)[job] = IF CreditOf(job, ch) THEN 1 ELSE 0
  BY <1>1 DEF Credit
<1> HIDE DEF job, n, after, rest, statement
<1>13. CASE Len(job.todo) = 1
  <2>1. jobs' = Tail(jobs)
    BY <1>3, <1>13
  <2>2. PICK paid \in Nat : paid = Credit(ch)[job] /\ (paid = 0 \/ Pays(job, ch))
    BY <1>12 DEF Pays
  <2>3. earned'[ch] = earned[ch] + paid - paid
    BY <1>2 DEF ProgressInv
  <2>4. Owed(ch)'
    BY <1>1, <1>8, <1>11, <1>12, <2>1, <2>2, <2>3, OwedTail DEF job
  <2>5. ASSUME NEW i \in DOMAIN jobs', jobs'[i].kind = "save" PROVE jobs'[i].todo \in Todos
    <3>1. \A k \in DOMAIN jobs' : k + 1 \in 1..n /\ jobs'[k] = jobs[k + 1]
      BY <1>1, <2>1, HeadTailProperties, LenProperties DEF n
    <3> QED BY <1>8, <2>5, <3>1
  <2> QED BY <2>4, <2>5
<1>14. CASE Len(job.todo) # 1
  <2>1. DOMAIN jobs' = DOMAIN jobs /\ \A i \in 1..n : jobs'[i] = IF i = 1 THEN rest ELSE jobs[i]
    BY <1>1, <1>6, <1>14
  <2>2. ~CreditOf(job, ch) /\ ~CreditOf(rest, ch) /\ ~LevelOf(rest, ch)
        /\ ~Pays(job, ch) /\ ~Pays(rest, ch)
    BY <1>1, <1>5, <1>9, <1>14 DEF CreditOf, LevelOf, Pays, statement
  <2>3. \A i \in DOMAIN jobs : /\ jobs[i] \in SoundJob /\ jobs'[i] \in SoundJob
                               /\ CreditOf(jobs'[i], ch) <=> CreditOf(jobs[i], ch)
                               /\ Pays(jobs'[i], ch) <=> Pays(jobs[i], ch)
                               /\ LevelOf(jobs'[i], ch) => jobs'[i] = jobs[i]
    <3>1. \A i \in DOMAIN jobs : jobs[i] \in SoundJob /\ jobs'[i] \in SoundJob
      BY <1>1, <1>7, <2>1, LenProperties, ElementOfSeq
    <3> QED BY <1>1, <2>1, <2>2, <3>1
  <2>4. Along(Credit(ch), jobs') = Along(Credit(ch), jobs)
    <3>1. \A i \in DOMAIN jobs : Credit(ch)[jobs[i]] = Credit(ch)[jobs'[i]]
      BY <2>3 DEF Credit
    <3>2. Along(Credit(ch), jobs) = Along(Credit(ch), jobs')
      BY <1>1, <1>7, <2>1, <3>1, CreditType, AlongSame
    <3> QED BY <3>2
  <2>5. Worth(db'[ch]) = Worth(db[ch])
    BY <1>4, <1>11, <2>2, WorthType
  <2>6. LevelSaves(jobs', db'[ch], ch)
    BY <1>8, <2>1, <2>3, <2>5 DEF Owed, LevelSaves
  <2>7. Owed(ch)'
    BY <1>2, <1>8, <2>4, <2>5, <2>6 DEF Owed, Credit
  <2>8. \A i \in DOMAIN jobs' : jobs'[i].kind = "save" => jobs'[i].todo \in Todos
    BY <1>1, <1>5, <1>8, <1>9, <1>14, <2>1
  <2> QED BY <2>7, <2>8
<1> QED BY <1>13, <1>14

(* A request: what it queues is not paid yet, or just earned.              *)
LEMMA RequestOwed ==
  ASSUME ProgressInv, RewardsInv, NEW c \in Conn, Handle(c),
         player[c] # None /\ player'[c] # None /\ player'[c].row.level # player[c].row.level
           => UpToDate(c)
  PROVE  RewardsInv'
<1>1. UNCHANGED <<db, failures>>
  BY DEF Handle, HandleEnter, HandleCgExit, HandleAttackToCreature, HandleLevelUpCheck,
         HandleCharStatusUp, HandleCharSkillUpEx, HandleQuestResult, HandleItemConfirmNpcRequest,
         Request
<1>2. CASE jobs' = jobs /\ earned' = earned
  BY <1>1, <1>2 DEF RewardsInv, Owed, Credit
<1>3. ASSUME NEW job \in SoundJob, jobs' = Append(jobs, job), Queues(c, job)
      PROVE  RewardsInv'
  <2> SUFFICES ASSUME failures = 0
               PROVE  /\ \A i \in DOMAIN jobs' : jobs'[i].kind = "save" => jobs'[i].todo \in Todos
                      /\ \A ch \in Char : Owed(ch)'
    BY <1>1 DEF RewardsInv
  <2>1. jobs \in Seq(SoundJob)
    BY DEF ProgressInv
  <2>2. ASSUME NEW i \in DOMAIN jobs', jobs'[i].kind = "save" PROVE jobs'[i].todo \in Todos
    <3>1. job.kind = "save" => job.todo \in Todos
      BY <1>3 DEF Queues, Todos
    <3>2. PICK n \in Nat : /\ DOMAIN jobs = 1..n /\ DOMAIN jobs' = 1..(n + 1)
                           /\ \A k \in 1..n : jobs'[k] = jobs[k]
                           /\ jobs'[n + 1] = job
      BY <1>3, <2>1, Queued
    <3>3. i \in 1..n \/ i = n + 1
      BY <3>2
    <3> QED BY <2>2, <3>1, <3>2, <3>3 DEF RewardsInv
  <2>3. ASSUME NEW ch \in Char PROVE Owed(ch)'
    <3>1. Owed(ch)
      BY DEF RewardsInv
    <3>2. Along(Credit(ch), jobs') = Along(Credit(ch), jobs) + Credit(ch)[job]
      BY <1>3, <2>1, CreditType, AlongAppend
    <3>3. Credit(ch)[job] = IF CreditOf(job, ch) THEN 1 ELSE 0
      BY DEF Credit
    <3>4. Along(Credit(ch), jobs) \in Nat /\ Worth(db[ch]) \in Int /\ earned[ch] \in Int
      <4>1. Along(Credit(ch), jobs) \in Nat
        BY <2>1, CreditType, AlongType
      <4>2. db[ch] \in SoundRow /\ earned[ch] \in Int
        BY DEF ProgressInv
      <4> QED BY <4>1, <4>2, WorthType
    <3>5. earned'[ch] = earned[ch] + (IF CreditOf(job, ch) THEN 1 ELSE 0)
      <4>1. CASE job.kind = "save" /\ job.todo = <<"credit">>
                 /\ earned' = [earned EXCEPT ![job.char] = earned[job.char] + 1]
        <5>1. earned'[ch] = IF ch = job.char THEN earned[ch] + 1 ELSE earned[ch]
          BY <4>1 DEF ProgressInv
        <5>2. CreditOf(job, ch) <=> ch = job.char
          BY <4>1 DEF CreditOf, SaveOf
        <5> QED BY <3>4, <5>1, <5>2
      <4>2. CASE earned' = earned /\ (job.kind # "save" \/ Head(job.todo) # "credit")
        BY <3>4, <4>2 DEF CreditOf, SaveOf
      <4> QED BY <1>3, <4>1, <4>2 DEF Queues
    <3>6. LevelOf(job, ch) =>
            Worth(job.row) = Worth(db[ch]) /\ \A i \in DOMAIN jobs : ~Pays(jobs[i], ch)
      <4> SUFFICES ASSUME LevelOf(job, ch)
                   PROVE  Worth(job.row) = Worth(db[ch]) /\ \A i \in DOMAIN jobs : ~Pays(jobs[i], ch)
        OBVIOUS
      <4>1. job.kind = "save" /\ job.char = ch /\ Head(job.todo) = "level"
        BY DEF LevelOf, SaveOf
      <4>2. job.todo # <<"credit">>
        BY <4>1
      <4>3. /\ player[c] # None /\ player'[c] # None /\ player[c].char = ch
            /\ player'[c].row.level # player[c].row.level
            /\ Worth(job.row) = Worth(player[c].row)
        BY <1>3, <4>1, <4>2 DEF Queues
      <4> QED BY <4>3 DEF UpToDate
    <3>7. LevelSaves(jobs', db[ch], ch)
      BY <1>3, <2>1, <3>1, <3>6, LevelSavesAppend DEF Owed
    <3>8. Worth(db[ch]) + Along(Credit(ch), jobs') = earned'[ch]
      BY <3>1, <3>2, <3>3, <3>4, <3>5 DEF Owed
    <3> QED BY <1>1, <3>7, <3>8 DEF Owed, Credit
  <2> QED BY <2>2, <2>3
<1> QED BY <1>2, <1>3, RequestRewards

(* A job that is no save: a quest pays what was awarded, the others pay    *)
(* nothing.                                                                *)
LEMMA JobOwed ==
  ASSUME ProgressInv, RewardsInv, failures = 0, RunLoad \/ RunQuest \/ RunAppraise
  PROVE  RewardsInv'
<1>1. PICK job : job = Head(jobs)
  OBVIOUS
<1>2. /\ jobs # <<>> /\ jobs \in Seq(SoundJob) /\ jobs' = Tail(jobs) /\ failures' = failures
      /\ job \in SoundJob /\ job.char \in Char /\ job.kind # "save"
  <2>1. PICK kind \in {"load", "quest", "appraise"} : Running(kind)
    BY DEF RunLoad, RunQuest, RunAppraise
  <2>2. jobs # <<>> /\ job \in SoundJob /\ job.char \in Char /\ job.kind # "save"
    BY <1>1, <2>1, RunningType
  <2>3. jobs' = Tail(jobs) /\ failures' = failures
    BY DEF RunLoad, RunQuest, RunAppraise
  <2> QED BY <2>2, <2>3 DEF ProgressInv
<1>3. ASSUME NEW i \in DOMAIN jobs', jobs'[i].kind = "save" PROVE jobs'[i].todo \in Todos
  <2>1. \A k \in DOMAIN jobs' : k + 1 \in DOMAIN jobs /\ jobs'[k] = jobs[k + 1]
    BY <1>2, HeadTailProperties, LenProperties
  <2> QED BY <1>3, <2>1 DEF RewardsInv
<1>4. ASSUME NEW ch \in Char PROVE Owed(ch)'
  <2>1. Credit(ch)[job] = 0
    BY <1>2 DEF Credit, CreditOf, SaveOf
  <2>2. Owed(ch) /\ earned[ch] \in Int /\ db[ch] \in SoundRow
    BY DEF RewardsInv, ProgressInv
  <2>3. Worth(db[ch]) \in Int /\ db[ch].exp \in Nat /\ db[ch].level \in Nat
    BY <2>2, WorthType
  <2>4. ASSUME NEW paid \in Nat, Worth(db'[ch]) = Worth(db[ch]) + paid,
               paid = 0 \/ Pays(job, ch), earned'[ch] = earned[ch] + paid
        PROVE  Owed(ch)'
    <3>1. earned'[ch] = earned[ch] + paid - Credit(ch)[job]
      BY <2>1, <2>2, <2>4
    <3> QED BY <1>1, <1>2, <2>2, <2>4, <3>1, OwedTail
  <2>5. CASE db'[ch] = db[ch] /\ earned'[ch] = earned[ch]
    <3>1. Worth(db'[ch]) = Worth(db[ch]) + 0 /\ earned'[ch] = earned[ch] + 0
      BY <2>2, <2>3, <2>5
    <3> QED BY <2>4, <3>1
  <2>6. CASE RunLoad
    BY <2>5, <2>6 DEF RunLoad
  <2>7. CASE RunAppraise
    <3>1. earned' = earned
      BY <2>7 DEF RunAppraise
    <3>2. ASSUME NEW landed, db'[ch] = Appraised(db[ch], Head(jobs), landed) PROVE Owed(ch)'
      <4>1. db'[ch].level = db[ch].level /\ db'[ch].exp = db[ch].exp
        BY <2>2, <3>2 DEF Appraised, SoundRow
      <4>2. Worth(db'[ch]) = Worth(db[ch]) + 0 /\ earned'[ch] = earned[ch] + 0
        BY <2>2, <2>3, <3>1, <4>1 DEF Worth
      <4> QED BY <2>4, <4>2
    <3> QED BY <2>5, <2>7, <3>1, <3>2, RunAppraiseSound
  <2>8. CASE RunQuest
    <3>1. \/ db' = db /\ earned' = earned
          \/ /\ db' = [db EXCEPT ![job.char] = Rewarded(db[job.char], job)]
             /\ earned' = [earned EXCEPT ![job.char] = earned[job.char] + QuestOf[job.quest].exp]
      BY <1>1, <2>8 DEF RunQuest
    <3>2. job.kind = "quest" /\ QuestOf[job.quest].exp \in Nat
      <4>1. job \in QuestJob
        BY <1>1, <2>8, RunQuestSound
      <4> QED BY <4>1, QuestFields DEF QuestJob
    <3>3. CASE db'[ch] = db[ch] /\ earned'[ch] = earned[ch]
      BY <2>5, <3>3
    <3>4. CASE /\ ch = job.char /\ db'[ch] = Rewarded(db[ch], job)
               /\ earned'[ch] = earned[ch] + QuestOf[job.quest].exp
      <4>1. PICK paid \in Nat : paid = QuestOf[job.quest].exp
        BY <3>2
      <4>2. Rewarded(db[ch], job).level = db[ch].level /\ Rewarded(db[ch], job).exp = db[ch].exp + paid
        BY <2>2, <4>1 DEF Rewarded, SoundRow
      <4>3. PICK w : w = (db[ch].level - 1) * Need
        OBVIOUS
      <4>4. w \in Int
        BY <2>3, <4>3, ConstantNats
      <4>5. Worth(db'[ch]) = (db[ch].exp + paid) + w /\ Worth(db[ch]) = db[ch].exp + w
        BY <3>4, <4>2, <4>3 DEF Worth
      <4>6. Worth(db'[ch]) = Worth(db[ch]) + paid
        BY <2>3, <4>4, <4>5
      <4>7. paid = 0 \/ Pays(job, ch)
        BY <3>2, <3>4, <4>1 DEF Pays
      <4> QED BY <2>4, <3>4, <4>1, <4>6, <4>7
    <3> QED BY <1>2, <3>1, <3>3, <3>4 DEF ProgressInv
  <2> QED BY <2>6, <2>7, <2>8
<1> QED BY <1>2, <1>3, <1>4 DEF RewardsInv

\* The condition of LevelsUpToDate on a step.
LevelsFit ==
  \A c \in Conn :
    player[c] # None /\ player'[c] # None /\ player'[c].row.level # player[c].row.level
      => UpToDate(c)

(* Every step keeps what is owed, when levels are up to date.              *)
LEMMA RewardsNext ==
  ProgressInv /\ RewardsInv /\ [Next]_vars /\ [LevelsFit]_vars => RewardsInv'
<1> SUFFICES ASSUME ProgressInv, RewardsInv, [Next]_vars, [LevelsFit]_vars PROVE RewardsInv'
  OBVIOUS
<1>1. ASSUME UNCHANGED <<db, jobs, earned, failures>> PROVE RewardsInv'
  BY <1>1 DEF RewardsInv, Owed, Credit
<1>2. ASSUME NEW c \in Conn, Handle(c), LevelsFit PROVE RewardsInv'
  BY <1>2, RequestOwed DEF LevelsFit
<1>3. ASSUME failures # 0, UNCHANGED failures PROVE RewardsInv'
  BY <1>3 DEF RewardsInv
<1>4. CASE RunLoad \/ RunQuest \/ RunAppraise
  <2>1. UNCHANGED failures
    BY <1>4 DEF RunLoad, RunQuest, RunAppraise
  <2> QED BY <1>3, <1>4, <2>1, JobOwed
<1>5. CASE RunStatement
  <2>1. UNCHANGED failures
    BY <1>5 DEF RunStatement
  <2>2. CASE failures = 0
    <3>1. \A ch \in Char :
            /\ Owed(ch)'
            /\ \A i \in DOMAIN jobs' : jobs'[i].kind = "save" => jobs'[i].todo \in Todos
      BY <1>5, <2>2, StatementOwed
    <3>2. Head(jobs).char \in Char
      BY <1>5, RunningType DEF RunStatement
    <3> QED BY <3>1, <3>2 DEF RewardsInv
  <2> QED BY <1>3, <2>1, <2>2
<1>6. CASE JobThrows \/ Crash
  <2>1. failures' # 0
    BY <1>6 DEF JobThrows, Crash, ProgressInv
  <2> QED BY <2>1 DEF RewardsInv
<1>7. CASE RunCallback
  BY <1>1, <1>7 DEF RunCallback, OnLoaded, OnTurnedIn, OnAppraised, Calling, bounds
<1>8. CASE TickCharacter
  BY <1>1, <1>8 DEF TickCharacter, history, bounds
<1>9. CASE UNCHANGED vars
  BY <1>1, <1>9 DEF vars, history, bounds
<1> QED BY <1>2, <1>4, <1>5, <1>6, <1>7, <1>8, <1>9 DEF Next, RunJob

(* What the doc promises of relative rewards holds as far as levels are    *)
(* concerned too when each level-up starts from a cache that is up to date *)
(* and with no reward on its way: kills and quests, of any number of       *)
(* sessions and in any order, never lose each other's experience. Only a   *)
(* level, saved as an absolute value from a cache that is behind, does     *)
(* (CharacterRepository.cpp:195).                                           *)
THEOREM RewardsComposeCorrect == Spec /\ LevelsUpToDate => []RewardsCompose
<1>1. Init => RewardsInv
  <2> SUFFICES ASSUME Init PROVE RewardsInv
    OBVIOUS
  <2>1. jobs = <<>> /\ DOMAIN jobs = {}
    BY EmptySeq DEF Init
  <2>2. ASSUME NEW ch \in Char PROVE Owed(ch)
    <3>1. Along(Credit(ch), jobs) = 0
      BY <2>1, CreditType, AlongNone
    <3>2. db[ch] = StartRow /\ Worth(StartRow) \in Int /\ earned[ch] = Worth(StartRow)
      BY StartRowSound, WorthType DEF Init, Worth
    <3> QED BY <2>1, <3>1, <3>2 DEF Owed, LevelSaves
  <2> QED BY <2>1, <2>2 DEF RewardsInv
<1>2. ProgressInv /\ RewardsInv => RewardsCompose
  <2> SUFFICES ASSUME ProgressInv, RewardsInv, jobs = <<>>, failures = 0, NEW ch \in Char
               PROVE  Worth(db[ch]) = earned[ch]
    BY DEF RewardsCompose, Worth
  <2>1. Along(Credit(ch), jobs) = 0
    BY CreditType, AlongNone
  <2>2. Owed(ch) /\ Worth(db[ch]) \in Int
    BY WorthType DEF RewardsInv, ProgressInv
  <2> QED BY <2>1, <2>2 DEF Owed
<1>3. LevelsUpToDate <=> [][LevelsFit]_vars
  BY DEF LevelsUpToDate, LevelsFit
<1> QED BY <1>1, <1>2, <1>3, ProgressInit, ProgressNext, RewardsNext, PTL DEF Spec

=============================================================================
