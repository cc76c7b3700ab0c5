-------------------------------- MODULE Items --------------------------------
(***************************************************************************)
(* Items and money of the game server: bag, equipment, the account's bank, *)
(* the ground and the shops.                                               *)
(*                                                                         *)
(* A handler checks a request against the player's cached slots, queues    *)
(* one transaction on the database thread, and only the transaction's      *)
(* callback changes the cache. Between the two, other requests of the same *)
(* player, and of other players of the same account, are validated and     *)
(* queued. What keeps items whole is in the transaction: every slot it     *)
(* writes is compared with what the handler saw, every debit with the      *)
(* balance, and all of it lands or none.                                   *)
(*                                                                         *)
(* Data is abstracted to what conservation can tell apart: an item is its  *)
(* item_id, its quantity and whether it is refined (refined items do not   *)
(* stack and have no quantity); every unit costs one coin in a shop, so a  *)
(* trade neither makes nor destroys anything.                              *)
(***************************************************************************)
EXTENDS Integers, Sequences, FiniteSets

CONSTANTS
  Conn,          \* connections
  Char, Account, \* `character` and `bank_accounts` rows
  AccountOf,     \* character.account_id
  Bag, Equip,    \* a character's slots: inventory_slot and equipment_slot
  Box,           \* an account's slots: bank_items
  Kind,          \* item_id values
  Empty,         \* a row whose item_id is NULL, and a cached slot without an item
  Virgin,        \* a slot that never had a row
  None, Shop,
  Fee,           \* kWithdrawalFee
  StartSlots, StartMoney, StartBanks, \* the rows the server starts with
  Sent,          \* the requests clients send
  MaxUnits,      \* the largest amount a client asks for
  MaxRequests, MaxEnters,
  MaxFailures,   \* jobs that throw and process stops
  MaxEvents      \* requests, enters and failures together

SlotAt == (Char \X (Bag \cup Equip)) \cup (Account \X Box)

Item == [kind : Kind, qty : Nat, refined : BOOLEAN]

Cached == Item \cup {Empty}

\* The requests whose job is a guarded transaction.
Transactional ==
  {"pickup", "move", "drop", "delete", "buy", "sell", "itemOut", "itemIn",
   "moneyOut", "moneyIn"}

ASSUME ItemsAssumption ==
  /\ \A names \in {Char, Account, Bag \cup Equip, Box} : IsFiniteSet(names)
  /\ Char \cap Account = {}
  /\ \A content \in {Empty, Virgin, None} : content \notin Item
  /\ Virgin # Empty
  /\ AccountOf \in [Char -> Account]
  /\ StartSlots \in [SlotAt -> Item \cup {Empty, Virgin}]
  /\ StartMoney \in [Char \cup Account -> Nat]
  /\ StartBanks \subseteq Account
  /\ Shop \notin Char \cup Account
  /\ Sent \subseteq Transactional \cup {"create", "open"}
  /\ {Fee, MaxUnits, MaxRequests, MaxEnters, MaxFailures, MaxEvents} \subseteq Nat

VARIABLES
  slots,     \* the item rows
  money,     \* character.money and bank_accounts.money
  banks,     \* the accounts with a bank_accounts row
  player,    \* the player of each connection, or None
  ground,    \* Map::m_drops
  nextDrop,  \* EntityIdGenerator's counter
  jobs,      \* Persistence's queue
  callbacks, \* finished jobs, on their way to the world strand
  requests, enters, failures \* how much of each bound is used

rows == <<slots, money, banks>>
memory == <<player, ground, nextDrop>>
bounds == <<requests, enters, failures>>
vars == <<rows, memory, jobs, callbacks, bounds>>

-----------------------------------------------------------------------------
(* Items                                                                   *)

Least(m, n) == IF m <= n THEN m ELSE n

\* A refined item moves whole, whatever amount was asked for.
Taken(item, n) == IF item.refined THEN 1 ELSE Least(n, item.qty)

Rest(item, n) ==
  IF item.refined \/ n >= item.qty THEN Empty ELSE [item EXCEPT !.qty = @ - n]

\* Item::StackedInto: what the slot becomes, as a set of one or, if the item
\* cannot go there, of none.
StackedInto(item, slot, n) ==
  IF slot = Empty THEN {[item EXCEPT !.qty = n]}
  ELSE IF item.kind = slot.kind /\ ~item.refined /\ ~slot.refined
    THEN {[slot EXCEPT !.qty = @ + n]}
    ELSE {}

-----------------------------------------------------------------------------
(* Jobs                                                                    *)

Write(at, old, new) == [at |-> at, old |-> old, new |-> new]
Pay(from, to, amount) == [from |-> from, to |-> to, amount |-> amount]
NoPay == Pay(Shop, Shop, 0)

\* claim is a drop already taken off the ground, spawn an item to put there when
\* the transaction has committed.
Transaction(c, kind, writes, pay, claim, spawn) ==
  [kind |-> kind, conn |-> c, writes |-> writes, pay |-> pay,
   claim |-> claim, spawn |-> spawn]

\* The drop a job has taken off the ground, as a set.
Claimed(job) == IF job.kind = "pickup" THEN {job.claim} ELSE {}

EventsLeft == requests + enters + failures < MaxEvents

Run(job) == jobs' = Append(jobs, job)

\* A request that reaches the database; ground and cache are as it leaves them.
Request(job) ==
  /\ job.kind \in Sent
  /\ requests < MaxRequests /\ EventsLeft
  /\ requests' = requests + 1
  /\ Run(job)
  /\ UNCHANGED <<rows, nextDrop, callbacks, enters, failures>>

Playing(c) == player[c] # None
Open(c) == Playing(c) /\ player[c].bank # None
BagOf(c, s) == player[c].slots[s]
At(c, s) == <<player[c].char, s>>
InBox(c, b) == <<player[c].bank.id, b>>

-----------------------------------------------------------------------------
(* Entering and leaving, as far as the item caches are concerned           *)

HandleEnter(c, ch) ==
  /\ enters < MaxEnters /\ EventsLeft
  /\ enters' = enters + 1
  /\ Run([kind |-> "load", conn |-> c, char |-> ch])
  /\ UNCHANGED <<rows, memory, callbacks, requests, failures>>

HandleCgExit(c) ==
  /\ Playing(c)
  /\ player' = [player EXCEPT ![c] = None]
  /\ UNCHANGED <<rows, ground, nextDrop, jobs, callbacks, bounds>>

-----------------------------------------------------------------------------
(* Bag, equipment and ground                                               *)

\* Mutant: the drop stays on the ground until the write has landed.
ClaimLate(c, d, s) ==
  /\ Playing(c)
  /\ \E new \in StackedInto(d.item, BagOf(c, s), d.item.qty) :
       Request(Transaction(c, "pickup", {Write(At(c, s), BagOf(c, s), new)},
                           NoPay, d, None))
  /\ UNCHANGED <<player, ground>>

\* The drop is claimed before the write, so that two players cannot get it.
HandleItemPickup(c, d, s) ==
  /\ Playing(c)
  /\ \E new \in StackedInto(d.item, BagOf(c, s), d.item.qty) :
       Request(Transaction(c, "pickup", {Write(At(c, s), BagOf(c, s), new)},
                           NoPay, d, None))
  /\ ground' = ground \ {d}
  /\ UNCHANGED player

\* The two slots swap; an empty one is cleared.
HandleItemMove(c, source, dest) ==
  /\ Playing(c)
  /\ BagOf(c, source) # Empty \/ BagOf(c, dest) # Empty
  /\ Request(Transaction(c, "move",
       {Write(At(c, source), BagOf(c, source), BagOf(c, dest)),
        Write(At(c, dest), BagOf(c, dest), BagOf(c, source))}, NoPay, None, None))
  /\ UNCHANGED <<player, ground>>

HandleItemDrop(c, s, n) ==
  /\ Playing(c)
  /\ BagOf(c, s) # Empty
  /\ LET item == BagOf(c, s) IN
       Request(Transaction(c, "drop", {Write(At(c, s), item, Rest(item, n))}, NoPay,
                           None, [item EXCEPT !.qty = Taken(item, n)]))
  /\ UNCHANGED <<player, ground>>

HandleItemDelete(c, s) ==
  /\ Playing(c)
  /\ BagOf(c, s) # Empty
  /\ Request(Transaction(c, "delete", {Write(At(c, s), BagOf(c, s), Empty)}, NoPay,
                         None, None))
  /\ UNCHANGED <<player, ground>>

-----------------------------------------------------------------------------
(* Shops                                                                   *)

HandleItemTradeBuy(c, s, kind, n) ==
  /\ Playing(c)
  /\ player[c].money >= n
  /\ \E new \in StackedInto([kind |-> kind, qty |-> 0, refined |-> FALSE],
                            BagOf(c, s), n) :
       Request(Transaction(c, "buy", {Write(At(c, s), BagOf(c, s), new)},
                           Pay(player[c].char, Shop, n), None, None))
  /\ UNCHANGED <<player, ground>>

HandleItemTradeSell(c, s, n) ==
  /\ Playing(c)
  /\ BagOf(c, s) # Empty
  /\ LET item == BagOf(c, s) IN
       Request(Transaction(c, "sell", {Write(At(c, s), item, Rest(item, n))},
                           Pay(Shop, player[c].char, Taken(item, n)), None, None))
  /\ UNCHANGED <<player, ground>>

-----------------------------------------------------------------------------
(* The bank                                                                *)

HandleStoreCreate(c) ==
  /\ Playing(c)
  /\ Request([kind |-> "create", conn |-> c, account |-> AccountOf[player[c].char]])
  /\ UNCHANGED <<player, ground>>

HandleStoreOpen(c, right) ==
  /\ Playing(c)
  /\ Request([kind |-> "open", conn |-> c, account |-> AccountOf[player[c].char],
              right |-> right])
  /\ UNCHANGED <<player, ground>>

HandleStoreClose(c) ==
  /\ Open(c)
  /\ player' = [player EXCEPT ![c].bank = None]
  /\ UNCHANGED <<rows, ground, nextDrop, jobs, callbacks, bounds>>

HandleStoreItemOut(c, b, s, n) ==
  /\ Open(c)
  /\ player[c].bank.slots[b] # Empty
  /\ player[c].money >= Fee
  /\ LET item == player[c].bank.slots[b] IN
       \E new \in StackedInto(item, BagOf(c, s), Taken(item, n)) :
         Request(Transaction(c, "itemOut",
           {Write(At(c, s), BagOf(c, s), new), Write(InBox(c, b), item, Rest(item, n))},
           Pay(player[c].char, Shop, Fee), None, None))
  /\ UNCHANGED <<player, ground>>

HandleStoreItemIn(c, s, b, n) ==
  /\ Open(c)
  /\ BagOf(c, s) # Empty
  /\ LET item == BagOf(c, s)
         there == player[c].bank.slots[b]
     IN  \E new \in StackedInto(item, there, Taken(item, n)) :
           Request(Transaction(c, "itemIn",
             {Write(InBox(c, b), there, new), Write(At(c, s), item, Rest(item, n))},
             NoPay, None, None))
  /\ UNCHANGED <<player, ground>>

HandleStoreMoneyOut(c, n) ==
  /\ Open(c)
  /\ player[c].bank.money >= n
  /\ Request(Transaction(c, "moneyOut", {},
                         Pay(player[c].bank.id, player[c].char, n), None, None))
  /\ UNCHANGED <<player, ground>>

HandleStoreMoneyIn(c, n) ==
  /\ Open(c)
  /\ player[c].money >= n
  /\ Request(Transaction(c, "moneyIn", {},
                         Pay(player[c].char, player[c].bank.id, n), None, None))
  /\ UNCHANGED <<player, ground>>

-----------------------------------------------------------------------------
(* The DB thread                                                           *)

\* equipment_slot has no quantity column.
Stored(at, item) ==
  IF item # Empty /\ ~item.refined /\ at[2] \in Equip
    THEN [item EXCEPT !.qty = 0]
    ELSE item

\* Mutant: the slot is written without comparing it.
Unguarded(w) == TRUE

\* The guard of SaveItemSlot and ClearItemSlot. A save into a slot that has no
\* row yet takes the INSERT branch, which compares nothing.
Holds(w) ==
  IF slots[w.at] = Virgin THEN w.new # Empty ELSE slots[w.at] = Stored(w.at, w.old)

\* Mutant: the debit is not compared with the balance.
AlwaysAffordable(pay) == TRUE

\* TrySpendMoney.
Affordable(pay) == pay.from # Shop => money[pay.from] >= pay.amount

\* Mutant: the transaction commits although one of its two slots had changed.
LandsPartly(job) == Affordable(job.pay) /\ \E w \in job.writes : Holds(w)

Lands(job) == Affordable(job.pay) /\ \A w \in job.writes : Holds(w)

Written(writes) ==
  [at \in SlotAt |-> IF \E w \in writes : w.at = at
                       THEN Stored(at, (CHOOSE w \in writes : w.at = at).new)
                       ELSE slots[at]]

Paid(pay) ==
  [who \in DOMAIN money |-> money[who] + (IF who = pay.to THEN pay.amount ELSE 0)
                                       - (IF who = pay.from THEN pay.amount ELSE 0)]

Post(callback) == callbacks' = Append(callbacks, callback)

\* onFailed, or a result that says the request is refused. CG_STORE_OPEN gives a
\* reason: 2 without a bank account, else 1.
Failure(job, reason) ==
  IF job.kind = "open" THEN [kind |-> "openFailed", job |-> job, reason |-> reason]
  ELSE [kind |-> "refused", job |-> job]

Running(kinds) ==
  /\ jobs # <<>>
  /\ Head(jobs).kind \in kinds
  /\ jobs' = Tail(jobs)
  /\ UNCHANGED <<memory, requests, enters>>

RunTransaction ==
  /\ Running(Transactional)
  /\ Lands(Head(jobs))
  /\ slots' = Written(Head(jobs).writes)
  /\ money' = Paid(Head(jobs).pay)
  /\ Post([kind |-> "applied", job |-> Head(jobs), money |-> money'])
  /\ UNCHANGED <<banks, failures>>

RefuseTransaction ==
  /\ Running(Transactional)
  /\ ~Lands(Head(jobs))
  /\ Post(Failure(Head(jobs), 1))
  /\ UNCHANGED <<rows, failures>>

Loaded(content) == IF content = Virgin THEN Empty ELSE content

SlotsOf(holder, names) == [s \in names |-> Loaded(slots[<<holder, s>>])]

RunLoad ==
  /\ Running({"load"})
  /\ LET ch == Head(jobs).char IN
       Post([kind |-> "loaded", conn |-> Head(jobs).conn,
             player |-> [char |-> ch, slots |-> SlotsOf(ch, Bag \cup Equip),
                         money |-> money[ch], bank |-> None]])
  /\ UNCHANGED <<rows, failures>>

RunCreate ==
  /\ Running({"create"})
  /\ banks' = banks \cup {Head(jobs).account}
  /\ UNCHANGED <<slots, money, callbacks, failures>>

\* LoadAllItems reads item_id of every row and throws on a NULL one.
BoxesReadable(account) == \A b \in Box : slots[<<account, b>>] # Empty

RunOpen ==
  /\ Running({"open"})
  /\ LET job == Head(jobs) IN
        IF job.account \in banks /\ job.right /\ BoxesReadable(job.account)
          THEN Post([kind |-> "opened", conn |-> job.conn,
                     bank |-> [id |-> job.account, slots |-> SlotsOf(job.account, Box),
                               money |-> money[job.account]]])
          ELSE Post(Failure(job, IF job.account \notin banks THEN 2 ELSE 1))
  /\ UNCHANGED <<rows, failures>>

\* Persistence::Attempt: the transaction is rolled back and onFailed posted.
JobThrows ==
  /\ failures < MaxFailures /\ EventsLeft
  /\ failures' = failures + 1
  /\ Running(Transactional \cup {"load", "create", "open"})
  /\ Post(Failure(Head(jobs), 1))
  /\ UNCHANGED rows

-----------------------------------------------------------------------------
(* Callbacks                                                               *)

Calling(kind) ==
  /\ callbacks # <<>>
  /\ Head(callbacks).kind = kind
  /\ callbacks' = Tail(callbacks)
  /\ UNCHANGED <<rows, jobs, bounds>>

OnLoaded ==
  /\ Calling("loaded")
  /\ LET done == Head(callbacks)
         online == \E c \in Conn : Playing(c) /\ player[c].char = done.player.char
     IN player' = IF online \/ Playing(done.conn)
                    THEN player
                    ELSE [player EXCEPT ![done.conn] = done.player]
  /\ UNCHANGED <<ground, nextDrop>>

OnOpened ==
  /\ Calling("opened")
  /\ LET done == Head(callbacks) IN
       player' = IF Playing(done.conn)
                   THEN [player EXCEPT ![done.conn].bank = done.bank]
                   ELSE player
  /\ UNCHANGED <<ground, nextDrop>>

OnOpenFailed == Calling("openFailed") /\ UNCHANGED memory

\* Cached slots by name after the writes.
Cache(cached, writes) ==
  [s \in DOMAIN cached |-> IF \E w \in writes : w.at[2] = s
                             THEN (CHOOSE w \in writes : w.at[2] = s).new
                             ELSE cached[s]]

SetSlots(p, done) == [p EXCEPT !.slots = Cache(@, done.job.writes)]

Parties(done) == {done.job.pay.from, done.job.pay.to}

SetMoney(p, done) ==
  [p EXCEPT !.money = done.money[CHOOSE ch \in Parties(done) : ch \in Char]]

\* The bank, unlike the character, is compared with the one of the request.
BankAfter(bank, done) ==
  LET boxes == {w.at[1] : w \in done.job.writes} \ Char
  IN [bank EXCEPT
       !.slots = IF bank.id \in boxes THEN Cache(@, done.job.writes) ELSE @,
       !.money = IF bank.id \in Parties(done) THEN done.money[bank.id] ELSE @]

SetBank(p, done) ==
  IF p.bank = None THEN p ELSE [p EXCEPT !.bank = BankAfter(@, done)]

\* What the callback of each kind of transaction sets.
Changed(p, done) ==
  LET kind == done.job.kind
      moved == IF kind \in {"moneyOut", "moneyIn"} THEN p ELSE SetSlots(p, done)
      paid == IF kind \in {"buy", "sell", "itemOut", "moneyOut", "moneyIn"}
                 THEN SetMoney(moved, done) ELSE moved
  IN IF kind \in {"itemOut", "itemIn", "moneyOut", "moneyIn"}
       THEN SetBank(paid, done) ELSE paid

\* The done callback of a committed transaction changes the player now on its
\* connection, whatever character that is.
Applied(kinds) ==
  /\ Calling("applied")
  /\ LET done == Head(callbacks)
         c == done.job.conn
     IN /\ done.job.kind \in kinds
        /\ player' = IF Playing(c) THEN [player EXCEPT ![c] = Changed(@, done)] ELSE player

OnPickedUp == Applied({"pickup"}) /\ UNCHANGED <<ground, nextDrop>>
OnMoved == Applied({"move"}) /\ UNCHANGED <<ground, nextDrop>>
OnDeleted == Applied({"delete"}) /\ UNCHANGED <<ground, nextDrop>>

\* The item reaches the ground even if nobody plays on the connection any more.
OnDropped ==
  /\ Applied({"drop"})
  /\ ground' = ground \cup {[id |-> nextDrop, item |-> Head(callbacks).job.spawn]}
  /\ nextDrop' = nextDrop + 1

OnBought == Applied({"buy"}) /\ UNCHANGED <<ground, nextDrop>>
OnSold == Applied({"sell"}) /\ UNCHANGED <<ground, nextDrop>>
OnItemOut == Applied({"itemOut"}) /\ UNCHANGED <<ground, nextDrop>>
OnItemIn == Applied({"itemIn"}) /\ UNCHANGED <<ground, nextDrop>>

FinishTransfer ==
  Applied({"moneyOut", "moneyIn"}) /\ UNCHANGED <<ground, nextDrop>>

\* putBack, for a pickup.
OnRefused ==
  /\ Calling("refused")
  /\ ground' = ground \cup Claimed(Head(callbacks).job)
  /\ UNCHANGED <<player, nextDrop>>

-----------------------------------------------------------------------------
(* Time and failure                                                        *)

\* Map::TickDrops.
Expire(d) ==
  /\ ground' = ground \ {d}
  /\ UNCHANGED <<rows, player, nextDrop, jobs, callbacks, bounds>>

\* The process stops; another one starts on the same database.
Crash ==
  /\ failures < MaxFailures /\ EventsLeft
  /\ failures' = failures + 1
  /\ player' = [c \in Conn |-> None]
  /\ ground' = {} /\ nextDrop' = 1
  /\ jobs' = <<>> /\ callbacks' = <<>>
  /\ UNCHANGED <<rows, requests, enters>>

Init ==
  /\ slots = StartSlots /\ money = StartMoney /\ banks = StartBanks
  /\ player = [c \in Conn |-> None]
  /\ ground = {} /\ nextDrop = 1
  /\ jobs = <<>> /\ callbacks = <<>>
  /\ requests = 0 /\ enters = 0 /\ failures = 0

Amount == 1..MaxUnits

Bagging(c) ==
  \/ \E d \in ground, s \in Bag : HandleItemPickup(c, d, s)
  \/ \E source, dest \in Bag \cup Equip : HandleItemMove(c, source, dest)
  \/ \E s \in Bag, n \in Amount : HandleItemDrop(c, s, n)
  \/ \E s \in Bag \cup Equip : HandleItemDelete(c, s)

Trading(c) ==
  \/ \E s \in Bag, kind \in Kind, n \in Amount : HandleItemTradeBuy(c, s, kind, n)
  \/ \E s \in Bag, n \in Amount : HandleItemTradeSell(c, s, n)

Banking(c) ==
  \/ HandleStoreCreate(c)
  \/ \E right \in BOOLEAN : HandleStoreOpen(c, right)
  \/ HandleStoreClose(c)
  \/ \E b \in Box, s \in Bag, n \in Amount : HandleStoreItemOut(c, b, s, n)
  \/ \E s \in Bag, b \in Box, n \in Amount : HandleStoreItemIn(c, s, b, n)
  \/ \E n \in Amount : HandleStoreMoneyOut(c, n) \/ HandleStoreMoneyIn(c, n)

Handle(c) ==
  \/ \E ch \in Char : HandleEnter(c, ch)
  \/ HandleCgExit(c)
  \/ Bagging(c) \/ Trading(c) \/ Banking(c)

RunJob ==
  \/ RunTransaction \/ RefuseTransaction \/ JobThrows
  \/ RunLoad \/ RunCreate \/ RunOpen

RunCallback ==
  \/ OnLoaded \/ OnOpened \/ OnOpenFailed \/ OnRefused
  \/ OnPickedUp \/ OnMoved \/ OnDropped \/ OnDeleted
  \/ OnBought \/ OnSold
  \/ OnItemOut \/ OnItemIn \/ FinishTransfer

Next ==
  \/ \E c \in Conn : Handle(c)
  \/ RunJob \/ RunCallback
  \/ \E d \in ground : Expire(d)
  \/ Crash

Spec == Init /\ [][Next]_vars
-----------------------------------------------------------------------------
(* Properties                                                              *)

Units(item) ==
  IF item \in {Empty, Virgin, None} THEN 0 ELSE IF item.refined THEN 1 ELSE item.qty

Drops == [id : Nat, item : Item]

TypeOK ==
  /\ slots \in [SlotAt -> Cached \cup {Virgin}]
  /\ money \in [Char \cup Account -> Nat]
  /\ banks \subseteq Account
  /\ \A c \in Conn : Playing(c) =>
       /\ player[c].char \in Char
       /\ player[c].slots \in [Bag \cup Equip -> Cached]
       /\ player[c].money \in Nat
       /\ Open(c) => player[c].bank.id \in Account /\ player[c].bank.money \in Nat
  /\ ground \subseteq Drops

\* The drop a refused pickup gives back, as a set.
Returned(callback) == IF callback.kind = "refused" THEN Claimed(callback.job) ELSE {}

Apart(these, those) == \A d \in these, e \in those : d.id # e.id

\* However pickups, refusals and new drops overlap, a drop's id is that of one
\* drop and in one place: on the ground, claimed by one job that is not decided,
\* or about to be put back by one refusal.
DropsAreInOnePlace ==
  /\ \A d, e \in ground : d.id = e.id => d = e
  /\ \A i \in DOMAIN jobs :
       /\ Apart(Claimed(jobs[i]), ground)
       /\ \A j \in DOMAIN jobs : i # j => Apart(Claimed(jobs[i]), Claimed(jobs[j]))
       /\ \A k \in DOMAIN callbacks : Apart(Claimed(jobs[i]), Returned(callbacks[k]))
  /\ \A k \in DOMAIN callbacks :
       /\ Apart(Returned(callbacks[k]), ground)
       /\ \A l \in DOMAIN callbacks :
            k # l => Apart(Returned(callbacks[k]), Returned(callbacks[l]))

\* The sum of a function's values, none of them negative (TypeOK), counted as
\* the pairs under its graph.
SumOf(f) == Cardinality(UNION {{x} \X (1..f[x]) : x \in DOMAIN f})

UnitsOf(drops) == SumOf([d \in drops |-> Units(d.item)])

\* Units on their way: claimed by a pickup that has not been decided, or taken
\* from a slot by a drop that has not reached the ground.
ToGround(callback) ==
  CASE callback.kind = "refused" -> UnitsOf(Claimed(callback.job))
    [] callback.kind = "applied" -> Units(callback.job.spawn)
    [] OTHER -> 0

InFlight ==
  SumOf([i \in DOMAIN jobs |-> UnitsOf(Claimed(jobs[i]))])
  + SumOf([i \in DOMAIN callbacks |-> ToGround(callbacks[i])])

\* Everything there is, counted in units of one coin.
Worth ==
  SumOf(money) + SumOf([at \in SlotAt |-> Units(slots[at])]) + UnitsOf(ground) + InFlight

StartWorth ==
  SumOf(StartMoney) + SumOf([at \in SlotAt |-> Units(StartSlots[at])])

\* A committed deletion, and the fee of a withdrawal.
SpentByDesign ==
  /\ RunTransaction
  /\ Head(jobs).kind \in {"delete", "itemOut"}

\* What the guard of a write cannot compare: a slot without a row with a cache
\* that has something there, and quantities in equipment_slot, which has no
\* column for them.
Unchecked(w) ==
  \/ slots[w.at] = Virgin /\ w.old # Empty
  \/ w.at[2] \in Equip /\ \E item \in {w.old, w.new} : item # Empty /\ ~item.refined

WorthKept ==
  \/ Worth' = Worth
  \/ /\ Worth' < Worth
     /\ SpentByDesign \/ Crash \/ \E d \in ground : Expire(d)
  \/ RunTransaction /\ \E w \in Head(jobs).writes : Unchecked(w)

\* Whatever stale caches the requests were checked against, however they are
\* interleaved and whichever of them fail, no item and no coin appears, and one
\* disappears only by a deletion, a fee, a drop that expired or a crash that
\* takes what lay on the ground or was on its way. It takes a write that its
\* guard does not compare to break that.
ItemsConserved == [][WorthKept]_vars

\* Every slot was used before and has a column for each part of an item.
UsedSlots == Equip = {} /\ \A at \in SlotAt : StartSlots[at] # Virgin

\* No sequence of requests leaves more in the world than it started with.
NothingDuplicated == Worth <= StartWorth

\* "[1] no bank_accounts row for this character, or the submitted password
\* didn't match" (StoreOpenFail.h): an existing bank opens with its password.
RightPasswordOpens ==
  \A i \in DOMAIN callbacks :
    callbacks[i].kind = "openFailed" => callbacks[i].reason = 2 \/ ~callbacks[i].job.right
=============================================================================
