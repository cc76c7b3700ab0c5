------------------------------ MODULE ItemsProofs ------------------------------
(***************************************************************************)
(* Proofs about Items, for any characters, accounts, slots and items, any  *)
(* rows to start with, and any number of requests and failures.            *)
(***************************************************************************)
EXTENDS Items, SequenceTheorems, SumTheorems

Bank == [id : Account, slots : [Box -> Cached], money : Nat]

Player == [char : Char, slots : [Bag \cup Equip -> Cached], money : Nat, bank : Bank \cup {None}]

Writes == [at : SlotAt, old : Cached, new : Cached]

Party == Char \cup Account \cup {Shop}

Payment == [from : Party, to : Party, amount : Nat]

\* Callbacks of these set the player's money: a character is a party to them.
Charging == {"buy", "sell", "itemOut", "moneyOut", "moneyIn"}

TransactionJob ==
  {job \in [kind : Transactional, conn : Conn, writes : SUBSET Writes, pay : Payment,
            claim : Drops \cup {None}, spawn : Item \cup {None}] :
     /\ job.kind = "pickup" => job.claim \in Drops
     /\ IF job.kind = "drop" THEN job.spawn \in Item ELSE job.spawn = None
     /\ job.kind \in Charging => job.pay.from \in Char \/ job.pay.to \in Char}

LoadJob == [kind : {"load"}, conn : Conn, char : Char]
CreateJob == [kind : {"create"}, conn : Conn, account : Account]
OpenJob == [kind : {"open"}, conn : Conn, account : Account, right : BOOLEAN]

Job == TransactionJob \cup LoadJob \cup CreateJob \cup OpenJob

Balances == [Char \cup Account -> Nat]

AppliedCallback == [kind : {"applied"}, job : TransactionJob, money : Balances]
LoadedCallback == [kind : {"loaded"}, conn : Conn, player : Player]
OpenedCallback == [kind : {"opened"}, conn : Conn, bank : Bank]
RefusedCallback == [kind : {"refused"}, job : Job]
OpenFailedCallback == [kind : {"openFailed"}, job : OpenJob, reason : Nat]

Callback ==
  AppliedCallback \cup LoadedCallback \cup OpenedCallback \cup RefusedCallback
    \cup OpenFailedCallback

\* What every job and callback is made of, besides the rows and caches.
TypeInv ==
  /\ slots \in [SlotAt -> Cached \cup {Virgin}]
  /\ money \in Balances
  /\ banks \subseteq Account
  /\ player \in [Conn -> Player \cup {None}]
  /\ ground \subseteq Drops /\ nextDrop \in Nat
  /\ jobs \in Seq(Job) /\ callbacks \in Seq(Callback)

-----------------------------------------------------------------------------
(* Items and jobs                                                          *)

(* What a slot becomes when an item goes into it is an item.               *)
LEMMA StackedIntoType ==
  ASSUME NEW item \in Item, NEW slot \in Cached, NEW n \in Nat,
         NEW new \in StackedInto(item, slot, n)
  PROVE  new \in Item
<1>1. CASE slot = Empty
  BY <1>1 DEF StackedInto, Item
<1>2. CASE slot # Empty
  <2>1. slot \in Item
    BY <1>2 DEF Cached
  <2> QED BY <1>2, <2>1 DEF StackedInto, Item
<1> QED BY <1>1, <1>2

(* What is taken from a stack and what is left of it.                      *)
LEMMA TakenType ==
  ASSUME NEW item \in Item, NEW n \in Nat
  PROVE  Taken(item, n) \in Nat /\ Rest(item, n) \in Cached
<1>1. Taken(item, n) \in Nat
  BY DEF Taken, Least, Item
<1>2. CASE item.refined \/ n >= item.qty
  BY <1>1, <1>2 DEF Rest, Cached
<1>3. CASE ~(item.refined \/ n >= item.qty)
  <2>1. item.qty - n \in Nat
    BY <1>3 DEF Item
  <2>2. [item EXCEPT !.qty = item.qty - n] \in Item
    BY <2>1 DEF Item
  <2> QED BY <1>1, <1>3, <2>2 DEF Rest, Cached
<1> QED BY <1>2, <1>3

(* A slot that is not empty has an item.                                   *)
LEMMA ItemInSlot ==
  ASSUME NEW item \in Cached, item # Empty
  PROVE  item \in Item /\ item.qty \in Nat
BY DEF Cached, Item

(* A write a handler queues.                                               *)
LEMMA WriteType ==
  ASSUME NEW at \in SlotAt, NEW old \in Cached, NEW new \in Cached
  PROVE  Write(at, old, new) \in Writes
BY DEF Write, Writes

(* A transaction a handler queues.                                         *)
LEMMA TransactionType ==
  ASSUME NEW c \in Conn, NEW kind \in Transactional, NEW writes \in SUBSET Writes,
         NEW from \in Party, NEW to \in Party, NEW amount \in Nat,
         NEW claim \in Drops \cup {None}, NEW spawn \in Item \cup {None},
         kind = "pickup" => claim \in Drops,
         IF kind = "drop" THEN spawn \in Item ELSE spawn = None,
         kind \in Charging => from \in Char \/ to \in Char
  PROVE  Transaction(c, kind, writes, Pay(from, to, amount), claim, spawn) \in Job
<1>1. /\ Pay(from, to, amount) \in Payment
      /\ Pay(from, to, amount).from = from /\ Pay(from, to, amount).to = to
  BY DEF Pay, Payment
<1> DEFINE pay == Pay(from, to, amount)
<1> HIDE DEF pay
<1>2. Transaction(c, kind, writes, pay, claim, spawn) \in TransactionJob
  BY <1>1 DEF Transaction, TransactionJob, pay
<1> QED BY <1>2 DEF Job, pay

(* The kind of a job says what it is made of.                              *)
LEMMA JobFields ==
  ASSUME NEW job \in Job
  PROVE  /\ job.kind \in Transactional \cup {"load", "create", "open"} /\ job.conn \in Conn
         /\ job.kind \in Transactional <=> job \in TransactionJob
         /\ job.kind = "load" <=> job \in LoadJob
         /\ job.kind = "create" <=> job \in CreateJob
         /\ job.kind = "open" <=> job \in OpenJob
<1>1. CASE job \in TransactionJob
  BY <1>1 DEF TransactionJob, LoadJob, CreateJob, OpenJob, Transactional
<1>2. CASE job \in LoadJob
  BY <1>2 DEF TransactionJob, LoadJob, CreateJob, OpenJob, Transactional
<1>3. CASE job \in CreateJob
  BY <1>3 DEF TransactionJob, LoadJob, CreateJob, OpenJob, Transactional
<1>4. CASE job \in OpenJob
  BY <1>4 DEF TransactionJob, LoadJob, CreateJob, OpenJob, Transactional
<1> QED BY <1>1, <1>2, <1>3, <1>4 DEF Job

(* The kind of a callback likewise.                                        *)
LEMMA CallbackFields ==
  ASSUME NEW callback \in Callback
  PROVE  /\ callback.kind = "applied" => callback \in AppliedCallback
         /\ callback.kind = "loaded" => callback \in LoadedCallback
         /\ callback.kind = "opened" => callback \in OpenedCallback
         /\ callback.kind = "refused" => callback \in RefusedCallback
BY DEF Callback, AppliedCallback, LoadedCallback, OpenedCallback, RefusedCallback,
       OpenFailedCallback

(* The first element of a queue, and what is left behind it.               *)
LEMMA RestOf ==
  ASSUME NEW S, NEW s \in Seq(S), s # <<>>
  PROVE  /\ Len(s) \in Nat \ {0} /\ DOMAIN s = 1..Len(s)
         /\ Head(s) \in S /\ Head(s) = s[1] /\ s[1] \in S
         /\ Tail(s) \in Seq(S) /\ DOMAIN Tail(s) = 1..(Len(s) - 1)
         /\ \A i \in 1..(Len(s) - 1) : Tail(s)[i] = s[i + 1]
<1>1. Len(s) \in Nat /\ Len(s) # 0 /\ DOMAIN s = 1..Len(s)
  BY EmptySeq, LenProperties
<1>2. Head(s) = s[1] /\ s[1] \in S
  BY <1>1, HeadTailProperties, ElementOfSeq
<1>3. /\ Tail(s) \in Seq(S) /\ Len(Tail(s)) = Len(s) - 1
      /\ \A i \in 1..(Len(s) - 1) : Tail(s)[i] = s[i + 1]
  BY <1>1, HeadTailProperties
<1>4. DOMAIN Tail(s) = 1..(Len(s) - 1)
  BY <1>3, LenProperties
<1> QED BY <1>1, <1>2, <1>3, <1>4

-----------------------------------------------------------------------------
(* Units                                                                   *)

(* SumOf counts what SumOver adds up.                                      *)
LEMMA SumOfIsSum ==
  ASSUME NEW D, IsFiniteSet(D), NEW f \in [D -> Nat]
  PROVE  SumOf(f) = SumOver(f, D)
<1> DEFINE Pairs(s) == UNION {{x} \X (1..f[x]) : x \in s}
           Counted(s) == IsFiniteSet(Pairs(s)) /\ Cardinality(Pairs(s)) = SumOver(f, s)
           T == {n \in Nat : \A s \in SUBSET D : Cardinality(s) <= n => Counted(s)}
<1>1. \A s \in SUBSET D : IsFiniteSet(s) /\ Cardinality(s) \in Nat
  BY FS_Subset, FS_CardinalityType
<1>2. f \in [D -> Int]
  OBVIOUS
<1>3. Counted({})
  <2>1. Pairs({}) = {}
    OBVIOUS
  <2> QED BY <1>2, <2>1, FS_EmptySet, SumEmpty
<1>4. ASSUME NEW s \in SUBSET D, NEW x \in s, Counted(s \ {x}) PROVE Counted(s)
  <2> DEFINE r == s \ {x}
             new == {x} \X (1..f[x])
  <2>1. f[x] \in Nat
    OBVIOUS
  <2>2. IsFiniteSet(new) /\ Cardinality(new) = f[x]
    <3>1. IsFiniteSet(1..f[x]) /\ Cardinality(1..f[x]) = f[x]
      BY <2>1, FS_Interval
    <3>2. IsFiniteSet({x}) /\ Cardinality({x}) = 1
      BY FS_Singleton
    <3>3. IsFiniteSet(new) /\ Cardinality(new) = Cardinality({x}) * Cardinality(1..f[x])
      BY <3>1, <3>2, FS_Product
    <3> QED BY <2>1, <3>1, <3>2, <3>3
  <2>3. Pairs(s) = Pairs(r) \cup new /\ Pairs(r) \cap new = {}
    OBVIOUS
  <2>4. SumOver(f, s) = f[x] + SumOver(f, r) /\ SumOver(f, r) \in Int
    BY <1>1, <1>2, SumRemove, SumType
  <2>5. IsFiniteSet(Pairs(r)) /\ Cardinality(Pairs(r)) = SumOver(f, r)
    BY <1>4
  <2> HIDE DEF Pairs, r, new
  <2>6. /\ IsFiniteSet(Pairs(r) \cup new)
        /\ Cardinality(Pairs(r) \cup new)
             = Cardinality(Pairs(r)) + Cardinality(new) - Cardinality(Pairs(r) \cap new)
    BY <2>2, <2>5, FS_Union
  <2>7. Cardinality(Pairs(r) \cap new) = 0
    BY <2>3, FS_EmptySet
  <2> QED BY <2>1, <2>2, <2>3, <2>4, <2>5, <2>6, <2>7
<1> HIDE DEF Counted
<1>5. 0 \in T
  BY <1>1, <1>3, FS_EmptySet
<1>6. ASSUME NEW n \in Nat, n \in T PROVE n + 1 \in T
  <2> SUFFICES ASSUME NEW s \in SUBSET D, Cardinality(s) <= n + 1 PROVE Counted(s)
    OBVIOUS
  <2>1. CASE s = {}
    BY <1>3, <2>1
  <2>2. CASE s # {}
    <3>1. PICK x \in s : TRUE
      BY <2>2
    <3>2. s \ {x} \in SUBSET D /\ Cardinality(s \ {x}) <= n
      BY <1>1, OneLess
    <3>3. Counted(s \ {x})
      BY <1>6, <3>2
    <3> QED BY <1>4, <3>3
  <2> QED BY <2>1, <2>2
<1>7. Cardinality(D) \in T
  <2> HIDE DEF T
  <2>1. Nat \subseteq T
    BY <1>5, <1>6, SetInduction
  <2> QED BY <1>1, <2>1
<1>8. Counted(D)
  BY <1>1, <1>7
<1> QED BY <1>8 DEF Counted, SumOf

(* What holds no item has no units.                                        *)
LEMMA UnitsType ==
  /\ Units(Empty) = 0 /\ Units(Virgin) = 0 /\ Units(None) = 0
  /\ \A item \in Item : Units(item) = IF item.refined THEN 1 ELSE item.qty
  /\ \A content \in Cached \cup {Virgin, None} : Units(content) \in Nat
<1>1. \A item \in Item : item \notin {Empty, Virgin, None} /\ item.qty \in Nat
  BY ItemsAssumption DEF Item
<1>2. Units(Empty) = 0 /\ Units(Virgin) = 0 /\ Units(None) = 0
  BY DEF Units
<1>3. \A item \in Item : Units(item) = IF item.refined THEN 1 ELSE item.qty
  BY <1>1 DEF Units
<1>4. \A item \in Item : Units(item) \in Nat
  BY <1>1, <1>3
<1> QED BY <1>2, <1>3, <1>4 DEF Cached

(* What is taken from an item and what is left make up the item, and what  *)
(* is taken is all there, in a slot of its own or on another stack.        *)
LEMMA TakenUnits ==
  ASSUME NEW item \in Item, NEW n \in Nat
  PROVE  /\ Units(Rest(item, n)) + Taken(item, n) = Units(item)
         /\ Units([item EXCEPT !.qty = Taken(item, n)]) = Taken(item, n)
<1>1. item.qty \in Nat /\ Taken(item, n) \in Nat
  BY TakenType DEF Item
<1>2. [item EXCEPT !.qty = Taken(item, n)] \in Item
  BY <1>1 DEF Item
<1>3. Units([item EXCEPT !.qty = Taken(item, n)]) = Taken(item, n)
  <2>1. [item EXCEPT !.qty = Taken(item, n)].refined = item.refined
        /\ [item EXCEPT !.qty = Taken(item, n)].qty = Taken(item, n)
    BY DEF Item
  <2> QED BY <1>2, <2>1, UnitsType DEF Taken
<1>4. CASE item.refined \/ n >= item.qty
  <2>1. Rest(item, n) = Empty
    BY <1>4 DEF Rest
  <2>2. Taken(item, n) = IF item.refined THEN 1 ELSE item.qty
    BY <1>1, <1>4 DEF Taken, Least
  <2>3. Units(Empty) = 0 /\ Units(item) = IF item.refined THEN 1 ELSE item.qty
    BY UnitsType
  <2>4. Units(Rest(item, n)) = 0 /\ Units(item) = Taken(item, n)
    BY <2>1, <2>2, <2>3
  <2> QED BY <1>1, <1>3, <2>4
<1>5. CASE ~(item.refined \/ n >= item.qty)
  <2> DEFINE rest == [item EXCEPT !.qty = item.qty - n]
  <2>1. rest \in Item /\ rest.refined = item.refined /\ rest.qty = item.qty - n
    BY <1>1, <1>5 DEF Item
  <2>2. Rest(item, n) = rest /\ Taken(item, n) = n
    BY <1>1, <1>5 DEF Rest, Taken, Least
  <2> HIDE DEF rest
  <2> QED BY <1>1, <1>3, <1>5, <2>1, <2>2, UnitsType
<1> QED BY <1>3, <1>4, <1>5

LEMMA StackedUnits ==
  ASSUME NEW item \in Item, NEW slot \in Cached, NEW n \in Nat,
         NEW new \in StackedInto(item, slot, n)
  PROVE  Units(new) = Units(slot) + (IF item.refined THEN 1 ELSE n)
<1>1. CASE slot = Empty
  <2>1. new = [item EXCEPT !.qty = n]
    BY <1>1 DEF StackedInto
  <2>2. new \in Item /\ new.refined = item.refined /\ new.qty = n
    BY <2>1 DEF Item
  <2> QED BY <1>1, <2>2, UnitsType
<1>2. CASE slot # Empty
  <2>1. slot \in Item /\ slot.qty \in Nat
    BY <1>2, ItemInSlot
  <2>2. ~item.refined /\ ~slot.refined /\ new = [slot EXCEPT !.qty = slot.qty + n]
    BY <1>2 DEF StackedInto
  <2>3. new \in Item /\ new.refined = slot.refined /\ new.qty = slot.qty + n
    BY <2>1, <2>2 DEF Item
  <2> QED BY <2>1, <2>2, <2>3, UnitsType
<1> QED BY <1>1, <1>2

(* What is taken of an item, stacked on a slot.                            *)
LEMMA StackedTaken ==
  ASSUME NEW item \in Item, NEW slot \in Cached, NEW n \in Nat,
         NEW new \in StackedInto(item, slot, Taken(item, n))
  PROVE  Units(new) = Units(slot) + Taken(item, n)
<1>1. Taken(item, n) \in Nat
  BY TakenType
<1>2. Units(new) = Units(slot) + (IF item.refined THEN 1 ELSE Taken(item, n))
  BY <1>1, StackedUnits
<1>3. item.refined => Taken(item, n) = 1
  BY DEF Taken
<1> QED BY <1>2, <1>3

(* What is claimed or given back are drops, one or none.                   *)
LEMMA ClaimedType ==
  ASSUME NEW job \in Job
  PROVE  /\ Claimed(job) \subseteq Drops /\ IsFiniteSet(Claimed(job))
         /\ Claimed(job) = {} \/ (Claimed(job) = {job.claim} /\ job.claim \in Drops)
<1>1. job.kind = "pickup" => job.claim \in Drops
  <2> SUFFICES ASSUME job.kind = "pickup" PROVE job.claim \in Drops
    OBVIOUS
  <2>1. job \in TransactionJob
    BY JobFields DEF Transactional
  <2> QED BY <2>1 DEF TransactionJob
<1>2. Claimed(job) = {} \/ (Claimed(job) = {job.claim} /\ job.claim \in Drops)
  BY <1>1 DEF Claimed
<1>3. IsFiniteSet({}) /\ IsFiniteSet({job.claim})
  BY FS_EmptySet, FS_Singleton
<1> QED BY <1>2, <1>3

DropUnits == [d \in Drops |-> Units(d.item)]

LEMMA DropUnitsType ==
  DropUnits \in [Drops -> Nat] /\ \A d \in Drops : DropUnits[d] = Units(d.item)
<1>1. \A d \in Drops : Units(d.item) \in Nat
  BY UnitsType DEF Drops, Cached
<1> QED BY <1>1 DEF DropUnits

(* The units of some drops,                                                *)
LEMMA UnitsOfType ==
  ASSUME NEW X \in SUBSET Drops, IsFiniteSet(X)
  PROVE  UnitsOf(X) \in Nat /\ UnitsOf(X) = SumOver(DropUnits, X)
<1> DEFINE f == [d \in X |-> Units(d.item)]
<1>1. f \in [X -> Nat] /\ \A d \in X : f[d] = DropUnits[d]
  BY DropUnitsType
<1>2. UnitsOf(X) = SumOf(f)
  BY DEF UnitsOf
<1> HIDE DEF f
<1>3. UnitsOf(X) = SumOver(f, X)
  BY <1>1, <1>2, SumOfIsSum
<1>4. f \in [X -> Int] /\ DropUnits \in [Drops -> Int]
  BY <1>1, DropUnitsType
<1>5. SumOver(f, X) = SumOver(DropUnits, X)
  BY <1>1, <1>4, SumSame
<1>6. SumOver(f, X) \in Nat
  BY <1>1, <1>4, SumNat
<1> QED BY <1>3, <1>5, <1>6

(* of none or one of them,                                                 *)
LEMMA UnitsOfFew == UnitsOf({}) = 0 /\ \A d \in Drops : UnitsOf({d}) = Units(d.item)
<1>1. DropUnits \in [Drops -> Int]
  BY DropUnitsType
<1>2. UnitsOf({}) = 0
  BY <1>1, FS_EmptySet, UnitsOfType, SumEmpty
<1>3. ASSUME NEW d \in Drops PROVE UnitsOf({d}) = Units(d.item)
  <2>1. UnitsOf({d}) = SumOver(DropUnits, {d})
    BY FS_Singleton, UnitsOfType
  <2>2. SumOver(DropUnits, {} \cup {d}) = SumOver(DropUnits, {}) + DropUnits[d]
    BY <1>1, FS_EmptySet, SumAdd
  <2>3. SumOver(DropUnits, {}) = 0 /\ DropUnits[d] \in Nat /\ DropUnits[d] = Units(d.item)
    BY <1>1, SumEmpty, DropUnitsType
  <2>4. {} \cup {d} = {d}
    OBVIOUS
  <2> QED BY <2>1, <2>2, <2>3, <2>4
<1> QED BY <1>2, <1>3

(* and of one more.                                                        *)
LEMMA UnitsOfMore ==
  ASSUME NEW X \in SUBSET Drops, IsFiniteSet(X), NEW d \in Drops, d \notin X
  PROVE  UnitsOf(X \cup {d}) = UnitsOf(X) + Units(d.item) /\ IsFiniteSet(X \cup {d})
<1>1. DropUnits \in [Drops -> Int]
  BY DropUnitsType
<1>2. IsFiniteSet(X \cup {d}) /\ X \cup {d} \in SUBSET Drops
  BY FS_AddElement
<1>3. SumOver(DropUnits, X \cup {d}) = SumOver(DropUnits, X) + DropUnits[d]
  BY <1>1, SumAdd
<1>4. UnitsOf(X \cup {d}) = SumOver(DropUnits, X \cup {d}) /\ UnitsOf(X) = SumOver(DropUnits, X)
  BY <1>2, UnitsOfType
<1> QED BY <1>2, <1>3, <1>4, DropUnitsType

-----------------------------------------------------------------------------
(* Units along the queues                                                  *)

\* What a queued job has claimed, what a callback will put on the ground.
ClaimUnits == [job \in Job |-> UnitsOf(Claimed(job))]
LandUnits == [callback \in Callback |-> ToGround(callback)]

LEMMA ClaimUnitsType ==
  /\ ClaimUnits \in [Job -> Nat]
  /\ \A job \in Job : ClaimUnits[job] = UnitsOf(Claimed(job))
<1>1. \A job \in Job : UnitsOf(Claimed(job)) \in Nat
  BY ClaimedType, UnitsOfType
<1> QED BY <1>1 DEF ClaimUnits

LEMMA LandUnitsType ==
  /\ LandUnits \in [Callback -> Nat]
  /\ \A callback \in Callback : LandUnits[callback] = ToGround(callback)
<1>1. ASSUME NEW callback \in Callback PROVE ToGround(callback) \in Nat
  <2>1. CASE callback.kind = "refused"
    <3>1. callback.job \in Job
      BY <2>1, CallbackFields DEF RefusedCallback
    <3>2. UnitsOf(Claimed(callback.job)) \in Nat
      BY <3>1, ClaimedType, UnitsOfType
    <3> QED BY <2>1, <3>2 DEF ToGround
  <2>2. CASE callback.kind = "applied"
    <3>1. callback.job.spawn \in Item \cup {None}
      BY <2>2, CallbackFields DEF AppliedCallback, TransactionJob
    <3>2. Units(callback.job.spawn) \in Nat
      BY <3>1, UnitsType DEF Cached
    <3> QED BY <2>2, <3>2 DEF ToGround
  <2>3. CASE callback.kind \notin {"refused", "applied"}
    BY <2>3 DEF ToGround
  <2> QED BY <2>1, <2>2, <2>3
<1> QED BY <1>1 DEF LandUnits

-----------------------------------------------------------------------------
(* Balanced transactions                                                   *)

Gains == [w \in Writes |-> Units(w.new) - Units(w.old)]

Gain(writes) == SumOver(Gains, writes)

\* A transaction writes two slots at most.
Few(writes) ==
  \/ writes = {}
  \/ \E w \in Writes : writes = {w}
  \/ \E w, v \in Writes : w.at # v.at /\ writes = {w, v}

\* What the characters and accounts have more, or less, after a payment.
Paying(pay) ==
  (IF pay.to = Shop THEN 0 ELSE pay.amount) - (IF pay.from = Shop THEN 0 ELSE pay.amount)

\* What a transaction would add if every slot were as the handler saw it.
Made(job) == Gain(job.writes) + Paying(job.pay) + Units(job.spawn) - UnitsOf(Claimed(job))

BalancedJob(job) ==
  /\ Few(job.writes)
  /\ Made(job) \in Int /\ Made(job) <= 0
  /\ job.kind \notin {"delete", "itemOut"} => Made(job) = 0

LEMMA GainsType ==
  Gains \in [Writes -> Int] /\ \A w \in Writes : Gains[w] = Units(w.new) - Units(w.old)
<1>1. ASSUME NEW w \in Writes PROVE Units(w.new) - Units(w.old) \in Int
  <2>1. w.new \in Cached /\ w.old \in Cached
    BY DEF Writes
  <2>2. Units(w.new) \in Nat /\ Units(w.old) \in Nat
    BY <2>1, UnitsType
  <2> QED BY <2>2
<1> QED BY <1>1 DEF Gains

(* What one write or two of different slots gain.                          *)
LEMMA GainOfFew ==
  /\ Gain({}) = 0
  /\ \A w \in Writes : Gain({w}) = Gains[w]
  /\ \A w, v \in Writes : w.at # v.at => Gain({w, v}) = Gains[w] + Gains[v]
<1>0. Gains \in [Writes -> Int]
  BY GainsType
<1>1. Gain({}) = 0
  BY <1>0, SumEmpty DEF Gain
<1>2. ASSUME NEW w \in Writes PROVE Gain({w}) = Gains[w]
  <2>1. SumOver(Gains, {} \cup {w}) = SumOver(Gains, {}) + Gains[w]
    BY <1>0, FS_EmptySet, SumAdd
  <2>2. {} \cup {w} = {w} /\ Gains[w] \in Int
    BY GainsType
  <2> QED BY <1>1, <2>1, <2>2 DEF Gain
<1>3. ASSUME NEW w \in Writes, NEW v \in Writes, w.at # v.at
      PROVE  Gain({w, v}) = Gains[w] + Gains[v]
  <2>1. PICK one \in SUBSET Writes : one = {w} /\ IsFiniteSet(one)
    <3>1. IsFiniteSet({w})
      BY FS_Singleton
    <3>2. {w} \in SUBSET Writes
      OBVIOUS
    <3> QED BY <3>1, <3>2, Zenon
  <2>2. v \notin one /\ one \cup {v} = {w, v}
    BY <1>3, <2>1
  <2>3. SumOver(Gains, one \cup {v}) = SumOver(Gains, one) + Gains[v]
    <3>1. IsFiniteSet(one) /\ v \notin one
      BY <2>1, <2>2
    <3> QED BY <1>0, <3>1, SumAdd
  <2> QED BY <1>2, <2>1, <2>2, <2>3 DEF Gain
<1> QED BY <1>1, <1>2, <1>3

LEMMA GainType ==
  ASSUME NEW writes \in SUBSET Writes, Few(writes)
  PROVE  Gain(writes) \in Int
<1>1. \A w \in Writes : Gains[w] \in Int
  BY GainsType
<1>2. CASE writes = {}
  BY <1>2, GainOfFew
<1>3. CASE \E w \in Writes : writes = {w}
  BY <1>1, <1>3, GainOfFew
<1>4. CASE \E w, v \in Writes : w.at # v.at /\ writes = {w, v}
  <2>1. PICK w \in Writes, v \in Writes : w.at # v.at /\ writes = {w, v}
    BY <1>4
  <2>2. Gain({w, v}) = Gains[w] + Gains[v]
    BY <2>1, GainOfFew
  <2> QED BY <1>1, <2>1, <2>2
<1> QED BY <1>2, <1>3, <1>4 DEF Few

LEMMA OneWrite ==
  ASSUME NEW at \in SlotAt, NEW old \in Cached, NEW new \in Cached
  PROVE  /\ Few({Write(at, old, new)})
         /\ Gain({Write(at, old, new)}) = Units(new) - Units(old)
<1>1. PICK w \in Writes : w = Write(at, old, new)
  BY WriteType
<1>2. w.new = new /\ w.old = old
  BY <1>1 DEF Write
<1>3. Gain({w}) = Units(new) - Units(old)
  BY <1>2, GainOfFew, GainsType
<1>4. Few({w})
  BY DEF Few
<1> QED BY <1>1, <1>3, <1>4

LEMMA TwoWrites ==
  ASSUME NEW w \in Writes, NEW v \in Writes, w.at # v.at
  PROVE  /\ Few({w, v})
         /\ Gain({w, v}) = (Units(w.new) - Units(w.old)) + (Units(v.new) - Units(v.old))
<1>1. Gain({w, v}) = Gains[w] + Gains[v]
  BY GainOfFew
<1>2. Gains[w] = Units(w.new) - Units(w.old) /\ Gains[v] = Units(v.new) - Units(v.old)
  BY GainsType
<1>3. Few({w, v})
  BY DEF Few
<1> QED BY <1>1, <1>2, <1>3

(* What a payment comes to.                                                *)
LEMMA PayingOf ==
  ASSUME NEW from \in Char \cup Account, NEW to \in Char \cup Account, NEW n \in Nat
  PROVE  /\ Paying(NoPay) = 0 /\ Paying(Pay(from, to, n)) = 0
         /\ Paying(Pay(from, Shop, n)) = -n /\ Paying(Pay(Shop, to, n)) = n
<1>1. from # Shop /\ to # Shop
  BY ItemsAssumption
<1>2. Paying(NoPay) = 0
  BY DEF NoPay, Pay, Paying
<1>3. Paying(Pay(from, to, n)) = 0
  BY <1>1 DEF Pay, Paying
<1>4. Paying(Pay(from, Shop, n)) = -n
  BY <1>1 DEF Pay, Paying
<1>5. Paying(Pay(Shop, to, n)) = n
  BY <1>1 DEF Pay, Paying
<1> QED BY <1>2, <1>3, <1>4, <1>5

\* What a transaction that claims no drop writes, pays and drops.
Fair(kind, writes, pay, spawn) ==
  /\ kind # "pickup" /\ Few(writes)
  /\ Gain(writes) \in Int /\ Paying(pay) \in Int /\ Units(spawn) \in Int
  /\ Gain(writes) + Paying(pay) + Units(spawn) <= 0
  /\ kind \notin {"delete", "itemOut"} => Gain(writes) + Paying(pay) + Units(spawn) = 0

(* Such a transaction is balanced.                                         *)
LEMMA BalancedTransaction ==
  ASSUME NEW c, NEW kind, NEW writes, NEW pay, NEW spawn, Fair(kind, writes, pay, spawn)
  PROVE  /\ Claimed(Transaction(c, kind, writes, pay, None, spawn)) = {}
         /\ BalancedJob(Transaction(c, kind, writes, pay, None, spawn))
<1>1. PICK job : job = Transaction(c, kind, writes, pay, None, spawn)
  OBVIOUS
<1>2. job.kind = kind /\ job.writes = writes /\ job.pay = pay /\ job.spawn = spawn
  BY <1>1 DEF Transaction
<1>3. Claimed(job) = {} /\ UnitsOf(Claimed(job)) = 0
  BY <1>2, UnitsOfFew DEF Claimed, Fair
<1>4. Made(job) = Gain(writes) + Paying(pay) + Units(spawn)
  BY <1>2, <1>3 DEF Made, Fair
<1> QED BY <1>1, <1>2, <1>3, <1>4 DEF BalancedJob, Fair

-----------------------------------------------------------------------------
(* Requests                                                                *)

(* Who plays has typed caches.                                             *)
LEMMA PlayingType ==
  ASSUME TypeInv, NEW c \in Conn, Playing(c)
  PROVE  /\ player[c] \in Player
         /\ player[c].char \in Char /\ player[c].money \in Nat
         /\ player[c].slots \in [Bag \cup Equip -> Cached]
         /\ \A s \in Bag \cup Equip : BagOf(c, s) \in Cached /\ At(c, s) \in SlotAt
<1>1. player[c] \in Player
  BY DEF TypeInv, Playing
<1> QED BY <1>1 DEF Player, BagOf, At, SlotAt

(* Who has the bank open has its boxes and balance too.                    *)
LEMMA OpenType ==
  ASSUME TypeInv, NEW c \in Conn, Open(c)
  PROVE  /\ Playing(c) /\ player[c].bank \in Bank
         /\ player[c].bank.id \in Account /\ player[c].bank.money \in Nat
         /\ \A b \in Box : player[c].bank.slots[b] \in Cached /\ InBox(c, b) \in SlotAt
<1>1. Playing(c) /\ player[c] \in Player
  BY PlayingType DEF Open
<1>2. player[c].bank \in Bank
  BY <1>1 DEF Open, Player
<1> QED BY <1>1, <1>2 DEF Bank, InBox, SlotAt

\* A handler queues a job, which takes what it claims off the ground and, if it
\* is a transaction, makes nothing.
Asks(job) ==
  /\ Request(job) /\ UNCHANGED player
  /\ Claimed(job) \subseteq ground /\ ground' = ground \ Claimed(job)
  /\ job.kind \in Transactional => BalancedJob(job)

(* A transaction that leaves the ground alone.                             *)
LEMMA TransactionAsked ==
  ASSUME NEW c, NEW kind, NEW writes, NEW pay, NEW spawn, Fair(kind, writes, pay, spawn),
         Transaction(c, kind, writes, pay, None, spawn) \in Job,
         Request(Transaction(c, kind, writes, pay, None, spawn)), UNCHANGED <<player, ground>>
  PROVE  \E job \in Job : Asks(job)
<1>1. PICK job \in Job : job = Transaction(c, kind, writes, pay, None, spawn)
  OBVIOUS
<1>2. Claimed(job) = {} /\ BalancedJob(job)
  BY <1>1, BalancedTransaction
<1> QED BY <1>1, <1>2 DEF Asks

(* Bag, equipment and ground. A drop has an item: a pickup's job has       *)
(* claimed what it stacks, a drop's job puts down what it takes.           *)
LEMMA BaggingAsks ==
  ASSUME TypeInv, NEW c \in Conn, Bagging(c)
  PROVE  \E job \in Job : Asks(job)
<1> USE DEF Transactional, Party
<1>1. ASSUME NEW d \in ground, NEW s \in Bag, HandleItemPickup(c, d, s)
      PROVE  \E job \in Job : Asks(job)
  <2>1. Playing(c) /\ d \in Drops /\ d.item \in Item /\ d.item.qty \in Nat
    BY <1>1 DEF HandleItemPickup, TypeInv, Drops, Item
  <2>2. BagOf(c, s) \in Cached /\ At(c, s) \in SlotAt
    BY <2>1, PlayingType
  <2>3. PICK new \in StackedInto(d.item, BagOf(c, s), d.item.qty) :
          Request(Transaction(c, "pickup", {Write(At(c, s), BagOf(c, s), new)}, NoPay, d, None))
    BY <1>1 DEF HandleItemPickup
  <2>4. new \in Cached /\ {Write(At(c, s), BagOf(c, s), new)} \in SUBSET Writes
    BY <2>1, <2>2, <2>3, StackedIntoType, WriteType DEF Cached
  <2> DEFINE writes == {Write(At(c, s), BagOf(c, s), new)}
  <2>5. Transaction(c, "pickup", writes, NoPay, d, None) \in Job
    BY <2>1, <2>4, TransactionType DEF NoPay, Charging
  <2>6. Few(writes) /\ Gain(writes) = Units(new) - Units(BagOf(c, s))
    BY <2>2, <2>4, OneWrite
  <2>7. /\ Units(new) = Units(BagOf(c, s)) + Units(d.item)
        /\ Units(d.item) \in Nat /\ Units(BagOf(c, s)) \in Nat
    <3>1. Units(new) = Units(BagOf(c, s)) + (IF d.item.refined THEN 1 ELSE d.item.qty)
      BY <2>1, <2>2, StackedUnits
    <3>2. Units(d.item) = IF d.item.refined THEN 1 ELSE d.item.qty
      BY <2>1, UnitsType
    <3>3. Units(d.item) \in Nat /\ Units(BagOf(c, s)) \in Nat
      BY <2>1, <2>2, UnitsType DEF Cached
    <3> QED BY <3>1, <3>2, <3>3
  <2> HIDE DEF writes
  <2>8. PICK job \in Job : job = Transaction(c, "pickup", writes, NoPay, d, None)
    BY <2>5
  <2>9. /\ job.kind = "pickup" /\ job.writes = writes /\ job.pay = NoPay /\ job.spawn = None
        /\ Claimed(job) = {d}
    BY <2>8 DEF Transaction, Claimed
  <2>10. Paying(NoPay) = 0 /\ Units(None) = 0 /\ UnitsOf({d}) = Units(d.item)
    BY <2>1, UnitsOfFew, UnitsType DEF Paying, NoPay, Pay
  <2>11. Made(job) = 0
    BY <2>6, <2>7, <2>9, <2>10 DEF Made
  <2>12. BalancedJob(job)
    BY <2>6, <2>9, <2>11 DEF BalancedJob
  <2>13. Request(job) /\ ground' = ground \ {d} /\ UNCHANGED player
    BY <1>1, <2>3, <2>8 DEF HandleItemPickup, writes
  <2> QED BY <2>9, <2>12, <2>13 DEF Asks
<1>2. ASSUME NEW source \in Bag \cup Equip, NEW dest \in Bag \cup Equip,
             HandleItemMove(c, source, dest)
      PROVE  \E job \in Job : Asks(job)
  <2> DEFINE writes == {Write(At(c, source), BagOf(c, source), BagOf(c, dest)),
                        Write(At(c, dest), BagOf(c, dest), BagOf(c, source))}
  <2>1. /\ BagOf(c, source) \in Cached /\ BagOf(c, dest) \in Cached
        /\ At(c, source) \in SlotAt /\ At(c, dest) \in SlotAt
    BY <1>2, PlayingType DEF HandleItemMove
  <2>2. writes \in SUBSET Writes
    BY <2>1, WriteType
  <2>3. Transaction(c, "move", writes, NoPay, None, None) \in Job
    BY <2>2, TransactionType DEF NoPay, Charging
  <2>4. Units(BagOf(c, source)) \in Nat /\ Units(BagOf(c, dest)) \in Nat
    BY <2>1, UnitsType
  <2>5. Few(writes) /\ Gain(writes) = 0
    <3>1. CASE source = dest
      <4>1. writes = {Write(At(c, source), BagOf(c, source), BagOf(c, source))}
        BY <3>1
      <4> HIDE DEF writes
      <4>2. Few(writes) /\ Gain(writes) = Units(BagOf(c, source)) - Units(BagOf(c, source))
        BY <2>1, <4>1, OneWrite
      <4> QED BY <2>4, <4>2
    <3>2. CASE source # dest
      <4>1. At(c, source) # At(c, dest)
        BY <3>2 DEF At
      <4>2. PICK w, v : /\ w = Write(At(c, source), BagOf(c, source), BagOf(c, dest))
                        /\ v = Write(At(c, dest), BagOf(c, dest), BagOf(c, source))
        OBVIOUS
      <4>3. /\ w.at # v.at /\ w.old = BagOf(c, source) /\ w.new = BagOf(c, dest)
            /\ v.old = BagOf(c, dest) /\ v.new = BagOf(c, source)
        BY <4>1, <4>2 DEF Write
      <4>4. writes = {w, v} /\ w \in Writes /\ v \in Writes
        BY <2>2, <4>2
      <4> HIDE DEF writes
      <4>5. /\ Few(writes)
            /\ Gain(writes) = (Units(BagOf(c, dest)) - Units(BagOf(c, source)))
                                + (Units(BagOf(c, source)) - Units(BagOf(c, dest)))
        BY <4>3, <4>4, TwoWrites
      <4> QED BY <2>4, <4>5
    <3> QED BY <3>1, <3>2
  <2>6. Paying(NoPay) = 0 /\ Units(None) = 0
    BY UnitsType DEF Paying, NoPay, Pay
  <2>7. Request(Transaction(c, "move", writes, NoPay, None, None)) /\ UNCHANGED <<player, ground>>
    BY <1>2 DEF HandleItemMove
  <2> HIDE DEF writes
  <2>8. Fair("move", writes, NoPay, None)
    BY <2>5, <2>6 DEF Fair
  <2> QED BY <2>3, <2>7, <2>8, TransactionAsked
<1>3. ASSUME NEW s \in Bag, NEW n \in Amount, HandleItemDrop(c, s, n)
      PROVE  \E job \in Job : Asks(job)
  <2> DEFINE item == BagOf(c, s)
             writes == {Write(At(c, s), item, Rest(item, n))}
             drop == [item EXCEPT !.qty = Taken(item, n)]
  <2>1. n \in Nat /\ item \in Item /\ item \in Cached /\ At(c, s) \in SlotAt
    BY <1>3, PlayingType, ItemInSlot, ItemsAssumption DEF HandleItemDrop, Amount
  <2>2. /\ Taken(item, n) \in Nat /\ Rest(item, n) \in Cached /\ writes \in SUBSET Writes
    BY <2>1, TakenType, WriteType
  <2>3. drop \in Item
    BY <2>1, <2>2 DEF Item
  <2>4. Transaction(c, "drop", writes, NoPay, None, drop) \in Job
    BY <2>2, <2>3, TransactionType DEF NoPay, Charging
  <2>5. Few(writes) /\ Gain(writes) = Units(Rest(item, n)) - Units(item)
    BY <2>1, <2>2, OneWrite
  <2>6. /\ Units(Rest(item, n)) + Taken(item, n) = Units(item) /\ Units(drop) = Taken(item, n)
        /\ Units(item) \in Nat /\ Units(Rest(item, n)) \in Nat
    BY <2>1, <2>2, TakenUnits, UnitsType
  <2>7. Paying(NoPay) = 0
    BY DEF Paying, NoPay, Pay
  <2>8. Request(Transaction(c, "drop", writes, NoPay, None, drop)) /\ UNCHANGED <<player, ground>>
    BY <1>3 DEF HandleItemDrop
  <2> HIDE DEF item, writes, drop
  <2>9. Fair("drop", writes, NoPay, drop)
    BY <2>2, <2>5, <2>6, <2>7 DEF Fair
  <2> QED BY <2>4, <2>8, <2>9, TransactionAsked
<1>4. ASSUME NEW s \in Bag \cup Equip, HandleItemDelete(c, s) PROVE \E job \in Job : Asks(job)
  <2> DEFINE item == BagOf(c, s)
             writes == {Write(At(c, s), item, Empty)}
  <2>1. item \in Cached /\ At(c, s) \in SlotAt /\ Empty \in Cached
    BY <1>4, PlayingType DEF HandleItemDelete, Cached
  <2>2. writes \in SUBSET Writes
    BY <2>1, WriteType
  <2>3. Transaction(c, "delete", writes, NoPay, None, None) \in Job
    BY <2>2, TransactionType DEF NoPay, Charging
  <2>4. Few(writes) /\ Gain(writes) = Units(Empty) - Units(item)
    BY <2>1, OneWrite
  <2>5. Units(item) \in Nat /\ Units(Empty) = 0 /\ Units(None) = 0 /\ Paying(NoPay) = 0
    BY <2>1, UnitsType DEF Paying, NoPay, Pay
  <2>6. Request(Transaction(c, "delete", writes, NoPay, None, None)) /\ UNCHANGED <<player, ground>>
    BY <1>4 DEF HandleItemDelete
  <2> HIDE DEF item, writes
  <2>7. Fair("delete", writes, NoPay, None)
    BY <2>4, <2>5 DEF Fair
  <2> QED BY <2>3, <2>6, <2>7, TransactionAsked
<1> QED BY <1>1, <1>2, <1>3, <1>4 DEF Bagging

(* Shops: a unit is a coin.                                                *)
LEMMA TradingAsks ==
  ASSUME TypeInv, NEW c \in Conn, Trading(c)
  PROVE  \E job \in Job : Asks(job)
<1> USE DEF Transactional, Party
<1>1. ASSUME NEW s \in Bag, NEW kind \in Kind, NEW n \in Amount,
             HandleItemTradeBuy(c, s, kind, n)
      PROVE  \E job \in Job : Asks(job)
  <2> DEFINE bought == [kind |-> kind, qty |-> 0, refined |-> FALSE]
  <2>1. n \in Nat /\ bought \in Item /\ ~bought.refined
    BY ItemsAssumption DEF Amount, Item
  <2>2. BagOf(c, s) \in Cached /\ At(c, s) \in SlotAt /\ player[c].char \in Char
    BY <1>1, PlayingType DEF HandleItemTradeBuy
  <2>3. PICK new \in StackedInto(bought, BagOf(c, s), n) :
          Request(Transaction(c, "buy", {Write(At(c, s), BagOf(c, s), new)},
                              Pay(player[c].char, Shop, n), None, None))
    BY <1>1 DEF HandleItemTradeBuy
  <2> HIDE DEF bought
  <2> DEFINE writes == {Write(At(c, s), BagOf(c, s), new)}
             pay == Pay(player[c].char, Shop, n)
  <2>4. new \in Cached /\ writes \in SUBSET Writes
    BY <2>1, <2>2, <2>3, StackedIntoType, WriteType DEF Cached
  <2>5. Transaction(c, "buy", writes, pay, None, None) \in Job
    BY <2>1, <2>2, <2>4, TransactionType
  <2>6. Few(writes) /\ Gain(writes) = Units(new) - Units(BagOf(c, s))
    BY <2>2, <2>4, OneWrite
  <2>7. Units(new) = Units(BagOf(c, s)) + n
    BY <2>1, <2>2, StackedUnits
  <2>8. Units(BagOf(c, s)) \in Nat /\ Units(None) = 0
    BY <2>2, UnitsType
  <2>9. Paying(pay) = -n
    BY <2>1, <2>2, PayingOf
  <2>10. Request(Transaction(c, "buy", writes, pay, None, None)) /\ UNCHANGED <<player, ground>>
    BY <1>1, <2>3 DEF HandleItemTradeBuy
  <2> HIDE DEF writes, pay
  <2>11. Fair("buy", writes, pay, None)
    BY <2>1, <2>6, <2>7, <2>8, <2>9 DEF Fair
  <2> QED BY <2>5, <2>10, <2>11, TransactionAsked
<1>2. ASSUME NEW s \in Bag, NEW n \in Amount, HandleItemTradeSell(c, s, n)
      PROVE  \E job \in Job : Asks(job)
  <2> DEFINE item == BagOf(c, s)
             writes == {Write(At(c, s), item, Rest(item, n))}
             pay == Pay(Shop, player[c].char, Taken(item, n))
  <2>1. /\ n \in Nat /\ item \in Item /\ item \in Cached /\ At(c, s) \in SlotAt
        /\ player[c].char \in Char
    BY <1>2, PlayingType, ItemInSlot, ItemsAssumption DEF HandleItemTradeSell, Amount
  <2>2. Taken(item, n) \in Nat /\ Rest(item, n) \in Cached /\ writes \in SUBSET Writes
    BY <2>1, TakenType, WriteType
  <2>3. Transaction(c, "sell", writes, pay, None, None) \in Job
    BY <2>1, <2>2, TransactionType
  <2>4. Few(writes) /\ Gain(writes) = Units(Rest(item, n)) - Units(item)
    BY <2>1, <2>2, OneWrite
  <2>5. /\ Units(Rest(item, n)) + Taken(item, n) = Units(item)
        /\ Units(item) \in Nat /\ Units(Rest(item, n)) \in Nat /\ Units(None) = 0
    BY <2>1, <2>2, TakenUnits, UnitsType
  <2>6. Paying(pay) = Taken(item, n)
    BY <2>1, <2>2, PayingOf
  <2>7. Request(Transaction(c, "sell", writes, pay, None, None)) /\ UNCHANGED <<player, ground>>
    BY <1>2 DEF HandleItemTradeSell
  <2> HIDE DEF item, writes, pay
  <2>8. Fair("sell", writes, pay, None)
    BY <2>2, <2>4, <2>5, <2>6 DEF Fair
  <2> QED BY <2>3, <2>7, <2>8, TransactionAsked
<1> QED BY <1>1, <1>2 DEF Trading

(* The bank. Boxes and bags are different slots, so an item between the    *)
(* two makes nothing; a withdrawal pays a fee. Closing the bank queues     *)
(* nothing.                                                                *)
LEMMA BankingAsks ==
  ASSUME TypeInv, NEW c \in Conn, Banking(c)
  PROVE  HandleStoreClose(c) \/ \E job \in Job : Asks(job)
<1> USE DEF Transactional, Party
<1>1. ASSUME NEW job \in Job, job.kind \in {"create", "open"}, Request(job),
             UNCHANGED <<player, ground>>
      PROVE  Asks(job)
  BY <1>1 DEF Asks, Claimed
<1>2. ASSUME HandleStoreCreate(c) PROVE \E job \in Job : Asks(job)
  <2>1. AccountOf[player[c].char] \in Account
    BY <1>2, PlayingType, ItemsAssumption DEF HandleStoreCreate
  <2>2. [kind |-> "create", conn |-> c, account |-> AccountOf[player[c].char]] \in Job
    BY <2>1 DEF Job, CreateJob
  <2> QED BY <1>1, <1>2, <2>2 DEF HandleStoreCreate
<1>3. ASSUME NEW right \in BOOLEAN, HandleStoreOpen(c, right) PROVE \E job \in Job : Asks(job)
  <2>1. AccountOf[player[c].char] \in Account
    BY <1>3, PlayingType, ItemsAssumption DEF HandleStoreOpen
  <2>2. [kind |-> "open", conn |-> c, account |-> AccountOf[player[c].char], right |-> right]
          \in Job
    BY <2>1 DEF Job, OpenJob
  <2> QED BY <1>1, <1>3, <2>2 DEF HandleStoreOpen
<1>4. ASSUME NEW b \in Box, NEW s \in Bag, NEW n \in Amount, HandleStoreItemOut(c, b, s, n)
      PROVE  \E job \in Job : Asks(job)
  <2> DEFINE item == player[c].bank.slots[b]
             pay == Pay(player[c].char, Shop, Fee)
  <2>1. /\ n \in Nat /\ item \in Item /\ item \in Cached /\ InBox(c, b) \in SlotAt
        /\ BagOf(c, s) \in Cached /\ At(c, s) \in SlotAt
        /\ player[c].char \in Char /\ player[c].bank.id \in Account
    BY <1>4, OpenType, PlayingType, ItemInSlot, ItemsAssumption DEF HandleStoreItemOut, Amount
  <2>2. PICK new \in StackedInto(item, BagOf(c, s), Taken(item, n)) :
          Request(Transaction(c, "itemOut",
            {Write(At(c, s), BagOf(c, s), new), Write(InBox(c, b), item, Rest(item, n))},
            Pay(player[c].char, Shop, Fee), None, None))
    BY <1>4 DEF HandleStoreItemOut
  <2> DEFINE writes == {Write(At(c, s), BagOf(c, s), new), Write(InBox(c, b), item, Rest(item, n))}
  <2>3. new \in Cached /\ Rest(item, n) \in Cached /\ Taken(item, n) \in Nat
    BY <2>1, <2>2, TakenType, StackedIntoType DEF Cached
  <2>4. writes \in SUBSET Writes
    BY <2>1, <2>3, WriteType
  <2>5. Fee \in Nat
    BY ItemsAssumption
  <2>6. Transaction(c, "itemOut", writes, pay, None, None) \in Job
    BY <2>1, <2>4, <2>5, TransactionType
  <2>7. At(c, s) # InBox(c, b)
    BY <2>1, ItemsAssumption DEF At, InBox
  <2>8. /\ Few(writes)
        /\ Gain(writes) = (Units(new) - Units(BagOf(c, s)))
                            + (Units(Rest(item, n)) - Units(item))
    <3>1. PICK w, v : /\ w = Write(At(c, s), BagOf(c, s), new)
                      /\ v = Write(InBox(c, b), item, Rest(item, n))
      OBVIOUS
    <3>2. /\ w.at # v.at /\ w.old = BagOf(c, s) /\ w.new = new
          /\ v.old = item /\ v.new = Rest(item, n)
      BY <2>7, <3>1 DEF Write
    <3>3. writes = {w, v} /\ w \in Writes /\ v \in Writes
      BY <2>4, <3>1
    <3> HIDE DEF writes, item
    <3> QED BY <3>2, <3>3, TwoWrites
  <2>9. Units(new) = Units(BagOf(c, s)) + Taken(item, n)
    BY <2>1, <2>2, <2>3, StackedTaken
  <2>10. /\ Units(Rest(item, n)) + Taken(item, n) = Units(item) /\ Units(None) = 0
         /\ Units(BagOf(c, s)) \in Nat /\ Units(item) \in Nat /\ Units(Rest(item, n)) \in Nat
    BY <2>1, <2>3, TakenUnits, UnitsType
  <2>11. Paying(pay) = -Fee
    BY <2>1, <2>5, PayingOf
  <2>12. Request(Transaction(c, "itemOut", writes, pay, None, None)) /\ UNCHANGED <<player, ground>>
    BY <1>4, <2>2 DEF HandleStoreItemOut
  <2> HIDE DEF item, writes, pay
  <2>13. Fair("itemOut", writes, pay, None)
    BY <2>3, <2>5, <2>8, <2>9, <2>10, <2>11 DEF Fair
  <2> QED BY <2>6, <2>12, <2>13, TransactionAsked
<1>5. ASSUME NEW s \in Bag, NEW b \in Box, NEW n \in Amount, HandleStoreItemIn(c, s, b, n)
      PROVE  \E job \in Job : Asks(job)
  <2> DEFINE item == BagOf(c, s)
             there == player[c].bank.slots[b]
  <2>1. /\ n \in Nat /\ item \in Item /\ item \in Cached /\ InBox(c, b) \in SlotAt
        /\ there \in Cached /\ At(c, s) \in SlotAt
        /\ player[c].char \in Char /\ player[c].bank.id \in Account
    BY <1>5, OpenType, PlayingType, ItemInSlot, ItemsAssumption DEF HandleStoreItemIn, Amount
  <2>2. PICK new \in StackedInto(item, there, Taken(item, n)) :
          Request(Transaction(c, "itemIn",
            {Write(InBox(c, b), there, new), Write(At(c, s), item, Rest(item, n))},
            NoPay, None, None))
    BY <1>5 DEF HandleStoreItemIn
  <2> DEFINE writes == {Write(InBox(c, b), there, new), Write(At(c, s), item, Rest(item, n))}
  <2>3. new \in Cached /\ Rest(item, n) \in Cached /\ Taken(item, n) \in Nat
    BY <2>1, <2>2, TakenType, StackedIntoType DEF Cached
  <2>4. writes \in SUBSET Writes
    BY <2>1, <2>3, WriteType
  <2>5. Transaction(c, "itemIn", writes, NoPay, None, None) \in Job
    BY <2>4, TransactionType DEF NoPay, Charging
  <2>6. InBox(c, b) # At(c, s)
    BY <2>1, ItemsAssumption DEF At, InBox
  <2>7. /\ Few(writes)
        /\ Gain(writes) = (Units(new) - Units(there)) + (Units(Rest(item, n)) - Units(item))
    <3>1. PICK w, v : /\ w = Write(InBox(c, b), there, new)
                      /\ v = Write(At(c, s), item, Rest(item, n))
      OBVIOUS
    <3>2. /\ w.at # v.at /\ w.old = there /\ w.new = new
          /\ v.old = item /\ v.new = Rest(item, n)
      BY <2>6, <3>1 DEF Write
    <3>3. writes = {w, v} /\ w \in Writes /\ v \in Writes
      BY <2>4, <3>1
    <3> HIDE DEF writes, item, there
    <3> QED BY <3>2, <3>3, TwoWrites
  <2>8. Units(new) = Units(there) + Taken(item, n)
    BY <2>1, <2>2, <2>3, StackedTaken
  <2>9. /\ Units(Rest(item, n)) + Taken(item, n) = Units(item)
        /\ Units(None) = 0 /\ Paying(NoPay) = 0
        /\ Units(there) \in Nat /\ Units(item) \in Nat /\ Units(Rest(item, n)) \in Nat
    <3>1. Paying(NoPay) = 0
      BY DEF Paying, NoPay, Pay
    <3> QED BY <2>1, <2>3, <3>1, TakenUnits, UnitsType
  <2>10. Request(Transaction(c, "itemIn", writes, NoPay, None, None)) /\ UNCHANGED <<player, ground>>
    BY <1>5, <2>2 DEF HandleStoreItemIn
  <2> HIDE DEF item, there, writes
  <2>11. Fair("itemIn", writes, NoPay, None)
    BY <2>3, <2>7, <2>8, <2>9 DEF Fair
  <2> QED BY <2>5, <2>10, <2>11, TransactionAsked
<1>6. ASSUME NEW n \in Amount, HandleStoreMoneyOut(c, n) \/ HandleStoreMoneyIn(c, n)
      PROVE  \E job \in Job : Asks(job)
  <2>1. n \in Nat /\ player[c].char \in Char /\ player[c].bank.id \in Account
    BY <1>6, OpenType, PlayingType, ItemsAssumption
       DEF HandleStoreMoneyOut, HandleStoreMoneyIn, Amount
  <2>2. PICK kind \in {"moneyOut", "moneyIn"}, from \in Char \cup Account, to \in Char \cup Account :
          /\ Request(Transaction(c, kind, {}, Pay(from, to, n), None, None))
          /\ UNCHANGED <<player, ground>> /\ (from \in Char \/ to \in Char)
    BY <1>6, <2>1 DEF HandleStoreMoneyOut, HandleStoreMoneyIn
  <2>3. Transaction(c, kind, {}, Pay(from, to, n), None, None) \in Job
    BY <2>1, <2>2, TransactionType
  <2>4. Paying(Pay(from, to, n)) = 0
    BY <2>1, PayingOf
  <2>5. Few({}) /\ Gain({}) = 0 /\ Units(None) = 0
    BY GainOfFew, UnitsType DEF Few
  <2>6. Fair(kind, {}, Pay(from, to, n), None)
    BY <2>2, <2>4, <2>5 DEF Fair
  <2> QED BY <2>2, <2>3, <2>6, TransactionAsked
<1> QED BY <1>2, <1>3, <1>4, <1>5, <1>6 DEF Banking

(* What is queued is typed.                                                *)
LEMMA AskedType ==
  ASSUME TypeInv, NEW job \in Job, Asks(job)
  PROVE  TypeInv'
<1>1. jobs' \in Seq(Job)
  BY AppendProperties DEF TypeInv, Asks, Request, Run
<1> QED BY <1>1 DEF TypeInv, Asks, Request, rows

(* Closing the bank.                                                       *)
LEMMA StoreCloseType ==
  ASSUME TypeInv, NEW c \in Conn, HandleStoreClose(c)
  PROVE  TypeInv'
<1>1. player[c] \in Player
  BY OpenType, PlayingType DEF HandleStoreClose
<1>2. [player[c] EXCEPT !.bank = None] \in Player
  BY <1>1 DEF Player
<1>3. player' = [player EXCEPT ![c] = [player[c] EXCEPT !.bank = None]]
  BY DEF HandleStoreClose
<1>4. player' \in [Conn -> Player \cup {None}]
  BY <1>2, <1>3 DEF TypeInv
<1> QED BY <1>4 DEF HandleStoreClose, TypeInv, rows

-----------------------------------------------------------------------------
(* Types: the DB thread                                                    *)

(* What a step of the DB thread takes off the queue.                       *)
LEMMA RunningType ==
  ASSUME TypeInv, NEW kinds, Running(kinds)
  PROVE  Head(jobs) \in Job /\ jobs' \in Seq(Job) /\ Head(jobs).kind \in kinds
BY RestOf DEF TypeInv, Running

(* A failure is a callback.                                                *)
LEMMA FailureType ==
  ASSUME NEW job \in Job, NEW reason \in Nat
  PROVE  Failure(job, reason) \in Callback
<1>1. CASE job.kind = "open"
  BY <1>1, JobFields DEF Failure, Callback, OpenFailedCallback
<1>2. CASE job.kind # "open"
  BY <1>2 DEF Failure, Callback, RefusedCallback
<1> QED BY <1>1, <1>2

(* A typed callback posted at the end of a job keeps the types.            *)
LEMMA PostType ==
  ASSUME TypeInv, NEW kinds, Running(kinds), NEW callback \in Callback, Post(callback),
         UNCHANGED rows
  PROVE  TypeInv'
<1>1. callbacks' \in Seq(Callback)
  BY AppendProperties DEF TypeInv, Post
<1> QED BY <1>1, RunningType DEF TypeInv, Running, memory, rows

(* What a slot keeps of an item.                                           *)
LEMMA StoredType ==
  ASSUME NEW at, NEW item \in Cached
  PROVE  Stored(at, item) \in Cached
<1>1. CASE item # Empty /\ ~item.refined /\ at[2] \in Equip
  <2>1. [item EXCEPT !.qty = 0] \in Item
    BY <1>1 DEF Cached, Item
  <2> QED BY <1>1, <2>1 DEF Stored, Cached
<1>2. CASE ~(item # Empty /\ ~item.refined /\ at[2] \in Equip)
  BY <1>2 DEF Stored
<1> QED BY <1>1, <1>2

(* The rows after a transaction's writes.                                  *)
LEMMA WrittenType ==
  ASSUME TypeInv, NEW writes \in SUBSET Writes
  PROVE  Written(writes) \in [SlotAt -> Cached \cup {Virgin}]
<1>1. ASSUME NEW at \in SlotAt, \E w \in writes : w.at = at
      PROVE  Stored(at, (CHOOSE w \in writes : w.at = at).new) \in Cached
  <2> DEFINE w == CHOOSE w \in writes : w.at = at
  <2>1. w \in writes
    BY <1>1
  <2>2. w.new \in Cached
    BY <2>1 DEF Writes
  <2> QED BY <2>2, StoredType
<1> QED BY <1>1 DEF Written, TypeInv

(* The guard of a debit keeps every balance from going below zero, and the *)
(* shop has none.                                                          *)
LEMMA PaidType ==
  ASSUME TypeInv, NEW pay \in Payment, Affordable(pay)
  PROVE  Paid(pay) \in Balances
<1>1. money \in [Char \cup Account -> Nat] /\ DOMAIN money = Char \cup Account
  BY DEF TypeInv, Balances
<1>2. ASSUME NEW who \in Char \cup Account
      PROVE  money[who] + (IF who = pay.to THEN pay.amount ELSE 0)
                        - (IF who = pay.from THEN pay.amount ELSE 0) \in Nat
  <2>1. money[who] \in Nat /\ pay.amount \in Nat /\ who # Shop
    BY <1>1, ItemsAssumption DEF Payment
  <2>2. who = pay.from => money[who] >= pay.amount
    BY <2>1 DEF Affordable
  <2> QED BY <2>1, <2>2
<1> QED BY <1>1, <1>2 DEF Paid, Balances

(* A player's or an account's slots as they are read.                      *)
LEMMA SlotsOfType ==
  ASSUME TypeInv, NEW holder, NEW names, \A s \in names : <<holder, s>> \in SlotAt
  PROVE  SlotsOf(holder, names) \in [names -> Cached]
BY DEF SlotsOf, Loaded, TypeInv, Cached

(* Every step of the DB thread keeps the types.                            *)
LEMMA RunJobType ==
  ASSUME TypeInv, RunJob
  PROVE  TypeInv'
<1> DEFINE job == Head(jobs)
<1>1. CASE RunTransaction
  <2>1. job \in Job /\ job.kind \in Transactional /\ jobs' \in Seq(Job)
    BY <1>1, RunningType DEF RunTransaction
  <2>2. job \in TransactionJob
    BY <2>1, JobFields
  <2>3. job.writes \in SUBSET Writes /\ job.pay \in Payment
    BY <2>2 DEF TransactionJob
  <2>4. Affordable(job.pay)
    BY <1>1 DEF RunTransaction, Lands
  <2>5. slots' \in [SlotAt -> Cached \cup {Virgin}] /\ money' \in Balances
    BY <1>1, <2>3, <2>4, WrittenType, PaidType DEF RunTransaction
  <2>6. [kind |-> "applied", job |-> job, money |-> money'] \in Callback
    BY <2>2, <2>5 DEF Callback, AppliedCallback
  <2>7. callbacks' \in Seq(Callback)
    BY <1>1, <2>6, AppendProperties DEF RunTransaction, Post, TypeInv
  <2> QED BY <1>1, <2>1, <2>5, <2>7 DEF RunTransaction, Running, memory, TypeInv
<1>2. CASE RefuseTransaction
  <2>1. Failure(job, 1) \in Callback
    BY <1>2, RunningType, FailureType DEF RefuseTransaction
  <2> QED BY <1>2, <2>1, PostType DEF RefuseTransaction
<1>3. CASE JobThrows
  <2>1. Failure(job, 1) \in Callback
    BY <1>3, RunningType, FailureType DEF JobThrows
  <2> QED BY <1>3, <2>1, PostType DEF JobThrows
<1>4. CASE RunLoad
  <2>1. job \in Job /\ job.kind = "load"
    BY <1>4, RunningType DEF RunLoad
  <2>2. job.char \in Char /\ job.conn \in Conn
    BY <2>1, JobFields DEF LoadJob
  <2>3. SlotsOf(job.char, Bag \cup Equip) \in [Bag \cup Equip -> Cached]
    BY <2>2, SlotsOfType DEF SlotAt
  <2>4. money[job.char] \in Nat
    BY <2>2 DEF TypeInv, Balances
  <2> DEFINE loaded == [char |-> job.char, slots |-> SlotsOf(job.char, Bag \cup Equip),
                        money |-> money[job.char], bank |-> None]
  <2>5. loaded \in Player
    BY <2>2, <2>3, <2>4 DEF Player
  <2>6. Post([kind |-> "loaded", conn |-> job.conn, player |-> loaded])
    BY <1>4 DEF RunLoad
  <2> HIDE DEF loaded
  <2>7. [kind |-> "loaded", conn |-> job.conn, player |-> loaded] \in Callback
    BY <2>2, <2>5 DEF Callback, LoadedCallback
  <2> QED BY <1>4, <2>6, <2>7, PostType DEF RunLoad
<1>5. CASE RunCreate
  <2>1. job \in Job /\ job.kind = "create" /\ jobs' \in Seq(Job)
    BY <1>5, RunningType DEF RunCreate
  <2>2. job.account \in Account
    BY <2>1, JobFields DEF CreateJob
  <2> QED BY <1>5, <2>1, <2>2 DEF RunCreate, Running, memory, TypeInv
<1>6. CASE RunOpen
  <2>1. job \in Job /\ job.kind = "open"
    BY <1>6, RunningType DEF RunOpen
  <2>2. job.account \in Account /\ job.conn \in Conn
    BY <2>1, JobFields DEF OpenJob
  <2> DEFINE bank == [id |-> job.account, slots |-> SlotsOf(job.account, Box),
                      money |-> money[job.account]]
  <2>3. bank \in Bank
    <3>1. SlotsOf(job.account, Box) \in [Box -> Cached]
      BY <2>2, SlotsOfType DEF SlotAt
    <3>2. money[job.account] \in Nat
      BY <2>2 DEF TypeInv, Balances
    <3> QED BY <2>2, <3>1, <3>2 DEF Bank
  <2>4. \/ Post([kind |-> "opened", conn |-> job.conn, bank |-> bank])
        \/ Post(Failure(job, 1)) \/ Post(Failure(job, 2))
    BY <1>6 DEF RunOpen
  <2> HIDE DEF bank
  <2>5. /\ [kind |-> "opened", conn |-> job.conn, bank |-> bank] \in Callback
        /\ Failure(job, 1) \in Callback /\ Failure(job, 2) \in Callback
    BY <2>1, <2>2, <2>3, FailureType DEF Callback, OpenedCallback
  <2>6. Running({"open"}) /\ UNCHANGED rows
    BY <1>6 DEF RunOpen
  <2> QED BY <2>4, <2>5, <2>6, PostType
<1> QED BY <1>1, <1>2, <1>3, <1>4, <1>5, <1>6 DEF RunJob

-----------------------------------------------------------------------------
(* Types: callbacks                                                        *)

(* A cache after a transaction's writes.                                   *)
LEMMA CacheType ==
  ASSUME NEW names, NEW cached \in [names -> Cached], NEW writes \in SUBSET Writes
  PROVE  Cache(cached, writes) \in [names -> Cached]
<1>1. ASSUME NEW s \in names, \E w \in writes : w.at[2] = s
      PROVE  (CHOOSE w \in writes : w.at[2] = s).new \in Cached
  <2> DEFINE w == CHOOSE w \in writes : w.at[2] = s
  <2>1. w \in writes
    BY <1>1
  <2> QED BY <2>1 DEF Writes
<1> QED BY <1>1 DEF Cache

(* What a callback makes of a player is a player, whichever character is   *)
(* on the connection by then.                                              *)
LEMMA ChangedType ==
  ASSUME NEW p \in Player, NEW done \in AppliedCallback
  PROVE  Changed(p, done) \in Player
<1>1. /\ done.job \in TransactionJob /\ done.money \in Balances
      /\ done.job.writes \in SUBSET Writes /\ done.job.pay \in Payment
  BY DEF AppliedCallback, TransactionJob
<1>2. ASSUME NEW q \in Player PROVE SetSlots(q, done) \in Player
  <2>1. Cache(q.slots, done.job.writes) \in [Bag \cup Equip -> Cached]
    BY <1>1, CacheType DEF Player
  <2> QED BY <2>1 DEF SetSlots, Player
<1>3. ASSUME NEW q \in Player, done.job.kind \in Charging PROVE SetMoney(q, done) \in Player
  <2> DEFINE ch == CHOOSE ch \in Parties(done) : ch \in Char
  <2>1. \E who \in Parties(done) : who \in Char
    BY <1>1, <1>3 DEF TransactionJob, Parties
  <2>2. ch \in Char
    BY <2>1
  <2>3. done.money[ch] \in Nat
    BY <1>1, <2>2 DEF Balances
  <2> QED BY <2>3 DEF SetMoney, Player
<1>4. ASSUME NEW bank \in Bank PROVE BankAfter(bank, done) \in Bank
  <2>1. Cache(bank.slots, done.job.writes) \in [Box -> Cached]
    BY <1>1, CacheType DEF Bank
  <2>2. bank.id \in Account /\ bank.money \in Nat /\ done.money[bank.id] \in Nat
    BY <1>1 DEF Bank, Balances
  <2> DEFINE boxes == {w.at[1] : w \in done.job.writes} \ Char
             kept == IF bank.id \in boxes THEN Cache(bank.slots, done.job.writes) ELSE bank.slots
             balance == IF bank.id \in Parties(done) THEN done.money[bank.id] ELSE bank.money
  <2>3. kept \in [Box -> Cached] /\ balance \in Nat
    BY <2>1, <2>2 DEF Bank
  <2>4. BankAfter(bank, done) = [bank EXCEPT !.slots = kept, !.money = balance]
    BY DEF BankAfter
  <2> HIDE DEF kept, balance
  <2> QED BY <2>3, <2>4 DEF Bank
<1>5. ASSUME NEW q \in Player PROVE SetBank(q, done) \in Player
  <2>1. CASE q.bank = None
    BY <2>1 DEF SetBank
  <2>2. CASE q.bank # None
    <3>1. BankAfter(q.bank, done) \in Bank
      BY <1>4, <2>2 DEF Player
    <3> QED BY <2>2, <3>1 DEF SetBank, Player
  <2> QED BY <2>1, <2>2
<1> QED BY <1>2, <1>3, <1>5 DEF Changed, Charging

(* What a step of the world strand takes off the queue.                    *)
LEMMA CallingType ==
  ASSUME TypeInv, NEW kind, Calling(kind)
  PROVE  /\ Head(callbacks) \in Callback /\ Head(callbacks).kind = kind
         /\ callbacks' \in Seq(Callback)
BY RestOf DEF TypeInv, Calling

(* The callback of a committed transaction.                                *)
LEMMA AppliedType ==
  ASSUME TypeInv, NEW kinds, Applied(kinds)
  PROVE  /\ Head(callbacks) \in AppliedCallback /\ Head(callbacks).job.kind \in kinds
         /\ callbacks' \in Seq(Callback)
         /\ player' \in [Conn -> Player \cup {None}]
         /\ UNCHANGED <<rows, jobs>>
<1> DEFINE done == Head(callbacks)
           c == done.job.conn
<1>1. done \in AppliedCallback /\ callbacks' \in Seq(Callback)
  BY CallingType, CallbackFields DEF Applied
<1>2. done.job.kind \in kinds
  BY DEF Applied
<1>3. player' = IF Playing(c) THEN [player EXCEPT ![c] = Changed(player[c], done)] ELSE player
  BY DEF Applied
<1>4. c \in Conn
  BY <1>1 DEF AppliedCallback, TransactionJob
<1>5. ASSUME Playing(c) PROVE Changed(player[c], done) \in Player
  BY <1>1, <1>4, <1>5, PlayingType, ChangedType
<1>6. player' \in [Conn -> Player \cup {None}]
  BY <1>3, <1>4, <1>5 DEF TypeInv
<1> QED BY <1>1, <1>2, <1>6 DEF Applied, Calling

(* Every callback keeps the types.                                         *)
LEMMA RunCallbackType ==
  ASSUME TypeInv, RunCallback
  PROVE  TypeInv'
<1> DEFINE done == Head(callbacks)
<1>1. CASE OnLoaded
  <2>1. /\ done \in Callback /\ done.kind = "loaded" /\ callbacks' \in Seq(Callback)
        /\ UNCHANGED <<rows, jobs>>
    BY <1>1, CallingType DEF OnLoaded, Calling
  <2>2. done.conn \in Conn /\ done.player \in Player
    BY <2>1, CallbackFields DEF LoadedCallback
  <2>3. player' = player \/ player' = [player EXCEPT ![done.conn] = done.player]
    BY <1>1 DEF OnLoaded
  <2>4. player' \in [Conn -> Player \cup {None}]
    BY <2>2, <2>3 DEF TypeInv
  <2> QED BY <1>1, <2>1, <2>4 DEF OnLoaded, TypeInv, rows
<1>2. CASE OnOpened
  <2>1. /\ done \in Callback /\ done.kind = "opened" /\ callbacks' \in Seq(Callback)
        /\ UNCHANGED <<rows, jobs>>
    BY <1>2, CallingType DEF OnOpened, Calling
  <2>2. done.conn \in Conn /\ done.bank \in Bank
    BY <2>1, CallbackFields DEF OpenedCallback
  <2>3. CASE Playing(done.conn)
    <3>1. player[done.conn] \in Player
      BY <2>2, <2>3, PlayingType
    <3>2. [player[done.conn] EXCEPT !.bank = done.bank] \in Player
      BY <2>2, <3>1 DEF Player
    <3>3. player' = [player EXCEPT ![done.conn] = [player[done.conn] EXCEPT !.bank = done.bank]]
      BY <1>2, <2>3 DEF OnOpened
    <3>4. player' \in [Conn -> Player \cup {None}]
      BY <3>2, <3>3 DEF TypeInv
    <3> QED BY <1>2, <2>1, <3>4 DEF OnOpened, TypeInv, rows
  <2>4. CASE ~Playing(done.conn)
    BY <1>2, <2>1, <2>4 DEF OnOpened, TypeInv, rows
  <2> QED BY <2>3, <2>4
<1>3. CASE OnOpenFailed
  BY <1>3, CallingType DEF OnOpenFailed, Calling, TypeInv, rows, memory
<1>4. CASE OnRefused
  <2>1. done \in Callback /\ done.kind = "refused" /\ callbacks' \in Seq(Callback)
    BY <1>4, CallingType DEF OnRefused
  <2>2. done.job \in Job
    BY <2>1, CallbackFields DEF RefusedCallback
  <2>3. Claimed(done.job) \subseteq Drops
    BY <2>2, JobFields DEF Claimed, Transactional, TransactionJob
  <2> QED BY <1>4, <2>1, <2>3 DEF OnRefused, Calling, TypeInv, rows
<1>5. CASE OnDropped
  <2>1. done \in AppliedCallback /\ done.job.kind = "drop"
    BY <1>5, AppliedType DEF OnDropped
  <2>2. done.job.spawn \in Item
    BY <2>1 DEF AppliedCallback, TransactionJob
  <2>3. [id |-> nextDrop, item |-> done.job.spawn] \in Drops /\ nextDrop + 1 \in Nat
    BY <2>2 DEF Drops, TypeInv
  <2> QED BY <1>5, <2>3, AppliedType DEF OnDropped, TypeInv, rows
<1>6. ASSUME NEW kinds, Applied(kinds), UNCHANGED <<ground, nextDrop>> PROVE TypeInv'
  BY <1>6, AppliedType DEF TypeInv, rows
<1> QED BY <1>1, <1>2, <1>3, <1>4, <1>5, <1>6
        DEF RunCallback, OnPickedUp, OnMoved, OnDeleted, OnBought, OnSold, OnItemOut, OnItemIn,
            FinishTransfer

-----------------------------------------------------------------------------
(* Types: the theorem                                                      *)

(* The rows the server starts with are typed.                              *)
LEMMA TypeInit == Init => TypeInv
BY EmptySeq, ItemsAssumption DEF Init, TypeInv, Balances, Cached

(* Every step keeps the types.                                             *)
LEMMA TypeNext == TypeInv /\ [Next]_vars => TypeInv'
<1> SUFFICES ASSUME TypeInv, [Next]_vars PROVE TypeInv'
  OBVIOUS
<1>1. ASSUME NEW c \in Conn, NEW ch \in Char, HandleEnter(c, ch) PROVE TypeInv'
  <2>1. [kind |-> "load", conn |-> c, char |-> ch] \in Job
    BY DEF Job, LoadJob
  <2>2. jobs' \in Seq(Job)
    BY <1>1, <2>1, AppendProperties DEF HandleEnter, Run, TypeInv
  <2> QED BY <1>1, <2>2 DEF HandleEnter, TypeInv, rows, memory
<1>2. ASSUME NEW c \in Conn, HandleCgExit(c) PROVE TypeInv'
  BY <1>2 DEF HandleCgExit, TypeInv, rows
<1>3. ASSUME NEW c \in Conn, Bagging(c) \/ Trading(c) \/ Banking(c) PROVE TypeInv'
  BY <1>3, BaggingAsks, TradingAsks, BankingAsks, AskedType, StoreCloseType
<1>4. CASE RunJob \/ RunCallback
  BY <1>4, RunJobType, RunCallbackType
<1>5. ASSUME NEW d \in ground, Expire(d) PROVE TypeInv'
  BY <1>5 DEF Expire, TypeInv, rows
<1>6. CASE Crash
  BY <1>6, EmptySeq DEF Crash, TypeInv, rows
<1>7. CASE UNCHANGED vars
  BY <1>7 DEF vars, rows, memory, TypeInv
<1> QED BY <1>1, <1>2, <1>3, <1>4, <1>5, <1>6, <1>7 DEF Next, Handle

(* Every row, balance and cached slot keeps its type: no guard a handler   *)
(* leaves to the transaction lets a wallet or a bank go below zero.        *)
THEOREM ItemsTypeCorrect == Spec => []TypeOK
<1>1. TypeInv => TypeOK
  <2> SUFFICES ASSUME TypeInv PROVE TypeOK
    OBVIOUS
  <2>1. \A c \in Conn : Playing(c) =>
          /\ player[c].char \in Char
          /\ player[c].slots \in [Bag \cup Equip -> Cached]
          /\ player[c].money \in Nat
          /\ Open(c) => player[c].bank.id \in Account /\ player[c].bank.money \in Nat
    BY PlayingType, OpenType
  <2> QED BY <2>1 DEF TypeInv, TypeOK, Balances
<1> QED BY <1>1, TypeInit, TypeNext, PTL DEF Spec

-----------------------------------------------------------------------------
(* Drops                                                                   *)

\* DropsAreInOnePlace, of a ground and two queues,
Separate(drops, queue, done) ==
  /\ \A d, e \in drops : d.id = e.id => d = e
  /\ \A i \in DOMAIN queue :
       /\ Apart(Claimed(queue[i]), drops)
       /\ \A j \in DOMAIN queue : i # j => Apart(Claimed(queue[i]), Claimed(queue[j]))
       /\ \A k \in DOMAIN done : Apart(Claimed(queue[i]), Returned(done[k]))
  /\ \A k \in DOMAIN done :
       /\ Apart(Returned(done[k]), drops)
       /\ \A l \in DOMAIN done : k # l => Apart(Returned(done[k]), Returned(done[l]))

\* and that no id has been given out that the next drops will get.
Below(drops, n) == \A d \in drops : d.id < n

Used(drops, queue, done, n) ==
  /\ Below(drops, n)
  /\ \A i \in DOMAIN queue : Below(Claimed(queue[i]), n)
  /\ \A k \in DOMAIN done : Below(Returned(done[k]), n)

Places(drops, queue, done, n) == Separate(drops, queue, done) /\ Used(drops, queue, done, n)

DropsInv == Places(ground, jobs, callbacks, nextDrop)

(* A job is queued: what it claims was on the ground.                      *)
LEMMA ClaimKeepsPlaces ==
  ASSUME NEW drops, NEW queue \in Seq(Job), NEW done, NEW n, NEW job,
         Places(drops, queue, done, n), NEW left, left \subseteq drops,
         Claimed(job) \subseteq drops, Claimed(job) \cap left = {}
  PROVE  Places(left, Append(queue, job), done, n)
<1> DEFINE longer == Append(queue, job)
<1>1. Len(queue) \in Nat /\ DOMAIN queue = 1..Len(queue)
  BY LenProperties
<1>2. /\ DOMAIN longer = 1..(Len(queue) + 1) /\ longer[Len(queue) + 1] = job
      /\ \A i \in 1..Len(queue) : longer[i] = queue[i]
  BY <1>1
<1> HIDE DEF longer
<1>3. \A i \in DOMAIN longer :
        \/ i \in DOMAIN queue /\ longer[i] = queue[i]
        \/ i = Len(queue) + 1 /\ longer[i] = job
  BY <1>1, <1>2
<1>4. Separate(left, longer, done)
  BY <1>3 DEF Places, Separate, Apart
<1>5. Used(left, longer, done, n)
  BY <1>3 DEF Places, Used, Below
<1> QED BY <1>4, <1>5 DEF Places, longer

(* A job is taken off the queue and leads to no callback,                  *)
LEMMA RunKeepsPlaces ==
  ASSUME NEW drops, NEW queue \in Seq(Job), NEW done, NEW n, queue # <<>>,
         Places(drops, queue, done, n)
  PROVE  Places(drops, Tail(queue), done, n)
<1> DEFINE shorter == Tail(queue)
<1>1. /\ Len(queue) \in Nat \ {0} /\ DOMAIN queue = 1..Len(queue)
      /\ DOMAIN shorter = 1..(Len(queue) - 1)
      /\ \A i \in 1..(Len(queue) - 1) : shorter[i] = queue[i + 1]
  BY RestOf
<1> HIDE DEF shorter
<1>2. \A i \in DOMAIN shorter :
        i \in Int /\ i + 1 \in DOMAIN queue /\ shorter[i] = queue[i + 1]
  BY <1>1
<1>3. Separate(drops, shorter, done)
  BY <1>2 DEF Places, Separate
<1>4. Used(drops, shorter, done, n)
  BY <1>2 DEF Places, Used
<1> QED BY <1>3, <1>4 DEF Places, shorter

(* or to one that gives back no more than the job had claimed.             *)
LEMMA PostKeepsPlaces ==
  ASSUME NEW drops, NEW queue \in Seq(Job), NEW done \in Seq(Callback), NEW n, queue # <<>>,
         Places(drops, queue, done, n), NEW callback,
         Returned(callback) \subseteq Claimed(Head(queue))
  PROVE  Places(drops, Tail(queue), Append(done, callback), n)
<1> DEFINE shorter == Tail(queue)
           longer == Append(done, callback)
<1>1. /\ Len(queue) \in Nat \ {0} /\ DOMAIN queue = 1..Len(queue) /\ Head(queue) = queue[1]
      /\ DOMAIN shorter = 1..(Len(queue) - 1)
      /\ \A i \in 1..(Len(queue) - 1) : shorter[i] = queue[i + 1]
  BY RestOf
<1>2. Len(done) \in Nat /\ DOMAIN done = 1..Len(done)
  BY LenProperties
<1>3. /\ DOMAIN longer = 1..(Len(done) + 1) /\ longer[Len(done) + 1] = callback
      /\ \A i \in 1..Len(done) : longer[i] = done[i]
  BY <1>2
<1> HIDE DEF longer, shorter
<1>4. \A i \in DOMAIN shorter :
        /\ i \in Int /\ i + 1 \in DOMAIN queue /\ i + 1 # 1 /\ shorter[i] = queue[i + 1]
  BY <1>1
<1>5. \A k \in DOMAIN longer :
        \/ k \in DOMAIN done /\ longer[k] = done[k]
        \/ k = Len(done) + 1 /\ longer[k] = callback
  BY <1>2, <1>3
<1>6. 1 \in DOMAIN queue /\ Returned(callback) \subseteq Claimed(queue[1])
  BY <1>1
<1>7. Places(drops, shorter, done, n)
  BY RunKeepsPlaces DEF shorter
<1>8. /\ Apart(Returned(callback), drops)
      /\ \A i \in DOMAIN shorter : Apart(Claimed(shorter[i]), Returned(callback))
      /\ \A k \in DOMAIN done :
           Apart(Returned(callback), Returned(done[k])) /\ Apart(Returned(done[k]), Returned(callback))
  BY <1>4, <1>6 DEF Places, Separate, Apart
<1>9. Separate(drops, shorter, longer)
  BY <1>5, <1>7, <1>8 DEF Places, Separate
<1>10. Below(Returned(callback), n)
  BY <1>6 DEF Places, Used, Below
<1>11. Used(drops, shorter, longer, n)
  BY <1>5, <1>7, <1>10 DEF Places, Used
<1> QED BY <1>9, <1>11 DEF Places, shorter, longer

(* A callback runs: what it gives back, or less, is on the ground again.   *)
LEMMA CallKeepsPlaces ==
  ASSUME NEW drops, NEW queue, NEW done \in Seq(Callback), NEW n, done # <<>>,
         Places(drops, queue, done, n), NEW back, back \subseteq Returned(Head(done)),
         \A d, e \in back : d.id = e.id => d = e
  PROVE  Places(drops \cup back, queue, Tail(done), n)
<1> DEFINE shorter == Tail(done)
           more == drops \cup back
<1>1. /\ Len(done) \in Nat \ {0} /\ DOMAIN done = 1..Len(done) /\ Head(done) = done[1]
      /\ DOMAIN shorter = 1..(Len(done) - 1)
      /\ \A i \in 1..(Len(done) - 1) : shorter[i] = done[i + 1]
  BY RestOf
<1> HIDE DEF shorter
<1>2. \A k \in DOMAIN shorter :
        /\ k \in Int /\ k + 1 \in DOMAIN done /\ k + 1 # 1 /\ shorter[k] = done[k + 1]
  BY <1>1
<1>3. 1 \in DOMAIN done /\ back \subseteq Returned(done[1])
  BY <1>1
<1>4. Separate(drops, queue, shorter)
  BY <1>2 DEF Places, Separate
<1>5. /\ Apart(back, drops) /\ Apart(drops, back)
      /\ \A i \in DOMAIN queue : Apart(Claimed(queue[i]), back)
      /\ \A k \in DOMAIN shorter : Apart(Returned(shorter[k]), back)
  BY <1>2, <1>3 DEF Places, Separate, Apart
<1>6. Separate(more, queue, shorter)
  BY <1>4, <1>5 DEF Separate, Apart
<1>7. Used(more, queue, shorter, n)
  BY <1>2, <1>3 DEF Places, Used, Below
<1> QED BY <1>6, <1>7 DEF Places, shorter

(* A new drop has the next id.                                             *)
LEMMA SpawnKeepsPlaces ==
  ASSUME NEW drops, NEW queue, NEW done, NEW n \in Nat, Places(drops, queue, done, n),
         drops \subseteq Drops,
         \A i \in DOMAIN queue : Claimed(queue[i]) \subseteq Drops,
         \A k \in DOMAIN done : Returned(done[k]) \subseteq Drops,
         NEW item
  PROVE  Places(drops \cup {[id |-> n, item |-> item]}, queue, done, n + 1)
<1> DEFINE drop == [id |-> n, item |-> item]
           more == drops \cup {drop}
<1>1. drop.id = n
  OBVIOUS
<1> HIDE DEF drop
<1>2. \A d \in Drops : d.id \in Nat
  BY DEF Drops
<1>3. /\ \A d \in drops : d.id # n
      /\ \A i \in DOMAIN queue, d \in more : d \notin drops => Apart(Claimed(queue[i]), {d})
      /\ \A k \in DOMAIN done, d \in more : d \notin drops => Apart(Returned(done[k]), {d})
  BY <1>1, <1>2 DEF Places, Used, Below, Apart
<1>4. Separate(more, queue, done)
  BY <1>1, <1>3 DEF Places, Separate, Apart
<1>5. Used(more, queue, done, n + 1)
  BY <1>1, <1>2 DEF Places, Used, Below
<1> QED BY <1>4, <1>5 DEF Places, drop

(* A drop that expires is in no other place.                               *)
LEMMA ExpiryKeepsPlaces ==
  ASSUME NEW drops, NEW queue, NEW done, NEW n, Places(drops, queue, done, n),
         NEW left, left \subseteq drops
  PROVE  Places(left, queue, done, n)
BY DEF Places, Separate, Used, Below, Apart

(* A request takes what it claims off the ground.                          *)
LEMMA AskedPlaces ==
  ASSUME TypeInv, DropsInv, NEW job \in Job, Asks(job)
  PROVE  DropsInv'
<1>1. Places(ground \ Claimed(job), Append(jobs, job), callbacks, nextDrop)
  BY ClaimKeepsPlaces DEF TypeInv, DropsInv, Asks
<1> QED BY <1>1 DEF Asks, Request, Run, DropsInv

(* The DB thread hands a claim on to the refusal, or ends it.              *)
LEMMA RunJobPlaces ==
  ASSUME TypeInv, DropsInv, RunJob
  PROVE  DropsInv'
<1> USE DEF TypeInv
<1>1. ASSUME NEW kinds, Running(kinds), NEW callback, Post(callback),
             Returned(callback) \subseteq Claimed(Head(jobs))
      PROVE  DropsInv'
  <2>1. Places(ground, Tail(jobs), Append(callbacks, callback), nextDrop)
    BY <1>1, PostKeepsPlaces DEF Running, DropsInv
  <2> QED BY <1>1, <2>1 DEF Running, memory, Post, DropsInv
<1>2. ASSUME NEW reason PROVE Returned(Failure(Head(jobs), reason)) \subseteq Claimed(Head(jobs))
  BY DEF Failure, Returned
<1>3. CASE RunTransaction
  <2>1. Returned([kind |-> "applied", job |-> Head(jobs), money |-> money']) = {}
    BY DEF Returned
  <2> QED BY <1>1, <1>3, <2>1 DEF RunTransaction
<1>4. CASE RefuseTransaction
  BY <1>1, <1>2, <1>4 DEF RefuseTransaction
<1>5. CASE JobThrows
  BY <1>1, <1>2, <1>5 DEF JobThrows
<1>6. CASE RunLoad
  <2> DEFINE job == Head(jobs)
             loaded == [char |-> job.char, slots |-> SlotsOf(job.char, Bag \cup Equip),
                        money |-> money[job.char], bank |-> None]
  <2>1. Returned([kind |-> "loaded", conn |-> job.conn, player |-> loaded]) = {}
    BY DEF Returned
  <2>2. Post([kind |-> "loaded", conn |-> job.conn, player |-> loaded])
    BY <1>6 DEF RunLoad
  <2> QED BY <1>1, <1>6, <2>1, <2>2 DEF RunLoad
<1>7. CASE RunCreate
  <2>1. Places(ground, Tail(jobs), callbacks, nextDrop)
    BY <1>7, RunKeepsPlaces DEF RunCreate, Running, DropsInv
  <2> QED BY <1>7, <2>1 DEF RunCreate, Running, memory, DropsInv
<1>8. CASE RunOpen
  <2> DEFINE job == Head(jobs)
             bank == [id |-> job.account, slots |-> SlotsOf(job.account, Box),
                      money |-> money[job.account]]
  <2>1. Returned([kind |-> "opened", conn |-> job.conn, bank |-> bank]) = {}
    BY DEF Returned
  <2>2. \/ Post([kind |-> "opened", conn |-> job.conn, bank |-> bank])
        \/ Post(Failure(job, 1)) \/ Post(Failure(job, 2))
    BY <1>8 DEF RunOpen
  <2> QED BY <1>1, <1>2, <1>8, <2>1, <2>2 DEF RunOpen
<1> QED BY <1>3, <1>4, <1>5, <1>6, <1>7, <1>8 DEF RunJob

(* A refusal puts its drop back once; a drop that landed is a new one.     *)
LEMMA RunCallbackPlaces ==
  ASSUME TypeInv, DropsInv, RunCallback
  PROVE  DropsInv'
<1> USE DEF TypeInv
<1>1. ASSUME NEW kind, Calling(kind),
             NEW back, back \subseteq Returned(Head(callbacks)),
             \A d, e \in back : d.id = e.id => d = e
      PROVE  Places(ground \cup back, jobs', callbacks', nextDrop)
  <2>1. Places(ground \cup back, jobs, Tail(callbacks), nextDrop)
    BY <1>1, CallKeepsPlaces DEF Calling, DropsInv
  <2> QED BY <1>1, <2>1 DEF Calling
<1>2. ASSUME NEW kind, Calling(kind) PROVE Places(ground, jobs', callbacks', nextDrop)
  <2>1. Places(ground \cup {}, jobs', callbacks', nextDrop)
    BY <1>1, <1>2
  <2> QED BY <2>1
<1>3. ASSUME NEW kind, Calling(kind), UNCHANGED <<ground, nextDrop>> PROVE DropsInv'
  BY <1>2, <1>3 DEF DropsInv
<1>4. CASE OnRefused
  <2>1. Calling("refused") /\ Head(callbacks).kind = "refused"
    BY <1>4 DEF OnRefused, Calling
  <2> DEFINE back == Claimed(Head(callbacks).job)
  <2>2. back \subseteq Returned(Head(callbacks)) /\ \A d, e \in back : d.id = e.id => d = e
    BY <2>1 DEF Returned, Claimed
  <2>3. Places(ground \cup back, jobs', callbacks', nextDrop)
    BY <1>1, <2>1, <2>2
  <2> QED BY <1>4, <2>3 DEF OnRefused, DropsInv
<1>5. CASE OnDropped
  <2> DEFINE item == Head(callbacks).job.spawn
  <2>1. Calling("applied")
    BY <1>5 DEF OnDropped, Applied
  <2>2. Places(ground, jobs', callbacks', nextDrop)
    BY <1>2, <2>1
  <2>3. jobs' \in Seq(Job) /\ callbacks' \in Seq(Callback)
    BY <2>1, CallingType DEF Calling
  <2>4. \A i \in DOMAIN jobs' : Claimed(jobs'[i]) \subseteq Drops
    BY <2>3, ClaimedType, ElementOfSeq, LenProperties
  <2>5. \A k \in DOMAIN callbacks' : Returned(callbacks'[k]) \subseteq Drops
    <3>1. ASSUME NEW callback \in Callback PROVE Returned(callback) \subseteq Drops
      BY CallbackFields, ClaimedType DEF Returned, RefusedCallback
    <3> QED BY <2>3, <3>1, ElementOfSeq, LenProperties
  <2>6. Places(ground \cup {[id |-> nextDrop, item |-> item]}, jobs', callbacks', nextDrop + 1)
    BY <2>2, <2>4, <2>5, SpawnKeepsPlaces
  <2> QED BY <1>5, <2>6 DEF OnDropped, DropsInv
<1> QED BY <1>3, <1>4, <1>5
        DEF RunCallback, OnLoaded, OnOpened, OnOpenFailed, OnPickedUp, OnMoved, OnDeleted,
            OnBought, OnSold, OnItemOut, OnItemIn, FinishTransfer, Applied, memory

(* At the start there are no drops.                                        *)
LEMMA DropsInit == Init => DropsInv
BY DEF Init, DropsInv, Places, Separate, Used, Below

(* Every step keeps each drop in one place.                                *)
LEMMA DropsNext == TypeInv /\ DropsInv /\ [Next]_vars => DropsInv'
<1> SUFFICES ASSUME TypeInv, DropsInv, [Next]_vars PROVE DropsInv'
  OBVIOUS
<1>1. ASSUME NEW c \in Conn, NEW ch \in Char, HandleEnter(c, ch) PROVE DropsInv'
  <2> DEFINE job == [kind |-> "load", conn |-> c, char |-> ch]
  <2>1. Claimed(job) = {}
    BY DEF Claimed
  <2>2. Places(ground, Append(jobs, job), callbacks, nextDrop)
    BY <2>1, ClaimKeepsPlaces DEF TypeInv, DropsInv
  <2> QED BY <1>1, <2>2 DEF HandleEnter, Run, memory, DropsInv
<1>2. ASSUME NEW c \in Conn, HandleCgExit(c) PROVE DropsInv'
  BY <1>2 DEF HandleCgExit, DropsInv
<1>3. ASSUME NEW c \in Conn, Bagging(c) \/ Trading(c) \/ Banking(c) PROVE DropsInv'
  <2>1. ASSUME HandleStoreClose(c) PROVE DropsInv'
    BY <2>1 DEF HandleStoreClose, DropsInv
  <2> QED BY <1>3, <2>1, BaggingAsks, TradingAsks, BankingAsks, AskedPlaces
<1>4. CASE RunJob \/ RunCallback
  BY <1>4, RunJobPlaces, RunCallbackPlaces
<1>5. ASSUME NEW d \in ground, Expire(d) PROVE DropsInv'
  <2>1. Places(ground \ {d}, jobs, callbacks, nextDrop)
    BY ExpiryKeepsPlaces DEF DropsInv
  <2> QED BY <1>5, <2>1 DEF Expire, DropsInv
<1>6. CASE Crash
  BY <1>6 DEF Crash, DropsInv, Places, Separate, Used, Below
<1>7. CASE UNCHANGED vars
  BY <1>7 DEF vars, memory, DropsInv
<1> QED BY <1>1, <1>2, <1>3, <1>4, <1>5, <1>6, <1>7 DEF Next, Handle

(* A drop is never in two hands: two players cannot both have claimed it,  *)
(* and what a refusal puts back is not on the ground already, however many *)
(* pickups, refusals and new drops overlap.                                *)
THEOREM DropsAreInOnePlaceCorrect == Spec => []DropsAreInOnePlace
<1>1. DropsInv => DropsAreInOnePlace
  BY DEF DropsInv, Places, Separate, DropsAreInOnePlace
<1>2. TypeInv /\ DropsInv /\ [Next]_vars => (TypeInv /\ DropsInv)'
  BY TypeNext, DropsNext
<1>3. Init => TypeInv /\ DropsInv
  BY TypeInit, DropsInit
<1> QED BY <1>1, <1>2, <1>3, PTL DEF Spec
-----------------------------------------------------------------------------
(* Worth, part by part                                                     *)

Money(m) == SumOver(m, Char \cup Account)

StockUnits(s) == [at \in SlotAt |-> Units(s[at])]

Stock(s) == SumOver(StockUnits(s), SlotAt)

Total ==
  Money(money) + Stock(slots) + UnitsOf(ground)
    + (Along(ClaimUnits, jobs) + Along(LandUnits, callbacks))

\* A row, a balance and the ground are never negative, nor what is on its way.
Parts ==
  /\ Money(money) \in Nat /\ Stock(slots) \in Nat /\ UnitsOf(ground) \in Nat
  /\ Along(ClaimUnits, jobs) \in Nat /\ Along(LandUnits, callbacks) \in Nat

(* There are finitely many rows.                                           *)
LEMMA RowsFinite == IsFiniteSet(SlotAt) /\ IsFiniteSet(Char \cup Account)
<1>1. IsFiniteSet(Char) /\ IsFiniteSet(Account) /\ IsFiniteSet(Bag \cup Equip) /\ IsFiniteSet(Box)
  BY ItemsAssumption
<1>2. IsFiniteSet(Char \X (Bag \cup Equip)) /\ IsFiniteSet(Account \X Box)
  BY <1>1, FS_Product
<1> QED BY <1>1, <1>2, FS_Union DEF SlotAt

LEMMA MoneyType ==
  ASSUME NEW m \in Balances
  PROVE  Money(m) \in Nat /\ SumOf(m) = Money(m)
<1>1. m \in [Char \cup Account -> Nat] /\ m \in [Char \cup Account -> Int]
  BY DEF Balances
<1>2. SumOf(m) = SumOver(m, Char \cup Account)
  BY <1>1, RowsFinite, SumOfIsSum
<1>3. \A x \in Char \cup Account : m[x] \in Nat
  BY <1>1
<1>4. SumOver(m, Char \cup Account) \in Nat
  BY <1>1, <1>3, RowsFinite, SumNat
<1> QED BY <1>2, <1>4 DEF Money

LEMMA StockType ==
  ASSUME NEW s \in [SlotAt -> Cached \cup {Virgin}]
  PROVE  /\ StockUnits(s) \in [SlotAt -> Int]
         /\ \A at \in SlotAt : StockUnits(s)[at] = Units(s[at])
         /\ Stock(s) \in Nat /\ SumOf([at \in SlotAt |-> Units(s[at])]) = Stock(s)
<1>1. \A at \in SlotAt : Units(s[at]) \in Nat
  BY UnitsType
<1>2. PICK f : f = StockUnits(s)
  OBVIOUS
<1>3. /\ f \in [SlotAt -> Nat] /\ f \in [SlotAt -> Int]
      /\ \A at \in SlotAt : f[at] = Units(s[at]) /\ f[at] \in Nat
  BY <1>1, <1>2 DEF StockUnits
<1>4. SumOf(f) = SumOver(f, SlotAt) /\ SumOver(f, SlotAt) \in Nat
  BY <1>3, RowsFinite, SumOfIsSum, SumNat
<1> QED BY <1>2, <1>3, <1>4 DEF Stock, StockUnits

(* What is there, as its parts.                                            *)
LEMMA WorthIsTotal == TypeInv /\ IsFiniteSet(ground) => Parts /\ Worth = Total
<1> SUFFICES ASSUME TypeInv, IsFiniteSet(ground) PROVE Parts /\ Worth = Total
  OBVIOUS
<1>1. Money(money) \in Nat /\ SumOf(money) = Money(money)
  BY MoneyType DEF TypeInv
<1>2. Stock(slots) \in Nat /\ SumOf([at \in SlotAt |-> Units(slots[at])]) = Stock(slots)
  BY StockType DEF TypeInv
<1>3. UnitsOf(ground) \in Nat
  BY UnitsOfType DEF TypeInv
<1>4. /\ SumOf([i \in DOMAIN jobs |-> UnitsOf(Claimed(jobs[i]))]) = Along(ClaimUnits, jobs)
      /\ Along(ClaimUnits, jobs) \in Nat
  <2>1. jobs \in Seq(Job) /\ ClaimUnits \in [Job -> Nat]
    BY ClaimUnitsType DEF TypeInv
  <2>2. PICK f : f = [i \in DOMAIN jobs |-> ClaimUnits[jobs[i]]]
    OBVIOUS
  <2>3. IsFiniteSet(DOMAIN jobs) /\ f \in [DOMAIN jobs -> Nat] /\ Along(ClaimUnits, jobs) \in Nat
    BY <2>1, <2>2, AlongType
  <2>4. SumOf(f) = Along(ClaimUnits, jobs)
    BY <2>2, <2>3, SumOfIsSum DEF Along
  <2>5. \A i \in DOMAIN jobs : jobs[i] \in Job
    BY <2>1, LenProperties, ElementOfSeq
  <2>6. f = [i \in DOMAIN jobs |-> UnitsOf(Claimed(jobs[i]))]
    BY <2>2, <2>5, ClaimUnitsType
  <2> QED BY <2>3, <2>4, <2>6
<1>5. /\ SumOf([i \in DOMAIN callbacks |-> ToGround(callbacks[i])]) = Along(LandUnits, callbacks)
      /\ Along(LandUnits, callbacks) \in Nat
  <2>1. callbacks \in Seq(Callback) /\ LandUnits \in [Callback -> Nat]
    BY LandUnitsType DEF TypeInv
  <2>2. PICK f : f = [i \in DOMAIN callbacks |-> LandUnits[callbacks[i]]]
    OBVIOUS
  <2>3. /\ IsFiniteSet(DOMAIN callbacks) /\ f \in [DOMAIN callbacks -> Nat]
        /\ Along(LandUnits, callbacks) \in Nat
    BY <2>1, <2>2, AlongType
  <2>4. SumOf(f) = Along(LandUnits, callbacks)
    BY <2>2, <2>3, SumOfIsSum DEF Along
  <2>5. \A i \in DOMAIN callbacks : callbacks[i] \in Callback
    BY <2>1, LenProperties, ElementOfSeq
  <2>6. f = [i \in DOMAIN callbacks |-> ToGround(callbacks[i])]
    BY <2>2, <2>5, LandUnitsType
  <2> QED BY <2>3, <2>4, <2>6
<1> QED BY <1>1, <1>2, <1>3, <1>4, <1>5 DEF Parts, Worth, Total, InFlight

(* A payment: the shop has no balance, every other party's changes by the  *)
(* amount.                                                                 *)
LEMMA MoneyPaid ==
  ASSUME TypeInv, NEW pay \in Payment, Affordable(pay)
  PROVE  Money(Paid(pay)) = Money(money) + Paying(pay)
<1> DEFINE more(who) == IF who = pay.to THEN pay.amount ELSE 0
           less(who) == IF who = pay.from THEN -pay.amount ELSE 0
<1>1. PICK D, m, n : D = Char \cup Account /\ m = money /\ n = Paid(pay)
  OBVIOUS
<1>2. m \in [D -> Int] /\ n \in [D -> Int] /\ IsFiniteSet(D)
  BY <1>1, PaidType, RowsFinite DEF TypeInv, Balances
<1>3. /\ pay.amount \in Int /\ -pay.amount \in Int /\ Shop \notin D
      /\ pay.to \in D \cup {Shop} /\ pay.from \in D \cup {Shop}
  BY <1>1, ItemsAssumption DEF Payment, Party
<1>4. PICK k : k = [who \in D |-> m[who] + more(who)]
  OBVIOUS
<1>5. k \in [D -> Int] /\ \A who \in D : k[who] = m[who] + (IF who = pay.to THEN pay.amount ELSE 0)
  BY <1>2, <1>3, <1>4
<1>6. \A who \in D : n[who] = k[who] + (IF who = pay.from THEN -pay.amount ELSE 0)
  <2>1. DOMAIN money = D
    BY <1>1, <1>2
  <2> SUFFICES ASSUME NEW who \in D
               PROVE  n[who] = k[who] + (IF who = pay.from THEN -pay.amount ELSE 0)
    OBVIOUS
  <2>2. n[who] = m[who] + (IF who = pay.to THEN pay.amount ELSE 0)
                        - (IF who = pay.from THEN pay.amount ELSE 0)
    BY <1>1, <2>1 DEF Paid
  <2>3. m[who] \in Int
    BY <1>2
  <2> QED BY <1>3, <1>5, <2>2, <2>3
<1>7. SumOver(k, D) = SumOver(m, D) + (IF pay.to \in D THEN pay.amount ELSE 0)
  <2>1. Adds(k, m, D, pay.to, pay.amount)
    BY <1>2, <1>3, <1>5 DEF Adds
  <2> QED BY <1>2, <2>1, SumPlus
<1>8. SumOver(n, D) = SumOver(k, D) + (IF pay.from \in D THEN -pay.amount ELSE 0)
  <2>1. Adds(n, k, D, pay.from, -pay.amount)
    BY <1>2, <1>3, <1>5, <1>6 DEF Adds
  <2> QED BY <1>2, <2>1, SumPlus
<1>9. SumOver(m, D) \in Int /\ SumOver(k, D) \in Int
  BY <1>2, <1>5, SumType
<1>10. /\ pay.to \in D <=> pay.to # Shop
       /\ pay.from \in D <=> pay.from # Shop
  BY <1>3
<1>11. SumOver(n, D) = SumOver(m, D) + Paying(pay)
  BY <1>3, <1>7, <1>8, <1>9, <1>10 DEF Paying
<1> QED BY <1>1, <1>11 DEF Money

(* A write that its guard has compared: the slot had the units the handler *)
(* saw, and gets those it wants there.                                     *)
LEMMA ComparedWrite ==
  ASSUME NEW w \in Writes, Holds(w), ~Unchecked(w)
  PROVE  /\ Units(slots[w.at]) = Units(w.old)
         /\ Units(Stored(w.at, w.new)) = Units(w.new)
<1>1. Stored(w.at, w.old) = w.old /\ Stored(w.at, w.new) = w.new
  BY DEF Stored, Unchecked
<1>2. slots[w.at] = w.old \/ (slots[w.at] = Virgin /\ w.old = Empty)
  BY <1>1 DEF Holds, Unchecked
<1> QED BY <1>1, <1>2, UnitsType

(* What slots hold after writes to different ones.                         *)
LEMMA WrittenSlots ==
  ASSUME NEW writes, \A w, v \in writes : w.at = v.at => w = v, NEW at \in SlotAt
  PROVE  /\ \A w \in writes : w.at = at => Written(writes)[at] = Stored(at, w.new)
         /\ (\A w \in writes : w.at # at) => Written(writes)[at] = slots[at]
<1>1. ASSUME NEW w \in writes, w.at = at PROVE Written(writes)[at] = Stored(at, w.new)
  <2>1. (CHOOSE v \in writes : v.at = at) = w
    BY <1>1
  <2> QED BY <1>1, <2>1 DEF Written
<1>2. ASSUME \A w \in writes : w.at # at PROVE Written(writes)[at] = slots[at]
  BY <1>2 DEF Written
<1> QED BY <1>1, <1>2

(* Writes that land and are compared add what they were meant to.          *)
LEMMA StockWritten ==
  ASSUME TypeInv, NEW writes \in SUBSET Writes, Few(writes),
         \A w \in writes : Holds(w) /\ ~Unchecked(w)
  PROVE  Stock(Written(writes)) = Stock(slots) + Gain(writes)
<1>1. ASSUME NEW part \in SUBSET writes
      PROVE  /\ StockUnits(Written(part)) \in [SlotAt -> Int]
             /\ \A at \in SlotAt : StockUnits(Written(part))[at] = Units(Written(part)[at])
  <2>1. Written(part) \in [SlotAt -> Cached \cup {Virgin}]
    BY WrittenType
  <2> QED BY <2>1, StockType
<1>2. /\ StockUnits(slots) \in [SlotAt -> Int] /\ Stock(slots) \in Int
      /\ \A at \in SlotAt : StockUnits(slots)[at] = Units(slots[at]) /\ StockUnits(slots)[at] \in Int
  <2>1. slots \in [SlotAt -> Cached \cup {Virgin}]
    BY DEF TypeInv
  <2>2. StockUnits(slots) \in [SlotAt -> Int] /\ Stock(slots) \in Nat
    BY <2>1, StockType
  <2>3. \A at \in SlotAt : StockUnits(slots)[at] = Units(slots[at])
    BY <2>1, StockType
  <2> QED BY <2>2, <2>3
<1>3. ASSUME NEW w \in writes
      PROVE  /\ w \in Writes /\ w.at \in SlotAt /\ Units(slots[w.at]) = Units(w.old)
             /\ Units(Stored(w.at, w.new)) = Units(w.new)
             /\ Gains[w] = Units(w.new) - Units(w.old) /\ Gains[w] \in Int
             /\ Units(w.new) \in Int /\ Units(w.old) \in Int
  <2>1. w \in Writes /\ w.at \in SlotAt /\ w.new \in Cached /\ w.old \in Cached
    BY DEF Writes
  <2>2. Units(w.new) \in Nat /\ Units(w.old) \in Nat
    BY <2>1, UnitsType
  <2> QED BY <2>1, <2>2, ComparedWrite, GainsType
<1>4. CASE writes = {}
  <2>1. \A at \in SlotAt : Written(writes)[at] = slots[at]
    BY <1>4 DEF Written
  <2>2. StockUnits(Written(writes)) = StockUnits(slots)
    BY <2>1 DEF StockUnits
  <2> QED BY <1>2, <1>4, <2>2, GainOfFew DEF Stock
<1>5. ASSUME NEW w \in writes
      PROVE  Adds(StockUnits(Written({w})), StockUnits(slots), SlotAt, w.at, Gains[w])
  <2>1. PICK f, g : f = StockUnits(slots) /\ g = StockUnits(Written({w}))
    OBVIOUS
  <2>2. {w} \in SUBSET writes /\ \A a, b \in {w} : a.at = b.at => a = b
    OBVIOUS
  <2>3. f \in [SlotAt -> Int] /\ g \in [SlotAt -> Int]
    BY <1>1, <1>2, <2>1, <2>2
  <2>4. ASSUME NEW at \in SlotAt PROVE g[at] = f[at] + (IF at = w.at THEN Gains[w] ELSE 0)
    <3>1. g[at] = Units(Written({w})[at])
      BY <1>1, <2>1, <2>2
    <3>2. f[at] = Units(slots[at]) /\ f[at] \in Int
      BY <1>2, <2>1
    <3>3. CASE at = w.at
      <4>1. Written({w})[at] = Stored(at, w.new)
        BY <2>2, <3>3, WrittenSlots
      <4> QED BY <1>3, <3>1, <3>2, <3>3, <4>1
    <3>4. CASE at # w.at
      <4>1. Written({w})[at] = slots[at]
        BY <2>2, <3>4, WrittenSlots
      <4> QED BY <3>1, <3>2, <3>4, <4>1
    <3> QED BY <3>3, <3>4
  <2> QED BY <1>3, <2>1, <2>3, <2>4 DEF Adds
<1>6. ASSUME NEW w \in writes
      PROVE  Stock(Written({w})) = Stock(slots) + Gains[w]
  BY <1>3, <1>5, RowsFinite, SumPlus DEF Stock
<1>7. CASE \E w \in Writes : writes = {w}
  <2>1. PICK w \in Writes : writes = {w}
    BY <1>7
  <2> QED BY <1>6, <2>1, GainOfFew
<1>8. CASE \E w, v \in Writes : w.at # v.at /\ writes = {w, v}
  <2>1. PICK w \in writes, v \in writes : w.at # v.at /\ writes = {w, v}
    BY <1>8
  <2>2. PICK f, g : f = StockUnits(Written({w})) /\ g = StockUnits(Written(writes))
    OBVIOUS
  <2>3. \A a, b \in {w} : a.at = b.at => a = b
    OBVIOUS
  <2>4. \A a, b \in writes : a.at = b.at => a = b
    BY <2>1
  <2>5. f \in [SlotAt -> Int] /\ g \in [SlotAt -> Int]
    BY <1>1, <2>1, <2>2
  <2>6. ASSUME NEW at \in SlotAt PROVE g[at] = f[at] + (IF at = v.at THEN Gains[v] ELSE 0)
    <3>1. g[at] = Units(Written(writes)[at]) /\ f[at] = Units(Written({w})[at]) /\ f[at] \in Int
      <4>1. {w} \in SUBSET writes /\ writes \in SUBSET writes
        OBVIOUS
      <4> QED BY <1>1, <2>2, <2>5, <4>1
    <3>2. CASE at = v.at
      <4>1. Written(writes)[at] = Stored(at, v.new) /\ Written({w})[at] = slots[at]
        BY <2>1, <2>3, <2>4, <3>2, WrittenSlots
      <4> QED BY <1>3, <3>1, <3>2, <4>1
    <3>3. CASE at = w.at
      <4>1. Written(writes)[at] = Stored(at, w.new) /\ Written({w})[at] = Stored(at, w.new)
        BY <2>1, <2>3, <2>4, <3>3, WrittenSlots
      <4> QED BY <2>1, <3>1, <3>3, <4>1
    <3>4. CASE at # v.at /\ at # w.at
      <4>1. Written(writes)[at] = slots[at] /\ Written({w})[at] = slots[at]
        BY <2>1, <2>3, <2>4, <3>4, WrittenSlots
      <4> QED BY <3>1, <3>4, <4>1
    <3> QED BY <3>2, <3>3, <3>4
  <2>7. Adds(g, f, SlotAt, v.at, Gains[v])
    BY <1>3, <2>5, <2>6 DEF Adds
  <2>8. SumOver(g, SlotAt) = SumOver(f, SlotAt) + Gains[v]
    BY <1>3, <2>7, RowsFinite, SumPlus
  <2>9. Stock(Written(writes)) = Stock(Written({w})) + Gains[v]
    BY <2>2, <2>8 DEF Stock
  <2>10. Gain(writes) = Gains[w] + Gains[v]
    BY <1>3, <2>1, GainOfFew
  <2>11. Stock(Written({w})) = Stock(slots) + Gains[w]
    BY <1>6
  <2> QED BY <1>2, <1>3, <2>9, <2>10, <2>11
<1> QED BY <1>4, <1>7, <1>8 DEF Few

-----------------------------------------------------------------------------
(* Conservation                                                            *)

\* Every transaction in the queue is balanced.
Balanced(queue) == \A i \in DOMAIN queue : queue[i].kind \in Transactional => BalancedJob(queue[i])

ConserveInv == TypeInv /\ DropsInv /\ IsFiniteSet(ground) /\ Balanced(jobs)

(* A queue of balanced transactions with one more, or one less.            *)
LEMMA BalancedAppend ==
  ASSUME NEW queue \in Seq(Job), Balanced(queue), NEW job \in Job,
         job.kind \in Transactional => BalancedJob(job)
  PROVE  Balanced(Append(queue, job))
<1> DEFINE longer == Append(queue, job)
<1>1. Len(queue) \in Nat /\ DOMAIN queue = 1..Len(queue)
  BY LenProperties
<1>2. /\ DOMAIN longer = 1..(Len(queue) + 1) /\ longer[Len(queue) + 1] = job
      /\ \A i \in 1..Len(queue) : longer[i] = queue[i]
  BY <1>1
<1> HIDE DEF longer
<1>3. \A i \in DOMAIN longer :
        \/ i \in DOMAIN queue /\ longer[i] = queue[i]
        \/ longer[i] = job
  BY <1>1, <1>2
<1>4. Balanced(longer)
  BY <1>3 DEF Balanced
<1> QED BY <1>4 DEF longer

LEMMA BalancedTail ==
  ASSUME NEW queue \in Seq(Job), Balanced(queue), queue # <<>>
  PROVE  /\ Balanced(Tail(queue))
         /\ Head(queue).kind \in Transactional => BalancedJob(Head(queue))
<1> DEFINE shorter == Tail(queue)
<1>1. /\ Len(queue) \in Nat \ {0} /\ DOMAIN queue = 1..Len(queue) /\ Head(queue) = queue[1]
      /\ DOMAIN shorter = 1..(Len(queue) - 1)
      /\ \A i \in 1..(Len(queue) - 1) : shorter[i] = queue[i + 1]
  BY RestOf
<1> HIDE DEF shorter
<1>2. /\ 1 \in DOMAIN queue
      /\ \A i \in DOMAIN shorter : i + 1 \in DOMAIN queue /\ shorter[i] = queue[i + 1]
  BY <1>1
<1>3. Balanced(shorter)
  BY <1>2 DEF Balanced
<1> QED BY <1>1, <1>2, <1>3 DEF Balanced, shorter

(* Drops and a claim that was not among them.                              *)
LEMMA UnitsBack ==
  ASSUME NEW X \in SUBSET Drops, IsFiniteSet(X), NEW job \in Job, Claimed(job) \cap X = {}
  PROVE  /\ IsFiniteSet(X \cup Claimed(job))
         /\ UnitsOf(X \cup Claimed(job)) = UnitsOf(X) + UnitsOf(Claimed(job))
<1>1. UnitsOf(X) \in Nat
  BY UnitsOfType
<1>2. CASE Claimed(job) = {}
  <2>1. X \cup Claimed(job) = X
    BY <1>2
  <2> QED BY <1>1, <1>2, <2>1, UnitsOfFew
<1>3. CASE Claimed(job) = {job.claim} /\ job.claim \in Drops
  <2>1. job.claim \notin X
    BY <1>3
  <2>2. /\ UnitsOf(X \cup {job.claim}) = UnitsOf(X) + Units(job.claim.item)
        /\ IsFiniteSet(X \cup {job.claim})
    BY <1>3, <2>1, UnitsOfMore
  <2> QED BY <1>3, <2>2, UnitsOfFew
<1> QED BY <1>2, <1>3, ClaimedType

(* A job that is queued has the claim that was taken off the ground.       *)
LEMMA QueuedKeeps ==
  ASSUME ConserveInv, NEW job \in Job, Run(job), UNCHANGED <<money, slots, callbacks>>,
         Claimed(job) \subseteq ground, ground' = ground \ Claimed(job),
         job.kind \in Transactional => BalancedJob(job)
  PROVE  Balanced(jobs') /\ IsFiniteSet(ground') /\ Total' = Total
<1>1. jobs \in Seq(Job) /\ jobs' = Append(jobs, job) /\ ground \subseteq Drops
  BY DEF ConserveInv, TypeInv, Run
<1>2. Balanced(jobs')
  BY <1>1, BalancedAppend DEF ConserveInv
<1>3. IsFiniteSet(ground \ Claimed(job))
  BY FS_Difference DEF ConserveInv
<1>4. IsFiniteSet(ground')
  BY <1>3
<1>5. PICK left \in SUBSET Drops : left = ground \ Claimed(job)
  BY <1>1
<1>6. ground' = left /\ IsFiniteSet(left) /\ Claimed(job) \cap left = {}
      /\ ground = left \cup Claimed(job)
  BY <1>3, <1>5
<1>7. UnitsOf(left \cup Claimed(job)) = UnitsOf(left) + UnitsOf(Claimed(job))
  BY <1>6, UnitsBack
<1>8. UnitsOf(ground) = UnitsOf(ground') + UnitsOf(Claimed(job))
  BY <1>6, <1>7
<1>9. Along(ClaimUnits, jobs') = Along(ClaimUnits, jobs) + UnitsOf(Claimed(job))
  BY <1>1, ClaimUnitsType, AlongAppend
<1>10. UnitsOf(left) \in Nat /\ UnitsOf(Claimed(job)) \in Nat /\ Parts
  BY <1>6, UnitsOfType, ClaimedType, WorthIsTotal DEF ConserveInv
<1>11. Total' = Money(money) + Stock(slots) + UnitsOf(ground')
                  + (Along(ClaimUnits, jobs') + Along(LandUnits, callbacks))
  BY DEF Total
<1>12. UnitsOf(ground') \in Nat
  BY <1>6, <1>10
<1>13. Total' = Total
  BY <1>8, <1>9, <1>10, <1>11, <1>12 DEF Total, Parts
<1> QED BY <1>2, <1>4, <1>13

(* The DB thread takes a job off the queue.                                *)
LEMMA RunningTakes ==
  ASSUME ConserveInv, NEW kinds, Running(kinds)
  PROVE  /\ Head(jobs) \in Job /\ Head(jobs).kind \in kinds
         /\ Balanced(jobs') /\ (Head(jobs).kind \in Transactional => BalancedJob(Head(jobs)))
         /\ UNCHANGED ground
         /\ Along(ClaimUnits, jobs) = UnitsOf(Claimed(Head(jobs))) + Along(ClaimUnits, jobs')
         /\ UnitsOf(Claimed(Head(jobs))) \in Nat /\ Along(ClaimUnits, jobs') \in Nat
<1>1. /\ jobs \in Seq(Job) /\ jobs # <<>> /\ jobs' = Tail(jobs) /\ Balanced(jobs)
      /\ UNCHANGED ground
  BY DEF ConserveInv, TypeInv, Running, memory
<1>2. Head(jobs) \in Job /\ Head(jobs).kind \in kinds /\ jobs' \in Seq(Job)
  BY RunningType DEF ConserveInv
<1>3. Balanced(jobs') /\ (Head(jobs).kind \in Transactional => BalancedJob(Head(jobs)))
  BY <1>1, BalancedTail
<1>4. Along(ClaimUnits, jobs) = ClaimUnits[Head(jobs)] + Along(ClaimUnits, jobs')
  BY <1>1, ClaimUnitsType, AlongTail
<1>5. UnitsOf(Claimed(Head(jobs))) \in Nat
  BY <1>2, ClaimedType, UnitsOfType
<1>6. ClaimUnits \in [Job -> Nat]
  BY ClaimUnitsType
<1>7. Along(ClaimUnits, jobs') \in Nat
  BY <1>2, <1>6, AlongType
<1> QED BY <1>1, <1>2, <1>3, <1>4, <1>5, <1>7, ClaimUnitsType

(* A callback goes to the world strand.                                    *)
LEMMA PostedUnits ==
  ASSUME ConserveInv, NEW callback \in Callback, Post(callback)
  PROVE  /\ Along(LandUnits, callbacks') = Along(LandUnits, callbacks) + ToGround(callback)
         /\ ToGround(callback) \in Nat
<1>1. callbacks \in Seq(Callback) /\ callbacks' = Append(callbacks, callback)
  BY DEF ConserveInv, TypeInv, Post
<1>2. Along(LandUnits, callbacks') = Along(LandUnits, callbacks) + LandUnits[callback]
  BY <1>1, LandUnitsType, AlongAppend
<1> QED BY <1>2, LandUnitsType

(* A job that writes no row hands its claim on to its callback.            *)
LEMMA HandedOn ==
  ASSUME ConserveInv, NEW kinds, Running(kinds), NEW callback \in Callback, Post(callback),
         UNCHANGED rows, ToGround(callback) = UnitsOf(Claimed(Head(jobs)))
  PROVE  Balanced(jobs') /\ UNCHANGED ground /\ Total' = Total
<1>1. Parts
  BY WorthIsTotal DEF ConserveInv
<1>2. /\ Along(ClaimUnits, jobs) = UnitsOf(Claimed(Head(jobs))) + Along(ClaimUnits, jobs')
      /\ UnitsOf(Claimed(Head(jobs))) \in Nat /\ Along(ClaimUnits, jobs') \in Nat
      /\ Balanced(jobs') /\ UNCHANGED ground
  BY RunningTakes
<1>3. Along(LandUnits, callbacks') = Along(LandUnits, callbacks) + ToGround(callback)
  BY PostedUnits
<1>4. Total' = Money(money) + Stock(slots) + UnitsOf(ground)
                 + (Along(ClaimUnits, jobs') + Along(LandUnits, callbacks'))
  BY <1>2 DEF Total, rows
<1>5. Total' = Total
  BY <1>1, <1>2, <1>3, <1>4 DEF Total, Parts
<1> QED BY <1>2, <1>5

(* A failure of a job that had claimed a drop gives it back; the other     *)
(* jobs have none.                                                         *)
LEMMA FailureUnits ==
  ASSUME NEW job \in Job, NEW reason \in Nat
  PROVE  ToGround(Failure(job, reason)) = UnitsOf(Claimed(job))
<1>1. CASE job.kind = "open"
  BY <1>1, UnitsOfFew DEF Failure, ToGround, Claimed
<1>2. CASE job.kind # "open"
  BY <1>2 DEF Failure, ToGround
<1> QED BY <1>1, <1>2

(* A transaction that commits makes what it was meant to.                  *)
LEMMA CommittedMakes ==
  ASSUME ConserveInv, RunTransaction, \A w \in Head(jobs).writes : ~Unchecked(w)
  PROVE  Total' = Total + Made(Head(jobs)) /\ BalancedJob(Head(jobs))
<1>1. PICK job : job = Head(jobs)
  OBVIOUS
<1>2. Running(Transactional) /\ TypeInv
  BY DEF RunTransaction, ConserveInv
<1>3. /\ job \in Job /\ job.kind \in Transactional /\ BalancedJob(job)
      /\ Along(ClaimUnits, jobs) = UnitsOf(Claimed(job)) + Along(ClaimUnits, jobs')
      /\ UnitsOf(Claimed(job)) \in Nat /\ Along(ClaimUnits, jobs') \in Nat /\ UNCHANGED ground
  BY <1>1, <1>2, RunningTakes
<1>4. /\ job \in TransactionJob /\ job.writes \in SUBSET Writes /\ job.pay \in Payment
      /\ job.spawn \in Item \cup {None} /\ Few(job.writes)
  BY <1>3, JobFields DEF TransactionJob, BalancedJob
<1>5. /\ slots' = Written(job.writes) /\ money' = Paid(job.pay) /\ Affordable(job.pay)
      /\ \A w \in job.writes : Holds(w) /\ ~Unchecked(w)
  BY <1>1 DEF RunTransaction, Lands
<1>6. Stock(slots') = Stock(slots) + Gain(job.writes)
  BY <1>2, <1>4, <1>5, StockWritten
<1>7. Money(money') = Money(money) + Paying(job.pay)
  BY <1>2, <1>4, <1>5, MoneyPaid
<1>8. PICK callback : callback = [kind |-> "applied", job |-> job, money |-> money']
  OBVIOUS
<1>9. callback \in Callback
  <2>1. money' \in Balances
    BY <1>2, <1>4, <1>5, PaidType
  <2> QED BY <1>4, <1>8, <2>1 DEF Callback, AppliedCallback
<1>10. Post(callback) /\ ToGround(callback) = Units(job.spawn)
  BY <1>1, <1>8 DEF RunTransaction, ToGround
<1>11. Along(LandUnits, callbacks') = Along(LandUnits, callbacks) + Units(job.spawn)
  BY <1>9, <1>10, PostedUnits
<1>12. Units(job.spawn) \in Nat /\ Gain(job.writes) \in Int /\ Paying(job.pay) \in Int
  <2>1. Units(job.spawn) \in Nat
    BY <1>4, UnitsType DEF Cached
  <2>2. Paying(job.pay) \in Int
    BY <1>4 DEF Paying, Payment
  <2>3. Gain(job.writes) \in Int
    BY <1>4, GainType
  <2> QED BY <2>1, <2>2, <2>3
<1>13. Parts
  BY WorthIsTotal DEF ConserveInv
<1>14. Total' = Money(money') + Stock(slots') + UnitsOf(ground)
                  + (Along(ClaimUnits, jobs') + Along(LandUnits, callbacks'))
  BY <1>3 DEF Total
<1>15. Total' = Total + Made(job)
  BY <1>3, <1>6, <1>7, <1>11, <1>12, <1>13, <1>14 DEF Total, Parts, Made
<1> QED BY <1>1, <1>3, <1>15

(* Every other job makes nothing.                                          *)
LEMMA RunJobKeeps ==
  ASSUME ConserveInv, RunJob
  PROVE  /\ Balanced(jobs') /\ UNCHANGED ground
         /\ RunTransaction \/ Total' = Total
<1> DEFINE Effect == Balanced(jobs') /\ UNCHANGED ground /\ Total' = Total
<1>1. CASE RunTransaction
  <2>1. Running(Transactional)
    BY <1>1 DEF RunTransaction
  <2> QED BY <1>1, <2>1, RunningTakes
<1>2. ASSUME NEW kinds, Running(kinds), Post(Failure(Head(jobs), 1)), UNCHANGED rows PROVE Effect
  <2>1. Head(jobs) \in Job
    BY <1>2, RunningTakes
  <2>2. /\ Failure(Head(jobs), 1) \in Callback
        /\ ToGround(Failure(Head(jobs), 1)) = UnitsOf(Claimed(Head(jobs)))
    BY <2>1, FailureType, FailureUnits
  <2> QED BY <1>2, <2>2, HandedOn
<1>3. ASSUME RefuseTransaction \/ JobThrows PROVE Effect
  BY <1>2, <1>3 DEF RefuseTransaction, JobThrows
<1>4. ASSUME RunLoad PROVE Effect
  <2>1. Running({"load"}) /\ UNCHANGED rows
    BY <1>4 DEF RunLoad
  <2>2. Claimed(Head(jobs)) = {}
    BY <2>1 DEF Running, Claimed
  <2>3. PICK callback : Post(callback) /\ callback.kind = "loaded"
    BY <1>4 DEF RunLoad
  <2>4. callback \in Callback
    <3>1. TypeInv'
      BY <1>4, RunJobType DEF RunJob, ConserveInv
    <3> QED BY <2>3, <3>1 DEF Post, ConserveInv, TypeInv
  <2>5. ToGround(callback) = UnitsOf(Claimed(Head(jobs)))
    BY <2>2, <2>3, UnitsOfFew DEF ToGround
  <2> QED BY <2>1, <2>3, <2>4, <2>5, HandedOn
<1>5. ASSUME RunOpen PROVE Effect
  <2>1. Running({"open"}) /\ UNCHANGED rows
    BY <1>5 DEF RunOpen
  <2>2. Claimed(Head(jobs)) = {} /\ Head(jobs).kind = "open"
    BY <2>1 DEF Running, Claimed
  <2>3. PICK callback : Post(callback) /\ callback.kind \in {"opened", "openFailed"}
    BY <1>5, <2>2 DEF RunOpen, Failure
  <2>4. callback \in Callback
    <3>1. TypeInv'
      BY <1>5, RunJobType DEF RunJob, ConserveInv
    <3> QED BY <2>3, <3>1 DEF Post, ConserveInv, TypeInv
  <2>5. ToGround(callback) = UnitsOf(Claimed(Head(jobs)))
    BY <2>2, <2>3, UnitsOfFew DEF ToGround
  <2> QED BY <2>1, <2>3, <2>4, <2>5, HandedOn
<1>6. ASSUME RunCreate PROVE Effect
  <2>1. Running({"create"}) /\ UNCHANGED <<slots, money, callbacks>>
    BY <1>6 DEF RunCreate
  <2>2. Claimed(Head(jobs)) = {} /\ UnitsOf({}) = 0
    BY <2>1, UnitsOfFew DEF Running, Claimed
  <2>3. /\ Along(ClaimUnits, jobs) = 0 + Along(ClaimUnits, jobs')
        /\ Along(ClaimUnits, jobs') \in Nat /\ Balanced(jobs') /\ UNCHANGED ground
    BY <2>1, <2>2, RunningTakes
  <2>4. Along(ClaimUnits, jobs') = Along(ClaimUnits, jobs)
    BY <2>3
  <2>5. Total' = Total
    BY <2>1, <2>3, <2>4 DEF Total
  <2> QED BY <2>3, <2>5
<1> QED BY <1>1, <1>3, <1>4, <1>5, <1>6 DEF RunJob

(* The world strand puts on the ground what the callback brings there.     *)
LEMMA Landed ==
  ASSUME ConserveInv, NEW kind, Calling(kind),
         UnitsOf(ground') = UnitsOf(ground) + ToGround(Head(callbacks))
  PROVE  Balanced(jobs') /\ Total' = Total
<1>1. /\ callbacks \in Seq(Callback) /\ callbacks # <<>> /\ callbacks' = Tail(callbacks)
      /\ UNCHANGED <<money, slots, jobs>>
  BY DEF ConserveInv, TypeInv, Calling, rows
<1>2. Head(callbacks) \in Callback /\ callbacks' \in Seq(Callback)
  BY CallingType DEF ConserveInv
<1>3. LandUnits \in [Callback -> Nat]
  BY LandUnitsType
<1>4. Along(LandUnits, callbacks) = LandUnits[Head(callbacks)] + Along(LandUnits, callbacks')
  BY <1>1, <1>3, AlongTail
<1>5. LandUnits[Head(callbacks)] = ToGround(Head(callbacks)) /\ LandUnits[Head(callbacks)] \in Nat
  BY <1>2, LandUnitsType
<1>6. Along(LandUnits, callbacks') \in Nat
  BY <1>2, <1>3, AlongType
<1>7. Parts
  BY WorthIsTotal DEF ConserveInv
<1>8. Total' = Money(money) + Stock(slots) + UnitsOf(ground')
                 + (Along(ClaimUnits, jobs) + Along(LandUnits, callbacks'))
  BY <1>1 DEF Total
<1>9. Total' = Total
  BY <1>4, <1>5, <1>6, <1>7, <1>8 DEF Total, Parts
<1> QED BY <1>1, <1>9 DEF ConserveInv

(* A drop that lands is a new one, one that is put back was not there.     *)
LEMMA RunCallbackKeeps ==
  ASSUME ConserveInv, RunCallback
  PROVE  Balanced(jobs') /\ IsFiniteSet(ground') /\ Total' = Total
<1> DEFINE done == Head(callbacks)
           Effect == Balanced(jobs') /\ IsFiniteSet(ground') /\ Total' = Total
<1>1. UnitsOf(ground) \in Nat /\ ground \in SUBSET Drops /\ IsFiniteSet(ground) /\ TypeInv
  BY UnitsOfType DEF ConserveInv, TypeInv
<1>2. ASSUME NEW kind, Calling(kind), ToGround(done) = 0, UNCHANGED ground PROVE Effect
  <2>1. UnitsOf(ground') = UnitsOf(ground) + ToGround(done) /\ IsFiniteSet(ground')
    BY <1>1, <1>2
  <2> QED BY <1>2, <2>1, Landed
<1>3. ASSUME OnLoaded \/ OnOpened \/ OnOpenFailed PROVE Effect
  <2>1. PICK kind \in {"loaded", "opened", "openFailed"} : Calling(kind) /\ UNCHANGED ground
    BY <1>3 DEF OnLoaded, OnOpened, OnOpenFailed, memory
  <2>2. ToGround(done) = 0
    BY <2>1 DEF Calling, ToGround
  <2> QED BY <1>2, <2>1, <2>2
<1>4. ASSUME NEW kinds, Applied(kinds), "drop" \notin kinds, UNCHANGED ground PROVE Effect
  <2>1. done.job \in TransactionJob /\ done.job.kind # "drop" /\ done.kind = "applied"
    BY <1>1, <1>4, AppliedType DEF AppliedCallback
  <2>2. done.job.spawn = None
    BY <2>1 DEF TransactionJob
  <2>3. ToGround(done) = 0
    BY <2>1, <2>2, UnitsType DEF ToGround
  <2> QED BY <1>2, <1>4, <2>3 DEF Applied
<1>5. ASSUME OnRefused PROVE Effect
  <2>1. Calling("refused") /\ ground' = ground \cup Claimed(done.job)
    BY <1>5 DEF OnRefused
  <2>2. done \in RefusedCallback /\ done.kind = "refused"
    BY <1>1, <2>1, CallingType, CallbackFields
  <2>3. done.job \in Job /\ Returned(done) = Claimed(done.job)
    BY <2>2 DEF RefusedCallback, Returned
  <2>4. Apart(Returned(done), ground)
    <3>1. callbacks # <<>> /\ callbacks \in Seq(Callback)
      BY <2>1 DEF Calling, ConserveInv, TypeInv
    <3>2. 1 \in DOMAIN callbacks /\ done = callbacks[1]
      BY <3>1, RestOf
    <3> QED BY <3>2 DEF ConserveInv, DropsInv, Places, Separate
  <2>5. Claimed(done.job) \cap ground = {}
    BY <2>3, <2>4 DEF Apart
  <2>6. /\ UnitsOf(ground') = UnitsOf(ground) + UnitsOf(Claimed(done.job))
        /\ IsFiniteSet(ground')
    BY <1>1, <2>1, <2>3, <2>5, UnitsBack
  <2>7. ToGround(done) = UnitsOf(Claimed(done.job))
    BY <2>2 DEF ToGround
  <2> QED BY <2>1, <2>6, <2>7, Landed
<1>6. ASSUME OnDropped PROVE Effect
  <2> DEFINE drop == [id |-> nextDrop, item |-> done.job.spawn]
  <2>1. Applied({"drop"}) /\ Calling("applied") /\ ground' = ground \cup {drop}
    BY <1>6 DEF OnDropped, Applied
  <2>2. done \in AppliedCallback /\ done.kind = "applied" /\ done.job.kind = "drop"
    BY <1>1, <2>1, AppliedType DEF AppliedCallback
  <2>3. done.job.spawn \in Item
    BY <2>2 DEF AppliedCallback, TransactionJob
  <2>4. drop \in Drops /\ drop.item = done.job.spawn
    BY <1>1, <2>3 DEF Drops, TypeInv
  <2>5. drop \notin ground
    <3>1. \A d \in ground : d.id < nextDrop /\ d.id \in Nat
      BY <1>1 DEF ConserveInv, DropsInv, Places, Used, Below, Drops
    <3>2. nextDrop \in Nat /\ drop.id = nextDrop
      BY <1>1 DEF TypeInv
    <3> QED BY <3>1, <3>2
  <2>6. ToGround(done) = Units(done.job.spawn)
    BY <2>2 DEF ToGround
  <2> HIDE DEF drop
  <2>7. UnitsOf(ground') = UnitsOf(ground) + Units(drop.item) /\ IsFiniteSet(ground')
    BY <1>1, <2>1, <2>4, <2>5, UnitsOfMore
  <2> QED BY <2>1, <2>4, <2>6, <2>7, Landed
<1> QED BY <1>3, <1>4, <1>5, <1>6
        DEF RunCallback, OnPickedUp, OnMoved, OnDeleted, OnBought, OnSold, OnItemOut, OnItemIn,
            FinishTransfer

(* A request, and an entry.                                                *)
LEMMA HandleKeeps ==
  ASSUME ConserveInv, NEW c \in Conn, Handle(c)
  PROVE  Balanced(jobs') /\ IsFiniteSet(ground') /\ Total' = Total
<1> DEFINE Effect == Balanced(jobs') /\ IsFiniteSet(ground') /\ Total' = Total
<1>1. ASSUME UNCHANGED <<money, slots, callbacks, jobs, ground>> PROVE Effect
  BY <1>1 DEF ConserveInv, Total
<1>2. ASSUME NEW ch \in Char, HandleEnter(c, ch) PROVE Effect
  <2> DEFINE job == [kind |-> "load", conn |-> c, char |-> ch]
  <2>1. job \in Job
    BY DEF Job, LoadJob
  <2>2. Claimed(job) = {} /\ job.kind \notin Transactional
    BY DEF Claimed, Transactional
  <2>3. Run(job) /\ UNCHANGED <<money, slots, callbacks, ground>>
    BY <1>2 DEF HandleEnter, rows, memory
  <2> HIDE DEF job
  <2>4. Claimed(job) \subseteq ground /\ ground' = ground \ Claimed(job)
    BY <2>2, <2>3
  <2> QED BY <2>1, <2>2, <2>3, <2>4, QueuedKeeps
<1>3. ASSUME HandleCgExit(c) \/ HandleStoreClose(c) PROVE Effect
  BY <1>1, <1>3 DEF HandleCgExit, HandleStoreClose, rows
<1>4. ASSUME Bagging(c) \/ Trading(c) \/ Banking(c) PROVE Effect
  <2>1. HandleStoreClose(c) \/ \E job \in Job : Asks(job)
    BY <1>4, BaggingAsks, TradingAsks, BankingAsks DEF ConserveInv
  <2>2. ASSUME NEW job \in Job, Asks(job) PROVE Effect
    BY <2>2, QueuedKeeps DEF Asks, Request, rows
  <2> QED BY <1>3, <2>1, <2>2
<1> QED BY <1>2, <1>3, <1>4 DEF Handle

(* Time and a crash only take away.                                        *)
LEMMA ExpireTakes ==
  ASSUME ConserveInv, NEW d \in ground, Expire(d)
  PROVE  Balanced(jobs') /\ IsFiniteSet(ground') /\ Total' <= Total
<1>1. PICK left \in SUBSET Drops : left = ground \ {d}
  BY DEF ConserveInv, TypeInv
<1>2. d \in Drops /\ d \notin left /\ ground = left \cup {d}
  BY <1>1 DEF ConserveInv, TypeInv
<1>3. IsFiniteSet(left)
  BY <1>1, FS_RemoveElement DEF ConserveInv
<1>4. ground' = left /\ UNCHANGED <<money, slots, jobs, callbacks>>
  BY <1>1 DEF Expire, rows
<1>5. UnitsOf(left \cup {d}) = UnitsOf(left) + Units(d.item)
  BY <1>2, <1>3, UnitsOfMore
<1>6. UnitsOf(left) \in Nat /\ Units(d.item) \in Nat /\ Parts
  BY <1>2, <1>3, UnitsOfType, DropUnitsType, WorthIsTotal DEF ConserveInv
<1>7. Total' = Money(money) + Stock(slots) + UnitsOf(left)
                 + (Along(ClaimUnits, jobs) + Along(LandUnits, callbacks))
  BY <1>4 DEF Total
<1>8. Total' <= Total
  BY <1>2, <1>5, <1>6, <1>7 DEF Total, Parts
<1> QED BY <1>3, <1>4, <1>8 DEF ConserveInv

LEMMA CrashTakes ==
  ASSUME ConserveInv, Crash
  PROVE  Balanced(jobs') /\ IsFiniteSet(ground') /\ Total' <= Total
<1>1. /\ ground' = {} /\ jobs' = <<>> /\ callbacks' = <<>> /\ UNCHANGED <<money, slots>>
  BY DEF Crash, rows
<1>2. ClaimUnits \in [Job -> Nat] /\ LandUnits \in [Callback -> Nat]
  BY ClaimUnitsType, LandUnitsType
<1>3. Along(ClaimUnits, <<>>) = 0
  BY <1>2, AlongNone
<1>4. Along(LandUnits, <<>>) = 0
  BY <1>2, AlongNone
<1>5. UnitsOf({}) = 0 /\ IsFiniteSet({}) /\ Balanced(<<>>)
  BY UnitsOfFew, FS_EmptySet DEF Balanced
<1>6. Total' = Money(money) + Stock(slots) + 0 + (0 + 0)
  BY <1>1, <1>3, <1>4, <1>5 DEF Total
<1>7. Parts
  BY WorthIsTotal DEF ConserveInv
<1>8. Total' <= Total
  BY <1>6, <1>7 DEF Total, Parts
<1> QED BY <1>1, <1>5, <1>8

(* Nothing is there at the start but the rows.                             *)
LEMMA ConserveInit == Init => ConserveInv
BY TypeInit, DropsInit, FS_EmptySet DEF Init, ConserveInv, Balanced

(* Every step keeps the transactions in the queue balanced.                *)
LEMMA ConserveNext == ConserveInv /\ [Next]_vars => ConserveInv'
<1> SUFFICES ASSUME ConserveInv, [Next]_vars PROVE ConserveInv'
  OBVIOUS
<1> DEFINE Effect == Balanced(jobs') /\ IsFiniteSet(ground')
<1>1. TypeInv' /\ DropsInv'
  BY TypeNext, DropsNext DEF ConserveInv
<1>2. ASSUME NEW c \in Conn, Handle(c) PROVE Effect
  BY <1>2, HandleKeeps
<1>3. ASSUME RunJob PROVE Effect
  BY <1>3, RunJobKeeps DEF ConserveInv
<1>4. ASSUME RunCallback PROVE Effect
  BY <1>4, RunCallbackKeeps
<1>5. ASSUME NEW d \in ground, Expire(d) PROVE Effect
  BY <1>5, ExpireTakes
<1>6. ASSUME Crash PROVE Effect
  BY <1>6, CrashTakes
<1>7. ASSUME UNCHANGED vars PROVE Effect
  BY <1>7 DEF vars, memory, ConserveInv
<1>8. Effect
  BY <1>2, <1>3, <1>4, <1>5, <1>6, <1>7 DEF Next
<1> QED BY <1>1, <1>8 DEF ConserveInv

(* No step makes a unit, and those that lose one are named.                *)
LEMMA StepKeepsWorth == ConserveInv /\ [Next]_vars => [WorthKept]_vars
<1> SUFFICES ASSUME ConserveInv, Next PROVE WorthKept
  BY Zenon
<1>1. (TypeInv /\ IsFiniteSet(ground) => Parts /\ Worth = Total)'
  BY WorthIsTotal, PTL
<1>2. ConserveInv'
  BY ConserveNext
<1>3. Worth' = Total' /\ Worth = Total /\ Parts /\ Parts'
  BY <1>1, <1>2, WorthIsTotal DEF ConserveInv
<1>4. Total \in Nat /\ Total' \in Nat
  BY <1>3 DEF Total, Parts
<1> HIDE DEF ConserveInv
<1>5. ASSUME NEW c \in Conn, Handle(c) PROVE WorthKept
  BY <1>3, <1>5, HandleKeeps DEF WorthKept
<1>6. ASSUME RunCallback PROVE WorthKept
  BY <1>3, <1>6, RunCallbackKeeps DEF WorthKept
<1>7. ASSUME RunJob, ~RunTransaction PROVE WorthKept
  BY <1>3, <1>7, RunJobKeeps DEF WorthKept
<1>8. ASSUME RunTransaction PROVE WorthKept
  <2>1. CASE \E w \in Head(jobs).writes : Unchecked(w)
    BY <1>8, <2>1 DEF WorthKept
  <2>2. CASE \A w \in Head(jobs).writes : ~Unchecked(w)
    <3>1. PICK made : made = Made(Head(jobs))
      OBVIOUS
    <3>2. /\ Total' = Total + made /\ made \in Int /\ made <= 0
          /\ Head(jobs).kind \notin {"delete", "itemOut"} => made = 0
      BY <1>8, <2>2, <3>1, CommittedMakes DEF BalancedJob
    <3>3. CASE made = 0
      BY <1>3, <1>4, <3>2, <3>3 DEF WorthKept
    <3>4. CASE made # 0
      <4>1. Total' < Total
        BY <1>4, <3>2, <3>4
      <4>2. SpentByDesign
        BY <1>8, <3>2, <3>4 DEF SpentByDesign
      <4> QED BY <1>3, <4>1, <4>2 DEF WorthKept
    <3> QED BY <3>3, <3>4
  <2> QED BY <2>1, <2>2
<1>9. ASSUME Crash \/ \E d \in ground : Expire(d) PROVE WorthKept
  <2>1. Total' <= Total
    BY <1>9, ExpireTakes, CrashTakes
  <2>2. Total' = Total \/ Total' < Total
    BY <1>4, <2>1
  <2> QED BY <1>3, <1>9, <2>2 DEF WorthKept
<1> QED BY <1>5, <1>6, <1>7, <1>8, <1>9 DEF Next

(* No item and no coin appears, and none disappears but by a deletion, a   *)
(* fee, a drop that expired or a crash: whatever stale caches the requests *)
(* were checked against, the transactions they queued land as the handlers *)
(* meant them or not at all, unless a write is one its guard cannot        *)
(* compare.                                                                *)
THEOREM ItemsConservedCorrect == Spec => ItemsConserved
<1> QED BY ConserveInit, ConserveNext, StepKeepsWorth, PTL DEF Spec, ItemsConserved
-----------------------------------------------------------------------------
(* Nothing duplicated                                                      *)

\* Where every slot has a row its guard compares, what there is only shrinks.
UsedInv == UsedSlots /\ ConserveInv /\ (\A at \in SlotAt : slots[at] # Virgin) /\ NothingDuplicated

(* The world starts with what it is compared with.                         *)
LEMMA UsedInit == UsedSlots /\ Init => UsedInv
<1> SUFFICES ASSUME UsedSlots, Init PROVE UsedInv
  OBVIOUS
<1>1. slots = StartSlots /\ money = StartMoney /\ ground = {} /\ jobs = <<>> /\ callbacks = <<>>
  BY DEF Init
<1>2. ConserveInv /\ \A at \in SlotAt : slots[at] # Virgin
  BY <1>1, ConserveInit DEF UsedSlots
<1>3. NothingDuplicated
  <2>1. Worth = Total /\ Parts
    BY <1>2, WorthIsTotal DEF ConserveInv
  <2>2. StartWorth = Money(money) + Stock(slots)
    <3>1. SumOf(money) = Money(money)
      BY <1>2, MoneyType DEF ConserveInv, TypeInv
    <3>2. SumOf([at \in SlotAt |-> Units(slots[at])]) = Stock(slots)
      BY <1>2, StockType DEF ConserveInv, TypeInv
    <3> QED BY <1>1, <3>1, <3>2 DEF StartWorth
  <2>3. UnitsOf(ground) = 0 /\ Along(ClaimUnits, jobs) = 0 /\ Along(LandUnits, callbacks) = 0
    <3>1. ClaimUnits \in [Job -> Nat] /\ LandUnits \in [Callback -> Nat]
      BY ClaimUnitsType, LandUnitsType
    <3> QED BY <1>1, <3>1, AlongNone, UnitsOfFew
  <2>4. Total = StartWorth
    BY <2>1, <2>2, <2>3 DEF Total, Parts
  <2>5. Total <= StartWorth
    BY <2>1, <2>2, <2>4 DEF Parts
  <2> QED BY <2>1, <2>5 DEF NothingDuplicated
<1> QED BY <1>2, <1>3 DEF UsedInv

(* A slot that has a row keeps it, and its guard compares all there is.    *)
LEMMA UsedNext == UsedInv /\ [Next]_vars => UsedInv'
<1> SUFFICES ASSUME UsedInv, [Next]_vars PROVE UsedInv'
  OBVIOUS
<1>1. ConserveInv /\ ConserveInv'
  BY ConserveNext DEF UsedInv
<1>2. UNCHANGED vars \/ WorthKept
  BY <1>1, StepKeepsWorth
<1>3. ASSUME RunTransaction, NEW w \in Head(jobs).writes PROVE w.at \in SlotAt /\ ~Unchecked(w)
  <2>1. Head(jobs) \in Job /\ Head(jobs).kind \in Transactional
    BY <1>1, <1>3, RunningType DEF RunTransaction, ConserveInv
  <2>2. Head(jobs) \in TransactionJob
    BY <2>1, JobFields
  <2>3. w.at \in SlotAt
    BY <2>2 DEF TransactionJob, Writes
  <2> QED BY <2>3 DEF Unchecked, UsedInv, UsedSlots
<1>4. \A at \in SlotAt : slots'[at] # Virgin
  <2>1. CASE RunTransaction
    <3>1. Head(jobs) \in Job /\ Head(jobs).kind \in Transactional
      BY <1>1, <2>1, RunningType DEF RunTransaction, ConserveInv
    <3>2. Head(jobs).writes \in SUBSET Writes
      BY <3>1, JobFields DEF TransactionJob
    <3>3. ASSUME NEW at \in SlotAt PROVE Written(Head(jobs).writes)[at] # Virgin
      <4>1. CASE \E w \in Head(jobs).writes : w.at = at
        <5> DEFINE w == CHOOSE w \in Head(jobs).writes : w.at = at
        <5>1. w \in Writes
          BY <3>2, <4>1
        <5>2. Stored(at, w.new) \in Cached
          BY <5>1, StoredType DEF Writes
        <5> QED BY <4>1, <5>2, ItemsAssumption DEF Written, Cached
      <4>2. CASE ~\E w \in Head(jobs).writes : w.at = at
        BY <4>2 DEF Written, UsedInv
      <4> QED BY <4>1, <4>2
    <3> QED BY <2>1, <3>3 DEF RunTransaction
  <2>2. CASE ~RunTransaction
    <3>1. ASSUME NEW c \in Conn, Handle(c) PROVE UNCHANGED slots
      <4>1. CASE Bagging(c) \/ Trading(c) \/ Banking(c)
        <5>1. HandleStoreClose(c) \/ \E job \in Job : Asks(job)
          BY <1>1, <4>1, BaggingAsks, TradingAsks, BankingAsks DEF ConserveInv
        <5> QED BY <5>1 DEF HandleStoreClose, Asks, Request, rows
      <4> QED BY <3>1, <4>1 DEF Handle, HandleEnter, HandleCgExit, rows
    <3>2. ASSUME RunJob PROVE UNCHANGED slots
      BY <2>2, <3>2 DEF RunJob, RefuseTransaction, JobThrows, RunLoad, RunCreate, RunOpen, rows
    <3>3. ASSUME RunCallback PROVE UNCHANGED slots
      <4>1. \E kind : Calling(kind)
        BY <3>3 DEF RunCallback, Applied, OnPickedUp, OnMoved, OnDropped, OnDeleted, OnBought,
                   OnSold, OnItemOut, OnItemIn, FinishTransfer, OnLoaded, OnOpened, OnOpenFailed,
                   OnRefused
      <4> QED BY <4>1 DEF Calling, rows
    <3>4. UNCHANGED slots
      BY <3>1, <3>2, <3>3 DEF Next, Expire, Crash, vars, rows
    <3> QED BY <3>4 DEF UsedInv
  <2> QED BY <2>1, <2>2
<1>5. NothingDuplicated'
  <2>1. StartWorth' = StartWorth
    BY DEF StartWorth
  <2>2. Worth' = Worth \/ Worth' < Worth
    <3>1. CASE UNCHANGED vars
      BY <3>1 DEF vars, rows, memory, Worth, InFlight
    <3>2. CASE WorthKept
      BY <1>3, <3>2 DEF WorthKept
    <3> QED BY <1>2, <3>1, <3>2
  <2>3. Worth \in Nat /\ Worth' \in Nat /\ StartWorth \in Nat /\ Worth <= StartWorth
    <3>1. (TypeInv /\ IsFiniteSet(ground) => Parts /\ Worth = Total)'
      BY WorthIsTotal, PTL
    <3>2. Worth = Total /\ Parts /\ Worth' = Total' /\ Parts'
      BY <1>1, <3>1, WorthIsTotal DEF ConserveInv
    <3>3. StartMoney \in Balances /\ StartSlots \in [SlotAt -> Cached \cup {Virgin}]
      BY ItemsAssumption DEF Balances, Cached
    <3>4. StartWorth \in Nat
      BY <3>3, MoneyType, StockType DEF StartWorth
    <3> QED BY <3>2, <3>4 DEF UsedInv, NothingDuplicated, Total, Parts
  <2> QED BY <2>1, <2>2, <2>3 DEF NothingDuplicated
<1> QED BY <1>1, <1>4, <1>5 DEF UsedInv, UsedSlots

(* No sequence of requests leaves more items and coins than the world      *)
(* started with, where every slot was used before and nothing is equipped. *)
THEOREM NothingDuplicatedCorrect == UsedSlots /\ Spec => []NothingDuplicated
<1>1. UsedInv => NothingDuplicated
  BY DEF UsedInv
<1> QED BY <1>1, UsedInit, UsedNext, PTL DEF Spec
=============================================================================
