---------------------------- MODULE ScreenProofs ----------------------------
(***************************************************************************)
(* Proofs about what the clients of WorldMap draw, for a grid, zones and   *)
(* ranges of any size and any number of players, monsters and drops.       *)
(*                                                                         *)
(* While events are queued a screen may be wrong in many ways, but each    *)
(* mistake is still to be put right: either the screen is as it should be, *)
(* or an event is queued that makes it so, and behind every queued event   *)
(* that would undo it there is one more that does it again.                *)
(***************************************************************************)
EXTENDS WorldMapProofs

USE WorldMapAssumption

\* The events still to be dispatched, oldest first.
News == batch \o log

Comes(news, events) == \E i \in 1..Len(news) : news[i] \in events

\* Something is done, or will be by one of the events cause, and no event of undo
\* has the last word about it.
Due(news, done, undo, cause) ==
  /\ done \/ Comes(news, cause)
  /\ \A i \in 1..Len(news) : news[i] \in undo =>
       \E j \in (i + 1)..Len(news) : news[j] \in cause

-----------------------------------------------------------------------------
(* What is due as events are published and dispatched                      *)

(* The positions of what is left of a queue, and of what is added to it.   *)
LEMMA TailAt ==
  ASSUME NEW n \in Seq(Event), n # <<>>
  PROVE  /\ Len(n) \in Nat /\ Len(n) >= 1 /\ Head(n) = n[1] /\ Len(Tail(n)) = Len(n) - 1
         /\ \A i \in 1..Len(Tail(n)) : Tail(n)[i] = n[i + 1]
<1>1. Len(n) \in Nat /\ Len(n) # 0 /\ Head(n) = n[1]
  BY EmptySeq
<1> QED BY <1>1, HeadTailProperties

(* What was due is due after one of its queue was dispatched, if an event  *)
(* of its cause did it and one that does not concern it left it alone.     *)
LEMMA DueNext ==
  ASSUME NEW n \in Seq(Event), n # <<>>, NEW done \in BOOLEAN, NEW after \in BOOLEAN,
         NEW undo, NEW cause, Due(n, done, undo, cause),
         Head(n) \in cause => after,
         Head(n) \notin cause /\ Head(n) \notin undo /\ done => after
  PROVE  Due(Tail(n), after, undo, cause)
<1> DEFINE t == Tail(n)
           k == Len(n)
<1>1. /\ k \in Nat /\ k >= 1 /\ Head(n) = n[1] /\ Len(t) = k - 1
      /\ \A i \in 1..(k - 1) : t[i] = n[i + 1]
  BY TailAt
<1>2. /\ done \/ \E i \in 1..k : n[i] \in cause
      /\ \A i \in 1..k : n[i] \in undo => \E j \in (i + 1)..k : n[j] \in cause
  BY DEF Due, Comes
<1> HIDE DEF t, k
<1>3. ASSUME NEW i \in 2..k, n[i] \in cause
      PROVE  i - 1 \in 1..(k - 1) /\ t[i - 1] \in cause
  <2>1. i - 1 \in 1..(k - 1) /\ (i - 1) + 1 = i
    BY <1>1
  <2> QED BY <1>1, <1>3, <2>1
<1>4. (\E i \in 2..k : n[i] \in cause) => \E i \in 1..(k - 1) : t[i] \in cause
  BY <1>3
<1>5. after \/ \E i \in 1..(k - 1) : t[i] \in cause
  <2>1. CASE n[1] \in cause
    BY <1>1, <2>1
  <2>2. CASE n[1] \in undo
    <3>1. 1 \in 1..k /\ (1 + 1)..k = 2..k
      BY <1>1
    <3> QED BY <1>2, <1>4, <2>2, <3>1
  <2>3. CASE n[1] \notin undo /\ n[1] \notin cause
    <3>1. \A i \in 1..k : i = 1 \/ i \in 2..k
      BY <1>1
    <3> QED BY <1>1, <1>2, <1>4, <2>3, <3>1
  <2> QED BY <2>1, <2>2, <2>3
<1>6. ASSUME NEW i \in 1..(k - 1), t[i] \in undo
      PROVE  \E j \in (i + 1)..(k - 1) : t[j] \in cause
  <2>1. i + 1 \in 1..k /\ n[i + 1] \in undo
    BY <1>1, <1>6
  <2>2. PICK j \in (i + 1 + 1)..k : n[j] \in cause
    BY <1>2, <2>1
  <2>3. j \in 2..k /\ j - 1 \in (i + 1)..(k - 1)
    BY <1>1, <2>2
  <2> QED BY <1>3, <2>2, <2>3
<1>7. Len(t) = k - 1
  BY <1>1
<1> QED BY <1>5, <1>6, <1>7 DEF Due, Comes, t

(* The positions of a queue that was added to.                             *)
LEMMA AddedAt ==
  ASSUME NEW n \in Seq(Event), NEW es \in Seq(Event)
  PROVE  /\ Len(n) \in Nat /\ Len(es) \in Nat /\ Len(n \o es) = Len(n) + Len(es)
         /\ \A i \in 1..Len(n) : (n \o es)[i] = n[i]
         /\ \A i \in 1..Len(es) : (n \o es)[Len(n) + i] = es[i]
<1> DEFINE k == Len(n)
           l == Len(es)
<1>1. /\ k \in Nat /\ l \in Nat /\ Len(n \o es) = k + l
      /\ \A i \in 1..(k + l) : (n \o es)[i] = IF i <= k THEN n[i] ELSE es[i - k]
  BY ConcatProperties
<1> HIDE DEF k, l
<1>2. \A i \in 1..k : i \in 1..(k + l) /\ i <= k
  BY <1>1
<1>3. \A i \in 1..l : k + i \in 1..(k + l) /\ ~(k + i <= k) /\ (k + i) - k = i
  BY <1>1
<1>4. \A i \in 1..k : (n \o es)[i] = n[i]
  BY <1>1, <1>2
<1>5. \A i \in 1..l : (n \o es)[k + i] = es[i]
  BY <1>1, <1>3
<1> QED BY <1>1, <1>4, <1>5 DEF k, l

(* What was due stays due while events are published that do not undo it,  *)
LEMMA DueMore ==
  ASSUME NEW n \in Seq(Event), NEW es \in Seq(Event), NEW done \in BOOLEAN, NEW after \in BOOLEAN,
         NEW undo, NEW cause, Due(n, done, undo, cause), done => after,
         \A i \in 1..Len(es) : es[i] \notin undo
  PROVE  Due(n \o es, after, undo, cause)
<1> DEFINE t == n \o es
           k == Len(n)
           l == Len(es)
<1>1. /\ k \in Nat /\ l \in Nat /\ Len(t) = k + l
      /\ \A i \in 1..k : t[i] = n[i]
      /\ \A i \in 1..l : t[k + i] = es[i]
  BY AddedAt
<1>2. /\ done \/ \E i \in 1..k : n[i] \in cause
      /\ \A i \in 1..k : n[i] \in undo => \E j \in (i + 1)..k : n[j] \in cause
      /\ \A i \in 1..l : es[i] \notin undo
  BY DEF Due, Comes
<1> HIDE DEF t, k, l
<1>3. after \/ \E i \in 1..(k + l) : t[i] \in cause
  <2>1. \A i \in 1..k : i \in 1..(k + l)
    BY <1>1
  <2> QED BY <1>1, <1>2, <2>1
<1>4. ASSUME NEW i \in 1..(k + l), t[i] \in undo
      PROVE  \E j \in (i + 1)..(k + l) : t[j] \in cause
  <2>1. CASE i \in 1..k
    <3>1. PICK j \in (i + 1)..k : n[j] \in cause
      BY <1>1, <1>2, <1>4, <2>1
    <3>2. j \in 1..k /\ j \in (i + 1)..(k + l)
      BY <1>1, <2>1, <3>1
    <3> QED BY <1>1, <3>1, <3>2
  <2>2. CASE i \notin 1..k
    <3>1. i - k \in 1..l /\ k + (i - k) = i
      BY <1>1, <2>2
    <3> QED BY <1>1, <1>2, <1>4, <3>1
  <2> QED BY <2>1, <2>2
<1> QED BY <1>1, <1>3, <1>4 DEF Due, Comes, t

(* and whatever was due before is due when its cause is published.         *)
LEMMA DueNow ==
  ASSUME NEW n \in Seq(Event), NEW es \in Seq(Event), NEW after \in BOOLEAN,
         NEW undo, NEW cause, Comes(es, cause),
         \A i \in 1..Len(es) : es[i] \notin undo
  PROVE  Due(n \o es, after, undo, cause)
<1> DEFINE t == n \o es
           k == Len(n)
           l == Len(es)
<1>1. /\ k \in Nat /\ l \in Nat /\ Len(t) = k + l
      /\ \A i \in 1..l : t[k + i] = es[i]
  BY AddedAt
<1>2. (\E i \in 1..l : es[i] \in cause) /\ \A i \in 1..l : es[i] \notin undo
  BY DEF Comes
<1> HIDE DEF t, k, l
<1>3. PICK m \in 1..l : es[m] \in cause
  BY <1>2
<1>4. k + m \in 1..(k + l) /\ t[k + m] \in cause
  BY <1>1, <1>3
<1>5. ASSUME NEW i \in 1..(k + l), t[i] \in undo
      PROVE  \E j \in (i + 1)..(k + l) : t[j] \in cause
  <2>1. CASE i \in 1..k
    <3>1. k + m \in (i + 1)..(k + l)
      BY <1>1, <1>3, <2>1
    <3> QED BY <1>4, <3>1
  <2>2. CASE i \notin 1..k
    <3>1. i - k \in 1..l /\ k + (i - k) = i
      BY <1>1, <2>2
    <3> QED BY <1>1, <1>2, <1>5, <3>1
  <2> QED BY <2>1, <2>2
<1> QED BY <1>1, <1>4, <1>5 DEF Due, Comes, t

-----------------------------------------------------------------------------
(* What a step does to the queue                                           *)

(* Between two dispatches nothing is left of a batch.                      *)
BatchDone == phase # "events" => batch = <<>>

\* A step publishes events of these kinds only.
Tells(kinds) ==
  \E es \in Seq(Event) : /\ News' = News \o es
                         /\ \A i \in 1..Len(es) : es[i].kind \in kinds

MobKinds == {"mob move", "respawn", "killed", "attack resolved", "attack requested"}

(* The queue is one of events.                                             *)
LEMMA NewsType == TypeOK => News \in Seq(Event)
BY ConcatProperties DEF TypeOK, News

(* Each event of it is one.                                                *)
LEMMA NewsAt ==
  ASSUME NEW n \in Seq(Event), NEW i \in 1..Len(n)
  PROVE  n[i] \in Event
BY ElementOfSeq

(* What is published goes to its end.                                      *)
LEMMA NewsPublished ==
  ASSUME TypeOK, batch' = batch, NEW es \in Seq(Event), Publish(es)
  PROVE  News' = News \o es
<1>1. batch \in Seq(Event) /\ log \in Seq(Event)
  BY DEF TypeOK
<1>2. (batch \o log) \o es = batch \o (log \o es)
  BY <1>1, ConcatAssociative
<1> QED BY <1>2 DEF News, Publish

(* What is dispatched was at its head.                                     *)
LEMMA NewsDispatched ==
  ASSUME TypeOK, NEW kind, Dispatching(kind)
  PROVE  /\ News # <<>> /\ Head(News) = Head(batch) /\ News' = Tail(News)
         /\ Head(batch) \in Event /\ Head(batch).kind = kind
<1>1. /\ batch \in Seq(Event) /\ log \in Seq(Event) /\ batch # <<>>
      /\ batch' = Tail(batch) /\ log' = log /\ Head(batch).kind = kind
  BY DEF TypeOK, Dispatching
<1> DEFINE k == Len(batch)
           l == Len(log)
<1>2. /\ k \in Nat /\ k >= 1 /\ Head(batch) = batch[1] /\ Len(Tail(batch)) = k - 1
      /\ \A i \in 1..(k - 1) : Tail(batch)[i] = batch[i + 1]
      /\ Tail(batch) \in Seq(Event) /\ Head(batch) \in Event
  BY <1>1, TailAt, HeadTailProperties
<1>3. /\ l \in Nat /\ News \in Seq(Event) /\ Len(News) = k + l
      /\ \A i \in 1..k : News[i] = batch[i]
      /\ \A i \in 1..l : News[k + i] = log[i]
  BY <1>1, AddedAt, ConcatProperties DEF News
<1>4. /\ News' \in Seq(Event) /\ Len(News') = (k - 1) + l
      /\ \A i \in 1..(k - 1) : News'[i] = batch[i + 1]
      /\ \A i \in 1..l : News'[(k - 1) + i] = log[i]
  <2>1. News' = Tail(batch) \o log
    BY <1>1 DEF News
  <2> QED BY <1>1, <1>2, <2>1, AddedAt, ConcatProperties
<1>5. News # <<>> /\ Head(News) = batch[1]
  <2>1. Len(News) # 0
    BY <1>2, <1>3
  <2>2. News # <<>>
    BY <2>1
  <2>3. Head(News) = News[1]
    BY <1>3, <2>2, TailAt
  <2> QED BY <1>2, <1>3, <2>2, <2>3
<1>6. /\ Tail(News) \in Seq(Event) /\ Len(Tail(News)) = (k + l) - 1
      /\ \A i \in 1..((k + l) - 1) : Tail(News)[i] = News[i + 1]
  BY <1>3, <1>5, TailAt, HeadTailProperties
<1> HIDE DEF k, l
<1>7. ASSUME NEW i \in 1..((k + l) - 1) PROVE News'[i] = Tail(News)[i]
  <2>1. CASE i \in 1..(k - 1)
    <3>1. i + 1 \in 1..k
      BY <1>2, <2>1
    <3> QED BY <1>3, <1>4, <1>6, <2>1, <3>1
  <2>2. CASE i \notin 1..(k - 1)
    <3>1. PICK j \in 1..l : j = i - (k - 1)
      BY <1>2, <1>3, <2>2
    <3>2. (k - 1) + j = i /\ k + j = i + 1
      BY <1>2, <3>1
    <3>3. News'[i] = log[j] /\ News[i + 1] = log[j]
      BY <1>3, <1>4, <3>2
    <3> QED BY <1>6, <3>3
  <2> QED BY <2>1, <2>2
<1>8. News' = Tail(News)
  <2>1. (k - 1) + l = (k + l) - 1
    BY <1>2, <1>3
  <2> QED BY <1>4, <1>6, <1>7, <2>1, SeqEqual
<1> QED BY <1>1, <1>2, <1>5, <1>8

(* No event, one, or two of these kinds.                                   *)
LEMMA TellsThese ==
  ASSUME NEW kinds
  PROVE  /\ News' = News \o <<>> => Tells(kinds)
         /\ \A e \in Event : News' = News \o <<e>> /\ e.kind \in kinds => Tells(kinds)
         /\ \A e, f \in Event :
              News' = News \o <<e, f>> /\ e.kind \in kinds /\ f.kind \in kinds => Tells(kinds)
<1>1. ASSUME News' = News \o <<>> PROVE Tells(kinds)
  <2>1. <<>> \in Seq(Event) /\ \A i \in 1..Len(<<>>) : <<>>[i].kind \in kinds
    BY EmptySeq
  <2> QED BY <1>1, <2>1 DEF Tells
<1>2. ASSUME NEW e \in Event, News' = News \o <<e>>, e.kind \in kinds PROVE Tells(kinds)
  <2>1. <<e>> \in Seq(Event) /\ \A i \in 1..Len(<<e>>) : <<e>>[i].kind \in kinds
    BY <1>2, EventsType
  <2> QED BY <1>2, <2>1 DEF Tells
<1>3. ASSUME NEW e \in Event, NEW f \in Event, News' = News \o <<e, f>>,
             e.kind \in kinds, f.kind \in kinds
      PROVE  Tells(kinds)
  <2>1. <<e, f>> \in Seq(Event) /\ \A i \in 1..Len(<<e, f>>) : <<e, f>>[i].kind \in kinds
    BY <1>3, EventsType
  <2> QED BY <1>3, <2>1 DEF Tells
<1> QED BY <1>1, <1>2, <1>3

(* One event, or none, of a kind.                                          *)
LEMMA TellsOne ==
  ASSUME TypeOK, batch' = batch, NEW kinds,
         log' = log \/ \E e \in Event : Publish(<<e>>) /\ e.kind \in kinds
  PROVE  Tells(kinds)
<1>1. CASE log' = log
  <2>1. News' = News \o <<>>
    BY <1>1, NewsType, ConcatEmptySeq DEF News
  <2> QED BY <2>1, TellsThese
<1>2. ASSUME NEW e \in Event, Publish(<<e>>), e.kind \in kinds
      PROVE  Tells(kinds)
  <2>1. <<e>> \in Seq(Event)
    BY EventsType
  <2>2. News' = News \o <<e>>
    BY <1>2, <2>1, NewsPublished
  <2> QED BY <1>2, <2>2, TellsThese
<1> QED BY <1>1, <1>2

(* A creature that thinks publishes a move, an attack or nothing.          *)
LEMMA CreatureTells ==
  ASSUME TypeOK, NEW m \in Monster, TickCreatureAi(m) \/ TickRespawn(m)
  PROVE  Tells(MobKinds)
<1>0. mob[m].at \in Tile /\ batch' = batch /\ log \in Seq(Event)
  BY DEF TypeOK, Mob, TickCreatureAi, TickRespawn, Ticking
<1> DEFINE One == log' = log \/ \E e \in Event : Publish(<<e>>) /\ e.kind \in MobKinds
<1>1. ASSUME NEW self, NEW tile \in Tile, MoveTo(m, self, tile) PROVE One
  <2> DEFINE e == [kind |-> "mob move", mob |-> m, from |-> mob[m].at, to |-> tile]
  <2>1. e \in Event /\ e.kind \in MobKinds
    BY <1>0 DEF Event, MobKinds
  <2>2. log' = log \/ Publish(<<e>>)
    <3>1. log \o <<>> = log
      BY <1>0, ConcatEmptySeq
    <3> QED BY <1>1, <3>1 DEF MoveTo, Publish
  <2> HIDE DEF e
  <2> QED BY <2>1, <2>2
<1>2. ASSUME Pursue(m) PROVE One
  <2> DEFINE attack == [kind |-> "attack requested", mob |-> m, target |-> mob[m].target]
  <2>1. ASSUME NEW t \in CurrentTarget(m)
        PROVE  mob[m].target \in Player /\ Towards(mob[m].at, t) \in Tile
    BY <1>0, StepType DEF CurrentTarget, OnMap, Towards
  <2>2. mob[m].target \in Player => attack \in Event /\ attack.kind \in MobKinds
    BY DEF Event, MobKinds
  <2>3. \/ log' = log
        \/ \E t \in CurrentTarget(m) :
             \/ MoveTo(m, EnterChase(mob[m], mob[m].target, TRUE), Towards(mob[m].at, t))
             \/ Publish(<<attack>>)
    BY <1>2 DEF Pursue, Become
  <2> HIDE DEF attack
  <2> QED BY <1>1, <2>1, <2>2, <2>3
<1>3. ASSUME TickCreatureAi(m) PROVE One
  <2>1. ASSUME DecideIdle(m) PROVE One
    BY <2>1 DEF DecideIdle, Become
  <2>2. ASSUME DecideWander(m) PROVE One
    BY <1>0, <1>1, <2>2, StepType DEF DecideWander
  <2>3. ASSUME DecideChase(m) \/ DecideAttacking(m) PROVE One
    BY <1>2, <2>3 DEF DecideChase, DecideAttacking
  <2> HIDE DEF One
  <2>4. ASSUME log' = log PROVE One
    BY <2>4 DEF One
  <2> QED BY <1>3, <2>1, <2>2, <2>3, <2>4 DEF TickCreatureAi
<1>4. ASSUME TickRespawn(m) PROVE One
  <2> DEFINE respawn == [kind |-> "respawn", mob |-> m]
  <2>1. log' = log \/ Publish(<<respawn>>)
    BY <1>4 DEF TickRespawn
  <2>2. respawn \in Event /\ respawn.kind \in MobKinds
    BY DEF Event, MobKinds
  <2> HIDE DEF respawn
  <2> QED BY <2>1, <2>2
<1>5. One
  <2> HIDE DEF One
  <2> QED BY <1>3, <1>4
<1> QED BY <1>0, <1>5, TellsOne

(* An attack publishes its outcome, and the kill before it.                *)
LEMMA AttackTells ==
  ASSUME TypeOK, NEW p \in Player, NEW m \in Monster, Attack(p, m)
  PROVE  Tells(MobKinds)
<1> DEFINE resolved(hp) == [kind |-> "attack resolved", who |-> p, mob |-> m,
                            at |-> mob[m].at, hp |-> hp]
           killed == [kind |-> "killed", mob |-> m, at |-> mob[m].at]
<1>1. mob[m] \in Mob /\ mob[m].at \in Tile /\ mob[m].hp \in 0..MaxHp /\ batch' = batch
  BY DEF TypeOK, Mob, Attack, Handling
<1>2. PICK hp \in 0..MaxHp : Publish(<<resolved(hp)>>) \/ Publish(<<killed, resolved(hp)>>)
  <2>1. PICK damage \in 1..MaxHp :
          LET hp == IF damage < mob[m].hp THEN mob[m].hp - damage ELSE 0 IN
            IF hp > 0 THEN Publish(<<resolved(hp)>>) ELSE Publish(<<killed, resolved(hp)>>)
    BY DEF Attack
  <2> HIDE DEF resolved, killed
  <2>2. (IF damage < mob[m].hp THEN mob[m].hp - damage ELSE 0) \in 0..MaxHp
    BY <1>1
  <2> QED BY <2>1, <2>2
<1>3. /\ resolved(hp) \in Event /\ resolved(hp).kind \in MobKinds
      /\ killed \in Event /\ killed.kind \in MobKinds
  BY <1>1 DEF Event, MobKinds
<1> HIDE DEF resolved, killed
<1>4. /\ <<resolved(hp)>> \in Seq(Event) /\ <<killed, resolved(hp)>> \in Seq(Event)
  BY <1>3, EventsType
<1>5. \/ News' = News \o <<resolved(hp)>>
      \/ News' = News \o <<killed, resolved(hp)>>
  BY <1>1, <1>2, <1>4, NewsPublished
<1> QED BY <1>3, <1>5, TellsThese

\* Everything the properties of a screen are about.
Shown == <<place, sees, drops, drawn, drawnDrops>>

(* Whoever does not act on players or items publishes news of monsters at  *)
(* most, and changes nothing else.                                         *)
LEMMA OtherSteps ==
  ASSUME TypeOK, BatchDone, [Next]_vars, ~Dispatch,
         \A p \in Player : ~(SpawnPlayer(p) \/ DespawnPlayer(p) \/ Move(p)),
         \A d \in Drop : ~(SpawnDrop(d) \/ ClaimDrop(d) \/ PutDropBack(d) \/ Expire(d))
  PROVE  Tells(MobKinds) /\ UNCHANGED Shown
<1> DEFINE Goal == Tells(MobKinds) /\ UNCHANGED Shown
<1>1. ASSUME NEW p \in Player, NEW m \in Monster, Attack(p, m) PROVE Goal
  BY <1>1, AttackTells DEF Attack, Handling, screens, Shown
<1>2. ASSUME NEW m \in Monster, TickCreatureAi(m) \/ TickRespawn(m) PROVE Goal
  BY <1>2, CreatureTells DEF TickCreatureAi, TickRespawn, Ticking, screens, Shown
<1>3. ASSUME News' = News PROVE Tells(MobKinds)
  <2>1. News' = News \o <<>>
    BY <1>3, NewsType, ConcatEmptySeq
  <2> QED BY <2>1, TellsThese
<1>4. ASSUME BeginDispatch PROVE Goal
  <2>1. batch = <<>> /\ batch' = log /\ log' = <<>> /\ log \in Seq(Event)
    BY <1>4 DEF BeginDispatch, BatchDone, TypeOK
  <2>2. News' = News
    BY <2>1, ConcatEmptySeq DEF News
  <2> QED BY <1>3, <1>4, <2>2 DEF BeginDispatch, ground, screens, Shown
<1>5. ASSUME BeginSimulation \/ EndTick \/ UNCHANGED vars PROVE Goal
  <2>1. News' = News
    BY <1>5 DEF BeginSimulation, EndTick, vars, bus, News
  <2> QED BY <1>3, <1>5, <2>1 DEF BeginSimulation, EndTick, vars, ground, screens, Shown
<1> HIDE DEF Goal
<1>6. Goal
  BY <1>1, <1>2, <1>4, <1>5 DEF Next, Handle, Simulate
<1> QED BY <1>6 DEF Goal

(* Between two dispatches nothing is ever left of a batch.                 *)
LEMMA BatchNext == TypeOK /\ BatchDone /\ [Next]_vars => BatchDone'
<1> SUFFICES ASSUME BatchDone, [Next]_vars PROVE BatchDone'
  OBVIOUS
<1> DEFINE Goal == BatchDone'
<1>1. ASSUME NEW p \in Player, SpawnPlayer(p) \/ DespawnPlayer(p) \/ Move(p) PROVE Goal
  BY <1>1 DEF SpawnPlayer, DespawnPlayer, Move, Handling, BatchDone
<1>2. ASSUME NEW p \in Player, NEW m \in Monster, Attack(p, m) PROVE Goal
  BY <1>2 DEF Attack, Handling, BatchDone
<1>3. ASSUME NEW d \in Drop, SpawnDrop(d) \/ ClaimDrop(d) \/ PutDropBack(d) \/ Expire(d) PROVE Goal
  BY <1>3 DEF SpawnDrop, ClaimDrop, PutDropBack, Expire, Handling, BatchDone
<1>4. ASSUME NEW m \in Monster, TickCreatureAi(m) \/ TickRespawn(m) PROVE Goal
  BY <1>4 DEF TickCreatureAi, TickRespawn, Ticking, BatchDone
<1>5. ASSUME NEW kind, Dispatching(kind) PROVE Goal
  BY <1>5 DEF Dispatching, BatchDone
<1>6. ASSUME Dispatch PROVE Goal
  <2>1. \E kind : Dispatching(kind)
    BY <1>6 DEF Dispatch, SendViewChange, SendCharMove, SendCharRemove,
          SendCharacterDataLoad, SendCreatureMove, SendCreatureRespawn, IgnoreAttackRequest,
          SendMonsterKilled, SendPlayerAttackResult, SendItemMapNew, SendItemMapRemove
  <2> HIDE DEF Goal
  <2> QED BY <1>5, <2>1
<1>7. ASSUME BeginDispatch \/ BeginSimulation \/ EndTick \/ UNCHANGED vars PROVE Goal
  BY <1>7 DEF BeginDispatch, BeginSimulation, EndTick, vars, bus, BatchDone
<1> HIDE DEF Goal
<1>8. Goal
  BY <1>1, <1>2, <1>3, <1>4, <1>6, <1>7 DEF Next, Handle, Simulate
<1> QED BY <1>8 DEF Goal

\* A step publishes these events, in some order.
Says(events) ==
  \E es \in Seq(Event) : /\ News' = News \o es
                         /\ \A i \in 1..Len(es) : es[i] \in events
                         /\ \A e \in events : \E i \in 1..Len(es) : es[i] = e

(* One event, or two.                                                      *)
LEMMA SaysThese ==
  ASSUME TypeOK, batch' = batch, NEW e \in Event, NEW f \in Event
  PROVE  /\ Publish(<<e>>) => Says({e})
         /\ Publish(<<e, f>>) => Says({e, f})
<1>1. <<e>> \in Seq(Event) /\ <<e, f>> \in Seq(Event)
  BY EventsType
<1>2. ASSUME Publish(<<e>>) PROVE Says({e})
  <2>1. News' = News \o <<e>>
    BY <1>1, <1>2, NewsPublished
  <2>2. /\ \A i \in 1..Len(<<e>>) : <<e>>[i] \in {e}
        /\ \A x \in {e} : \E i \in 1..Len(<<e>>) : <<e>>[i] = x
    OBVIOUS
  <2> QED BY <1>1, <2>1, <2>2 DEF Says
<1>3. ASSUME Publish(<<e, f>>) PROVE Says({e, f})
  <2>1. News' = News \o <<e, f>>
    BY <1>1, <1>3, NewsPublished
  <2>2. /\ Len(<<e, f>>) = 2 /\ <<e, f>>[1] = e /\ <<e, f>>[2] = f
        /\ 1 \in 1..2 /\ 2 \in 1..2 /\ \A i \in 1..2 : i = 1 \/ i = 2
    OBVIOUS
  <2>3. /\ \A i \in 1..Len(<<e, f>>) : <<e, f>>[i] \in {e, f}
        /\ \A x \in {e, f} : \E i \in 1..Len(<<e, f>>) : <<e, f>>[i] = x
    BY <2>2
  <2> QED BY <1>1, <2>1, <2>3 DEF Says
<1> QED BY <1>2, <1>3

(* What is due after a step that publishes.                                *)
LEMMA DueSaid ==
  ASSUME TypeOK, NEW done \in BOOLEAN, NEW after \in BOOLEAN, NEW undo, NEW cause,
         NEW events, Says(events), events \cap undo = {},
         \/ events \cap cause # {}
         \/ Due(News, done, undo, cause) /\ (done => after)
  PROVE  Due(News', after, undo, cause)
<1>1. PICK es \in Seq(Event) :
        /\ News' = News \o es
        /\ \A i \in 1..Len(es) : es[i] \in events
        /\ \A e \in events : \E i \in 1..Len(es) : es[i] = e
  BY DEF Says
<1>2. \A i \in 1..Len(es) : es[i] \notin undo
  BY <1>1
<1>3. News \in Seq(Event)
  BY NewsType
<1>4. CASE events \cap cause # {}
  <2>1. Comes(es, cause)
    BY <1>1, <1>4 DEF Comes
  <2> QED BY <1>1, <1>2, <1>3, <2>1, DueNow
<1>5. CASE Due(News, done, undo, cause) /\ (done => after)
  BY <1>1, <1>2, <1>3, <1>5, DueMore
<1> QED BY <1>4, <1>5

(* What is due after a step with nothing to say about it.                  *)
LEMMA DueTold ==
  ASSUME TypeOK, NEW done \in BOOLEAN, NEW after \in BOOLEAN, NEW undo, NEW cause,
         NEW kinds, Tells(kinds), \A e \in undo : e.kind \notin kinds,
         Due(News, done, undo, cause), done => after
  PROVE  Due(News', after, undo, cause)
<1>1. PICK es \in Seq(Event) :
        News' = News \o es /\ \A i \in 1..Len(es) : es[i].kind \in kinds
  BY DEF Tells
<1>2. \A i \in 1..Len(es) : es[i] \notin undo
  BY <1>1
<1> QED BY <1>1, <1>2, NewsType, DueMore

(* What is due after a dispatch.                                           *)
LEMMA DueDispatched ==
  ASSUME TypeOK, NEW done \in BOOLEAN, NEW after \in BOOLEAN, NEW undo, NEW cause,
         NEW kind, Dispatching(kind), Due(News, done, undo, cause),
         Head(batch) \in cause => after,
         Head(batch) \notin cause /\ Head(batch) \notin undo /\ done => after
  PROVE  Due(News', after, undo, cause)
<1>1. News \in Seq(Event) /\ News # <<>> /\ Head(News) = Head(batch) /\ News' = Tail(News)
  BY NewsType, NewsDispatched
<1>2. /\ Head(News) \in cause => after
      /\ Head(News) \notin cause /\ Head(News) \notin undo /\ done => after
  BY <1>1
<1>3. Due(Tail(News), after, undo, cause)
  BY <1>1, <1>2, DueNext
<1> QED BY <1>1, <1>3

JoinEvent(p) == [kind |-> "join", who |-> p]
LeaveEvent(p) == [kind |-> "leave", who |-> p]
ZoneEvent(p, from, to) == [kind |-> "zone", who |-> p, from |-> from, to |-> to]
MoveEvent(p, tile) == [kind |-> "move", who |-> p, to |-> tile]
AddEvent(d, tile) == [kind |-> "drop add", drop |-> d, at |-> tile]
RemoveEvent(d, tile) == [kind |-> "drop remove", drop |-> d, at |-> tile]

(* What a join says.                                                       *)
LEMMA SpawnSays ==
  ASSUME TypeOK, NEW p \in Player, SpawnPlayer(p)
  PROVE  \E tile \in Tile :
           /\ place' = [place EXCEPT ![p] = tile] /\ ZoneOf(tile) \in Zone
           /\ Says({JoinEvent(p), ZoneEvent(p, None, ZoneOf(tile))})
<1>1. PICK tile \in Tile :
        /\ place' = [place EXCEPT ![p] = tile]
        /\ Publish(<<JoinEvent(p), ZoneEvent(p, None, ZoneOf(tile))>>)
  BY DEF SpawnPlayer, JoinEvent, ZoneEvent
<1>2. ZoneOf(tile) \in Zone /\ batch' = batch
  BY ZoneType DEF SpawnPlayer, Handling
<1>3. JoinEvent(p) \in Event /\ ZoneEvent(p, None, ZoneOf(tile)) \in Event
  BY <1>2 DEF Event, JoinEvent, ZoneEvent
<1> QED BY <1>1, <1>2, <1>3, SaysThese

(* What a leave says.                                                      *)
LEMMA DespawnSays ==
  ASSUME TypeOK, NEW p \in Player, DespawnPlayer(p)
  PROVE  Says({LeaveEvent(p)})
<1>1. Publish(<<LeaveEvent(p)>>) /\ batch' = batch
  BY DEF DespawnPlayer, Handling, LeaveEvent
<1>2. LeaveEvent(p) \in Event
  BY DEF Event, LeaveEvent
<1> QED BY <1>1, <1>2, SaysThese

(* What a move says.                                                       *)
LEMMA MoveSays ==
  ASSUME TypeOK, NEW p \in Player, Move(p)
  PROVE  \E tile \in Tile :
           /\ place' = [place EXCEPT ![p] = tile]
           /\ place[p] \in Tile /\ ZoneOf(place[p]) \in Zone /\ ZoneOf(tile) \in Zone
           /\ IF ZoneOf(place[p]) = ZoneOf(tile)
                THEN Says({MoveEvent(p, tile)})
                ELSE Says({ZoneEvent(p, ZoneOf(place[p]), ZoneOf(tile)), MoveEvent(p, tile)})
<1>1. PICK tile \in Tile :
        /\ place' = [place EXCEPT ![p] = tile]
        /\ Publish(ZoneChange(p, ZoneOf(place[p]), ZoneOf(tile)) \o <<MoveEvent(p, tile)>>)
  BY DEF Move, MoveEvent
<1>2. /\ place[p] \in Tile /\ ZoneOf(place[p]) \in Zone /\ ZoneOf(tile) \in Zone
      /\ batch' = batch
  BY ZoneType DEF Move, Handling, OnMap
<1>3. /\ MoveEvent(p, tile) \in Event
      /\ ZoneEvent(p, ZoneOf(place[p]), ZoneOf(tile)) \in Event
  BY <1>2 DEF Event, MoveEvent, ZoneEvent
<1>4. CASE ZoneOf(place[p]) = ZoneOf(tile)
  <2>1. Publish(<<MoveEvent(p, tile)>>)
    BY <1>1, <1>3, <1>4, Joined DEF ZoneChange
  <2> QED BY <1>1, <1>2, <1>3, <1>4, <2>1, SaysThese
<1>5. CASE ZoneOf(place[p]) # ZoneOf(tile)
  <2>1. Publish(<<ZoneEvent(p, ZoneOf(place[p]), ZoneOf(tile)), MoveEvent(p, tile)>>)
    BY <1>1, <1>3, <1>5, Joined DEF ZoneChange, ZoneEvent
  <2> QED BY <1>1, <1>2, <1>3, <1>5, <2>1, SaysThese
<1> QED BY <1>4, <1>5

-----------------------------------------------------------------------------
(* Items on the ground                                                     *)

Near(p, tile) == IsNeighboring(ZoneOf(place[p]), ZoneOf(tile))

\* The events after whose dispatch a client does, or does not, draw an item.
Shows(p, d) ==
  {e \in Event : \/ e.kind = "zone" /\ e.who = p /\ Appears(e.from, e.to, drops[d].at)
                 \/ e.kind = "drop add" /\ e.drop = d /\ e.at = drops[d].at}

Hides(p, d) ==
  {e \in Event : \/ e.kind = "zone" /\ e.who = p /\ Disappears(e.from, e.to, drops[d].at)
                 \/ e.kind = "drop remove" /\ e.drop = d}

InSight(p, d) == p \in OnMap /\ Lies(d) /\ Near(p, drops[d].at)

DropsDue ==
  \A p \in Player, d \in Drop : InSight(p, d) =>
    Due(News, d \in drawnDrops[p], Hides(p, d), Shows(p, d))

(* No request about players takes an item from a screen for good.          *)
LEMMA PlayersKeepDrops ==
  ASSUME TypeOK, DropsDue, NEW q \in Player, SpawnPlayer(q) \/ DespawnPlayer(q) \/ Move(q)
  PROVE  DropsDue'
<1> SUFFICES ASSUME NEW p \in Player, NEW d \in Drop, InSight(p, d)'
             PROVE  Due(News', d \in drawnDrops'[p], Hides(p, d)', Shows(p, d)')
  BY DEF DropsDue
<1>0. drops' = drops /\ drawnDrops' = drawnDrops
  <2>1. CASE SpawnPlayer(q)
    BY <2>1 DEF SpawnPlayer, Handling, screens
  <2>2. CASE DespawnPlayer(q)
    BY <2>2 DEF DespawnPlayer, Handling, screens
  <2>3. CASE Move(q)
    BY <2>3 DEF Move, Handling, screens
  <2> QED BY <2>1, <2>2, <2>3
<1>1. /\ drops' = drops /\ drawnDrops' = drawnDrops /\ Hides(p, d)' = Hides(p, d)
      /\ Shows(p, d)' = Shows(p, d) /\ drops[d].at \in Tile
      /\ place \in [Player -> Tile \cup {Unborn, Gone}] /\ Unborn \notin Tile /\ Gone \notin Tile
  <2>1. Hides(p, d)' = Hides(p, d) /\ Shows(p, d)' = Shows(p, d)
    BY <1>0 DEF Hides, Shows
  <2>2. /\ drops[d].at \in Tile /\ place \in [Player -> Tile \cup {Unborn, Gone}]
        /\ Unborn \notin Tile /\ Gone \notin Tile
    BY DEF TypeOK, Tile
  <2> QED BY <1>0, <2>1, <2>2
<1> DEFINE drawn1 == d \in drawnDrops[p]
<1>2. drawn1 \in BOOLEAN /\ (d \in drawnDrops'[p] <=> drawn1)
  BY <1>1
<1>3. ASSUME InSight(p, d), NEW events, Says(events), events \cap Hides(p, d) = {}
      PROVE  Due(News', d \in drawnDrops'[p], Hides(p, d)', Shows(p, d)')
  <2>1. Due(News, drawn1, Hides(p, d), Shows(p, d))
    BY <1>3 DEF DropsDue
  <2> HIDE DEF drawn1
  <2>2. Due(News', drawn1, Hides(p, d), Shows(p, d))
    BY <1>2, <1>3, <2>1, DueSaid
  <2>3. drawnDrops' = drawnDrops /\ Hides(p, d)' = Hides(p, d) /\ Shows(p, d)' = Shows(p, d)
    BY <1>1
  <2> QED BY <2>2, <2>3 DEF drawn1
<1>4. ASSUME NEW events, Says(events), events \cap Hides(p, d) = {}, events \cap Shows(p, d) # {}
      PROVE  Due(News', d \in drawnDrops'[p], Hides(p, d)', Shows(p, d)')
  <2>1. Due(News', drawn1, Hides(p, d), Shows(p, d))
    <3> HIDE DEF drawn1
    <3> QED BY <1>2, <1>4, DueSaid
  <2> QED BY <1>1, <2>1
<1> HIDE DEF drawn1
<1>5. ASSUME q # p PROVE InSight(p, d)
  <2>1. place'[p] = place[p]
    BY <1>1, <1>5 DEF SpawnPlayer, DespawnPlayer, Move
  <2> QED BY <1>1, <2>1 DEF InSight, OnMap, Lies, Near
<1>6. CASE SpawnPlayer(q)
  <2>1. PICK tile \in Tile :
          /\ place' = [place EXCEPT ![q] = tile] /\ ZoneOf(tile) \in Zone
          /\ Says({JoinEvent(q), ZoneEvent(q, None, ZoneOf(tile))})
    BY <1>6, SpawnSays
  <2>2. {JoinEvent(q), ZoneEvent(q, None, ZoneOf(tile))} \cap Hides(p, d) = {}
    <3>1. JoinEvent(q) \notin Hides(p, d)
      BY DEF Hides, JoinEvent
    <3>2. ZoneEvent(q, None, ZoneOf(tile)) \notin Hides(p, d)
      BY DEF Hides, ZoneEvent, Disappears
    <3> QED BY <3>1, <3>2
  <2>3. CASE q = p
    <3>1. IsNeighboring(ZoneOf(tile), ZoneOf(drops[d].at))
      BY <1>1, <2>1, <2>3 DEF InSight, Near
    <3>2. ZoneEvent(q, None, ZoneOf(tile)) \in Shows(p, d)
      BY <2>1, <2>3, <3>1 DEF Shows, Event, ZoneEvent, Appears
    <3> QED BY <1>4, <2>1, <2>2, <3>2
  <2> QED BY <1>3, <1>5, <2>1, <2>2, <2>3
<1>7. CASE DespawnPlayer(q)
  <2>1. q # p
    BY <1>1, <1>7 DEF DespawnPlayer, InSight, OnMap
  <2>2. {LeaveEvent(q)} \cap Hides(p, d) = {}
    <3>1. LeaveEvent(q) \notin Hides(p, d)
      BY DEF Hides, LeaveEvent
    <3> QED BY <3>1
  <2> QED BY <1>3, <1>5, <1>7, <2>1, <2>2, DespawnSays
<1>8. CASE Move(q)
  <2>1. PICK tile \in Tile :
          /\ place' = [place EXCEPT ![q] = tile]
          /\ place[q] \in Tile /\ ZoneOf(place[q]) \in Zone /\ ZoneOf(tile) \in Zone
          /\ IF ZoneOf(place[q]) = ZoneOf(tile)
               THEN Says({MoveEvent(q, tile)})
               ELSE Says({ZoneEvent(q, ZoneOf(place[q]), ZoneOf(tile)), MoveEvent(q, tile)})
    BY <1>8, MoveSays
  <2> DEFINE zone == ZoneEvent(q, ZoneOf(place[q]), ZoneOf(tile))
  <2>2. MoveEvent(q, tile) \notin Hides(p, d)
    BY DEF Hides, MoveEvent
  <2>3. ASSUME q # p PROVE zone \notin Hides(p, d)
    BY <2>3 DEF Hides, ZoneEvent
  <2>4. CASE q # p
    <3> HIDE DEF zone
    <3>1. {MoveEvent(q, tile)} \cap Hides(p, d) = {} /\ {zone, MoveEvent(q, tile)} \cap Hides(p, d) = {}
      BY <2>2, <2>3, <2>4
    <3> QED BY <1>3, <1>5, <2>1, <2>4, <3>1 DEF zone
  <2>5. CASE q = p
    <3>1. IsNeighboring(ZoneOf(tile), ZoneOf(drops[d].at)) /\ Lies(d) /\ p \in OnMap
      BY <1>1, <2>1, <2>5 DEF InSight, Near, Lies, OnMap
    <3>2. zone \notin Hides(p, d)
      BY <3>1 DEF Hides, ZoneEvent, Disappears
    <3>3. {MoveEvent(q, tile)} \cap Hides(p, d) = {} /\ {zone, MoveEvent(q, tile)} \cap Hides(p, d) = {}
      BY <2>2, <3>2
    <3>4. CASE Near(p, drops[d].at)
      <4>1. InSight(p, d)
        BY <3>1, <3>4 DEF InSight
      <4> QED BY <1>3, <2>1, <3>3, <4>1
    <3>5. CASE ~Near(p, drops[d].at)
      <4>1. ZoneOf(place[q]) # ZoneOf(tile)
        BY <2>5, <3>1, <3>5 DEF Near
      <4>2. zone \in Shows(p, d)
        <5>1. None \notin Zone
          BY DEF Zone
        <5> QED BY <2>1, <2>5, <3>1, <3>5, <5>1 DEF Shows, Event, ZoneEvent, Appears, Near
      <4> HIDE DEF zone
      <4> QED BY <1>4, <2>1, <3>3, <4>1, <4>2 DEF zone
    <3> QED BY <3>4, <3>5
  <2> QED BY <2>4, <2>5
<1> QED BY <1>6, <1>7, <1>8

(* Nor does one about items, or an item's expiry, of another item, and an  *)
(* item that lies is one that is told of.                                  *)
LEMMA ItemsKeepDrops ==
  ASSUME TypeOK, DropsDue, NEW e \in Drop, SpawnDrop(e) \/ ClaimDrop(e) \/ PutDropBack(e) \/ Expire(e)
  PROVE  DropsDue'
<1> SUFFICES ASSUME NEW p \in Player, NEW d \in Drop, InSight(p, d)'
             PROVE  Due(News', d \in drawnDrops'[p], Hides(p, d)', Shows(p, d)')
  BY DEF DropsDue
<1> DEFINE done == d \in drawnDrops[p]
<1>0. /\ place' = place /\ drawnDrops' = drawnDrops /\ batch' = batch
      /\ drops \in [Drop -> Item] /\ \A f \in Drop \ {e} : drops'[f] = drops[f]
  <2>1. drops \in [Drop -> Item]
    BY DEF TypeOK, Item
  <2>2. CASE SpawnDrop(e)
    BY <2>1, <2>2 DEF SpawnDrop, Handling, screens
  <2>3. CASE ClaimDrop(e)
    BY <2>1, <2>3 DEF ClaimDrop, Handling, screens
  <2>4. CASE PutDropBack(e)
    BY <2>1, <2>4 DEF PutDropBack, Handling, screens
  <2>5. CASE Expire(e)
    BY <2>1, <2>5 DEF Expire, screens
  <2> QED BY <2>2, <2>3, <2>4, <2>5
<1>1. done \in BOOLEAN /\ (d \in drawnDrops'[p] <=> done)
  BY <1>0
<1>2. PICK tile \in Tile :
        \/ Publish(<<AddEvent(e, tile)>>) /\ drops'[e].at = tile
        \/ Publish(<<RemoveEvent(e, tile)>>) /\ drops'[e].is # "lying"
  <2>1. drops[e] \in Item /\ drops[e].at \in Tile
    BY <1>0 DEF Item
  <2>2. CASE SpawnDrop(e)
    <3>1. PICK tile \in Tile : /\ drops' = [drops EXCEPT ![e] = [at |-> tile, is |-> "lying"]]
                               /\ Publish(<<AddEvent(e, tile)>>)
      BY <2>2 DEF SpawnDrop, AddEvent
    <3>2. drops'[e].at = tile
      BY <1>0, <3>1
    <3> QED BY <3>1, <3>2
  <2>3. CASE ClaimDrop(e)
    BY <1>0, <2>1, <2>3 DEF ClaimDrop, RemoveEvent, Item
  <2>4. CASE PutDropBack(e)
    BY <1>0, <2>1, <2>4 DEF PutDropBack, AddEvent, Item
  <2>5. CASE Expire(e)
    BY <1>0, <2>1, <2>5 DEF Expire, RemoveEvent, Item
  <2> QED BY <2>2, <2>3, <2>4, <2>5
<1>3. AddEvent(e, tile) \in Event /\ RemoveEvent(e, tile) \in Event
  BY DEF Event, AddEvent, RemoveEvent
<1>4. \/ Says({AddEvent(e, tile)}) /\ drops'[e].at = tile
      \/ Says({RemoveEvent(e, tile)}) /\ drops'[e].is # "lying"
  BY <1>0, <1>2, <1>3, SaysThese
<1> HIDE DEF done
<1>5. CASE e = d
  <2>1. Says({AddEvent(d, tile)}) /\ drops'[d].at = tile
    BY <1>4, <1>5 DEF InSight, Lies
  <2>2. AddEvent(d, tile) \in Shows(p, d)'
    BY <1>3, <1>5, <2>1 DEF Shows, AddEvent
  <2>3. AddEvent(d, tile) \notin Hides(p, d)'
    BY DEF Hides, AddEvent
  <2>4. Due(News', done, Hides(p, d)', Shows(p, d)')
    BY <1>1, <2>1, <2>2, <2>3, DueSaid
  <2> QED BY <1>0, <2>4 DEF done
<1>6. CASE e # d
  <2>1. drops'[d] = drops[d]
    BY <1>0, <1>6
  <2>2. Hides(p, d)' = Hides(p, d) /\ Shows(p, d)' = Shows(p, d)
    BY <2>1 DEF Hides, Shows
  <2>3. InSight(p, d)
    BY <1>0, <2>1 DEF InSight, Lies, Near, OnMap
  <2>4. Due(News, done, Hides(p, d), Shows(p, d))
    BY <2>3 DEF DropsDue, done
  <2>5. AddEvent(e, tile) \notin Hides(p, d) /\ RemoveEvent(e, tile) \notin Hides(p, d)
    BY <1>6 DEF Hides, AddEvent, RemoveEvent
  <2>6. Due(News', done, Hides(p, d), Shows(p, d))
    <3>1. \A x \in {AddEvent(e, tile), RemoveEvent(e, tile)} : {x} \cap Hides(p, d) = {}
      BY <2>5
    <3>2. PICK x \in {AddEvent(e, tile), RemoveEvent(e, tile)} : Says({x})
      BY <1>4
    <3> QED BY <1>1, <2>4, <3>1, <3>2, DueSaid
  <2> QED BY <1>0, <2>2, <2>6 DEF done
<1> QED BY <1>5, <1>6

(* A zone that comes into view does not go out of it.                      *)
LEMMA AppearsOrDisappears ==
  \A from, to, tile : ~(Appears(from, to, tile) /\ Disappears(from, to, tile))
BY DEF Appears, Disappears

(* A dispatched event does to a screen what it is counted on for.          *)
LEMMA DispatchDraws ==
  ASSUME TypeOK, IndexMatchesPlaces, Dispatch, NEW p \in Player, NEW d \in Drop, InSight(p, d)
  PROVE  /\ Head(batch) \in Shows(p, d) => d \in drawnDrops'[p]
         /\ Head(batch) \notin Shows(p, d) /\ Head(batch) \notin Hides(p, d)
              /\ d \in drawnDrops[p] => d \in drawnDrops'[p]
<1> DEFINE e == Head(batch)
           Goal == /\ e \in Shows(p, d) => d \in drawnDrops'[p]
                   /\ e \notin Shows(p, d) /\ e \notin Hides(p, d)
                        /\ d \in drawnDrops[p] => d \in drawnDrops'[p]
<1>0. drawnDrops \in [Player -> SUBSET Drop] /\ drops[d].at \in Tile
  BY DEF TypeOK
<1>1. ASSUME drawnDrops' = drawnDrops, e.kind \notin {"zone", "drop add"} PROVE Goal
  BY <1>1 DEF Shows
<1>2. ASSUME SendViewChange PROVE Goal
  <2>1. e \in Event /\ e.kind = "zone" /\ e.who \in Player
    BY <1>2, NewsDispatched, EventFields DEF SendViewChange
  <2>2. CASE e.who # p
    <3>1. drawnDrops'[p] = drawnDrops[p]
      BY <1>0, <1>2, <2>2 DEF SendViewChange, screens
    <3>2. e \notin Shows(p, d)
      BY <2>1, <2>2 DEF Shows
    <3> QED BY <3>1, <3>2
  <2>3. CASE e.who = p
    <3>1. drawnDrops'[p] = DropsAfter(e)
      BY <1>0, <1>2, <2>3 DEF SendViewChange, InSight
    <3>2. e \in Shows(p, d) => Appears(e.from, e.to, drops[d].at)
      BY <2>1 DEF Shows
    <3>3. e \notin Hides(p, d) => ~Disappears(e.from, e.to, drops[d].at)
      BY <2>1, <2>3 DEF Hides
    <3>4. Lies(d)
      BY DEF InSight
    <3> QED BY <2>3, <3>1, <3>2, <3>3, <3>4, AppearsOrDisappears DEF DropsAfter
  <2> QED BY <2>2, <2>3
<1>3. ASSUME SendItemMapNew PROVE Goal
  <2>1. e \in Event /\ e.kind = "drop add"
    BY <1>3, NewsDispatched DEF SendItemMapNew
  <2>2. drawnDrops' = Draw(drawnDrops, ViewersOf(e.at), e.drop)
    BY <1>3 DEF SendItemMapNew
  <2>3. ASSUME e \in Shows(p, d) PROVE d \in drawnDrops'[p]
    <3>1. e.drop = d /\ e.at = drops[d].at
      BY <2>1, <2>3 DEF Shows
    <3>2. p \in ViewersOf(drops[d].at)
      <4>1. ZoneOf(drops[d].at) \in Zone
        BY <1>0, ZoneType
      <4>2. IsNeighboring(ZoneOf(drops[d].at), ZoneOf(place[p]))
        <5>1. /\ ZoneOf(drops[d].at) \in Nat /\ ZoneOf(place[p]) \in Nat
          BY <1>0, ZoneType DEF InSight, OnMap, Zone
        <5> QED BY <5>1 DEF InSight, Near, IsNeighboring, Distance
      <4> QED BY <4>1, <4>2 DEF ViewersOf, IndexMatchesPlaces, InSight
    <3> QED BY <1>0, <2>2, <3>1, <3>2 DEF Draw
  <2>4. drawnDrops[p] \subseteq drawnDrops'[p]
    BY <1>0, <2>2 DEF Draw
  <2> QED BY <2>3, <2>4
<1>4. ASSUME SendItemMapRemove PROVE Goal
  <2>1. e \in Event /\ e.kind = "drop remove"
    BY <1>4, NewsDispatched DEF SendItemMapRemove
  <2>2. e \notin Shows(p, d) /\ (e \notin Hides(p, d) => e.drop # d)
    BY <2>1 DEF Shows, Hides
  <2>3. drawnDrops' = Erase(drawnDrops, ViewersOf(e.at), e.drop)
    BY <1>4 DEF SendItemMapRemove
  <2>4. e.drop # d /\ d \in drawnDrops[p] => d \in drawnDrops'[p]
    BY <1>0, <2>3 DEF Erase
  <2> QED BY <2>2, <2>4
<1>5. ASSUME SendCharMove \/ SendCharRemove \/ SendCharacterDataLoad \/ SendCreatureMove
             \/ SendCreatureRespawn \/ IgnoreAttackRequest \/ SendMonsterKilled
             \/ SendPlayerAttackResult
      PROVE  Goal
  <2>1. drawnDrops' = drawnDrops /\ e.kind \notin {"zone", "drop add"}
    BY <1>5 DEF SendCharMove, SendCharRemove, SendCharacterDataLoad, SendCreatureMove,
      SendCreatureRespawn, IgnoreAttackRequest, SendMonsterKilled, SendPlayerAttackResult,
      Dispatching, screens
  <2> HIDE DEF Goal
  <2> QED BY <1>1, <2>1
<1> HIDE DEF Goal
<1>6. Goal
  BY <1>2, <1>3, <1>4, <1>5 DEF Dispatch
<1> QED BY <1>6 DEF Goal

(* Every event that is dispatched, is dispatched by its kind.              *)
LEMMA DispatchesOne == Dispatch => \E kind : Dispatching(kind)
BY DEF Dispatch, SendViewChange, SendCharMove, SendCharRemove, SendCharacterDataLoad,
  SendCreatureMove, SendCreatureRespawn, IgnoreAttackRequest, SendMonsterKilled,
  SendPlayerAttackResult, SendItemMapNew, SendItemMapRemove

(* What hides or shows an item, and whether it is in sight, depends on the  *)
(* places of players and items alone.                                      *)
LEMMA ViewOfDropsKept ==
  ASSUME place' = place, drops' = drops, NEW p \in Player, NEW d \in Drop
  PROVE  /\ InSight(p, d)' <=> InSight(p, d)
         /\ Hides(p, d)' = Hides(p, d)
         /\ Shows(p, d)' = Shows(p, d)
<1>1. InSight(p, d)' <=> InSight(p, d)
  BY DEF InSight, OnMap, Lies, Near
<1>2. Hides(p, d)' = Hides(p, d)
  BY DEF Hides
<1>3. Shows(p, d)' = Shows(p, d)
  BY DEF Shows
<1> QED BY <1>1, <1>2, <1>3

(* Every step leaves what clients should draw of the ground due.           *)
LEMMA DropsNext ==
  TypeOK /\ BatchDone /\ IndexMatchesPlaces /\ DropsDue /\ [Next]_vars => DropsDue'
<1> SUFFICES ASSUME TypeOK, BatchDone, IndexMatchesPlaces, DropsDue, [Next]_vars PROVE DropsDue'
  OBVIOUS
<1>1. CASE \E p \in Player : SpawnPlayer(p) \/ DespawnPlayer(p) \/ Move(p)
  BY <1>1, PlayersKeepDrops
<1>2. CASE \E d \in Drop : SpawnDrop(d) \/ ClaimDrop(d) \/ PutDropBack(d) \/ Expire(d)
  BY <1>2, ItemsKeepDrops
<1>3. CASE Dispatch
  <2>1. PICK kind : Dispatching(kind)
    BY <1>3, DispatchesOne
  <2>2. place' = place /\ drops' = drops
    BY <2>1 DEF Dispatching
  <2> SUFFICES ASSUME NEW p \in Player, NEW d \in Drop, InSight(p, d)
               PROVE  Due(News', d \in drawnDrops'[p], Hides(p, d), Shows(p, d))
    BY <2>2, ViewOfDropsKept DEF DropsDue
  <2> DEFINE done == d \in drawnDrops[p]
             after == d \in drawnDrops'[p]
  <2>3. Due(News, done, Hides(p, d), Shows(p, d)) /\ done \in BOOLEAN /\ after \in BOOLEAN
    BY DEF DropsDue
  <2>4. /\ Head(batch) \in Shows(p, d) => after
        /\ Head(batch) \notin Shows(p, d) /\ Head(batch) \notin Hides(p, d) /\ done => after
    BY <1>3, DispatchDraws
  <2> HIDE DEF done, after
  <2>5. Due(News', after, Hides(p, d), Shows(p, d))
    BY <2>1, <2>3, <2>4, DueDispatched
  <2> QED BY <2>5 DEF after
<1>4. CASE ~ \/ \E p \in Player : SpawnPlayer(p) \/ DespawnPlayer(p) \/ Move(p)
             \/ \E d \in Drop : SpawnDrop(d) \/ ClaimDrop(d) \/ PutDropBack(d) \/ Expire(d)
             \/ Dispatch
  <2>1. Tells(MobKinds) /\ UNCHANGED <<place, drops, drawnDrops>>
    BY <1>4, OtherSteps DEF Shown
  <2> SUFFICES ASSUME NEW p \in Player, NEW d \in Drop, InSight(p, d)
               PROVE  Due(News', d \in drawnDrops[p], Hides(p, d), Shows(p, d))
    BY <2>1, ViewOfDropsKept DEF DropsDue
  <2> DEFINE done == d \in drawnDrops[p]
  <2>2. Due(News, done, Hides(p, d), Shows(p, d)) /\ done \in BOOLEAN
    BY DEF DropsDue
  <2>3. \A e \in Hides(p, d) : e.kind \notin MobKinds
    BY DEF Hides, MobKinds
  <2> HIDE DEF done
  <2>4. Due(News', done, Hides(p, d), Shows(p, d))
    BY <2>1, <2>2, <2>3, DueTold
  <2> QED BY <2>4 DEF done
<1> QED BY <1>1, <1>2, <1>3, <1>4

\* What is drawn of the ground, with what its steps rely on.
DropsInv == BatchDone /\ IndexMatchesPlaces /\ DropsDue

(* Once every event of a tick is dispatched no item in a player's view is  *)
(* hidden from its client, however players came and went and items were    *)
(* dropped, claimed and put back meanwhile.                                *)
THEOREM DropsInViewAreShownCorrect == Spec => []DropsInViewAreShown
<1>1. Init => DropsInv
  <2> SUFFICES ASSUME Init PROVE DropsInv
    OBVIOUS
  <2>1. OnMap = {}
    BY DEF Init, OnMap, Tile
  <2>2. BatchDone /\ IndexMatchesPlaces
    BY <2>1 DEF Init, BatchDone, IndexMatchesPlaces
  <2>3. DropsDue
    BY <2>1 DEF DropsDue, InSight
  <2> QED BY <2>2, <2>3 DEF DropsInv
<1>2. TypeOK /\ DropsInv /\ [Next]_vars => DropsInv'
  BY BatchNext, IndexNext, DropsNext DEF DropsInv
<1>3. TypeOK /\ DropsInv => DropsInViewAreShown
  <2> SUFFICES ASSUME DropsInv, Quiet, NEW p \in OnMap, NEW d \in Drop, Lies(d),
                      Near(p, drops[d].at)
               PROVE  d \in drawnDrops[p]
    BY DEF DropsInViewAreShown, Near
  <2>1. Due(News, d \in drawnDrops[p], Hides(p, d), Shows(p, d))
    BY DEF DropsInv, DropsDue, InSight, OnMap
  <2>2. Len(News) = 0
    <3>1. News = <<>>
      BY EmptySeq, ConcatEmptySeq DEF Quiet, News
    <3> QED BY <3>1, EmptySeq
  <2> QED BY <2>1, <2>2 DEF Due, Comes
<1> QED BY <1>1, <1>2, <1>3, TypeInvariant, PTL DEF Spec

-----------------------------------------------------------------------------
(* Characters                                                              *)

ZoneNews(p) == {e \in Event : e.kind = "zone" /\ e.who = p}
Leaves(p) == {e \in Event : e.kind = "leave" /\ e.who = p}
Moves(p) == {e \in Event : e.kind = "move" /\ e.who = p}
Fresh(p) == {e \in Moves(p) : e.to = place[p]}
Stale(p) == {e \in Moves(p) : e.to # place[p]}

\* A client draws the characters the server believes it has loaded.
DrawsWhomItSees == \A p, q \in Player : drawn[p][q] # None <=> q \in sees[p]

\* Nobody sees, or hears of moves, before it has joined.
UnbornInv ==
  \A p \in Player : place[p] = Unborn => sees[p] = {} /\ ~Comes(News, Moves(p))

\* A zone change of one of them puts right whether two players see each other.
SightDue ==
  \A p, q \in OnMap : p # q =>
    Due(News, q \in sees[p] <=> Near(p, place[q]), {}, ZoneNews(p) \cup ZoneNews(q))

\* A leave makes everybody forget the one that left.
LeaveDue ==
  \A p \in OnMap, q \in Player : place[q] = Gone =>
    Due(News, q \notin sees[p], {}, Leaves(q))

\* The last queued move of a player is to where it stands, and whoever sees it
\* draws it there or will hear of that move.
PlaceDue ==
  \A q \in OnMap :
    /\ Due(News, TRUE, Stale(q), Fresh(q))
    /\ \A p \in OnMap : q \in sees[p] =>
         Due(News, drawn[p][q] = place[q], Stale(q), Fresh(q))

ViewInv == DrawsWhomItSees /\ UnbornInv /\ SightDue /\ LeaveDue /\ PlaceDue

(* What says nothing of a kind leaves nothing of it to come.               *)
LEMMA ComesSaid ==
  ASSUME TypeOK, NEW events, Says(events), NEW S, events \cap S = {}, ~Comes(News, S)
  PROVE  ~Comes(News', S)
<1>1. PICK es \in Seq(Event) : News' = News \o es /\ \A i \in 1..Len(es) : es[i] \in events
  BY DEF Says
<1> DEFINE k == Len(News)
           l == Len(es)
<1>2. /\ k \in Nat /\ l \in Nat /\ Len(News') = k + l
      /\ \A i \in 1..k : News'[i] = News[i]
      /\ \A i \in 1..l : News'[k + i] = es[i]
  BY <1>1, NewsType, AddedAt
<1>3. (\A i \in 1..k : News[i] \notin S) /\ (\A i \in 1..l : es[i] \notin S)
  BY <1>1 DEF Comes
<1> HIDE DEF k, l
<1>4. ASSUME NEW i \in 1..(k + l) PROVE News'[i] \notin S
  <2>1. CASE i \in 1..k
    BY <1>2, <1>3, <2>1
  <2>2. CASE i \notin 1..k
    <3>1. i - k \in 1..l /\ k + (i - k) = i
      BY <1>2, <2>2
    <3> QED BY <1>2, <1>3, <3>1
  <2> QED BY <2>1, <2>2
<1> QED BY <1>2, <1>4 DEF Comes

(* Told news of a kind does neither.                                       *)
LEMMA ComesTold ==
  ASSUME TypeOK, NEW kinds, Tells(kinds), NEW S, \A e \in S : e.kind \notin kinds, ~Comes(News, S)
  PROVE  ~Comes(News', S)
<1>1. PICK es \in Seq(Event) :
        News' = News \o es /\ \A i \in 1..Len(es) : es[i].kind \in kinds
  BY DEF Tells
<1>2. Says({es[i] : i \in 1..Len(es)})
  BY <1>1 DEF Says
<1>3. {es[i] : i \in 1..Len(es)} \cap S = {}
  BY <1>1
<1> QED BY <1>2, <1>3, ComesSaid

(* Nor does a dispatch.                                                    *)
LEMMA ComesDispatched ==
  ASSUME TypeOK, NEW kind, Dispatching(kind), NEW S, ~Comes(News, S)
  PROVE  ~Comes(News', S)
<1>1. News \in Seq(Event) /\ News # <<>> /\ News' = Tail(News)
  BY NewsType, NewsDispatched
<1> DEFINE k == Len(News)
<1>2. k \in Nat /\ Len(News') = k - 1 /\ \A i \in 1..(k - 1) : News'[i] = News[i + 1]
  BY <1>1, TailAt
<1>3. \A i \in 1..k : News[i] \notin S
  BY DEF Comes
<1> HIDE DEF k
<1>4. \A i \in 1..(k - 1) : i + 1 \in 1..k
  BY <1>2
<1> QED BY <1>2, <1>3, <1>4 DEF Comes

(* If no move of it comes, its moves are all fresh.                        *)
LEMMA NothingStale ==
  ASSUME NEW p, ~Comes(News', Moves(p))
  PROVE  Due(News', TRUE, Stale(p)', Fresh(p)')
BY DEF Comes, Due, Stale, Moves

(* Places and sight as types have them.                                    *)
LEMMA PlaceTypes ==
  ASSUME TypeOK
  PROVE  /\ place \in [Player -> Tile \cup {Unborn, Gone}] /\ Unborn \notin Tile /\ Gone \notin Tile
         /\ Unborn # Gone /\ None \notin Tile
         /\ sees \in [Player -> SUBSET Player] /\ drawn \in [Player -> [Player -> Tile \cup {None}]]
         /\ OnMap \subseteq Player /\ \A p \in OnMap : place[p] \in Tile
BY DEF TypeOK, Tile, OnMap

(* Being near is mutual.                                                   *)
LEMMA NearIsMutual ==
  ASSUME TypeOK, NEW p \in OnMap, NEW q \in OnMap
  PROVE  Near(p, place[q]) <=> Near(q, place[p])
<1>1. ZoneOf(place[p]) \in Nat /\ ZoneOf(place[q]) \in Nat
  BY ZoneType DEF OnMap, Zone
<1> QED BY <1>1 DEF Near, IsNeighboring, Distance

(* A join.                                                                 *)
LEMMA SpawnKeepsView ==
  ASSUME TypeOK, SightInv, ViewInv, NEW r \in Player, SpawnPlayer(r)
  PROVE  ViewInv'
<1>1. PICK tile \in Tile :
        /\ place' = [place EXCEPT ![r] = tile] /\ ZoneOf(tile) \in Zone
        /\ Says({JoinEvent(r), ZoneEvent(r, None, ZoneOf(tile))})
  BY SpawnSays
<1>2. /\ place[r] = Unborn /\ sees' = [sees EXCEPT ![r] = {}] /\ drawn' = drawn
      /\ sees[r] = {} /\ ~Comes(News, Moves(r))
  BY DEF SpawnPlayer, Handling, screens, ViewInv, UnbornInv
<1>3. /\ sees' = sees /\ place'[r] = tile /\ r \notin OnMap /\ OnMap' = OnMap \cup {r}
      /\ \A q \in Player : r \notin sees[q]
      /\ \A q \in Player \ {r} : place'[q] = place[q]
  <2>1. sees' = sees
    BY <1>2, PlaceTypes
  <2>2. OnMap' = OnMap \cup {r} /\ r \notin OnMap
    BY <1>1, <1>2, PlaceTypes DEF OnMap
  <2> QED BY <1>1, <1>2, <2>1, <2>2, PlaceTypes DEF SightInv
<1> DEFINE zone == ZoneEvent(r, None, ZoneOf(tile))
           events == {JoinEvent(r), zone}
<1>4. /\ Says(events) /\ zone \in ZoneNews(r)
      /\ \A q : events \cap Moves(q) = {} /\ events \cap Stale(q) = {}
  <2>1. zone \in ZoneNews(r)
    BY <1>1 DEF ZoneNews, Event, ZoneEvent
  <2>2. \A q : JoinEvent(r) \notin Moves(q) /\ zone \notin Moves(q)
    BY DEF Moves, JoinEvent, ZoneEvent
  <2> QED BY <1>1, <2>1, <2>2 DEF Stale
<1> HIDE DEF zone, events
<1>5. DrawsWhomItSees'
  BY <1>2, <1>3 DEF ViewInv, DrawsWhomItSees
<1>6. UnbornInv'
  <2> SUFFICES ASSUME NEW q \in Player, place'[q] = Unborn
               PROVE  sees'[q] = {} /\ ~Comes(News', Moves(q))
    BY DEF UnbornInv, Moves
  <2>1. sees[q] = {} /\ ~Comes(News, Moves(q))
    BY <1>2, <1>3 DEF ViewInv, UnbornInv
  <2> QED BY <1>3, <1>4, <2>1, ComesSaid
<1>7. SightDue'
  <2> SUFFICES ASSUME NEW p \in OnMap', NEW q \in OnMap', p # q
               PROVE  Due(News', q \in sees'[p] <=> Near(p, place[q])', {},
                          ZoneNews(p) \cup ZoneNews(q))
    BY DEF SightDue, ZoneNews
  <2> DEFINE done == q \in sees[p] <=> Near(p, place[q])
             after == q \in sees'[p] <=> Near(p, place[q])'
             cause == ZoneNews(p) \cup ZoneNews(q)
  <2>1. done \in BOOLEAN /\ after \in BOOLEAN
    OBVIOUS
  <2>2. CASE p = r \/ q = r
    <3>1. events \cap cause # {}
      BY <1>4, <2>2 DEF events
    <3> HIDE DEF done, after, cause
    <3> QED BY <1>4, <2>1, <3>1, DueSaid DEF after, cause
  <2>3. CASE p # r /\ q # r
    <3>1. p \in OnMap /\ q \in OnMap
      BY <1>3, <2>3
    <3>2. Due(News, done, {}, cause)
      BY <2>3, <3>1 DEF ViewInv, SightDue
    <3>3. done => after
      <4>1. place'[p] = place[p] /\ place'[q] = place[q] /\ sees'[p] = sees[p]
        BY <1>3, <2>3, <3>1, PlaceTypes
      <4>2. Near(p, place[q])' <=> Near(p, place[q])
        BY <4>1 DEF Near
      <4> QED BY <4>1, <4>2
    <3> HIDE DEF done, after, cause
    <3> QED BY <1>4, <2>1, <3>2, <3>3, DueSaid DEF after, cause
  <2> QED BY <2>2, <2>3
<1>8. LeaveDue'
  <2> SUFFICES ASSUME NEW p \in OnMap', NEW q \in Player, place'[q] = Gone
               PROVE  Due(News', q \notin sees'[p], {}, Leaves(q))
    BY DEF LeaveDue, Leaves
  <2> DEFINE done == q \notin sees[p]
  <2>1. place[q] = Gone /\ done \in BOOLEAN
    BY <1>1, <1>3, PlaceTypes
  <2>2. Due(News, done, {}, Leaves(q))
    <3>1. CASE p = r
      BY <1>2, <3>1 DEF Due
    <3>2. CASE p # r
      BY <1>3, <2>1, <3>2 DEF ViewInv, LeaveDue
    <3> QED BY <3>1, <3>2
  <2> HIDE DEF done
  <2>3. Due(News', done, {}, Leaves(q))
    BY <1>4, <2>1, <2>2, DueSaid
  <2> QED BY <1>3, <2>3 DEF done
<1>9. PlaceDue'
  <2> SUFFICES ASSUME NEW q \in OnMap'
               PROVE  /\ Due(News', TRUE, Stale(q)', Fresh(q)')
                      /\ \A p \in OnMap' : q \in sees'[p] =>
                           Due(News', drawn'[p][q] = place'[q], Stale(q)', Fresh(q)')
    BY DEF PlaceDue
  <2>1. CASE q = r
    <3>1. ~Comes(News', Moves(r))
      BY <1>2, <1>4, ComesSaid
    <3>2. Moves(r)' = Moves(r)
      BY DEF Moves
    <3>3. Due(News', TRUE, Stale(q)', Fresh(q)')
      BY <2>1, <3>1, NothingStale
    <3>4. \A p \in OnMap' : q \notin sees'[p]
      BY <1>3, <2>1, PlaceTypes
    <3> QED BY <3>3, <3>4
  <2>2. CASE q # r
    <3>1. q \in OnMap /\ Stale(q)' = Stale(q) /\ Fresh(q)' = Fresh(q) /\ place'[q] = place[q]
      BY <1>3, <2>2 DEF Stale, Fresh, Moves, OnMap
    <3>2. Due(News', TRUE, Stale(q), Fresh(q))
      BY <1>4, <3>1, DueSaid DEF ViewInv, PlaceDue
    <3>3. ASSUME NEW p \in OnMap', q \in sees'[p]
          PROVE  Due(News', drawn'[p][q] = place'[q], Stale(q)', Fresh(q)')
      <4> DEFINE done == drawn[p][q] = place[q]
      <4>1. p \in OnMap /\ q \in sees[p]
        BY <1>2, <1>3, <3>3
      <4>2. Due(News, done, Stale(q), Fresh(q)) /\ done \in BOOLEAN
        BY <3>1, <4>1 DEF ViewInv, PlaceDue
      <4> HIDE DEF done
      <4>3. Due(News', done, Stale(q), Fresh(q))
        BY <1>4, <4>2, DueSaid
      <4> QED BY <1>2, <3>1, <4>3 DEF done
    <3> QED BY <3>1, <3>2, <3>3
  <2> QED BY <2>1, <2>2
<1> QED BY <1>5, <1>6, <1>7, <1>8, <1>9 DEF ViewInv

(* A leave.                                                                *)
LEMMA DespawnKeepsView ==
  ASSUME TypeOK, SightInv, ViewInv, NEW r \in Player, DespawnPlayer(r)
  PROVE  ViewInv'
<1>1. /\ place' = [place EXCEPT ![r] = Gone] /\ sees' = sees /\ drawn' = drawn
      /\ Says({LeaveEvent(r)})
  BY DespawnSays DEF DespawnPlayer, Handling, screens
<1>2. /\ OnMap' = OnMap \ {r} /\ place'[r] = Gone
      /\ \A q \in Player \ {r} : place'[q] = place[q]
  BY <1>1, PlaceTypes DEF OnMap
<1> DEFINE events == {LeaveEvent(r)}
<1>3. /\ Says(events) /\ LeaveEvent(r) \in Leaves(r)
      /\ \A q : events \cap Moves(q) = {} /\ events \cap Stale(q) = {}
  <2>1. LeaveEvent(r) \in Leaves(r)
    BY DEF Leaves, Event, LeaveEvent
  <2>2. \A q : LeaveEvent(r) \notin Moves(q)
    BY DEF Moves, LeaveEvent
  <2> QED BY <1>1, <2>1, <2>2 DEF Stale
<1>4. events \cap Leaves(r) # {}
  BY <1>3
<1> HIDE DEF events
<1>5. DrawsWhomItSees'
  BY <1>1 DEF ViewInv, DrawsWhomItSees
<1>6. UnbornInv'
  <2> SUFFICES ASSUME NEW q \in Player, place'[q] = Unborn
               PROVE  sees'[q] = {} /\ ~Comes(News', Moves(q))
    BY DEF UnbornInv, Moves
  <2>1. sees[q] = {} /\ ~Comes(News, Moves(q))
    BY <1>2, PlaceTypes DEF ViewInv, UnbornInv
  <2> QED BY <1>1, <1>3, <2>1, ComesSaid
<1>7. SightDue'
  <2> SUFFICES ASSUME NEW p \in OnMap', NEW q \in OnMap', p # q
               PROVE  Due(News', q \in sees'[p] <=> Near(p, place[q])', {},
                          ZoneNews(p) \cup ZoneNews(q))
    BY DEF SightDue, ZoneNews
  <2> DEFINE done == q \in sees[p] <=> Near(p, place[q])
             cause == ZoneNews(p) \cup ZoneNews(q)
  <2>1. p \in OnMap /\ q \in OnMap /\ place'[p] = place[p] /\ place'[q] = place[q]
    BY <1>2, PlaceTypes
  <2>2. Due(News, done, {}, cause) /\ done \in BOOLEAN
    BY <2>1 DEF ViewInv, SightDue
  <2>3. Near(p, place[q])' <=> Near(p, place[q])
    BY <2>1 DEF Near
  <2>4. (q \in sees'[p] <=> Near(p, place[q])') = done
    BY <1>1, <2>3
  <2> HIDE DEF done, cause
  <2>5. Due(News', done, {}, cause)
    BY <1>3, <2>2, DueSaid
  <2> QED BY <2>4, <2>5 DEF cause
<1>8. LeaveDue'
  <2> SUFFICES ASSUME NEW p \in OnMap', NEW q \in Player, place'[q] = Gone
               PROVE  Due(News', q \notin sees'[p], {}, Leaves(q))
    BY DEF LeaveDue, Leaves
  <2> DEFINE done == q \notin sees[p]
  <2>1. done \in BOOLEAN
    OBVIOUS
  <2>2. q = r \/ Due(News, done, {}, Leaves(q))
    BY <1>2 DEF ViewInv, LeaveDue
  <2> HIDE DEF done
  <2>3. Due(News', done, {}, Leaves(q))
    BY <1>3, <1>4, <2>1, <2>2, DueSaid
  <2> QED BY <1>1, <2>3 DEF done
<1>9. PlaceDue'
  <2> SUFFICES ASSUME NEW q \in OnMap'
               PROVE  /\ Due(News', TRUE, Stale(q)', Fresh(q)')
                      /\ \A p \in OnMap' : q \in sees'[p] =>
                           Due(News', drawn'[p][q] = place'[q], Stale(q)', Fresh(q)')
    BY DEF PlaceDue
  <2>1. q \in OnMap /\ Stale(q)' = Stale(q) /\ Fresh(q)' = Fresh(q) /\ place'[q] = place[q]
    BY <1>2, PlaceTypes DEF Stale, Fresh, Moves
  <2>2. Due(News', TRUE, Stale(q), Fresh(q))
    BY <1>3, <2>1, DueSaid DEF ViewInv, PlaceDue
  <2>3. ASSUME NEW p \in OnMap', q \in sees'[p]
        PROVE  Due(News', drawn'[p][q] = place'[q], Stale(q)', Fresh(q)')
    <3> DEFINE done == drawn[p][q] = place[q]
    <3>1. p \in OnMap /\ q \in sees[p]
      BY <1>1, <1>2, <2>3
    <3>2. Due(News, done, Stale(q), Fresh(q)) /\ done \in BOOLEAN
      BY <2>1, <3>1 DEF ViewInv, PlaceDue
    <3> HIDE DEF done
    <3>3. Due(News', done, Stale(q), Fresh(q))
      BY <1>3, <3>2, DueSaid
    <3> QED BY <1>1, <2>1, <3>3 DEF done
  <2> QED BY <2>1, <2>2, <2>3
<1> QED BY <1>5, <1>6, <1>7, <1>8, <1>9 DEF ViewInv

(* A move, across zones or within one.                                     *)
LEMMA MoveKeepsView ==
  ASSUME TypeOK, SightInv, ViewInv, NEW r \in Player, Move(r)
  PROVE  ViewInv'
<1>1. PICK tile \in Tile :
        /\ place' = [place EXCEPT ![r] = tile]
        /\ place[r] \in Tile /\ ZoneOf(place[r]) \in Zone /\ ZoneOf(tile) \in Zone
        /\ IF ZoneOf(place[r]) = ZoneOf(tile)
             THEN Says({MoveEvent(r, tile)})
             ELSE Says({ZoneEvent(r, ZoneOf(place[r]), ZoneOf(tile)), MoveEvent(r, tile)})
  BY MoveSays
<1>2. sees' = sees /\ drawn' = drawn
  BY DEF Move, Handling, screens
<1>3. /\ OnMap' = OnMap /\ place'[r] = tile /\ r \in OnMap
      /\ \A q \in Player \ {r} : place'[q] = place[q]
  BY <1>1, PlaceTypes DEF OnMap
<1> DEFINE zone == ZoneEvent(r, ZoneOf(place[r]), ZoneOf(tile))
           move == MoveEvent(r, tile)
<1>4. /\ move \in Fresh(r)' /\ move \notin Stale(r)' /\ \A q : zone \notin Moves(q)
      /\ \A q : q # r => move \notin Moves(q)
  <2>1. move \in Event /\ move.kind = "move" /\ move.who = r /\ move.to = tile
    BY DEF Event, MoveEvent
  <2>2. \A q : zone \notin Moves(q)
    BY DEF Moves, ZoneEvent
  <2> HIDE DEF move, zone
  <2> QED BY <1>3, <2>1, <2>2 DEF Fresh, Stale, Moves
<1>5. ZoneOf(place[r]) # ZoneOf(tile) => zone \in ZoneNews(r)
  BY <1>1 DEF ZoneNews, Event, ZoneEvent
<1>6. PICK events \in {{move}, {zone, move}} :
        Says(events) /\ (ZoneOf(place[r]) # ZoneOf(tile) => events = {zone, move})
  BY <1>1
<1> HIDE DEF zone, move
<1>7. /\ events \cap Fresh(r)' # {} /\ events \cap Stale(r)' = {}
      /\ \A q : q # r => events \cap Moves(q) = {}
      /\ ZoneOf(place[r]) # ZoneOf(tile) => events \cap ZoneNews(r) # {}
  <2>1. move \in events /\ events \subseteq {zone, move}
    BY <1>6
  <2>2. zone \notin Stale(r)'
    BY <1>4 DEF Stale, Moves
  <2> QED BY <1>4, <1>5, <1>6, <2>1, <2>2
<1>8. DrawsWhomItSees'
  BY <1>2 DEF ViewInv, DrawsWhomItSees
<1>9. UnbornInv'
  <2> SUFFICES ASSUME NEW q \in Player, place'[q] = Unborn
               PROVE  sees'[q] = {} /\ ~Comes(News', Moves(q))
    BY DEF UnbornInv, Moves
  <2>1. q # r /\ place[q] = Unborn
    BY <1>3, PlaceTypes
  <2>2. sees[q] = {} /\ ~Comes(News, Moves(q))
    BY <2>1 DEF ViewInv, UnbornInv
  <2> QED BY <1>2, <1>6, <1>7, <2>1, <2>2, ComesSaid
<1>10. SightDue'
  <2> SUFFICES ASSUME NEW p \in OnMap, NEW q \in OnMap, p # q
               PROVE  Due(News', q \in sees'[p] <=> Near(p, place[q])', {},
                          ZoneNews(p) \cup ZoneNews(q))
    BY <1>3 DEF SightDue, ZoneNews
  <2> DEFINE done == q \in sees[p] <=> Near(p, place[q])
             after == q \in sees[p] <=> Near(p, place[q])'
             cause == ZoneNews(p) \cup ZoneNews(q)
  <2>1. Due(News, done, {}, cause) /\ done \in BOOLEAN /\ after \in BOOLEAN
    BY DEF ViewInv, SightDue
  <2>2. \/ events \cap cause # {}
        \/ after = done
    <3>1. CASE ZoneOf(place[r]) # ZoneOf(tile) /\ (p = r \/ q = r)
      BY <1>7, <3>1
    <3>2. CASE ZoneOf(place[r]) = ZoneOf(tile) \/ (p # r /\ q # r)
      <4>1. ZoneOf(place'[p]) = ZoneOf(place[p]) /\ ZoneOf(place'[q]) = ZoneOf(place[q])
        BY <1>3, <3>2, PlaceTypes
      <4>2. Near(p, place[q])' <=> Near(p, place[q])
        BY <4>1 DEF Near
      <4> QED BY <4>2
    <3> QED BY <3>1, <3>2
  <2> HIDE DEF done, after, cause
  <2>3. Due(News', after, {}, cause)
    BY <1>6, <2>1, <2>2, DueSaid
  <2> QED BY <1>2, <2>3 DEF after, cause
<1>11. LeaveDue'
  <2> SUFFICES ASSUME NEW p \in OnMap, NEW q \in Player, place'[q] = Gone
               PROVE  Due(News', q \notin sees'[p], {}, Leaves(q))
    BY <1>3 DEF LeaveDue, Leaves
  <2> DEFINE done == q \notin sees[p]
  <2>1. place[q] = Gone
    BY <1>3, PlaceTypes
  <2>2. Due(News, done, {}, Leaves(q)) /\ done \in BOOLEAN
    BY <2>1 DEF ViewInv, LeaveDue
  <2> HIDE DEF done
  <2>3. Due(News', done, {}, Leaves(q))
    BY <1>6, <2>2, DueSaid
  <2> QED BY <1>2, <2>3 DEF done
<1>12. PlaceDue'
  <2> SUFFICES ASSUME NEW q \in OnMap
               PROVE  /\ Due(News', TRUE, Stale(q)', Fresh(q)')
                      /\ \A p \in OnMap : q \in sees'[p] =>
                           Due(News', drawn'[p][q] = place'[q], Stale(q)', Fresh(q)')
    BY <1>3 DEF PlaceDue
  <2>1. CASE q = r
    <3> DEFINE stale == Stale(r)'
               fresh == Fresh(r)'
    <3>1. events \cap fresh # {} /\ events \cap stale = {}
      BY <1>7
    <3> HIDE DEF stale, fresh
    <3>2. \A after \in BOOLEAN : Due(News', after, stale, fresh)
      BY <1>6, <3>1, DueSaid
    <3> QED BY <2>1, <3>2 DEF stale, fresh
  <2>2. CASE q # r
    <3>1. Stale(q)' = Stale(q) /\ Fresh(q)' = Fresh(q) /\ place'[q] = place[q]
      BY <1>3, <2>2, PlaceTypes DEF Stale, Fresh, Moves
    <3>2. events \cap Stale(q) = {}
      BY <1>7, <2>2 DEF Stale
    <3>3. Due(News', TRUE, Stale(q), Fresh(q))
      BY <1>6, <3>2, DueSaid DEF ViewInv, PlaceDue
    <3>4. ASSUME NEW p \in OnMap, q \in sees'[p]
          PROVE  Due(News', drawn'[p][q] = place'[q], Stale(q)', Fresh(q)')
      <4> DEFINE done == drawn[p][q] = place[q]
      <4>1. q \in sees[p]
        BY <1>2, <3>4
      <4>2. Due(News, done, Stale(q), Fresh(q)) /\ done \in BOOLEAN
        BY <4>1 DEF ViewInv, PlaceDue
      <4> HIDE DEF done
      <4>3. Due(News', done, Stale(q), Fresh(q))
        BY <1>6, <3>2, <4>2, DueSaid
      <4> QED BY <1>2, <3>1, <4>3 DEF done
    <3> QED BY <3>1, <3>3, <3>4
  <2> QED BY <2>1, <2>2
<1> QED BY <1>8, <1>9, <1>10, <1>11, <1>12 DEF ViewInv

\* The events that say something about characters.
CharacterNews == {e \in Event : e.kind \in {"zone", "leave", "move"}}

\* A step adds or takes away none of them.
SaysNothing ==
  /\ \A done \in BOOLEAN : \A undo, cause \in SUBSET CharacterNews :
       Due(News, done, undo, cause) => Due(News', done, undo, cause)
  /\ \A S \in SUBSET CharacterNews : ~Comes(News, S) => ~Comes(News', S)

(* Such a step, if it changes no place and no sight, keeps the view.       *)
LEMMA NothingKeepsView ==
  ASSUME TypeOK, ViewInv, SaysNothing, UNCHANGED <<place, sees, drawn>>
  PROVE  ViewInv'
<1>1. \A p : /\ {} \in SUBSET CharacterNews /\ ZoneNews(p) \in SUBSET CharacterNews
             /\ Leaves(p) \in SUBSET CharacterNews /\ Moves(p) \in SUBSET CharacterNews
             /\ Stale(p) \in SUBSET CharacterNews /\ Fresh(p) \in SUBSET CharacterNews
  BY DEF ZoneNews, Leaves, Moves, Stale, Fresh, CharacterNews
<1>2. OnMap' = OnMap /\ \A p : Stale(p)' = Stale(p) /\ Fresh(p)' = Fresh(p)
  BY DEF OnMap, Stale, Fresh, Moves
<1>3. DrawsWhomItSees' /\ UnbornInv'
  BY <1>1 DEF ViewInv, DrawsWhomItSees, UnbornInv, SaysNothing, Moves
<1>4. SightDue'
  <2> SUFFICES ASSUME NEW p \in OnMap, NEW q \in OnMap, p # q
               PROVE  Due(News', q \in sees[p] <=> Near(p, place[q]), {},
                          ZoneNews(p) \cup ZoneNews(q))
    BY <1>2 DEF SightDue, ZoneNews, Near
  <2> DEFINE done == q \in sees[p] <=> Near(p, place[q])
             cause == ZoneNews(p) \cup ZoneNews(q)
  <2>1. Due(News, done, {}, cause) /\ done \in BOOLEAN /\ cause \in SUBSET CharacterNews
    BY <1>1 DEF ViewInv, SightDue
  <2> HIDE DEF done, cause
  <2>2. Due(News', done, {}, cause)
    BY <1>1, <2>1 DEF SaysNothing
  <2> QED BY <2>2 DEF done, cause
<1>5. LeaveDue'
  <2> SUFFICES ASSUME NEW p \in OnMap, NEW q \in Player, place[q] = Gone
               PROVE  Due(News', q \notin sees[p], {}, Leaves(q))
    BY <1>2 DEF LeaveDue, Leaves
  <2> DEFINE done == q \notin sees[p]
  <2>1. Due(News, done, {}, Leaves(q)) /\ done \in BOOLEAN
    BY DEF ViewInv, LeaveDue
  <2> HIDE DEF done
  <2>2. Due(News', done, {}, Leaves(q))
    BY <1>1, <2>1 DEF SaysNothing
  <2> QED BY <2>2 DEF done
<1>6. PlaceDue'
  <2> SUFFICES ASSUME NEW q \in OnMap
               PROVE  /\ Due(News', TRUE, Stale(q), Fresh(q))
                      /\ \A p \in OnMap : q \in sees[p] =>
                           Due(News', drawn[p][q] = place[q], Stale(q), Fresh(q))
    BY <1>2 DEF PlaceDue
  <2>1. Due(News', TRUE, Stale(q), Fresh(q))
    BY <1>1 DEF ViewInv, PlaceDue, SaysNothing
  <2>2. ASSUME NEW p \in OnMap, q \in sees[p]
        PROVE  Due(News', drawn[p][q] = place[q], Stale(q), Fresh(q))
    <3> DEFINE done == drawn[p][q] = place[q]
    <3>1. Due(News, done, Stale(q), Fresh(q)) /\ done \in BOOLEAN
      BY <2>2 DEF ViewInv, PlaceDue
    <3> HIDE DEF done
    <3>2. Due(News', done, Stale(q), Fresh(q))
      BY <1>1, <3>1 DEF SaysNothing
    <3> QED BY <3>2 DEF done
  <2> QED BY <2>1, <2>2
<1> QED BY <1>3, <1>4, <1>5, <1>6 DEF ViewInv

(* News of something else are such a step,                                 *)
LEMMA TellsNothing ==
  ASSUME TypeOK, NEW kinds, Tells(kinds), kinds \cap {"zone", "leave", "move"} = {}
  PROVE  SaysNothing
<1>1. \A S \in SUBSET CharacterNews : \A e \in S : e.kind \notin kinds
  BY DEF CharacterNews
<1> QED BY <1>1, DueTold, ComesTold DEF SaysNothing

(* and so is the dispatch of something else.                               *)
LEMMA DispatchesNothing ==
  ASSUME TypeOK, NEW kind, Dispatching(kind), kind \notin {"zone", "leave", "move"}
  PROVE  SaysNothing
<1>1. Head(batch) \notin CharacterNews
  BY NewsDispatched DEF CharacterNews
<1>2. \A S \in SUBSET CharacterNews : Head(batch) \notin S
  BY <1>1
<1> QED BY <1>2, DueDispatched, ComesDispatched DEF SaysNothing

(* A step about items tells of items.                                      *)
LEMMA ItemsTell ==
  ASSUME TypeOK, NEW d \in Drop, SpawnDrop(d) \/ ClaimDrop(d) \/ PutDropBack(d) \/ Expire(d)
  PROVE  Tells({"drop add", "drop remove"})
<1>1. batch' = batch
  BY DEF SpawnDrop, ClaimDrop, PutDropBack, Expire, Handling
<1>2. drops[d].at \in Tile
  BY DEF TypeOK
<1>3. \E tile \in Tile : Publish(<<AddEvent(d, tile)>>) \/ Publish(<<RemoveEvent(d, tile)>>)
  BY <1>2 DEF SpawnDrop, ClaimDrop, PutDropBack, Expire, AddEvent, RemoveEvent
<1>4. \A tile \in Tile : /\ AddEvent(d, tile) \in Event /\ AddEvent(d, tile).kind = "drop add"
                         /\ RemoveEvent(d, tile) \in Event
                         /\ RemoveEvent(d, tile).kind = "drop remove"
  BY DEF Event, AddEvent, RemoveEvent
<1> QED BY <1>1, <1>3, <1>4, TellsOne

(* A step about items says nothing about characters.                       *)
LEMMA ItemsSayNothing ==
  ASSUME TypeOK, NEW d \in Drop, SpawnDrop(d) \/ ClaimDrop(d) \/ PutDropBack(d) \/ Expire(d)
  PROVE  SaysNothing /\ UNCHANGED <<place, sees, drawn>>
<1>1. UNCHANGED <<place, sees, drawn>>
  <2>1. CASE SpawnDrop(d)
    BY <2>1 DEF SpawnDrop, Handling, screens
  <2>2. CASE ClaimDrop(d)
    BY <2>2 DEF ClaimDrop, Handling, screens
  <2>3. CASE PutDropBack(d)
    BY <2>3 DEF PutDropBack, Handling, screens
  <2>4. CASE Expire(d)
    BY <2>4 DEF Expire, screens
  <2> QED BY <2>1, <2>2, <2>3, <2>4
<1>2. SaysNothing
  <2>1. {"drop add", "drop remove"} \cap {"zone", "leave", "move"} = {}
    OBVIOUS
  <2> QED BY <2>1, ItemsTell, TellsNothing
<1> QED BY <1>1, <1>2

\* What a change of p's view comes to, for both sides of every pair.
Synced(p) ==
  /\ sees'[p] = InView(p)
  /\ \A r \in Player :
       drawn'[p][r] = IF r \in InView(p) \ sees[p] THEN place[r]
                      ELSE IF r \in sees[p] \ InView(p) THEN None ELSE drawn[p][r]
  /\ \A q \in OnMap \ {p} :
       /\ p \in sees'[q] <=> q \in InView(p)
       /\ drawn'[q][p] = IF q \in InView(p) \ sees[p] THEN place[p]
                         ELSE IF q \in sees[p] \ InView(p) THEN None ELSE drawn[q][p]
  /\ \A q \in Player \ {p}, r \in Player \ {p} :
       (r \in sees'[q] <=> r \in sees[q]) /\ drawn'[q][r] = drawn[q][r]
  /\ \A q \in Player \ OnMap : sees'[q] = sees[q] /\ drawn'[q] = drawn[q]

(* SyncVisiblePlayers does that.                                           *)
LEMMA SyncEffect ==
  ASSUME TypeOK, SightInv, NEW p \in OnMap, SyncVisiblePlayers(p)
  PROVE  Synced(p)
<1>0. /\ sees \in [Player -> SUBSET Player] /\ drawn \in [Player -> [Player -> Tile \cup {None}]]
      /\ OnMap \subseteq Player /\ \A q \in OnMap : place[q] \in Tile
      /\ InView(p) \subseteq OnMap \ {p}
  BY PlaceTypes DEF InView
<1>1. \A q \in OnMap : q \in sees[p] <=> p \in sees[q]
  BY DEF SightInv, SightIsMutual
<1>2. /\ LosesSight(p) \subseteq OnMap /\ GainsSight(p) \subseteq OnMap
      /\ p \notin LosesSight(p) /\ p \notin GainsSight(p)
      /\ \A q \in OnMap : q \in LosesSight(p) <=> q \in sees[p] \ InView(p)
      /\ \A q \in OnMap : q \in GainsSight(p) <=> q \in InView(p) \ sees[p]
  <2>1. LosesSight(p) \subseteq OnMap
    BY <1>0 DEF LosesSight, OnMap
  <2>2. GainsSight(p) \subseteq OnMap
    BY <1>0 DEF GainsSight
  <2>3. p \notin sees[p]
    BY <1>0 DEF SightInv
  <2>4. \A q \in OnMap : q \in LosesSight(p) <=> q \in sees[p] \ InView(p)
    BY <1>0, <1>1 DEF LosesSight
  <2>5. \A q \in OnMap : q \in GainsSight(p) <=> q \in InView(p) \ sees[p]
    BY <1>0, <1>1 DEF GainsSight
  <2> QED BY <1>0, <2>1, <2>2, <2>3, <2>4, <2>5
<1>3. /\ sees'[p] = InView(p)
      /\ \A r \in Player :
           drawn'[p][r] = IF r \in InView(p) \ sees[p] THEN place[r]
                          ELSE IF r \in sees[p] \ InView(p) THEN None ELSE drawn[p][r]
  <2>1. p \in Player
    BY <1>0
  <2>2. sees'[p] = InView(p)
    <3>1. sees'[p] = CASE p = p -> InView(p)
                       [] p \in LosesSight(p) -> sees[p] \ {p}
                       [] p \in GainsSight(p) -> sees[p] \cup {p}
                       [] OTHER -> sees[p]
      BY <2>1 DEF SyncVisiblePlayers
    <3> QED BY <1>2, <3>1
  <2>3. drawn'[p] = [r \in Player |->
          CASE r \in InView(p) \ sees[p] -> place[r]
            [] r \in sees[p] \ InView(p) -> None
            [] OTHER -> drawn[p][r]]
    BY <2>1 DEF SyncVisiblePlayers
  <2>4. \A r \in Player : ~(r \in InView(p) \ sees[p] /\ r \in sees[p] \ InView(p))
    OBVIOUS
  <2> QED BY <2>2, <2>3, <2>4
<1>4. ASSUME NEW q \in Player, q # p
      PROVE  /\ sees'[q] = IF q \in LosesSight(p) THEN sees[q] \ {p}
                           ELSE IF q \in GainsSight(p) THEN sees[q] \cup {p} ELSE sees[q]
             /\ drawn'[q] = IF q \in LosesSight(p) THEN [drawn[q] EXCEPT ![p] = None]
                            ELSE IF q \in GainsSight(p) THEN [drawn[q] EXCEPT ![p] = place[p]]
                            ELSE drawn[q]
  <2>1. ~(q \in LosesSight(p) /\ q \in GainsSight(p))
    BY <1>2
  <2>2. sees'[q] = IF q \in LosesSight(p) THEN sees[q] \ {p}
                   ELSE IF q \in GainsSight(p) THEN sees[q] \cup {p} ELSE sees[q]
    BY <1>4, <2>1 DEF SyncVisiblePlayers
  <2>3. drawn'[q] = IF q \in LosesSight(p) THEN [drawn[q] EXCEPT ![p] = None]
                    ELSE IF q \in GainsSight(p) THEN [drawn[q] EXCEPT ![p] = place[p]]
                    ELSE drawn[q]
    BY <1>4, <2>1 DEF SyncVisiblePlayers
  <2> QED BY <2>2, <2>3
<1>5. \A q \in OnMap \ {p} :
        /\ p \in sees'[q] <=> q \in InView(p)
        /\ drawn'[q][p] = IF q \in InView(p) \ sees[p] THEN place[p]
                          ELSE IF q \in sees[p] \ InView(p) THEN None ELSE drawn[q][p]
  <2> SUFFICES ASSUME NEW q \in OnMap, q # p
               PROVE  /\ p \in sees'[q] <=> q \in InView(p)
                      /\ drawn'[q][p] = IF q \in InView(p) \ sees[p] THEN place[p]
                                        ELSE IF q \in sees[p] \ InView(p) THEN None ELSE drawn[q][p]
    OBVIOUS
  <2>1. /\ q \in Player /\ p \in Player /\ drawn[q] \in [Player -> Tile \cup {None}]
        /\ q \in sees[p] <=> p \in sees[q]
    BY <1>0, <1>1
  <2>2. CASE q \in LosesSight(p)
    BY <1>2, <1>4, <2>1, <2>2
  <2>3. CASE q \in GainsSight(p)
    BY <1>2, <1>4, <2>1, <2>3
  <2>4. CASE q \notin LosesSight(p) /\ q \notin GainsSight(p)
    BY <1>2, <1>4, <2>1, <2>4
  <2> QED BY <2>2, <2>3, <2>4
<1>6. \A q \in Player \ {p}, r \in Player \ {p} :
        (r \in sees'[q] <=> r \in sees[q]) /\ drawn'[q][r] = drawn[q][r]
  BY <1>0, <1>4
<1>7. \A q \in Player \ OnMap : sees'[q] = sees[q] /\ drawn'[q] = drawn[q]
  BY <1>2, <1>4
<1> QED BY <1>3, <1>5, <1>6, <1>7 DEF Synced

(* A change of view that is dispatched.                                    *)
LEMMA SyncKeepsView ==
  ASSUME TypeOK, SightInv, ViewInv, SendViewChange
  PROVE  ViewInv'
<1> DEFINE e == Head(batch)
           p == e.who
<1>0. Dispatching("zone") /\ place' = place
  BY DEF SendViewChange, Dispatching
<1>1. /\ e \in Event /\ e.kind = "zone" /\ p \in Player
  BY <1>0, NewsDispatched, EventFields
<1>2. /\ e \notin {} /\ \A q : e \notin Leaves(q) /\ e \notin Moves(q) /\ e \notin Stale(q)
                               /\ e \notin Fresh(q)
      /\ \A q : q # p => e \notin ZoneNews(q)
  BY <1>1 DEF Leaves, Moves, Stale, Fresh, ZoneNews
<1>3. OnMap' = OnMap /\ \A q : Stale(q)' = Stale(q) /\ Fresh(q)' = Fresh(q)
  BY <1>0 DEF OnMap, Stale, Fresh, Moves
<1>4. (p \notin OnMap /\ sees' = sees /\ drawn' = drawn) \/ (p \in OnMap /\ Synced(p))
  BY SyncEffect DEF SendViewChange, screens
<1> HIDE DEF p
<1>5. UnbornInv'
  <2> SUFFICES ASSUME NEW q \in Player, place[q] = Unborn
               PROVE  sees'[q] = {} /\ ~Comes(News', Moves(q))
    BY <1>0 DEF UnbornInv, Moves
  <2>1. sees[q] = {} /\ ~Comes(News, Moves(q)) /\ q \notin OnMap
    BY PlaceTypes DEF ViewInv, UnbornInv, OnMap
  <2> QED BY <1>0, <1>4, <2>1, ComesDispatched DEF Synced
<1>6. DrawsWhomItSees'
  <2> SUFFICES ASSUME NEW a \in Player, NEW b \in Player
               PROVE  drawn'[a][b] # None <=> b \in sees'[a]
    BY DEF DrawsWhomItSees
  <2>0. drawn[a][b] # None <=> b \in sees[a]
    BY DEF ViewInv, DrawsWhomItSees
  <2>1. CASE p \notin OnMap
    BY <1>4, <2>0, <2>1
  <2>2. CASE p \in OnMap
    <3>0. /\ Synced(p) /\ \A q \in OnMap : place[q] # None
          /\ InView(p) \subseteq OnMap
      BY <1>4, <2>2, PlaceTypes DEF InView
    <3>1. CASE a = p
      BY <2>0, <3>0, <3>1 DEF Synced
    <3>2. CASE a # p /\ b # p
      BY <2>0, <3>0, <3>2 DEF Synced
    <3>3. CASE a # p /\ b = p /\ a \in OnMap
      <4>1. a \in sees[p] <=> p \in sees[a]
        BY <2>2, <3>3 DEF SightInv, SightIsMutual
      <4> QED BY <2>0, <2>2, <3>0, <3>3, <4>1 DEF Synced
    <3>4. CASE a \notin OnMap
      BY <2>0, <3>0, <3>4 DEF Synced
    <3> QED BY <3>1, <3>2, <3>3, <3>4
  <2> QED BY <2>1, <2>2
<1>7. SightDue'
  <2> SUFFICES ASSUME NEW a \in OnMap, NEW b \in OnMap, a # b
               PROVE  Due(News', b \in sees'[a] <=> Near(a, place[b]), {},
                          ZoneNews(a) \cup ZoneNews(b))
    BY <1>0, <1>3 DEF SightDue, ZoneNews, Near
  <2> DEFINE done == b \in sees[a] <=> Near(a, place[b])
             after == b \in sees'[a] <=> Near(a, place[b])
             cause == ZoneNews(a) \cup ZoneNews(b)
  <2>1. Due(News, done, {}, cause) /\ done \in BOOLEAN /\ after \in BOOLEAN
    BY DEF ViewInv, SightDue
  <2>2. after \/ (e \notin cause /\ after = done)
    <3>1. CASE p \notin OnMap
      BY <1>2, <1>4, <3>1
    <3>2. CASE p \in OnMap /\ p # a /\ p # b
      <4>1. b \in sees'[a] <=> b \in sees[a]
        BY <1>4, <3>2, PlaceTypes DEF Synced
      <4> QED BY <1>2, <3>2, <4>1
    <3>3. CASE p = a
      BY <1>4, <3>3, NearIsMutual DEF Synced, InView, Near
    <3>4. CASE p = b
      BY <1>4, <3>4 DEF Synced, InView, Near
    <3> QED BY <3>1, <3>2, <3>3, <3>4
  <2> HIDE DEF done, after, cause, e
  <2>3. /\ e \in cause => after
        /\ e \notin cause /\ e \notin {} /\ done => after
    BY <2>2
  <2>4. Due(News', after, {}, cause)
    BY <1>0, <2>1, <2>3, DueDispatched DEF e
  <2> QED BY <2>4 DEF after, cause
<1>8. LeaveDue'
  <2> SUFFICES ASSUME NEW a \in OnMap, NEW q \in Player, place[q] = Gone
               PROVE  Due(News', q \notin sees'[a], {}, Leaves(q))
    BY <1>0, <1>3 DEF LeaveDue, Leaves
  <2> DEFINE done == q \notin sees[a]
             after == q \notin sees'[a]
  <2>1. Due(News, done, {}, Leaves(q)) /\ done \in BOOLEAN /\ after \in BOOLEAN
    BY DEF ViewInv, LeaveDue
  <2>2. done => after
    <3>1. q \notin OnMap
      BY PlaceTypes DEF OnMap
    <3>2. CASE p = a
      BY <1>4, <3>1, <3>2 DEF Synced, InView
    <3>3. CASE p # a /\ p \in OnMap
      BY <1>1, <1>4, <3>1, <3>3, PlaceTypes DEF Synced
    <3>4. CASE p \notin OnMap
      BY <1>4, <3>4
    <3> QED BY <3>2, <3>3, <3>4
  <2> HIDE DEF done, after, e
  <2>3. Due(News', after, {}, Leaves(q))
    <3>1. /\ e \in Leaves(q) => after
          /\ e \notin Leaves(q) /\ e \notin {} /\ done => after
      BY <1>2, <2>2
    <3> QED BY <1>0, <2>1, <3>1, DueDispatched DEF e
  <2> QED BY <2>3 DEF after
<1>9. PlaceDue'
  <2> SUFFICES ASSUME NEW q \in OnMap
               PROVE  /\ Due(News', TRUE, Stale(q), Fresh(q))
                      /\ \A a \in OnMap : q \in sees'[a] =>
                           Due(News', drawn'[a][q] = place[q], Stale(q), Fresh(q))
    BY <1>0, <1>3 DEF PlaceDue
  <2> HIDE DEF e
  <2>1. Due(News, TRUE, Stale(q), Fresh(q))
    BY DEF ViewInv, PlaceDue
  <2>2. Due(News', TRUE, Stale(q), Fresh(q))
    BY <1>0, <1>2, <2>1, DueDispatched DEF e
  <2>3. ASSUME NEW a \in OnMap, q \in sees'[a]
        PROVE  Due(News', drawn'[a][q] = place[q], Stale(q), Fresh(q))
    <3> DEFINE done == drawn[a][q] = place[q]
               after == drawn'[a][q] = place[q]
    <3>1. CASE q \in sees[a] /\ drawn'[a][q] = drawn[a][q]
      <4>1. Due(News, done, Stale(q), Fresh(q)) /\ done \in BOOLEAN
        BY <3>1 DEF ViewInv, PlaceDue
      <4>2. after = done
        BY <3>1
      <4> HIDE DEF done, after
      <4>3. Due(News', done, Stale(q), Fresh(q))
        BY <1>0, <1>2, <4>1, DueDispatched DEF e
      <4> QED BY <4>2, <4>3 DEF after
    <3>2. CASE drawn'[a][q] = place[q]
      BY <2>2, <3>2 DEF Due
    <3>3. (q \in sees[a] /\ drawn'[a][q] = drawn[a][q]) \/ drawn'[a][q] = place[q]
      <4>1. CASE p \notin OnMap
        BY <1>4, <2>3, <4>1
      <4>2. CASE p \in OnMap /\ p = a
        <5>1. q \in Player /\ q \in InView(p)
          BY <1>4, <2>3, <4>2, PlaceTypes DEF Synced
        <5>2. drawn'[p][q] = IF q \in InView(p) \ sees[p] THEN place[q]
                             ELSE IF q \in sees[p] \ InView(p) THEN None ELSE drawn[p][q]
          BY <1>4, <4>2, <5>1 DEF Synced
        <5> QED BY <4>2, <5>1, <5>2
      <4>3. CASE p \in OnMap /\ p # a /\ p # q
        BY <1>4, <2>3, <4>3, PlaceTypes DEF Synced
      <4>4. CASE p \in OnMap /\ p # a /\ p = q
        <5>1. a \in sees[p] <=> p \in sees[a]
          BY <4>4 DEF SightInv, SightIsMutual
        <5> QED BY <1>4, <2>3, <4>4, <5>1 DEF Synced
      <4> QED BY <4>1, <4>2, <4>3, <4>4
    <3> QED BY <3>1, <3>2, <3>3
  <2> QED BY <2>2, <2>3
<1> QED BY <1>5, <1>6, <1>7, <1>8, <1>9 DEF ViewInv

(* A move that is dispatched.                                              *)
LEMMA MoveTold ==
  ASSUME TypeOK, SightInv, ViewInv, SendCharMove
  PROVE  ViewInv'
<1> DEFINE e == Head(batch)
           w == e.who
           viewers == IF w \in OnMap THEN sees[w] \cap OnMap ELSE {}
<1>0. Dispatching("move") /\ place' = place /\ sees' = sees
  BY DEF SendCharMove, Dispatching
<1>1. /\ e \in Event /\ e.kind = "move" /\ w \in Player /\ e.to \in Tile
  BY <1>0, NewsDispatched, EventFields
<1>2. /\ e \notin {} /\ \A q : e \notin Leaves(q) /\ e \notin ZoneNews(q)
      /\ \A q : q # w => e \notin Stale(q) /\ e \notin Fresh(q)
      /\ e \in Fresh(w) => e.to = place[w]
      /\ e \in Stale(w) \/ e \in Fresh(w)
  BY <1>1 DEF Leaves, Moves, Stale, Fresh, ZoneNews
<1>3. OnMap' = OnMap /\ \A q : Stale(q)' = Stale(q) /\ Fresh(q)' = Fresh(q)
  BY <1>0 DEF OnMap, Stale, Fresh, Moves
<1>4. \A q \in Player : drawn'[q] = IF q \in viewers /\ drawn[q][w] # None
                                      THEN [drawn[q] EXCEPT ![w] = e.to] ELSE drawn[q]
  BY DEF SendCharMove
<1>5. e.to # None
  BY <1>1, PlaceTypes
<1> HIDE DEF e, w, viewers
<1>6. ASSUME NEW a \in Player, NEW b \in Player
      PROVE  drawn'[a][b] = IF a \in viewers /\ drawn[a][w] # None /\ b = w
                              THEN e.to ELSE drawn[a][b]
  <2>1. drawn[a] \in [Player -> Tile \cup {None}]
    BY PlaceTypes
  <2> QED BY <1>4, <2>1
<1>7. DrawsWhomItSees'
  <2> SUFFICES ASSUME NEW a \in Player, NEW b \in Player
               PROVE  drawn'[a][b] # None <=> b \in sees[a]
    BY <1>0 DEF DrawsWhomItSees
  <2>1. drawn[a][b] # None <=> b \in sees[a]
    BY DEF ViewInv, DrawsWhomItSees
  <2> QED BY <1>5, <1>6, <2>1
<1>8. UnbornInv'
  <2> SUFFICES ASSUME NEW q \in Player, place[q] = Unborn
               PROVE  sees[q] = {} /\ ~Comes(News', Moves(q))
    BY <1>0 DEF UnbornInv, Moves
  <2> QED BY <1>0, ComesDispatched DEF ViewInv, UnbornInv
<1>9. SightDue'
  <2> SUFFICES ASSUME NEW a \in OnMap, NEW b \in OnMap, a # b
               PROVE  Due(News', b \in sees[a] <=> Near(a, place[b]), {},
                          ZoneNews(a) \cup ZoneNews(b))
    BY <1>0, <1>3 DEF SightDue, ZoneNews, Near
  <2> DEFINE done == b \in sees[a] <=> Near(a, place[b])
             cause == ZoneNews(a) \cup ZoneNews(b)
  <2>1. Due(News, done, {}, cause) /\ done \in BOOLEAN
    BY DEF ViewInv, SightDue
  <2>2. e \notin cause
    BY <1>2
  <2> HIDE DEF done, cause
  <2>3. Due(News', done, {}, cause)
    BY <1>0, <1>2, <2>1, <2>2, DueDispatched DEF e
  <2> QED BY <2>3 DEF done, cause
<1>10. LeaveDue'
  <2> SUFFICES ASSUME NEW a \in OnMap, NEW q \in Player, place[q] = Gone
               PROVE  Due(News', q \notin sees[a], {}, Leaves(q))
    BY <1>0, <1>3 DEF LeaveDue, Leaves
  <2> DEFINE done == q \notin sees[a]
  <2>1. Due(News, done, {}, Leaves(q)) /\ done \in BOOLEAN
    BY DEF ViewInv, LeaveDue
  <2> HIDE DEF done
  <2>2. Due(News', done, {}, Leaves(q))
    BY <1>0, <1>2, <2>1, DueDispatched DEF e
  <2> QED BY <2>2 DEF done
<1>11. PlaceDue'
  <2> SUFFICES ASSUME NEW q \in OnMap
               PROVE  /\ Due(News', TRUE, Stale(q), Fresh(q))
                      /\ \A a \in OnMap : q \in sees[a] =>
                           Due(News', drawn'[a][q] = place[q], Stale(q), Fresh(q))
    BY <1>0, <1>3 DEF PlaceDue
  <2>1. Due(News, TRUE, Stale(q), Fresh(q))
    BY DEF ViewInv, PlaceDue
  <2>2. Due(News', TRUE, Stale(q), Fresh(q))
    BY <1>0, <2>1, DueDispatched
  <2>3. ASSUME NEW a \in OnMap, q \in sees[a]
        PROVE  Due(News', drawn'[a][q] = place[q], Stale(q), Fresh(q))
    <3> DEFINE done == drawn[a][q] = place[q]
               after == drawn'[a][q] = place[q]
    <3>1. Due(News, done, Stale(q), Fresh(q)) /\ done \in BOOLEAN /\ after \in BOOLEAN
      BY <2>3 DEF ViewInv, PlaceDue
    <3>2. a \in Player /\ q \in Player
      BY PlaceTypes
    <3>3. e \in Fresh(q) => after
      <4> SUFFICES ASSUME e \in Fresh(q) PROVE after
        OBVIOUS
      <4>1. q = w /\ e.to = place[q]
        BY <1>2
      <4>2. a \in sees[q]
        BY <2>3 DEF SightInv, SightIsMutual
      <4>3. a \in viewers
        BY <4>1, <4>2 DEF viewers
      <4>4. drawn[a][q] # None
        BY <2>3, <3>2 DEF ViewInv, DrawsWhomItSees
      <4> QED BY <1>6, <3>2, <4>1, <4>3, <4>4
    <3>4. e \notin Fresh(q) /\ e \notin Stale(q) /\ done => after
      BY <1>2, <1>6, <3>2
    <3> HIDE DEF done, after
    <3>5. Due(News', after, Stale(q), Fresh(q))
      BY <1>0, <3>1, <3>3, <3>4, DueDispatched DEF e
    <3> QED BY <3>5 DEF after
  <2> QED BY <2>2, <2>3
<1> QED BY <1>7, <1>8, <1>9, <1>10, <1>11 DEF ViewInv

(* A leave that is dispatched.                                             *)
LEMMA LeaveTold ==
  ASSUME TypeOK, SightInv, ViewInv, SendCharRemove
  PROVE  ViewInv'
<1> DEFINE e == Head(batch)
           w == e.who
           viewers == {q \in OnMap : w \in sees[q]}
<1>0. Dispatching("leave") /\ place' = place
  BY DEF SendCharRemove, Dispatching
<1>1. /\ e \in Event /\ e.kind = "leave" /\ w \in Player /\ place[w] = Gone
  <2>1. /\ e \in Event /\ e.kind = "leave" /\ w \in Player
    BY <1>0, NewsDispatched, EventFields
  <2>2. batch \in Seq(Event) /\ batch # <<>>
    BY <1>0 DEF Dispatching, TypeOK
  <2>3. e = batch[1] /\ 1 \in 1..Len(batch)
    BY <2>2, TailAt
  <2> QED BY <2>1, <2>3 DEF SightInv, LeaversIn
<1>2. /\ e \notin {} /\ w \notin OnMap
      /\ \A q : e \notin Moves(q) /\ e \notin ZoneNews(q) /\ e \notin Stale(q) /\ e \notin Fresh(q)
      /\ \A q : q # w => e \notin Leaves(q)
  BY <1>1, PlaceTypes DEF Leaves, Moves, Stale, Fresh, ZoneNews, OnMap
<1>3. OnMap' = OnMap /\ \A q : Stale(q)' = Stale(q) /\ Fresh(q)' = Fresh(q)
  BY <1>0 DEF OnMap, Stale, Fresh, Moves
<1>4. \A q \in Player :
        /\ sees'[q] = IF q \in viewers THEN sees[q] \ {w} ELSE sees[q]
        /\ drawn'[q] = IF q \in viewers THEN [drawn[q] EXCEPT ![w] = None] ELSE drawn[q]
  BY DEF SendCharRemove, Forgotten, Erase
<1> HIDE DEF e, w
<1>5. ASSUME NEW a \in Player, NEW b \in Player
      PROVE  /\ b \in sees'[a] <=> b \in sees[a] /\ ~(a \in viewers /\ b = w)
             /\ drawn'[a][b] = IF a \in viewers /\ b = w THEN None ELSE drawn[a][b]
  <2>1. drawn[a] \in [Player -> Tile \cup {None}]
    BY PlaceTypes
  <2> HIDE DEF viewers
  <2>2. b \in sees'[a] <=> b \in sees[a] /\ ~(a \in viewers /\ b = w)
    BY <1>4
  <2>3. drawn'[a][b] = IF a \in viewers /\ b = w THEN None ELSE drawn[a][b]
    BY <1>4, <2>1
  <2> QED BY <2>2, <2>3
<1>6. DrawsWhomItSees'
  <2> SUFFICES ASSUME NEW a \in Player, NEW b \in Player
               PROVE  drawn'[a][b] # None <=> b \in sees'[a]
    BY DEF DrawsWhomItSees
  <2>1. drawn[a][b] # None <=> b \in sees[a]
    BY DEF ViewInv, DrawsWhomItSees
  <2> HIDE DEF viewers
  <2> QED BY <1>5, <2>1
<1>7. UnbornInv'
  <2> SUFFICES ASSUME NEW q \in Player, place[q] = Unborn
               PROVE  sees'[q] = {} /\ ~Comes(News', Moves(q))
    BY <1>0 DEF UnbornInv, Moves
  <2>1. sees[q] = {} /\ ~Comes(News, Moves(q))
    BY DEF ViewInv, UnbornInv
  <2> QED BY <1>0, <1>4, <2>1, ComesDispatched
<1>8. SightDue'
  <2> SUFFICES ASSUME NEW a \in OnMap, NEW b \in OnMap, a # b
               PROVE  Due(News', b \in sees'[a] <=> Near(a, place[b]), {},
                          ZoneNews(a) \cup ZoneNews(b))
    BY <1>0, <1>3 DEF SightDue, ZoneNews, Near
  <2> DEFINE done == b \in sees[a] <=> Near(a, place[b])
             cause == ZoneNews(a) \cup ZoneNews(b)
  <2>1. Due(News, done, {}, cause) /\ done \in BOOLEAN
    BY DEF ViewInv, SightDue
  <2>2. e \notin cause /\ (b \in sees'[a] <=> b \in sees[a])
    BY <1>2, <1>5, PlaceTypes
  <2>3. (b \in sees'[a] <=> Near(a, place[b])) = done
    BY <2>2
  <2> HIDE DEF done, cause
  <2>4. Due(News', done, {}, cause)
    BY <1>0, <1>2, <2>1, <2>2, DueDispatched DEF e
  <2> QED BY <2>3, <2>4 DEF cause
<1>9. LeaveDue'
  <2> SUFFICES ASSUME NEW a \in OnMap, NEW q \in Player, place[q] = Gone
               PROVE  Due(News', q \notin sees'[a], {}, Leaves(q))
    BY <1>0, <1>3 DEF LeaveDue, Leaves
  <2> DEFINE done == q \notin sees[a]
             after == q \notin sees'[a]
  <2>1. Due(News, done, {}, Leaves(q)) /\ done \in BOOLEAN /\ after \in BOOLEAN
    BY DEF ViewInv, LeaveDue
  <2>2. done => after
    BY <1>5, PlaceTypes
  <2>3. e \in Leaves(q) => after
    <3>1. e \in Leaves(q) => q = w
      BY <1>2
    <3>2. q = w /\ q \in sees[a] => a \in viewers
      OBVIOUS
    <3> HIDE DEF viewers
    <3> QED BY <1>5, <3>1, <3>2, PlaceTypes
  <2> HIDE DEF done, after
  <2>4. Due(News', after, {}, Leaves(q))
    BY <1>0, <1>2, <2>1, <2>2, <2>3, DueDispatched DEF e
  <2> QED BY <2>4 DEF after
<1>10. PlaceDue'
  <2> SUFFICES ASSUME NEW q \in OnMap
               PROVE  /\ Due(News', TRUE, Stale(q), Fresh(q))
                      /\ \A a \in OnMap : q \in sees'[a] =>
                           Due(News', drawn'[a][q] = place[q], Stale(q), Fresh(q))
    BY <1>0, <1>3 DEF PlaceDue
  <2>1. Due(News', TRUE, Stale(q), Fresh(q))
    BY <1>0, DueDispatched DEF ViewInv, PlaceDue
  <2>2. ASSUME NEW a \in OnMap, q \in sees'[a]
        PROVE  Due(News', drawn'[a][q] = place[q], Stale(q), Fresh(q))
    <3> DEFINE done == drawn[a][q] = place[q]
    <3>1. q \in sees[a] /\ drawn'[a][q] = drawn[a][q]
      BY <1>2, <1>5, <2>2, PlaceTypes
    <3>2. Due(News, done, Stale(q), Fresh(q)) /\ done \in BOOLEAN
      BY <3>1 DEF ViewInv, PlaceDue
    <3> HIDE DEF done
    <3>3. Due(News', done, Stale(q), Fresh(q))
      BY <1>0, <1>2, <3>2, DueDispatched DEF e
    <3> QED BY <3>1, <3>3 DEF done
  <2> QED BY <2>1, <2>2
<1> QED BY <1>6, <1>7, <1>8, <1>9, <1>10 DEF ViewInv

(* Every step keeps the view.                                              *)
LEMMA ViewNext ==
  TypeOK /\ BatchDone /\ SightInv /\ ViewInv /\ [Next]_vars => ViewInv'
<1> SUFFICES ASSUME TypeOK, BatchDone, SightInv, ViewInv, [Next]_vars PROVE ViewInv'
  OBVIOUS
<1>1. CASE \E p \in Player : SpawnPlayer(p) \/ DespawnPlayer(p) \/ Move(p)
  BY <1>1, SpawnKeepsView, DespawnKeepsView, MoveKeepsView
<1>2. CASE \E d \in Drop : SpawnDrop(d) \/ ClaimDrop(d) \/ PutDropBack(d) \/ Expire(d)
  BY <1>2, ItemsSayNothing, NothingKeepsView
<1>3. CASE SendViewChange \/ SendCharMove \/ SendCharRemove
  BY <1>3, SyncKeepsView, MoveTold, LeaveTold
<1>4. CASE SendCharacterDataLoad \/ SendCreatureMove \/ SendCreatureRespawn \/ IgnoreAttackRequest
           \/ SendMonsterKilled \/ SendPlayerAttackResult \/ SendItemMapNew \/ SendItemMapRemove
  <2>1. /\ UNCHANGED <<place, sees, drawn>>
        /\ \E kind \in {"join", "mob move", "respawn", "attack requested", "killed",
                        "attack resolved", "drop add", "drop remove"} : Dispatching(kind)
    BY <1>4 DEF SendCharacterDataLoad, SendCreatureMove, SendCreatureRespawn,
      IgnoreAttackRequest, SendMonsterKilled, SendPlayerAttackResult, SendItemMapNew,
      SendItemMapRemove, Dispatching, screens
  <2>2. SaysNothing
    BY <2>1, DispatchesNothing
  <2> QED BY <2>1, <2>2, NothingKeepsView
<1>5. CASE ~ \/ \E p \in Player : SpawnPlayer(p) \/ DespawnPlayer(p) \/ Move(p)
             \/ \E d \in Drop : SpawnDrop(d) \/ ClaimDrop(d) \/ PutDropBack(d) \/ Expire(d)
             \/ Dispatch
  <2>1. Tells(MobKinds) /\ UNCHANGED <<place, sees, drawn>>
    BY <1>5, OtherSteps DEF Shown
  <2>2. MobKinds \cap {"zone", "leave", "move"} = {}
    BY DEF MobKinds
  <2>3. SaysNothing
    BY <2>1, <2>2, TellsNothing
  <2> QED BY <2>1, <2>3, NothingKeepsView
<1> QED BY <1>1, <1>2, <1>3, <1>4, <1>5 DEF Dispatch

\* What is drawn of characters, with what its steps rely on.
ScreenInv == BatchDone /\ SightInv /\ ViewInv

(* Nothing is seen, drawn or queued at the start.                          *)
LEMMA ScreenInit == Init => ScreenInv
<1> SUFFICES ASSUME Init PROVE ScreenInv
  OBVIOUS
<1>1. OnMap = {} /\ \A p \in Player : sees[p] = {} /\ place[p] = Unborn
  BY DEF Init, OnMap, Tile
<1>2. Len(log) = 0 /\ Len(batch) = 0 /\ Len(News) = 0
  <2>1. log = <<>> /\ batch = <<>> /\ News = <<>>
    BY EmptySeq, ConcatEmptySeq DEF Init, News
  <2> QED BY <2>1, EmptySeq
<1>3. BatchDone
  BY DEF Init, BatchDone
<1>4. SightInv
  <2>1. SightIsMutual
    BY <1>1 DEF SightIsMutual
  <2>2. LeaversIn(log) /\ LeaversIn(batch)
    BY <1>2 DEF LeaversIn
  <2> QED BY <1>1, <2>1, <2>2 DEF SightInv
<1>5. DrawsWhomItSees /\ UnbornInv
  BY <1>1, <1>2 DEF Init, DrawsWhomItSees, UnbornInv, Comes
<1>6. SightDue /\ LeaveDue /\ PlaceDue
  BY <1>1 DEF SightDue, LeaveDue, PlaceDue
<1> QED BY <1>3, <1>4, <1>5, <1>6 DEF ScreenInv, ViewInv

(* Once every event of a tick is dispatched each client draws exactly the  *)
(* characters in its 3x3 zones, each where it stands, whatever joins,      *)
(* leaves, moves and changes of zone met before.                           *)
THEOREM ClientsDrawWhoIsNearCorrect == Spec => []ClientsDrawWhoIsNear
<1>1. TypeOK /\ ScreenInv /\ [Next]_vars => ScreenInv'
  BY BatchNext, SightNext, ViewNext DEF ScreenInv
<1>2. TypeOK /\ ScreenInv => ClientsDrawWhoIsNear
  <2> SUFFICES ASSUME TypeOK, ScreenInv, Quiet, NEW p \in OnMap, NEW q \in Player
               PROVE  drawn[p][q] = IF q \in InView(p) THEN place[q] ELSE None
    BY DEF ClientsDrawWhoIsNear
  <2>0. ViewInv /\ SightInv /\ p \in Player
    BY PlaceTypes DEF ScreenInv
  <2>1. Len(News) = 0
    <3>1. News = <<>>
      BY EmptySeq, ConcatEmptySeq DEF Quiet, News
    <3> QED BY <3>1, EmptySeq
  <2>2. \A done, undo, cause : Due(News, done, undo, cause) => done
    BY <2>1 DEF Due, Comes
  <2>3. drawn[p][q] # None <=> q \in sees[p]
    BY <2>0 DEF ViewInv, DrawsWhomItSees
  <2>4. CASE q \in OnMap /\ q # p
    <3>1. q \in sees[p] <=> Near(p, place[q])
      BY <2>0, <2>2, <2>4 DEF ViewInv, SightDue
    <3>2. q \in sees[p] <=> q \in InView(p)
      BY <2>4, <3>1, NearIsMutual DEF InView, Near
    <3>3. q \in sees[p] => drawn[p][q] = place[q]
      BY <2>0, <2>2, <2>4 DEF ViewInv, PlaceDue
    <3> QED BY <2>3, <3>2, <3>3
  <2>5. CASE q \notin OnMap \/ q = p
    <3>1. q \notin sees[p]
      <4>1. CASE q = p
        BY <2>0, <4>1 DEF SightInv
      <4>2. CASE place[q] = Gone
        BY <2>0, <2>2, <4>2 DEF ViewInv, LeaveDue
      <4>3. CASE place[q] = Unborn
        BY <2>0, <4>3 DEF SightInv
      <4> QED BY <2>5, <4>1, <4>2, <4>3, PlaceTypes DEF OnMap
    <3>2. q \notin InView(p)
      BY <2>5 DEF InView
    <3> QED BY <2>3, <3>1, <3>2
  <2> QED BY <2>4, <2>5
<1> QED BY <1>1, <1>2, ScreenInit, TypeInvariant, PTL DEF Spec

-----------------------------------------------------------------------------
(* Monsters                                                                *)

\* A monster leaves its zone only by dying and coming back to life elsewhere.
StaysInZone ==
  [][\A m \in Monster : mob[m].hp > 0 /\ mob'[m].hp > 0 =>
       ZoneOf(mob'[m].at) = ZoneOf(mob[m].at)]_vars

Alive(m) == mob[m].hp > 0
Beside(p, m) == Near(p, mob[m].at)

\* A client draws a monster exactly if it lives and is in view.
DrawnRight(p, m) == m \in drawnMobs[p] <=> Alive(m) /\ Beside(p, m)

Enters(p, m) == {e \in ZoneNews(p) : Appears(e.from, e.to, mob[m].at)}
Vanishes(p, m) == {e \in ZoneNews(p) : Disappears(e.from, e.to, mob[m].at)}
Respawns(m) == {e \in Event : e.kind = "respawn" /\ e.mob = m}
Kills(m) == {e \in Event : e.kind = "attack resolved" /\ e.mob = m /\ e.hp = 0}

\* The events that would put a screen wrong about a monster, and that put it right.
Spoils(p, m) ==
  IF ~Alive(m) THEN {} ELSE IF Beside(p, m) THEN Vanishes(p, m) ELSE Enters(p, m)

Mends(p, m) ==
  CASE Alive(m) /\ Beside(p, m)  -> Enters(p, m) \cup Respawns(m)
    [] Alive(m) /\ ~Beside(p, m) -> Vanishes(p, m)
    [] ~Alive(m) /\ Beside(p, m) -> Vanishes(p, m) \cup Kills(m)
    [] OTHER                     -> Vanishes(p, m)

MobsDue ==
  \A p \in OnMap, m \in Monster : Due(News, DrawnRight(p, m), Spoils(p, m), Mends(p, m))

\* Moves of monsters across zones, and kills of a monster that lives or lies elsewhere.
Strays == {e \in Event : e.kind = "mob move" /\ ZoneOf(e.from) # ZoneOf(e.to)}
Untrue == {e \in Event : /\ e.kind = "attack resolved" /\ e.hp = 0
                         /\ Alive(e.mob) \/ mob[e.mob].at # e.at}

\* What requests say, which is dispatched before the monsters act.
Requested == {e \in Event : e.kind \in {"zone", "attack resolved"}}

\* No move queued is across zones, every kill is of a monster that lies there dead,
\* and nothing requested is left once the monsters act.
NewsOfMobs ==
  /\ ~Comes(News, Strays) /\ ~Comes(News, Untrue)
  /\ phase = "events" => log = <<>>
  /\ phase = "simulate" => ~Comes(News, Requested)

\* Who has not joined draws no monster, and hears of no zone.
UnbornBlind ==
  \A p \in Player : place[p] = Unborn => drawnMobs[p] = {} /\ ~Comes(News, ZoneNews(p))

MobsInv == MobsDue /\ NewsOfMobs /\ UnbornBlind

(* What does not come of a set of events does not come of a smaller one.   *)
LEMMA ComesFewer ==
  ASSUME NEW n, NEW S, NEW T, \A i \in 1..Len(n) : n[i] \in T => n[i] \in S, ~Comes(n, S)
  PROVE  ~Comes(n, T)
BY DEF Comes

(* What is done and nothing queued undoes is due.                          *)
LEMMA DueDone ==
  ASSUME NEW n, NEW undo, NEW cause, ~Comes(n, undo)
  PROVE  Due(n, TRUE, undo, cause)
BY DEF Comes, Due

(* What was due is, whoever else could cause it and whoever undoes less.   *)
LEMMA DueWeaker ==
  ASSUME NEW n, NEW done, NEW undo, NEW less, NEW cause, NEW more,
         less \subseteq undo, cause \subseteq more, Due(n, done, undo, cause)
  PROVE  Due(n, done, less, more)
BY DEF Comes, Due

(* What was due and by no event is done.                                   *)
LEMMA DoneNow ==
  ASSUME NEW n, NEW done \in BOOLEAN, NEW undo, NEW cause,
         Due(n, done, undo, cause), ~Comes(n, cause)
  PROVE  done
BY DEF Comes, Due

(* What a screen owes a monster depends on whether it lives and on the     *)
(* zones of both.                                                          *)
LEMMA MobKept ==
  ASSUME NEW p, NEW m, Alive(m)' <=> Alive(m), ZoneOf(mob'[m].at) = ZoneOf(mob[m].at),
         place'[p] = place[p]
  PROVE  /\ Beside(p, m)' <=> Beside(p, m)
         /\ Enters(p, m)' = Enters(p, m) /\ Vanishes(p, m)' = Vanishes(p, m)
         /\ Spoils(p, m)' = Spoils(p, m) /\ Mends(p, m)' = Mends(p, m)
         /\ (m \in drawnMobs'[p] <=> m \in drawnMobs[p]) => (DrawnRight(p, m)' <=> DrawnRight(p, m))
<1>1. Beside(p, m)' <=> Beside(p, m)
  BY DEF Beside, Near
<1>2. \A from, to : /\ Appears(from, to, mob[m].at)' <=> Appears(from, to, mob[m].at)
                    /\ Disappears(from, to, mob[m].at)' <=> Disappears(from, to, mob[m].at)
  BY DEF Appears, Disappears
<1>3. Enters(p, m)' = Enters(p, m) /\ Vanishes(p, m)' = Vanishes(p, m)
  BY <1>2 DEF Enters, Vanishes, ZoneNews
<1>4. Respawns(m)' = Respawns(m) /\ Kills(m)' = Kills(m)
  BY DEF Respawns, Kills
<1> QED BY <1>1, <1>3, <1>4 DEF Spoils, Mends, DrawnRight

(* What a step says between dispatches leaves the news of monsters true.   *)
LEMMA NewsOfMobsSaid ==
  ASSUME TypeOK, NewsOfMobs, NEW events, Says(events), events \cap Strays = {},
         events \cap Untrue' = {}, Untrue' \subseteq Untrue, phase' = phase, phase # "events",
         phase = "simulate" => events \cap Requested = {}
  PROVE  NewsOfMobs'
<1>1. Strays' = Strays /\ Requested' = Requested
  BY DEF Strays, Requested
<1>2. ~Comes(News', Strays)
  BY ComesSaid DEF NewsOfMobs
<1>3. ~Comes(News, Untrue')
  BY ComesFewer DEF NewsOfMobs
<1>4. ~Comes(News', Untrue')
  BY <1>3, ComesSaid
<1>5. phase = "simulate" => ~Comes(News', Requested)
  BY ComesSaid DEF NewsOfMobs
<1> QED BY <1>1, <1>2, <1>4, <1>5 DEF NewsOfMobs

(* What is due after a step that says nothing of p's zones and leaves p    *)
(* and m where they are, alive or not.                                     *)
LEMMA MobDueKept ==
  ASSUME TypeOK, MobsDue, NEW p \in OnMap, NEW m \in Monster,
         Alive(m)' <=> Alive(m), ZoneOf(mob'[m].at) = ZoneOf(mob[m].at),
         place'[p] = place[p], m \in drawnMobs'[p] <=> m \in drawnMobs[p],
         NEW events, Says(events), events \cap ZoneNews(p) = {}
  PROVE  Due(News', DrawnRight(p, m)', Spoils(p, m)', Mends(p, m)')
<1> DEFINE done == DrawnRight(p, m)
           after == DrawnRight(p, m)'
<1>1. /\ Spoils(p, m)' = Spoils(p, m) /\ Mends(p, m)' = Mends(p, m)
      /\ after <=> done
  BY MobKept
<1>2. Due(News, done, Spoils(p, m), Mends(p, m)) /\ done \in BOOLEAN /\ after \in BOOLEAN
  BY DEF MobsDue, DrawnRight
<1>3. events \cap Spoils(p, m) = {}
  BY DEF Spoils, Vanishes, Enters
<1> HIDE DEF done, after
<1>4. Due(News', after, Spoils(p, m), Mends(p, m))
  BY <1>1, <1>2, <1>3, DueSaid
<1> QED BY <1>1, <1>4 DEF after

(* A change of zone of p is what mends the screen when m comes into view   *)
(* or goes out of it, and spoils nothing.                                  *)
LEMMA MobDueZone ==
  ASSUME TypeOK, MobsDue, NEW p \in OnMap, NEW m \in Monster,
         mob' = mob, drawnMobs' = drawnMobs, place'[p] \in Tile,
         NEW e, NEW events, Says(events \cup {e}), events \cap ZoneNews(p) = {},
         IF ZoneOf(place'[p]) = ZoneOf(place[p]) THEN e \notin ZoneNews(p)
         ELSE e = ZoneEvent(p, ZoneOf(place[p]), ZoneOf(place'[p]))
  PROVE  Due(News', DrawnRight(p, m)', Spoils(p, m)', Mends(p, m)')
<1> DEFINE done == DrawnRight(p, m)
           after == DrawnRight(p, m)'
           all == events \cup {e}
<1>0. /\ ZoneOf(place[p]) \in Zone /\ ZoneOf(place'[p]) \in Zone /\ p \in Player
      /\ ZoneOf(place[p]) # None /\ mob[m].at \in Tile
  BY ZoneType DEF OnMap, TypeOK, Mob, Zone
<1>1. Enters(p, m)' = Enters(p, m) /\ Vanishes(p, m)' = Vanishes(p, m) /\ (Alive(m)' <=> Alive(m))
      /\ Respawns(m)' = Respawns(m) /\ Kills(m)' = Kills(m)
  BY DEF Enters, Vanishes, ZoneNews, Alive, Respawns, Kills, Appears, Disappears
<1>2. Due(News, done, Spoils(p, m), Mends(p, m)) /\ done \in BOOLEAN /\ after \in BOOLEAN
  BY DEF MobsDue, DrawnRight
<1>3. CASE Beside(p, m)' <=> Beside(p, m)
  <2>1. after <=> done
    BY <1>1, <1>3 DEF DrawnRight
  <2>2. Spoils(p, m)' = Spoils(p, m) /\ Mends(p, m)' = Mends(p, m)
    BY <1>1, <1>3 DEF Spoils, Mends
  <2>3. e \notin Spoils(p, m)
    <3>1. CASE e \notin ZoneNews(p)
      BY <3>1 DEF Spoils, Vanishes, Enters
    <3>2. CASE e = ZoneEvent(p, ZoneOf(place[p]), ZoneOf(place'[p]))
      BY <1>0, <1>3, <3>2 DEF Spoils, Vanishes, Enters, ZoneEvent, Appears, Disappears, Beside, Near
    <3> QED BY <3>1, <3>2
  <2>4. all \cap Spoils(p, m) = {}
    BY <2>3 DEF Spoils, Vanishes, Enters
  <2> HIDE DEF done, after
  <2>5. Due(News', after, Spoils(p, m), Mends(p, m))
    <3> HIDE DEF all
    <3>1. Says(all)
      BY DEF all
    <3> QED BY <1>2, <2>1, <2>4, <3>1, DueSaid
  <2> QED BY <2>2, <2>5 DEF after
<1>4. CASE ~(Beside(p, m)' <=> Beside(p, m))
  <2>1. /\ ZoneOf(place'[p]) # ZoneOf(place[p])
        /\ e = ZoneEvent(p, ZoneOf(place[p]), ZoneOf(place'[p]))
    BY <1>4 DEF Beside, Near
  <2>2. e \in ZoneNews(p) /\ e.from = ZoneOf(place[p]) /\ e.to = ZoneOf(place'[p])
    BY <1>0, <2>1 DEF ZoneNews, Event, ZoneEvent
  <2>3. CASE Beside(p, m)'
    <3>1. ~Beside(p, m)
      BY <1>4, <2>3
    <3>2. e \in Enters(p, m) /\ e \notin Vanishes(p, m)
      BY <2>2, <2>3, <3>1 DEF Enters, Vanishes, Appears, Disappears, Beside, Near
    <3>3. CASE Alive(m)
      <4>1. Spoils(p, m)' = Vanishes(p, m) /\ Mends(p, m)' = Enters(p, m) \cup Respawns(m)
        BY <1>1, <2>3, <3>3 DEF Spoils, Mends
      <4>2. all \cap Spoils(p, m)' = {} /\ all \cap Mends(p, m)' # {}
        BY <3>2, <4>1 DEF Vanishes
      <4> HIDE DEF after, done, all
      <4>3. Says(all)
        BY DEF all
      <4>4. PICK undo, cause : undo = Spoils(p, m)' /\ cause = Mends(p, m)'
        OBVIOUS
      <4>5. Due(News', after, undo, cause)
        BY <1>2, <4>2, <4>3, <4>4, DueSaid
      <4> QED BY <4>4, <4>5 DEF after
    <3>4. CASE ~Alive(m)
      <4>1. Spoils(p, m)' = {} /\ Spoils(p, m) = {} /\ Mends(p, m) \subseteq Mends(p, m)'
        BY <1>1, <2>3, <3>1, <3>4 DEF Spoils, Mends
      <4>2. after <=> done
        BY <1>1, <3>4 DEF DrawnRight
      <4> HIDE DEF after, done, all
      <4>3. Says(all)
        BY DEF all
      <4>4. PICK cause, more : cause = Mends(p, m) /\ more = Mends(p, m)'
        OBVIOUS
      <4>5. Due(News', after, {}, cause)
        BY <1>2, <4>1, <4>2, <4>3, <4>4, DueSaid
      <4>6. Due(News', after, {}, more)
        BY <4>1, <4>4, <4>5, DueWeaker
      <4> QED BY <4>1, <4>4, <4>6 DEF after
    <3> QED BY <3>3, <3>4
  <2>4. CASE ~Beside(p, m)'
    <3>1. Beside(p, m)
      BY <1>4, <2>4
    <3>2. e \in Vanishes(p, m) /\ e \notin Enters(p, m)
      BY <1>0, <2>2, <2>4, <3>1 DEF Enters, Vanishes, Appears, Disappears, Beside, Near
    <3>3. Mends(p, m)' = Vanishes(p, m) /\ Spoils(p, m)' \subseteq Enters(p, m)
      BY <1>1, <2>4 DEF Spoils, Mends
    <3>4. all \cap Spoils(p, m)' = {} /\ all \cap Mends(p, m)' # {}
      BY <3>2, <3>3 DEF Enters
    <3> HIDE DEF after, done, all
    <3>5. Says(all)
      BY DEF all
    <3>6. PICK undo, cause : undo = Spoils(p, m)' /\ cause = Mends(p, m)'
      OBVIOUS
    <3>7. Due(News', after, undo, cause)
      BY <1>2, <3>4, <3>5, <3>6, DueSaid
    <3> QED BY <3>6, <3>7 DEF after
  <2> QED BY <2>3, <2>4
<1> QED BY <1>3, <1>4

(* Joins, leaves and moves tell nothing of monsters.                       *)
LEMMA PlayersTellNoMobs ==
  ASSUME NEW p, NEW from, NEW to
  PROVE  {JoinEvent(p), LeaveEvent(p), ZoneEvent(p, from, to), MoveEvent(p, to)}
           \cap (Strays \cup Untrue) = {}
<1>1. /\ JoinEvent(p).kind = "join" /\ LeaveEvent(p).kind = "leave"
      /\ ZoneEvent(p, from, to).kind = "zone" /\ MoveEvent(p, to).kind = "move"
  BY DEF JoinEvent, LeaveEvent, ZoneEvent, MoveEvent
<1>2. \A e \in Strays \cup Untrue : e.kind \in {"mob move", "attack resolved"}
  BY DEF Strays, Untrue
<1> QED BY <1>1, <1>2

(* Of zones they tell only their player.                                   *)
LEMMA PlayersTellOwnZone ==
  ASSUME NEW p, NEW q, NEW from, NEW to
  PROVE  /\ {JoinEvent(p), LeaveEvent(p), MoveEvent(p, to)} \cap ZoneNews(q) = {}
         /\ p # q => ZoneEvent(p, from, to) \notin ZoneNews(q)
BY DEF JoinEvent, LeaveEvent, ZoneEvent, MoveEvent, ZoneNews

\* What a request of a player leaves alone of the monsters.
MobsAlone == UNCHANGED <<mob, drawnMobs, phase>> /\ phase = "requests"

(* Such a request leaves the news of monsters true.                        *)
LEMMA PlayersKeepNews ==
  ASSUME TypeOK, NewsOfMobs, MobsAlone, NEW events, Says(events),
         events \cap (Strays \cup Untrue) = {}
  PROVE  NewsOfMobs'
<1>1. Untrue' = Untrue
  BY DEF MobsAlone, Untrue, Alive
<1> QED BY <1>1, NewsOfMobsSaid DEF MobsAlone

(* A join.                                                                 *)
LEMMA SpawnKeepsMobs ==
  ASSUME TypeOK, MobsInv, NEW r \in Player, SpawnPlayer(r)
  PROVE  MobsInv'
<1>1. PICK tile \in Tile :
        /\ place' = [place EXCEPT ![r] = tile] /\ ZoneOf(tile) \in Zone
        /\ Says({JoinEvent(r), ZoneEvent(r, None, ZoneOf(tile))})
  BY SpawnSays
<1> DEFINE zone == ZoneEvent(r, None, ZoneOf(tile))
           events == {JoinEvent(r), zone}
<1>2. /\ place[r] = Unborn /\ MobsAlone /\ mob' = mob /\ drawnMobs' = drawnMobs
      /\ drawnMobs[r] = {} /\ ~Comes(News, ZoneNews(r))
  <2>1. place[r] = Unborn /\ MobsAlone /\ mob' = mob /\ drawnMobs' = drawnMobs
    BY DEF SpawnPlayer, Handling, screens, MobsAlone
  <2> QED BY <2>1 DEF MobsInv, UnbornBlind
<1>3. /\ place'[r] = tile /\ OnMap' = OnMap \cup {r}
      /\ \A q \in Player \ {r} : place'[q] = place[q]
  BY <1>1, <1>2, PlaceTypes DEF OnMap
<1>4. /\ Says(events) /\ events \cap (Strays \cup Untrue) = {}
      /\ \A q : q # r => events \cap ZoneNews(q) = {}
  BY <1>1, PlayersTellNoMobs, PlayersTellOwnZone
<1>5. /\ zone \in ZoneNews(r) /\ zone.from = None /\ zone.to = ZoneOf(tile)
      /\ JoinEvent(r) \notin ZoneNews(r)
  BY <1>1 DEF ZoneNews, Event, ZoneEvent, JoinEvent
<1> HIDE DEF zone, events
<1>6. NewsOfMobs'
  BY <1>2, <1>4, PlayersKeepNews DEF MobsInv
<1>7. UnbornBlind'
  <2> SUFFICES ASSUME NEW q \in Player, place'[q] = Unborn
               PROVE  drawnMobs'[q] = {} /\ ~Comes(News', ZoneNews(q))
    BY DEF UnbornBlind, ZoneNews
  <2>1. q # r
    BY <1>3, PlaceTypes
  <2>2. drawnMobs[q] = {} /\ ~Comes(News, ZoneNews(q))
    BY <1>3, <2>1 DEF MobsInv, UnbornBlind
  <2> QED BY <1>2, <1>4, <2>1, <2>2, ComesSaid
<1>8. MobsDue'
  <2> SUFFICES ASSUME NEW p \in OnMap', NEW m \in Monster
               PROVE  Due(News', DrawnRight(p, m)', Spoils(p, m)', Mends(p, m)')
    BY DEF MobsDue
  <2>1. CASE p # r
    <3>1. p \in OnMap /\ place'[p] = place[p]
      BY <1>3, <2>1, PlaceTypes
    <3>2. Alive(m)' <=> Alive(m)
      BY <1>2 DEF Alive
    <3> QED BY <1>2, <1>4, <2>1, <3>1, <3>2, MobDueKept DEF MobsInv
  <2>2. CASE p = r
    <3>1. CASE Alive(m) /\ Beside(p, m)'
      <4>1. zone \in Enters(p, m)' /\ zone \notin Vanishes(p, m)'
        BY <1>2, <1>3, <1>5, <2>2, <3>1
        DEF Enters, Vanishes, Appears, Disappears, Beside, Near, ZoneNews
      <4>2. JoinEvent(r) \notin Vanishes(p, m)'
        BY <1>5, <2>2 DEF Vanishes, ZoneNews
      <4>3. Spoils(p, m)' = Vanishes(p, m)' /\ Mends(p, m)' = Enters(p, m)' \cup Respawns(m)'
        BY <1>2, <3>1 DEF Spoils, Mends, Alive
      <4>4. events \cap Spoils(p, m)' = {} /\ events \cap Mends(p, m)' # {}
        BY <4>1, <4>2, <4>3 DEF events
      <4>5. PICK after, undo, cause : /\ after = DrawnRight(p, m)' /\ undo = Spoils(p, m)'
                                      /\ cause = Mends(p, m)'
        OBVIOUS
      <4>6. after \in BOOLEAN
        BY <4>5 DEF DrawnRight
      <4>7. Due(News', after, undo, cause)
        BY <1>4, <4>4, <4>5, <4>6, DueSaid
      <4> QED BY <4>5, <4>7
    <3>2. CASE ~(Alive(m) /\ Beside(p, m)')
      <4>1. DrawnRight(p, m)' = TRUE
        BY <1>2, <2>2, <3>2 DEF DrawnRight, Alive
      <4>2. Spoils(p, m)' \subseteq Enters(p, m)' /\ Enters(p, m)' \subseteq ZoneNews(r)
        BY <1>2, <2>2, <3>2 DEF Spoils, Alive, Enters, ZoneNews
      <4>3. Alive(m) => zone \notin Enters(p, m)'
        BY <1>3, <1>5, <2>2, <3>2 DEF Enters, Appears, Beside, Near
      <4>4. events \cap Spoils(p, m)' = {}
        <5>1. ~Alive(m) => Spoils(p, m)' = {}
          BY <1>2 DEF Spoils, Alive
        <5> QED BY <1>5, <4>2, <4>3, <5>1 DEF events
      <4>5. ~Comes(News, Spoils(p, m)')
        BY <1>2, <4>2 DEF Comes
      <4>6. ~Comes(News', Spoils(p, m)')
        BY <1>4, <4>4, <4>5, ComesSaid
      <4>7. PICK after, undo, cause : /\ after = DrawnRight(p, m)' /\ undo = Spoils(p, m)'
                                      /\ cause = Mends(p, m)'
        OBVIOUS
      <4>8. after = TRUE /\ ~Comes(News', undo)
        BY <4>1, <4>6, <4>7
      <4>9. Due(News', after, undo, cause)
        BY <4>8, DueDone
      <4> QED BY <4>7, <4>9
    <3> QED BY <3>1, <3>2
  <2> QED BY <2>1, <2>2
<1> QED BY <1>6, <1>7, <1>8 DEF MobsInv

(* A leave.                                                                *)
LEMMA DespawnKeepsMobs ==
  ASSUME TypeOK, MobsInv, NEW r \in Player, DespawnPlayer(r)
  PROVE  MobsInv'
<1>1. /\ place' = [place EXCEPT ![r] = Gone] /\ MobsAlone /\ mob' = mob /\ drawnMobs' = drawnMobs
  BY DEF DespawnPlayer, Handling, screens, MobsAlone
<1>2. /\ OnMap' = OnMap \ {r} /\ place'[r] = Gone
      /\ \A q \in Player \ {r} : place'[q] = place[q]
  BY <1>1, PlaceTypes DEF OnMap
<1> DEFINE events == {LeaveEvent(r)}
<1>3. /\ Says(events) /\ events \cap (Strays \cup Untrue) = {}
      /\ \A q : events \cap ZoneNews(q) = {}
  BY DespawnSays, PlayersTellNoMobs, PlayersTellOwnZone
<1> HIDE DEF events
<1>4. NewsOfMobs'
  BY <1>1, <1>3, PlayersKeepNews DEF MobsInv
<1>5. UnbornBlind'
  <2> SUFFICES ASSUME NEW q \in Player, place'[q] = Unborn
               PROVE  drawnMobs'[q] = {} /\ ~Comes(News', ZoneNews(q))
    BY DEF UnbornBlind, ZoneNews
  <2>1. drawnMobs[q] = {} /\ ~Comes(News, ZoneNews(q))
    BY <1>2, PlaceTypes DEF MobsInv, UnbornBlind
  <2> QED BY <1>1, <1>3, <2>1, ComesSaid
<1>6. MobsDue'
  <2> SUFFICES ASSUME NEW p \in OnMap', NEW m \in Monster
               PROVE  Due(News', DrawnRight(p, m)', Spoils(p, m)', Mends(p, m)')
    BY DEF MobsDue
  <2>1. p \in OnMap /\ place'[p] = place[p]
    BY <1>2, PlaceTypes
  <2>2. Alive(m)' <=> Alive(m)
    BY <1>1 DEF Alive
  <2> QED BY <1>1, <1>3, <2>1, <2>2, MobDueKept DEF MobsInv
<1> QED BY <1>4, <1>5, <1>6 DEF MobsInv

(* A move.                                                                 *)
LEMMA MoveKeepsMobs ==
  ASSUME TypeOK, MobsInv, NEW r \in Player, Move(r)
  PROVE  MobsInv'
<1>1. PICK tile \in Tile :
        /\ place' = [place EXCEPT ![r] = tile]
        /\ place[r] \in Tile /\ ZoneOf(place[r]) \in Zone /\ ZoneOf(tile) \in Zone
        /\ IF ZoneOf(place[r]) = ZoneOf(tile)
             THEN Says({MoveEvent(r, tile)})
             ELSE Says({ZoneEvent(r, ZoneOf(place[r]), ZoneOf(tile)), MoveEvent(r, tile)})
  BY MoveSays
<1>2. MobsAlone /\ mob' = mob /\ drawnMobs' = drawnMobs
  BY DEF Move, Handling, screens, MobsAlone
<1>3. /\ place'[r] = tile /\ OnMap' = OnMap /\ r \in OnMap
      /\ \A q \in Player \ {r} : place'[q] = place[q]
  BY <1>1, PlaceTypes DEF OnMap
<1>4. PICK e : /\ Says({MoveEvent(r, tile)} \cup {e})
               /\ IF ZoneOf(place[r]) = ZoneOf(tile) THEN e = MoveEvent(r, tile)
                  ELSE e = ZoneEvent(r, ZoneOf(place[r]), ZoneOf(tile))
  <2>1. CASE ZoneOf(place[r]) = ZoneOf(tile)
    <3>1. {MoveEvent(r, tile)} \cup {MoveEvent(r, tile)} = {MoveEvent(r, tile)}
      OBVIOUS
    <3> QED BY <1>1, <2>1, <3>1
  <2>2. CASE ZoneOf(place[r]) # ZoneOf(tile)
    <3>1. {MoveEvent(r, tile)} \cup {ZoneEvent(r, ZoneOf(place[r]), ZoneOf(tile))}
            = {ZoneEvent(r, ZoneOf(place[r]), ZoneOf(tile)), MoveEvent(r, tile)}
      OBVIOUS
    <3> QED BY <1>1, <2>2, <3>1
  <2> QED BY <2>1, <2>2
<1> DEFINE events == {MoveEvent(r, tile)} \cup {e}
<1>5. /\ MoveEvent(r, tile) \notin Strays \cup Untrue /\ e \notin Strays \cup Untrue
      /\ \A q : MoveEvent(r, tile) \notin ZoneNews(q)
      /\ \A q : q # r => e \notin ZoneNews(q)
  <2>1. e \in {JoinEvent(r), LeaveEvent(r), ZoneEvent(r, ZoneOf(place[r]), ZoneOf(tile)),
               MoveEvent(r, tile)}
    BY <1>4
  <2>2. /\ {JoinEvent(r), LeaveEvent(r), ZoneEvent(r, ZoneOf(place[r]), ZoneOf(tile)),
             MoveEvent(r, tile)} \cap (Strays \cup Untrue) = {}
    BY PlayersTellNoMobs
  <2>3. \A q : MoveEvent(r, tile) \notin ZoneNews(q)
    BY PlayersTellOwnZone
  <2>4. \A q : q # r => ZoneEvent(r, ZoneOf(place[r]), ZoneOf(tile)) \notin ZoneNews(q)
    BY PlayersTellOwnZone
  <2>5. \A q : q # r => e \notin ZoneNews(q)
    BY <1>4, <2>3, <2>4
  <2> QED BY <2>1, <2>2, <2>3, <2>5
<1>6. Says(events) /\ events \cap (Strays \cup Untrue) = {}
      /\ \A q : q # r => events \cap ZoneNews(q) = {}
  BY <1>4, <1>5
<1>7. NewsOfMobs'
  <2> HIDE DEF events
  <2> QED BY <1>2, <1>6, PlayersKeepNews DEF MobsInv
<1>8. UnbornBlind'
  <2> SUFFICES ASSUME NEW q \in Player, place'[q] = Unborn
               PROVE  drawnMobs'[q] = {} /\ ~Comes(News', ZoneNews(q))
    BY DEF UnbornBlind, ZoneNews
  <2>1. q # r
    BY <1>3, PlaceTypes
  <2>2. drawnMobs[q] = {} /\ ~Comes(News, ZoneNews(q))
    BY <1>3, <2>1 DEF MobsInv, UnbornBlind
  <2> HIDE DEF events
  <2> QED BY <1>2, <1>6, <2>1, <2>2, ComesSaid
<1>9. MobsDue'
  <2> SUFFICES ASSUME NEW p \in OnMap', NEW m \in Monster
               PROVE  Due(News', DrawnRight(p, m)', Spoils(p, m)', Mends(p, m)')
    BY DEF MobsDue
  <2>0. MobsDue /\ p \in OnMap
    BY <1>3 DEF MobsInv
  <2>1. CASE p # r
    <3>1. place'[p] = place[p]
      BY <1>3, <2>0, <2>1, PlaceTypes
    <3>2. Alive(m)' <=> Alive(m)
      BY <1>2 DEF Alive
    <3> HIDE DEF events
    <3> QED BY <1>2, <1>6, <2>0, <2>1, <3>1, <3>2, MobDueKept
  <2>2. CASE p = r
    <3>1. place'[p] \in Tile /\ {MoveEvent(r, tile)} \cap ZoneNews(p) = {}
      BY <1>3, <1>5, <2>2
    <3>2. IF ZoneOf(place'[p]) = ZoneOf(place[p]) THEN e \notin ZoneNews(p)
          ELSE e = ZoneEvent(p, ZoneOf(place[p]), ZoneOf(place'[p]))
      BY <1>3, <1>4, <1>5, <2>2
    <3> QED BY <1>2, <1>4, <2>0, <3>1, <3>2, MobDueZone
  <2> QED BY <2>1, <2>2
<1> QED BY <1>7, <1>8, <1>9 DEF MobsInv

ResolvedEvent(p, m, hp) ==
  [kind |-> "attack resolved", who |-> p, mob |-> m, at |-> mob[m].at, hp |-> hp]
KilledEvent(m) == [kind |-> "killed", mob |-> m, at |-> mob[m].at]

(* What an attack says, and does to its target.                            *)
LEMMA AttackSays ==
  ASSUME TypeOK, NEW p \in Player, NEW m \in Monster, Attack(p, m)
  PROVE  \E hp \in 0..MaxHp, killed \in {{}, {KilledEvent(m)}} :
           /\ mob'[m].hp = hp /\ mob'[m].at = mob[m].at
           /\ \A n \in Monster \ {m} : mob'[n] = mob[n]
           /\ ResolvedEvent(p, m, hp) \in Event /\ Says({ResolvedEvent(p, m, hp)} \cup killed)
<1>1. mob \in [Monster -> Mob] /\ mob[m] \in Mob /\ mob[m].at \in Tile /\ mob[m].hp \in 0..MaxHp
  BY DEF TypeOK, Mob
<1>2. PICK hp \in 0..MaxHp :
        \/ /\ mob' = [mob EXCEPT ![m].hp = hp]
           /\ Publish(<<ResolvedEvent(p, m, hp)>>)
        \/ /\ mob' = [mob EXCEPT ![m] = Killed(m)] /\ hp = 0
           /\ Publish(<<KilledEvent(m), ResolvedEvent(p, m, hp)>>)
  <2>1. PICK damage \in 1..MaxHp :
          LET hp == IF damage < mob[m].hp THEN mob[m].hp - damage ELSE 0 IN
            IF hp > 0
              THEN /\ mob' = [mob EXCEPT ![m].hp = hp]
                   /\ Publish(<<ResolvedEvent(p, m, hp)>>)
              ELSE /\ mob' = [mob EXCEPT ![m] = Killed(m)]
                   /\ Publish(<<KilledEvent(m), ResolvedEvent(p, m, hp)>>)
    BY DEF Attack, ResolvedEvent, KilledEvent
  <2>2. PICK hp \in 0..MaxHp : hp = IF damage < mob[m].hp THEN mob[m].hp - damage ELSE 0
    BY <1>1
  <2>3. CASE hp > 0
    BY <2>1, <2>2, <2>3
  <2>4. CASE ~(hp > 0)
    <3>1. hp = 0
      BY <2>4
    <3> QED BY <2>1, <2>2, <2>4, <3>1
  <2> QED BY <2>3, <2>4
<1>3. /\ mob'[m].hp = hp /\ mob'[m].at = mob[m].at
      /\ \A n \in Monster \ {m} : mob'[n] = mob[n]
  <2>1. Killed(m).hp = 0 /\ Killed(m).at = mob[m].at
    BY <1>1 DEF Killed, EnterIdle, Enter, Mob
  <2>2. [mob[m] EXCEPT !.hp = hp].hp = hp /\ [mob[m] EXCEPT !.hp = hp].at = mob[m].at
    BY <1>1 DEF Mob
  <2> QED BY <1>1, <1>2, <2>1, <2>2
<1>4. ResolvedEvent(p, m, hp) \in Event /\ KilledEvent(m) \in Event
  BY <1>1 DEF Event, ResolvedEvent, KilledEvent
<1>5. batch' = batch
  BY DEF Attack, Handling
<1>6. \/ Says({ResolvedEvent(p, m, hp)})
      \/ Says({KilledEvent(m), ResolvedEvent(p, m, hp)})
  BY <1>2, <1>4, <1>5, SaysThese
<1>7. CASE Says({ResolvedEvent(p, m, hp)})
  <2>1. {ResolvedEvent(p, m, hp)} = {ResolvedEvent(p, m, hp)} \cup {}
    OBVIOUS
  <2> QED BY <1>3, <1>4, <1>7, <2>1
<1>8. CASE Says({KilledEvent(m), ResolvedEvent(p, m, hp)})
  <2>1. {KilledEvent(m), ResolvedEvent(p, m, hp)} = {ResolvedEvent(p, m, hp)} \cup {KilledEvent(m)}
    OBVIOUS
  <2> QED BY <1>3, <1>4, <1>8, <2>1
<1> QED BY <1>6, <1>7, <1>8

(* A hit, or a kill.                                                       *)
LEMMA AttackKeepsMobs ==
  ASSUME TypeOK, MobsInv, NEW r \in Player, NEW n \in Monster, Attack(r, n)
  PROVE  MobsInv'
<1>1. PICK hp \in 0..MaxHp, killed \in {{}, {KilledEvent(n)}} :
        /\ mob'[n].hp = hp /\ mob'[n].at = mob[n].at
        /\ \A m \in Monster \ {n} : mob'[m] = mob[m]
        /\ ResolvedEvent(r, n, hp) \in Event /\ Says({ResolvedEvent(r, n, hp)} \cup killed)
  BY AttackSays
<1> DEFINE resolved == ResolvedEvent(r, n, hp)
           events == {resolved} \cup killed
<1>2. /\ place' = place /\ drawnMobs' = drawnMobs /\ phase = "requests" /\ phase' = phase
      /\ Alive(n)
      /\ MobsDue /\ NewsOfMobs /\ UnbornBlind
  BY DEF Attack, Handling, screens, CanBeHit, Alive, MobsInv
<1>3. /\ resolved \in Event /\ resolved.kind = "attack resolved" /\ resolved.mob = n
      /\ resolved.hp = hp /\ resolved.at = mob[n].at /\ Says(events)
      /\ \A e \in events : e = resolved \/ e.kind = "killed"
  <2>1. /\ resolved \in Event /\ resolved.kind = "attack resolved" /\ resolved.mob = n
        /\ resolved.hp = hp /\ resolved.at = mob[n].at
    BY <1>1 DEF ResolvedEvent
  <2>2. \A e \in killed : e.kind = "killed"
    BY DEF KilledEvent
  <2> HIDE DEF resolved
  <2>3. \A e \in events : e = resolved \/ e.kind = "killed"
    BY <2>2
  <2> QED BY <1>1, <2>1, <2>3 DEF resolved
<1> HIDE DEF resolved, events
<1>4. \A q : events \cap ZoneNews(q) = {} /\ events \cap Strays = {}
  BY <1>3 DEF ZoneNews, Strays
<1>5. NewsOfMobs'
  <2>1. Untrue' \subseteq Untrue
    <3> SUFFICES ASSUME NEW e \in Untrue' PROVE e \in Untrue
      OBVIOUS
    <3>1. /\ e \in Event /\ e.kind = "attack resolved" /\ e.hp = 0 /\ e.mob \in Monster
          /\ mob'[e.mob].hp > 0 \/ mob'[e.mob].at # e.at
      BY EventFields DEF Untrue, Alive
    <3>2. CASE e.mob = n
      BY <1>2, <3>1, <3>2 DEF Untrue
    <3>3. CASE e.mob # n
      <4>1. mob'[e.mob] = mob[e.mob]
        BY <1>1, <3>1, <3>3
      <4> QED BY <3>1, <4>1 DEF Untrue, Alive
    <3> QED BY <3>2, <3>3
  <2>2. events \cap Untrue' = {}
    <3>1. resolved \notin Untrue'
      <4>1. resolved.hp = 0 => ~(mob'[n].hp > 0) /\ mob'[n].at = resolved.at
        <5>1. hp = 0 => ~(hp > 0)
          OBVIOUS
        <5> QED BY <1>1, <1>3, <5>1
      <4> QED BY <1>3, <4>1 DEF Untrue, Alive
    <3>2. \A e \in Untrue' : e.kind = "attack resolved"
      BY DEF Untrue
    <3> QED BY <1>3, <3>1, <3>2
  <2> QED BY <1>2, <1>3, <1>4, <2>1, <2>2, NewsOfMobsSaid
<1>6. UnbornBlind'
  <2> SUFFICES ASSUME NEW q \in Player, place[q] = Unborn
               PROVE  drawnMobs[q] = {} /\ ~Comes(News', ZoneNews(q))
    BY <1>2 DEF UnbornBlind, ZoneNews
  <2> QED BY <1>2, <1>3, <1>4, ComesSaid DEF UnbornBlind
<1>7. MobsDue'
  <2> SUFFICES ASSUME NEW p \in OnMap, NEW m \in Monster
               PROVE  Due(News', DrawnRight(p, m)', Spoils(p, m)', Mends(p, m)')
    BY <1>2 DEF MobsDue, OnMap
  <2>1. place'[p] = place[p] /\ (m \in drawnMobs'[p] <=> m \in drawnMobs[p])
    BY <1>2
  <2>2. CASE Alive(m)' <=> Alive(m)
    <3>1. ZoneOf(mob'[m].at) = ZoneOf(mob[m].at)
      BY <1>1
    <3> QED BY <1>2, <1>3, <1>4, <2>1, <2>2, <3>1, MobDueKept
  <2>3. CASE ~(Alive(m)' <=> Alive(m))
    <3>1. m = n /\ hp = 0 /\ Alive(m) /\ ~Alive(m)'
      BY <1>1, <1>2, <2>3 DEF Alive
    <3>2. mob'[m].at = mob[m].at
      BY <1>1, <3>1
    <3>3. /\ Vanishes(p, m)' = Vanishes(p, m) /\ (Beside(p, m)' <=> Beside(p, m))
      BY <1>2, <3>2 DEF Vanishes, Beside, Near, ZoneNews, Disappears
    <3>4. Spoils(p, m)' = {}
      BY <3>1 DEF Spoils
    <3>5. PICK after, cause : after = DrawnRight(p, m)' /\ cause = Mends(p, m)'
      OBVIOUS
    <3>6. after \in BOOLEAN
      BY <3>5 DEF DrawnRight
    <3>7. CASE Beside(p, m)
      <4>1. cause = Vanishes(p, m) \cup Kills(m)'
        BY <3>1, <3>3, <3>5, <3>7 DEF Mends
      <4>2. resolved \in Kills(m)'
        BY <1>1, <1>3, <3>1 DEF Kills
      <4>3. resolved \in events
        BY DEF events
      <4>4. events \cap cause # {}
        BY <4>1, <4>2, <4>3
      <4>5. Due(News', after, {}, cause)
        BY <1>3, <3>6, <4>4, DueSaid
      <4> QED BY <3>4, <3>5, <4>5
    <3>8. CASE ~Beside(p, m)
      <4>1. cause = Vanishes(p, m) /\ Mends(p, m) = Vanishes(p, m)
        BY <3>1, <3>3, <3>5, <3>8 DEF Mends
      <4>2. PICK done : done = DrawnRight(p, m)
        OBVIOUS
      <4>3. done \in BOOLEAN /\ (done => after)
        BY <1>2, <3>1, <3>5, <3>8, <4>2 DEF DrawnRight
      <4>4. Due(News, done, Spoils(p, m), cause)
        BY <1>2, <4>1, <4>2 DEF MobsDue
      <4>5. Due(News, done, {}, cause)
        BY <4>4, DueWeaker
      <4>6. events \cap {} = {}
        OBVIOUS
      <4>7. Due(News', after, {}, cause)
        BY <1>3, <3>6, <4>3, <4>5, <4>6, DueSaid
      <4> QED BY <3>4, <3>5, <4>7
    <3> QED BY <3>7, <3>8
  <2> QED BY <2>2, <2>3
<1> QED BY <1>5, <1>6, <1>7 DEF MobsInv

StepEvent(m, from, to) == [kind |-> "mob move", mob |-> m, from |-> from, to |-> to]
RespawnEvent(m) == [kind |-> "respawn", mob |-> m]
RequestEvent(m, p) == [kind |-> "attack requested", mob |-> m, target |-> p]

(* A step may say nothing.                                                 *)
LEMMA SaysNone ==
  ASSUME TypeOK, News' = News
  PROVE  Says({})
<1>1. <<>> \in Seq(Event) /\ Len(<<>>) = 0
  BY EmptySeq
<1>2. News' = News \o <<>>
  BY NewsType, ConcatEmptySeq
<1>3. \A i \in 1..Len(<<>>) : <<>>[i] \in {}
  BY <1>1
<1>4. \A e \in {} : \E i \in 1..Len(<<>>) : <<>>[i] = e
  OBVIOUS
<1> QED BY <1>1, <1>2, <1>3, <1>4 DEF Says

\* What m does when it thinks: it lives on, and says at most where it went or
\* whom it attacks.
Thought(m) ==
  /\ mob[m].hp > 0 /\ mob'[m].hp > 0 /\ \A n \in Monster \ {m} : mob'[n] = mob[n]
  /\ \E events : /\ Says(events)
                 /\ \A e \in events : \/ e.kind = "attack requested"
                                      \/ e = StepEvent(m, mob[m].at, mob'[m].at)

(* Whatever it decides.                                                    *)
LEMMA ThinkSays ==
  ASSUME TypeOK, NEW m \in Monster, TickCreatureAi(m)
  PROVE  Thought(m)
<1>1. /\ mob \in [Monster -> Mob] /\ mob[m] \in Mob /\ mob[m].at \in Tile /\ mob[m].hp > 0
      /\ batch' = batch /\ log \in Seq(Event)
  BY DEF TypeOK, Mob, TickCreatureAi, Thinks, Ticking
<1>2. ASSUME NEW ai, NEW target, NEW steps, NEW waits, NEW tile
      PROVE  /\ [Enter(mob[m], ai, target, steps, waits) EXCEPT !.at = tile].hp = mob[m].hp
             /\ [Enter(mob[m], ai, target, steps, waits) EXCEPT !.at = tile].at = tile
  BY <1>1 DEF Enter, Mob
<1>3. \A ai, target, steps, waits : Enter(mob[m], ai, target, steps, waits).hp = mob[m].hp
  BY <1>1 DEF Enter, Mob
<1>4. ASSUME NEW self, NEW events, self.hp = mob[m].hp, Says(events),
             mob' = [mob EXCEPT ![m] = self],
             \A e \in events : \/ e.kind = "attack requested"
                                \/ e = StepEvent(m, mob[m].at, self.at)
      PROVE  Thought(m)
  <2>1. mob'[m] = self /\ \A n \in Monster \ {m} : mob'[n] = mob[n]
    BY <1>1, <1>4
  <2>2. mob'[m].hp > 0
    BY <1>1, <1>4, <2>1
  <2> QED BY <1>1, <1>4, <2>1, <2>2 DEF Thought
<1>5. ASSUME log' = log, NEW self, self.hp = mob[m].hp, mob' = [mob EXCEPT ![m] = self]
      PROVE  Thought(m)
  <2>1. News' = News
    BY <1>1, <1>5 DEF News
  <2>2. PICK events : events = {}
    OBVIOUS
  <2>3. Says(events) /\ \A e \in events : \/ e.kind = "attack requested"
                                          \/ e = StepEvent(m, mob[m].at, self.at)
    BY <2>1, <2>2, SaysNone
  <2> QED BY <1>4, <1>5, <2>3
<1>6. ASSUME NEW ai, NEW target, NEW steps, NEW waits,
             Become(m, Enter(mob[m], ai, target, steps, waits))
      PROVE  Thought(m)
  <2>1. PICK self : self = Enter(mob[m], ai, target, steps, waits)
    OBVIOUS
  <2>2. self.hp = mob[m].hp
    BY <1>3, <2>1
  <2>3. log' = log /\ mob' = [mob EXCEPT ![m] = self]
    BY <1>6, <2>1 DEF Become
  <2> QED BY <1>5, <2>2, <2>3
<1>7. ASSUME NEW ai, NEW target, NEW steps, NEW waits, NEW tile \in Tile,
             MoveTo(m, Enter(mob[m], ai, target, steps, waits), tile)
      PROVE  Thought(m)
  <2>0. PICK self : self = [Enter(mob[m], ai, target, steps, waits) EXCEPT !.at = tile]
    OBVIOUS
  <2>1. self.hp = mob[m].hp /\ self.at = tile
    BY <1>2, <2>0
  <2>2. mob' = [mob EXCEPT ![m] = self]
    BY <1>7, <2>0 DEF MoveTo
  <2>3. CASE tile = mob[m].at
    <3>1. log' = log \o <<>>
      BY <1>7, <2>3 DEF MoveTo, Publish
    <3>2. log' = log
      BY <1>1, <3>1, ConcatEmptySeq
    <3> QED BY <1>5, <2>1, <2>2, <3>2
  <2>4. CASE tile # mob[m].at
    <3>1. PICK e : e = StepEvent(m, mob[m].at, tile)
      OBVIOUS
    <3>2. e \in Event
      BY <1>1, <3>1 DEF Event, StepEvent
    <3>3. Publish(<<e>>)
      BY <1>7, <2>4, <3>1 DEF MoveTo, StepEvent
    <3>4. Says({e})
      BY <1>1, <3>2, <3>3, SaysThese
    <3>5. \A x \in {e} : x = StepEvent(m, mob[m].at, self.at)
      BY <2>1, <3>1
    <3> QED BY <1>4, <2>1, <2>2, <3>4, <3>5
  <2> QED BY <2>3, <2>4
<1>8. ASSUME NEW p \in Player, mob' = [mob EXCEPT ![m] = EnterAttacking(@, p)],
             Publish(<<RequestEvent(m, p)>>)
      PROVE  Thought(m)
  <2>0. PICK self : self = EnterAttacking(mob[m], p)
    OBVIOUS
  <2>1. self.hp = mob[m].hp /\ mob' = [mob EXCEPT ![m] = self]
    BY <1>3, <1>1, <1>8, <2>0 DEF EnterAttacking
  <2>2. PICK e : e = RequestEvent(m, p)
    OBVIOUS
  <2>3. e \in Event /\ e.kind = "attack requested"
    BY <2>2 DEF Event, RequestEvent
  <2>4. Says({e})
    BY <1>1, <1>8, <2>2, <2>3, SaysThese
  <2>5. PICK events : events = {e}
    OBVIOUS
  <2>6. Says(events) /\ \A x \in events : \/ x.kind = "attack requested"
                                          \/ x = StepEvent(m, mob[m].at, self.at)
    BY <2>3, <2>4, <2>5
  <2> QED BY <1>4, <2>1, <2>6
<1>9. ASSUME UNCHANGED <<mob, log>> PROVE Thought(m)
  <2>1. mob[m].hp = mob[m].hp /\ mob' = [mob EXCEPT ![m] = mob[m]]
    BY <1>1, <1>9
  <2> QED BY <1>5, <1>9, <2>1
<1>10. ASSUME DecideIdle(m) PROVE Thought(m)
  BY <1>6, <1>10 DEF DecideIdle, EnterChase, EnterWander, EnterIdle
<1>11. ASSUME DecideWander(m) PROVE Thought(m)
  <2>1. PICK delta \in {-1, 0, 1} : MoveTo(m, AfterStep(mob[m]), Step(mob[m].at, delta))
    BY <1>11 DEF DecideWander
  <2>2. Step(mob[m].at, delta) \in Tile
    BY <1>1, StepType
  <2>3. \E ai, target, steps, waits : AfterStep(mob[m]) = Enter(mob[m], ai, target, steps, waits)
    BY DEF AfterStep, EnterIdle
  <2> QED BY <1>7, <2>1, <2>2, <2>3
<1>12. ASSUME Pursue(m) PROVE Thought(m)
  <2>1. ASSUME NEW t \in CurrentTarget(m)
        PROVE  mob[m].target \in Player /\ Towards(mob[m].at, t) \in Tile
    BY <1>1, StepType DEF CurrentTarget, OnMap, Towards
  <2>2. \/ Become(m, EnterIdle(mob[m], FALSE))
        \/ \E t \in CurrentTarget(m) :
             \/ MoveTo(m, EnterChase(mob[m], mob[m].target, TRUE), Towards(mob[m].at, t))
             \/ /\ mob' = [mob EXCEPT ![m] = EnterAttacking(@, mob[m].target)]
                /\ Publish(<<RequestEvent(m, mob[m].target)>>)
    BY <1>12 DEF Pursue, RequestEvent
  <2>3. CASE Become(m, EnterIdle(mob[m], FALSE))
    BY <1>6, <2>3 DEF EnterIdle
  <2>4. ASSUME NEW t \in CurrentTarget(m),
               MoveTo(m, EnterChase(mob[m], mob[m].target, TRUE), Towards(mob[m].at, t))
        PROVE  Thought(m)
    BY <1>7, <2>1, <2>4 DEF EnterChase
  <2>5. ASSUME NEW t \in CurrentTarget(m),
               mob' = [mob EXCEPT ![m] = EnterAttacking(@, mob[m].target)],
               Publish(<<RequestEvent(m, mob[m].target)>>)
        PROVE  Thought(m)
    BY <1>8, <2>1, <2>5
  <2> QED BY <2>2, <2>3, <2>4, <2>5
<1> QED BY <1>9, <1>10, <1>11, <1>12 DEF TickCreatureAi, DecideChase, DecideAttacking

\* The condition of StaysInZone on a step.
Stays ==
  \A m \in Monster : mob[m].hp > 0 /\ mob'[m].hp > 0 =>
    ZoneOf(mob'[m].at) = ZoneOf(mob[m].at)

(* A monster that thinks without leaving its zone.                         *)
LEMMA ThinkKeepsMobs ==
  ASSUME TypeOK, MobsInv, Stays, NEW n \in Monster, TickCreatureAi(n)
  PROVE  MobsInv'
<1>1. /\ mob[n].hp > 0 /\ mob'[n].hp > 0 /\ \A m \in Monster \ {n} : mob'[m] = mob[m]
  BY ThinkSays DEF Thought
<1>2. PICK events : /\ Says(events)
                    /\ \A e \in events : \/ e.kind = "attack requested"
                                         \/ e = StepEvent(n, mob[n].at, mob'[n].at)
  BY ThinkSays DEF Thought
<1>3. /\ place' = place /\ drawnMobs' = drawnMobs /\ phase = "simulate" /\ phase' = phase
      /\ MobsDue /\ NewsOfMobs /\ UnbornBlind
  BY DEF TickCreatureAi, Ticking, screens, MobsInv
<1>4. \A m \in Monster : /\ Alive(m)' <=> Alive(m)
                         /\ ZoneOf(mob'[m].at) = ZoneOf(mob[m].at)
  BY <1>1 DEF Alive, Stays
<1>5. \A e \in events : /\ e.kind \in {"attack requested", "mob move"}
                        /\ e.kind = "mob move" => ZoneOf(e.from) = ZoneOf(e.to)
  <2> SUFFICES ASSUME NEW e \in events, e = StepEvent(n, mob[n].at, mob'[n].at)
               PROVE  e.kind = "mob move" /\ ZoneOf(e.from) = ZoneOf(e.to)
    BY <1>2
  <2> QED BY <1>4 DEF StepEvent
<1>6. \A q : /\ events \cap ZoneNews(q) = {} /\ events \cap Strays = {}
             /\ events \cap Untrue' = {} /\ events \cap Requested = {}
  BY <1>5 DEF ZoneNews, Strays, Untrue, Requested
<1>7. NewsOfMobs'
  <2>1. Untrue' \subseteq Untrue
    <3> SUFFICES ASSUME NEW e \in Untrue' PROVE e \in Untrue
      OBVIOUS
    <3>1. /\ e \in Event /\ e.kind = "attack resolved" /\ e.hp = 0 /\ e.mob \in Monster
          /\ mob'[e.mob].hp > 0 \/ mob'[e.mob].at # e.at
      BY EventFields DEF Untrue, Alive
    <3>2. CASE e.mob = n
      BY <1>1, <3>1, <3>2 DEF Untrue, Alive
    <3>3. CASE e.mob # n
      <4>1. mob'[e.mob] = mob[e.mob]
        BY <1>1, <3>1, <3>3
      <4> QED BY <3>1, <4>1 DEF Untrue, Alive
    <3> QED BY <3>2, <3>3
  <2> QED BY <1>2, <1>3, <1>6, <2>1, NewsOfMobsSaid
<1>8. UnbornBlind'
  <2> SUFFICES ASSUME NEW q \in Player, place[q] = Unborn
               PROVE  drawnMobs[q] = {} /\ ~Comes(News', ZoneNews(q))
    BY <1>3 DEF UnbornBlind, ZoneNews
  <2> QED BY <1>2, <1>3, <1>6, ComesSaid DEF UnbornBlind
<1>9. MobsDue'
  <2> SUFFICES ASSUME NEW p \in OnMap, NEW m \in Monster
               PROVE  Due(News', DrawnRight(p, m)', Spoils(p, m)', Mends(p, m)')
    BY <1>3 DEF MobsDue, OnMap
  <2>1. place'[p] = place[p] /\ (m \in drawnMobs'[p] <=> m \in drawnMobs[p])
    BY <1>3
  <2> QED BY <1>2, <1>3, <1>4, <1>6, <2>1, MobDueKept
<1> QED BY <1>7, <1>8, <1>9 DEF MobsInv

(* What a respawn says, and does.                                          *)
LEMMA RespawnSays ==
  ASSUME TypeOK, NEW m \in Monster, TickRespawn(m)
  PROVE  \/ mob' = mob /\ log' = log
         \/ /\ mob[m].hp = 0 /\ mob'[m].hp = MaxHp
            /\ \A n \in Monster \ {m} : mob'[n] = mob[n]
            /\ RespawnEvent(m) \in Event /\ Says({RespawnEvent(m)})
<1>1. mob \in [Monster -> Mob] /\ mob[m] \in Mob /\ batch' = batch
  BY DEF TypeOK, TickRespawn, Ticking
<1> SUFFICES ASSUME ~(mob' = mob /\ log' = log)
             PROVE  /\ mob[m].hp = 0 /\ mob'[m].hp = MaxHp
                    /\ \A n \in Monster \ {m} : mob'[n] = mob[n]
                    /\ RespawnEvent(m) \in Event /\ Says({RespawnEvent(m)})
  OBVIOUS
<1>2. PICK tile \in SpawnTiles(m) : /\ mob' = [mob EXCEPT ![m] = Respawned(m, tile)]
                                    /\ Publish(<<RespawnEvent(m)>>) /\ mob[m].hp = 0
  BY DEF TickRespawn, RespawnEvent
<1>3. Respawned(m, tile).hp = MaxHp
  BY <1>1 DEF Respawned, EnterIdle, Enter, Mob
<1>4. RespawnEvent(m) \in Event
  BY DEF RespawnEvent, Event
<1>5. Says({RespawnEvent(m)})
  BY <1>1, <1>2, <1>4, SaysThese
<1> QED BY <1>1, <1>2, <1>3, <1>4, <1>5

(* A monster that comes back to life, wherever: nobody on the map draws    *)
(* it, and whoever is near its new place is told.                          *)
LEMMA RespawnKeepsMobs ==
  ASSUME TypeOK, MobsInv, NEW n \in Monster, TickRespawn(n), mob' # mob
  PROVE  MobsInv'
<1>1. /\ mob[n].hp = 0 /\ mob'[n].hp = MaxHp
      /\ \A m \in Monster \ {n} : mob'[m] = mob[m]
      /\ RespawnEvent(n) \in Event /\ Says({RespawnEvent(n)})
  BY RespawnSays
<1>2. /\ place' = place /\ drawnMobs' = drawnMobs /\ phase = "simulate" /\ phase' = phase
      /\ MobsDue /\ NewsOfMobs /\ UnbornBlind /\ ~Comes(News, Requested)
  BY DEF TickRespawn, Ticking, screens, MobsInv, NewsOfMobs
<1> DEFINE events == {RespawnEvent(n)}
<1>3. \A q : /\ events \cap ZoneNews(q) = {} /\ events \cap Strays = {}
             /\ events \cap Untrue' = {} /\ events \cap Requested = {}
  <2>1. RespawnEvent(n).kind = "respawn"
    BY DEF RespawnEvent
  <2> QED BY <2>1 DEF ZoneNews, Strays, Untrue, Requested
<1>4. RespawnEvent(n) \in Respawns(n)' /\ RespawnEvent(n) \in events
  BY <1>1 DEF Respawns, RespawnEvent
<1>5. Says(events)
  BY <1>1
<1> HIDE DEF events
<1>6. ~Comes(News', Requested)
  BY <1>2, <1>3, <1>5, ComesSaid
<1>7. NewsOfMobs'
  <2>1. ~Comes(News', Strays)
    BY <1>2, <1>3, <1>5, ComesSaid DEF NewsOfMobs
  <2>2. Untrue' \subseteq Requested
    BY DEF Untrue, Requested
  <2>3. ~Comes(News', Untrue')
    BY <1>6, <2>2 DEF Comes
  <2>4. Strays' = Strays /\ Requested' = Requested
    BY DEF Strays, Requested
  <2> QED BY <1>2, <1>6, <2>1, <2>3, <2>4 DEF NewsOfMobs
<1>8. UnbornBlind'
  <2> SUFFICES ASSUME NEW q \in Player, place[q] = Unborn
               PROVE  drawnMobs[q] = {} /\ ~Comes(News', ZoneNews(q))
    BY <1>2 DEF UnbornBlind, ZoneNews
  <2> QED BY <1>2, <1>3, <1>5, ComesSaid DEF UnbornBlind
<1>9. MobsDue'
  <2> SUFFICES ASSUME NEW p \in OnMap, NEW m \in Monster
               PROVE  Due(News', DrawnRight(p, m)', Spoils(p, m)', Mends(p, m)')
    BY <1>2 DEF MobsDue, OnMap
  <2>1. place'[p] = place[p] /\ (m \in drawnMobs'[p] <=> m \in drawnMobs[p])
    BY <1>2
  <2>2. CASE m # n
    <3>1. (Alive(m)' <=> Alive(m)) /\ ZoneOf(mob'[m].at) = ZoneOf(mob[m].at)
      BY <1>1, <2>2 DEF Alive
    <3> QED BY <1>2, <1>3, <1>5, <2>1, <3>1, MobDueKept
  <2>3. CASE m = n
    <3>1. ~Alive(m) /\ Alive(m)'
      BY <1>1, <2>3 DEF Alive
    <3>2. m \notin drawnMobs[p]
      <4>1. Mends(p, m) \subseteq Requested
        BY <3>1 DEF Mends, Vanishes, ZoneNews, Kills, Requested
      <4>2. ~Comes(News, Mends(p, m))
        BY <1>2, <4>1 DEF Comes
      <4>3. PICK done : done = DrawnRight(p, m)
        OBVIOUS
      <4>4. done \in BOOLEAN /\ Due(News, done, Spoils(p, m), Mends(p, m))
        BY <1>2, <4>3 DEF MobsDue, DrawnRight
      <4>5. done
        BY <4>2, <4>4, DoneNow
      <4> QED BY <3>1, <4>3, <4>5 DEF DrawnRight
    <3>3. PICK after, undo, cause : /\ after = DrawnRight(p, m)' /\ undo = Spoils(p, m)'
                                    /\ cause = Mends(p, m)'
      OBVIOUS
    <3>4. after \in BOOLEAN
      BY <3>3 DEF DrawnRight
    <3>5. undo \subseteq Requested
      BY <3>3 DEF Spoils, Vanishes, Enters, ZoneNews, Requested
    <3>6. CASE Beside(p, m)'
      <4>1. RespawnEvent(n) \in cause
        BY <1>4, <2>3, <3>1, <3>3, <3>6 DEF Mends
      <4>2. events \cap cause # {} /\ events \cap undo = {}
        BY <1>3, <1>4, <3>5, <4>1
      <4>3. Due(News', after, undo, cause)
        BY <1>5, <3>4, <4>2, DueSaid
      <4> QED BY <3>3, <4>3
    <3>7. CASE ~Beside(p, m)'
      <4>1. after = TRUE
        BY <1>2, <3>2, <3>3, <3>4, <3>7 DEF DrawnRight
      <4>2. ~Comes(News', undo)
        BY <1>6, <3>5 DEF Comes
      <4>3. Due(News', after, undo, cause)
        BY <4>1, <4>2, DueDone
      <4> QED BY <3>3, <4>3
    <3> QED BY <3>6, <3>7
  <2> QED BY <2>2, <2>3
<1> QED BY <1>7, <1>8, <1>9 DEF MobsInv

(* A dispatched event does to the screen of a player on the map what it is *)
(* counted on for.                                                         *)
LEMMA DispatchDrawsMobs ==
  ASSUME TypeOK, IndexMatchesPlaces, Dispatch, NEW p \in OnMap, NEW m \in Monster,
         Head(batch) \notin Strays \cup Untrue
  PROVE  /\ Head(batch) \in Mends(p, m) => DrawnRight(p, m)'
         /\ Head(batch) \notin Mends(p, m) /\ Head(batch) \notin Spoils(p, m)
              /\ DrawnRight(p, m) => DrawnRight(p, m)'
<1> DEFINE e == Head(batch)
           Goal == /\ e \in Mends(p, m) => DrawnRight(p, m)'
                   /\ e \notin Mends(p, m) /\ e \notin Spoils(p, m)
                        /\ DrawnRight(p, m) => DrawnRight(p, m)'
<1>0. /\ drawnMobs \in [Player -> SUBSET Monster] /\ mob[m].at \in Tile /\ p \in Player
      /\ place' = place /\ mob' = mob /\ ZoneOf(mob[m].at) \in Zone
  <2>1. PICK kind : Dispatching(kind)
    BY DispatchesOne
  <2> QED BY <2>1, ZoneType DEF TypeOK, Mob, OnMap, Dispatching
<1>1. (Alive(m)' <=> Alive(m)) /\ (Beside(p, m)' <=> Beside(p, m))
  BY <1>0 DEF Alive, Beside, Near
<1>2. p \in ViewersOf(mob[m].at) <=> Beside(p, m)
  <2>1. ZoneOf(mob[m].at) \in Nat /\ ZoneOf(place[p]) \in Nat
    BY <1>0, ZoneType DEF OnMap, Zone
  <2>2. IsNeighboring(ZoneOf(mob[m].at), ZoneOf(place[p])) <=> Beside(p, m)
    BY <2>1 DEF Beside, Near, IsNeighboring, Distance
  <2> QED BY <1>0, <2>2 DEF ViewersOf, IndexMatchesPlaces
<1>3. /\ e.kind \notin {"zone", "respawn", "attack resolved"} => e \notin Mends(p, m)
      /\ e.kind = "zone" => e \notin Respawns(m) \cup Kills(m)
      /\ e \in Respawns(m) => e.kind = "respawn" /\ e.mob = m
      /\ e \in Kills(m) => e.kind = "attack resolved" /\ e.mob = m /\ e.hp = 0
      /\ e.kind # "zone" => e \notin Enters(p, m) \cup Vanishes(p, m)
  BY DEF Mends, Enters, Vanishes, ZoneNews, Respawns, Kills
<1>4. ASSUME m \in drawnMobs'[p] <=> m \in drawnMobs[p], e \notin Mends(p, m) PROVE Goal
  BY <1>1, <1>4 DEF DrawnRight
<1>5. ASSUME SendViewChange PROVE Goal
  <2>1. e \in Event /\ e.kind = "zone" /\ e.who \in Player
    BY <1>5, NewsDispatched, EventFields DEF SendViewChange
  <2>2. CASE e.who # p
    <3>1. drawnMobs'[p] = drawnMobs[p]
      BY <1>0, <1>5, <2>2 DEF SendViewChange, screens
    <3>2. e \notin Mends(p, m)
      BY <1>3, <2>1, <2>2 DEF Mends, Enters, Vanishes, ZoneNews
    <3> QED BY <1>4, <3>1, <3>2
  <2>3. CASE e.who = p
    <3>1. drawnMobs'[p] = MobsAfter(e)
      BY <1>0, <1>5, <2>3 DEF SendViewChange
    <3>2. e \in Enters(p, m) <=> Appears(e.from, e.to, mob[m].at)
      BY <2>1, <2>3 DEF Enters, ZoneNews
    <3>3. e \in Vanishes(p, m) <=> Disappears(e.from, e.to, mob[m].at)
      BY <2>1, <2>3 DEF Vanishes, ZoneNews
    <3>4. ~(e \in Enters(p, m) /\ e \in Vanishes(p, m))
      BY <3>2, <3>3, AppearsOrDisappears
    <3>5. m \in drawnMobs'[p] <=>
            /\ e \notin Vanishes(p, m)
            /\ m \in drawnMobs[p] \/ (Alive(m) /\ e \in Enters(p, m))
      BY <2>3, <3>1, <3>2, <3>3 DEF MobsAfter, Alive
    <3>6. e \in Mends(p, m) <=>
            IF Alive(m) /\ Beside(p, m) THEN e \in Enters(p, m) ELSE e \in Vanishes(p, m)
      BY <1>3, <2>1 DEF Mends
    <3>7. e \in Spoils(p, m) <=>
            Alive(m) /\ IF Beside(p, m) THEN e \in Vanishes(p, m) ELSE e \in Enters(p, m)
      BY DEF Spoils
    <3> QED BY <1>1, <3>4, <3>5, <3>6, <3>7 DEF DrawnRight
  <2> QED BY <2>2, <2>3
<1>6. ASSUME SendCreatureMove PROVE Goal
  <2>1. e \in Event /\ e.kind = "mob move"
    BY <1>6, NewsDispatched DEF SendCreatureMove
  <2>2. ZoneOf(e.from) = ZoneOf(e.to)
    BY <2>1 DEF Strays
  <2>3. drawnMobs' = drawnMobs
    BY <1>6, <2>2 DEF SendCreatureMove
  <2> QED BY <1>3, <1>4, <2>1, <2>3
<1>7. ASSUME SendCreatureRespawn PROVE Goal
  <2>1. e \in Event /\ e.kind = "respawn"
    BY <1>7, NewsDispatched DEF SendCreatureRespawn
  <2>2. drawnMobs' = IF mob[e.mob].hp > 0 THEN Draw(drawnMobs, ViewersOf(mob[e.mob].at), e.mob)
                     ELSE drawnMobs
    BY <1>7 DEF SendCreatureRespawn
  <2>3. CASE e.mob # m
    <3>1. m \in drawnMobs'[p] <=> m \in drawnMobs[p]
      BY <1>0, <2>2, <2>3 DEF Draw
    <3>2. e \notin Mends(p, m)
      BY <1>3, <2>1, <2>3 DEF Mends
    <3> QED BY <1>4, <3>1, <3>2
  <2>4. CASE e.mob = m
    <3>1. m \in drawnMobs'[p] <=> m \in drawnMobs[p] \/ (Alive(m) /\ Beside(p, m))
      BY <1>0, <1>2, <2>2, <2>4 DEF Draw, Alive
    <3>2. e \in Mends(p, m) => Alive(m) /\ Beside(p, m)
      BY <1>3, <2>1 DEF Mends
    <3> QED BY <1>1, <3>1, <3>2 DEF DrawnRight
  <2> QED BY <2>3, <2>4
<1>8. ASSUME SendPlayerAttackResult PROVE Goal
  <2>1. e \in Event /\ e.kind = "attack resolved"
    BY <1>8, NewsDispatched DEF SendPlayerAttackResult
  <2>2. drawnMobs' =
          IF e.hp = 0 THEN Erase(drawnMobs, ViewersOf(e.at) \cup ({e.who} \cap OnMap), e.mob)
          ELSE drawnMobs
    BY <1>8 DEF SendPlayerAttackResult
  <2>3. CASE e.mob # m \/ e.hp # 0
    <3>1. m \in drawnMobs'[p] <=> m \in drawnMobs[p]
      BY <1>0, <2>2, <2>3 DEF Erase
    <3>2. e \notin Mends(p, m)
      BY <1>3, <2>1, <2>3 DEF Mends
    <3> QED BY <1>4, <3>1, <3>2
  <2>4. CASE e.mob = m /\ e.hp = 0
    <3>1. ~Alive(m) /\ mob[m].at = e.at
      BY <2>1, <2>4 DEF Untrue
    <3>2. m \in drawnMobs'[p] => m \in drawnMobs[p] /\ ~Beside(p, m)
      BY <1>0, <1>2, <2>2, <2>4, <3>1 DEF Erase
    <3>3. e \in Mends(p, m) => Beside(p, m)
      BY <1>3, <2>1 DEF Mends
    <3> QED BY <1>1, <3>1, <3>2, <3>3 DEF DrawnRight
  <2> QED BY <2>3, <2>4
<1>9. ASSUME SendCharMove \/ SendCharRemove \/ SendCharacterDataLoad \/ IgnoreAttackRequest
             \/ SendMonsterKilled \/ SendItemMapNew \/ SendItemMapRemove
      PROVE  Goal
  <2>1. drawnMobs' = drawnMobs /\ e.kind \notin {"zone", "respawn", "attack resolved"}
    BY <1>9 DEF SendCharMove, SendCharRemove, SendCharacterDataLoad, IgnoreAttackRequest,
      SendMonsterKilled, SendItemMapNew, SendItemMapRemove, Dispatching, screens
  <2> HIDE DEF Goal
  <2> QED BY <1>3, <1>4, <2>1
<1> HIDE DEF Goal
<1>10. Goal
  BY <1>5, <1>6, <1>7, <1>8, <1>9 DEF Dispatch
<1> QED BY <1>10 DEF Goal

(* No dispatch draws a monster for a client that is not on the map.        *)
LEMMA DispatchDrawsOnMap ==
  ASSUME TypeOK, IndexMatchesPlaces, Dispatch, NEW p \in Player \ OnMap
  PROVE  drawnMobs'[p] \subseteq drawnMobs[p]
<1> DEFINE e == Head(batch)
           Goal == drawnMobs'[p] \subseteq drawnMobs[p]
<1>0. drawnMobs \in [Player -> SUBSET Monster]
  BY DEF TypeOK
<1>1. ASSUME drawnMobs' = drawnMobs PROVE Goal
  BY <1>1
<1>2. ASSUME SendViewChange PROVE Goal
  <2>1. CASE e.who \in OnMap
    BY <1>0, <1>2, <2>1 DEF SendViewChange
  <2>2. CASE e.who \notin OnMap
    BY <1>2, <2>2 DEF SendViewChange, screens
  <2> QED BY <2>1, <2>2
<1>3. \A clients, n : /\ Erase(drawnMobs, clients, n)[p] \subseteq drawnMobs[p]
                      /\ p \notin clients => Draw(drawnMobs, clients, n)[p] = drawnMobs[p]
  BY DEF Erase, Draw
<1>4. ASSUME SendCreatureMove PROVE Goal
  <2>1. PICK was, is, without :
          /\ is \subseteq OnMap /\ without = Erase(drawnMobs, was \ is, e.mob)
          /\ \/ drawnMobs' = drawnMobs \/ drawnMobs' = without
             \/ drawnMobs' = Draw(without, is \ was, e.mob)
    <3> DEFINE was == {q \in OnMap : IsNeighboring(ZoneOf(place[q]), ZoneOf(e.from))}
               is == {q \in OnMap : IsNeighboring(ZoneOf(place[q]), ZoneOf(e.to))}
               without == Erase(drawnMobs, was \ is, e.mob)
    <3>1. /\ is \subseteq OnMap
          /\ \/ drawnMobs' = drawnMobs \/ drawnMobs' = without
             \/ drawnMobs' = Draw(without, is \ was, e.mob)
      BY <1>4 DEF SendCreatureMove
    <3> HIDE DEF was, is
    <3> QED BY <3>1
  <2>2. without[p] \subseteq drawnMobs[p]
    BY <1>3, <2>1
  <2>3. Draw(without, is \ was, e.mob)[p] = without[p]
    BY <2>1 DEF Draw
  <2> QED BY <2>1, <2>2, <2>3
<1>5. ASSUME SendCreatureRespawn PROVE Goal
  <2>1. mob[e.mob].at \in Tile
    BY <1>5, NewsDispatched, EventFields DEF SendCreatureRespawn, TypeOK, Mob
  <2>2. p \notin ViewersOf(mob[e.mob].at)
    BY <2>1, ZoneType DEF ViewersOf, IndexMatchesPlaces
  <2> QED BY <1>1, <1>3, <1>5, <2>2 DEF SendCreatureRespawn
<1>6. ASSUME SendPlayerAttackResult PROVE Goal
  BY <1>1, <1>3, <1>6 DEF SendPlayerAttackResult
<1>7. ASSUME SendCharMove \/ SendCharRemove \/ SendCharacterDataLoad \/ IgnoreAttackRequest
             \/ SendMonsterKilled \/ SendItemMapNew \/ SendItemMapRemove
      PROVE  Goal
  BY <1>1, <1>7 DEF SendCharMove, SendCharRemove, SendCharacterDataLoad, IgnoreAttackRequest,
    SendMonsterKilled, SendItemMapNew, SendItemMapRemove, screens
<1> HIDE DEF Goal
<1>8. Goal
  BY <1>2, <1>4, <1>5, <1>6, <1>7 DEF Dispatch
<1> QED BY <1>8 DEF Goal

(* The dispatch of any event.                                              *)
LEMMA DispatchKeepsMobs ==
  ASSUME TypeOK, IndexMatchesPlaces, MobsInv, Dispatch
  PROVE  MobsInv'
<1>1. PICK kind : Dispatching(kind)
  BY DispatchesOne
<1>2. /\ place' = place /\ mob' = mob /\ phase = "events" /\ phase' = phase /\ log' = log
      /\ MobsDue /\ NewsOfMobs /\ UnbornBlind
  BY <1>1 DEF Dispatching, MobsInv
<1>3. Strays' = Strays /\ Untrue' = Untrue
  BY <1>2 DEF Strays, Untrue, Alive
<1>4. Head(batch) \notin Strays \cup Untrue
  <2>1. News \in Seq(Event) /\ News # <<>> /\ Head(News) = Head(batch)
    BY <1>1, NewsType, NewsDispatched
  <2>2. Len(News) \in Nat /\ Len(News) >= 1 /\ Head(News) = News[1]
    BY <2>1, TailAt
  <2>3. 1 \in 1..Len(News)
    BY <2>2
  <2> QED BY <1>2, <2>1, <2>2, <2>3 DEF NewsOfMobs, Comes
<1>5. NewsOfMobs'
  <2>1. ~Comes(News', Strays) /\ ~Comes(News', Untrue)
    BY <1>1, <1>2, ComesDispatched DEF NewsOfMobs
  <2> QED BY <1>2, <1>3, <2>1 DEF NewsOfMobs
<1>6. UnbornBlind'
  <2> SUFFICES ASSUME NEW q \in Player, place[q] = Unborn
               PROVE  drawnMobs'[q] = {} /\ ~Comes(News', ZoneNews(q))
    BY <1>2 DEF UnbornBlind, ZoneNews
  <2>1. drawnMobs[q] = {} /\ ~Comes(News, ZoneNews(q))
    BY <1>2 DEF UnbornBlind
  <2>2. drawnMobs'[q] \subseteq drawnMobs[q]
    BY PlaceTypes, DispatchDrawsOnMap DEF OnMap
  <2> QED BY <1>1, <2>1, <2>2, ComesDispatched
<1>7. MobsDue'
  <2> SUFFICES ASSUME NEW p \in OnMap, NEW m \in Monster
               PROVE  Due(News', DrawnRight(p, m)', Spoils(p, m)', Mends(p, m)')
    BY <1>2 DEF MobsDue, OnMap
  <2>1. Spoils(p, m)' = Spoils(p, m) /\ Mends(p, m)' = Mends(p, m)
    <3>1. Alive(m)' <=> Alive(m)
      BY <1>2 DEF Alive
    <3>2. ZoneOf(mob'[m].at) = ZoneOf(mob[m].at) /\ place'[p] = place[p]
      BY <1>2
    <3> QED BY <3>1, <3>2, MobKept
  <2>2. PICK done, after : done = DrawnRight(p, m) /\ after = DrawnRight(p, m)'
    OBVIOUS
  <2>3. done \in BOOLEAN /\ after \in BOOLEAN /\ Due(News, done, Spoils(p, m), Mends(p, m))
    BY <1>2, <2>2 DEF MobsDue, DrawnRight
  <2>4. /\ Head(batch) \in Mends(p, m) => after
        /\ Head(batch) \notin Mends(p, m) /\ Head(batch) \notin Spoils(p, m) /\ done => after
    BY <1>4, <2>2, DispatchDrawsMobs
  <2>5. Due(News', after, Spoils(p, m), Mends(p, m))
    BY <1>1, <2>3, <2>4, DueDispatched
  <2> QED BY <2>1, <2>2, <2>5
<1> QED BY <1>5, <1>6, <1>7 DEF MobsInv

(* A step that neither says anything nor touches a monster, a place or a   *)
(* screen, but where it makes the news those of the next phase.            *)
LEMMA StillKeepsMobs ==
  ASSUME MobsInv, place' = place, mob' = mob, drawnMobs' = drawnMobs, News' = News,
         phase' = "events" => log' = <<>>, phase' = "simulate" => ~Comes(News, Requested)
  PROVE  MobsInv'
<1>1. MobsDue /\ NewsOfMobs /\ UnbornBlind
  BY DEF MobsInv
<1>2. NewsOfMobs'
  <2>1. Strays' = Strays /\ Untrue' = Untrue /\ Requested' = Requested
    BY DEF Strays, Untrue, Alive, Requested
  <2> QED BY <1>1, <2>1 DEF NewsOfMobs
<1>3. UnbornBlind'
  BY <1>1 DEF UnbornBlind, ZoneNews
<1>4. MobsDue'
  <2> SUFFICES ASSUME NEW p \in OnMap, NEW m \in Monster
               PROVE  Due(News, DrawnRight(p, m)', Spoils(p, m)', Mends(p, m)')
    BY DEF MobsDue, OnMap
  <2>1. (Alive(m)' <=> Alive(m)) /\ (m \in drawnMobs'[p] <=> m \in drawnMobs[p])
    BY DEF Alive
  <2>2. Spoils(p, m)' = Spoils(p, m) /\ Mends(p, m)' = Mends(p, m)
    BY <2>1, MobKept
  <2>3. DrawnRight(p, m)' = DrawnRight(p, m)
    BY <2>1 DEF DrawnRight, Beside, Near, Alive
  <2> QED BY <1>1, <2>2, <2>3 DEF MobsDue
<1> QED BY <1>2, <1>3, <1>4 DEF MobsInv

(* A step about items.                                                     *)
LEMMA ItemsKeepMobs ==
  ASSUME TypeOK, MobsInv, NEW d \in Drop,
         SpawnDrop(d) \/ ClaimDrop(d) \/ PutDropBack(d) \/ Expire(d)
  PROVE  MobsInv'
<1>1. /\ place' = place /\ mob' = mob /\ drawnMobs' = drawnMobs /\ phase' = phase
      /\ phase # "events"
  <2>1. CASE SpawnDrop(d) \/ ClaimDrop(d) \/ PutDropBack(d)
    BY <2>1 DEF SpawnDrop, ClaimDrop, PutDropBack, Handling, screens
  <2>2. CASE Expire(d)
    BY <2>2 DEF Expire, screens
  <2> QED BY <2>1, <2>2
<1>2. PICK es \in Seq(Event) : /\ News' = News \o es
                               /\ \A i \in 1..Len(es) : es[i].kind \in {"drop add", "drop remove"}
  BY ItemsTell DEF Tells
<1>3. PICK events : events = {es[i] : i \in 1..Len(es)}
  OBVIOUS
<1>4. Says(events)
  BY <1>2, <1>3 DEF Says
<1>5. \A q : /\ events \cap ZoneNews(q) = {} /\ events \cap Strays = {}
             /\ events \cap Untrue' = {} /\ events \cap Requested = {}
  <2>1. \A e \in events : e.kind \in {"drop add", "drop remove"}
    BY <1>2, <1>3
  <2> QED BY <2>1 DEF ZoneNews, Strays, Untrue, Requested
<1>6. NewsOfMobs'
  <2>1. Untrue' = Untrue
    BY <1>1 DEF Untrue, Alive
  <2> QED BY <1>1, <1>4, <1>5, <2>1, NewsOfMobsSaid DEF MobsInv
<1>7. UnbornBlind'
  <2> SUFFICES ASSUME NEW q \in Player, place[q] = Unborn
               PROVE  drawnMobs[q] = {} /\ ~Comes(News', ZoneNews(q))
    BY <1>1 DEF UnbornBlind, ZoneNews
  <2> QED BY <1>4, <1>5, ComesSaid DEF UnbornBlind, MobsInv
<1>8. MobsDue'
  <2> SUFFICES ASSUME NEW p \in OnMap, NEW m \in Monster
               PROVE  Due(News', DrawnRight(p, m)', Spoils(p, m)', Mends(p, m)')
    BY <1>1 DEF MobsDue, OnMap
  <2>1. /\ (Alive(m)' <=> Alive(m)) /\ ZoneOf(mob'[m].at) = ZoneOf(mob[m].at)
        /\ place'[p] = place[p] /\ (m \in drawnMobs'[p] <=> m \in drawnMobs[p])
    BY <1>1 DEF Alive
  <2> QED BY <1>4, <1>5, <2>1, MobDueKept DEF MobsInv
<1> QED BY <1>6, <1>7, <1>8 DEF MobsInv

(* Every step leaves what clients should draw of the monsters due, as long *)
(* as these stay in their zones.                                           *)
LEMMA MobsNext ==
  TypeOK /\ BatchDone /\ IndexMatchesPlaces /\ MobsInv /\ [Next]_vars /\ [Stays]_vars => MobsInv'
<1> SUFFICES ASSUME TypeOK, BatchDone, IndexMatchesPlaces, MobsInv, [Next]_vars, [Stays]_vars
             PROVE  MobsInv'
  OBVIOUS
<1>1. ASSUME NEW p \in Player, SpawnPlayer(p) \/ DespawnPlayer(p) \/ Move(p) PROVE MobsInv'
  BY <1>1, SpawnKeepsMobs, DespawnKeepsMobs, MoveKeepsMobs
<1>2. ASSUME NEW p \in Player, NEW m \in Monster, Attack(p, m) PROVE MobsInv'
  BY <1>2, AttackKeepsMobs
<1>3. ASSUME NEW d \in Drop, SpawnDrop(d) \/ ClaimDrop(d) \/ PutDropBack(d) \/ Expire(d)
      PROVE  MobsInv'
  BY <1>3, ItemsKeepMobs
<1>4. CASE Dispatch
  BY <1>4, DispatchKeepsMobs
<1>5. ASSUME NEW m \in Monster, TickRespawn(m) PROVE MobsInv'
  <2>1. CASE mob' = mob /\ log' = log
    <3>1. /\ place' = place /\ drawnMobs' = drawnMobs /\ News' = News /\ phase = "simulate"
          /\ phase' = phase
      BY <1>5, <2>1 DEF TickRespawn, Ticking, screens, News
    <3>2. ~Comes(News, Requested)
      BY <3>1 DEF MobsInv, NewsOfMobs
    <3> QED BY <2>1, <3>1, <3>2, StillKeepsMobs
  <2>2. CASE mob' # mob
    BY <1>5, <2>2, RespawnKeepsMobs
  <2>3. mob' = mob => log' = log
    <3>1. CASE mob[m].hp = 0 /\ mob'[m].hp = MaxHp
      BY <3>1
    <3> QED BY <1>5, <3>1, RespawnSays
  <2> QED BY <2>1, <2>2, <2>3
<1>6. ASSUME NEW m \in Monster, TickCreatureAi(m) PROVE MobsInv'
  <2>1. UNCHANGED vars => unticked' = unticked
    BY DEF vars, bus
  <2>2. Stays
    BY <1>6, <2>1 DEF TickCreatureAi, Ticking
  <2> QED BY <1>6, <2>2, ThinkKeepsMobs
<1>7. CASE BeginDispatch
  <2>1. batch = <<>> /\ batch' = log /\ log' = <<>> /\ log \in Seq(Event)
    BY <1>7 DEF BeginDispatch, BatchDone, TypeOK
  <2>2. News' = News
    BY <2>1, ConcatEmptySeq DEF News
  <2> QED BY <1>7, <2>1, <2>2, StillKeepsMobs DEF BeginDispatch, ground, screens
<1>8. CASE BeginSimulation
  <2>1. batch = <<>> /\ log = <<>> /\ News' = News
    BY <1>8 DEF BeginSimulation, News, MobsInv, NewsOfMobs
  <2>2. Len(News) = 0
    BY <2>1, EmptySeq, ConcatEmptySeq DEF News
  <2>3. ~Comes(News, Requested)
    BY <2>2 DEF Comes
  <2> QED BY <1>8, <2>1, <2>3, StillKeepsMobs DEF BeginSimulation, ground, screens
<1>9. CASE EndTick
  BY <1>9, StillKeepsMobs DEF EndTick, ground, screens, News
<1>10. CASE UNCHANGED vars
  <2>1. /\ place' = place /\ mob' = mob /\ drawnMobs' = drawnMobs /\ News' = News
        /\ log' = log /\ phase' = phase
    BY <1>10 DEF vars, ground, bus, screens, News
  <2>2. (phase = "events" => log = <<>>) /\ (phase = "simulate" => ~Comes(News, Requested))
    BY DEF MobsInv, NewsOfMobs
  <2> QED BY <2>1, <2>2, StillKeepsMobs
<1> QED BY <1>1, <1>2, <1>3, <1>4, <1>5, <1>6, <1>7, <1>8, <1>9, <1>10 DEF Next, Handle, Simulate

(* Where monsters stay in their zones while they live, the promise of the  *)
(* dispatch order is kept of them too: once a tick's events are dispatched *)
(* every client draws exactly the living monsters in its view, whatever    *)
(* players came, went and changed zones, whoever killed which monster      *)
(* meanwhile and wherever it came back to life. Only a step of a living    *)
(* monster into another zone breaks it, by a message decided from where    *)
(* the players stand when it is dispatched.                                *)
THEOREM MonstersInViewAreShownCorrect == Spec /\ StaysInZone => []MonstersInViewAreShown
<1> DEFINE Inv == BatchDone /\ IndexMatchesPlaces /\ MobsInv
<1>1. Init => Inv
  <2> SUFFICES ASSUME Init PROVE Inv
    OBVIOUS
  <2>1. OnMap = {} /\ log = <<>> /\ phase = "requests"
    BY DEF Init, OnMap, Tile
  <2>2. BatchDone /\ IndexMatchesPlaces
    BY <2>1 DEF Init, BatchDone, IndexMatchesPlaces
  <2>3. \A S : ~Comes(News, S)
    <3>1. News = <<>>
      BY EmptySeq, ConcatEmptySeq DEF Init, News
    <3>2. Len(News) = 0
      BY <3>1, EmptySeq
    <3> QED BY <3>2 DEF Comes
  <2>4. NewsOfMobs /\ UnbornBlind /\ MobsDue
    BY <2>1, <2>3 DEF Init, NewsOfMobs, UnbornBlind, MobsDue
  <2> QED BY <2>2, <2>4 DEF MobsInv
<1>2. TypeOK /\ Inv /\ [Next]_vars /\ [Stays]_vars => Inv'
  BY BatchNext, IndexNext, MobsNext
<1>3. TypeOK /\ Inv => MonstersInViewAreShown
  <2> SUFFICES ASSUME MobsInv, Quiet, NEW p \in OnMap, NEW m \in Monster
               PROVE  mob[m].hp > 0 => (m \in drawnMobs[p] <=> Near(p, mob[m].at))
    BY DEF MonstersInViewAreShown, Near
  <2>1. PICK done : done = DrawnRight(p, m)
    OBVIOUS
  <2>2. Due(News, done, Spoils(p, m), Mends(p, m)) /\ done \in BOOLEAN
    BY <2>1 DEF MobsInv, MobsDue, DrawnRight
  <2>3. Len(News) = 0
    <3>1. News = <<>>
      BY EmptySeq, ConcatEmptySeq DEF Quiet, News
    <3> QED BY <3>1, EmptySeq
  <2>4. done
    BY <2>2, <2>3 DEF Due, Comes
  <2> QED BY <2>1, <2>4 DEF DrawnRight, Alive, Beside
<1>4. StaysInZone <=> [][Stays]_vars
  BY DEF StaysInZone, Stays
<1> HIDE DEF Inv
<1> QED BY <1>1, <1>2, <1>3, <1>4, TypeInvariant, PTL DEF Spec
=============================================================================
