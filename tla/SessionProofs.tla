---------------------------- MODULE SessionProofs ----------------------------
(***************************************************************************)
(* Proofs about Session, for any sets of connections, characters and       *)
(* places and any bounds on frames and faults.                             *)
(***************************************************************************)
EXTENDS Session, SequenceTheorems, TLAPS

(* Membership in the message types, field by field.                        *)

LEMMA RequestFields ==
  ASSUME NEW r \in Request
  PROVE  /\ r.conn \in Conn
         /\ r.kind \in {"connect", "disconnect", "sell", "exit", "enter", "move"}
         /\ r.kind = "enter" => r.char \in Char
         /\ r.kind = "move" => r.to \in Place
BY DEF Request

LEMMA JobFields ==
  ASSUME NEW j \in Job
  PROVE  /\ j.conn \in Conn
         /\ j.char \in Char
         /\ j.kind \in {"load", "sell", "save"}
         /\ j.kind = "save" => j.pos \in Place
BY DEF Job

LEMMA CallbackFields ==
  ASSUME NEW d \in Callback
  PROVE  /\ d.conn \in Conn
         /\ d.kind \in {"loaded", "sold", "done"}
         /\ d.kind = "loaded" => d.char \in Char /\ d.row \in Row
         /\ d.kind = "sold" => d.char \in Char /\ d.money \in Nat
BY DEF Callback

(* Head and Tail of a non-empty queue, and what Append adds.               *)

LEMMA TakeHead ==
  ASSUME NEW S, NEW s \in Seq(S), s # <<>>
  PROVE  Head(s) \in S /\ Tail(s) \in Seq(S)
BY HeadTailProperties

(* Players keep their type under the two updates the handlers make.         *)

LEMMA MovedPlayer ==
  ASSUME NEW p \in Player, NEW to \in Place
  PROVE  /\ [p EXCEPT !.row.pos = to] \in Player
         /\ [p EXCEPT !.row.pos = to].inst = p.inst
         /\ [p EXCEPT !.row.pos = to].conn = p.conn
         /\ [p EXCEPT !.row.pos = to].char = p.char
<1> DEFINE r == [p.row EXCEPT !.pos = to]
<1>1. p.row \in Row /\ r \in Row
  BY DEF Player, Row
<1>2. [p EXCEPT !.row.pos = to] = [p EXCEPT !.row = r]
  OBVIOUS
<1> HIDE DEF r
<1>3. [p EXCEPT !.row = r] \in Player
  BY <1>1 DEF Player
<1> QED BY <1>2, <1>3 DEF Player

LEMMA PaidPlayer ==
  ASSUME NEW p \in Player, NEW money \in Nat
  PROVE  /\ [p EXCEPT !.row = [@ EXCEPT !.slot = FALSE, !.money = money]] \in Player
         /\ [p EXCEPT !.row = [@ EXCEPT !.slot = FALSE, !.money = money]].inst = p.inst
         /\ [p EXCEPT !.row = [@ EXCEPT !.slot = FALSE, !.money = money]].conn = p.conn
         /\ [p EXCEPT !.row = [@ EXCEPT !.slot = FALSE, !.money = money]].char = p.char
<1> DEFINE r == [p.row EXCEPT !.slot = FALSE, !.money = money]
<1>1. p.row \in Row /\ r \in Row
  BY DEF Player, Row
<1> HIDE DEF r
<1>2. [p EXCEPT !.row = r] \in Player
  BY <1>1 DEF Player
<1> QED BY <1>2 DEF Player, r

(* What may be appended to each queue.                                     *)

LEMMA AppendType ==
  ASSUME NEW S, NEW s \in Seq(S), NEW e \in S
  PROVE  Append(s, e) \in Seq(S)
BY AppendProperties

LEMMA RunType ==
  ASSUME jobs \in Seq(Job), NEW job \in Job, Run(job)
  PROVE  jobs' \in Seq(Job)
BY AppendType DEF Run

LEMMA PostType ==
  ASSUME callbacks \in Seq(Callback), NEW done \in Callback, Post(done)
  PROVE  callbacks' \in Seq(Callback)
BY AppendType DEF Post

LEMMA NewJobs ==
  ASSUME NEW c \in Conn, NEW ch \in Char
  PROVE  /\ [kind |-> "load", conn |-> c, char |-> ch] \in Job
         /\ [kind |-> "sell", conn |-> c, char |-> ch] \in Job
         /\ \A to \in Place :
              [kind |-> "save", conn |-> c, char |-> ch, pos |-> to] \in Job
BY DEF Job

LEMMA NewCallbacks ==
  ASSUME NEW c \in Conn
  PROVE  /\ [kind |-> "done", conn |-> c] \in Callback
         /\ \A ch \in Char, row \in Row :
              [kind |-> "loaded", conn |-> c, char |-> ch, row |-> row] \in Callback
         /\ \A ch \in Char, money \in Nat :
              [kind |-> "sold", conn |-> c, char |-> ch, money |-> money] \in Callback
BY DEF Callback

LEMMA TypeInit == SessionAssumption /\ Init => TypeOK
<1> SUFFICES ASSUME Init PROVE TypeOK
  OBVIOUS
<1>1. db \in [Char -> Row]
  <2>1. [pos : Place, slot : {TRUE}, money : {0}] \subseteq Row
    <3>1. {TRUE} \subseteq BOOLEAN /\ {0} \subseteq Nat
      OBVIOUS
    <3> QED BY <3>1, Zenon DEF Row
  <2> QED BY <2>1 DEF Init
<1>2. net \in [Conn -> {"fresh", "open", "closed"}] /\ frames \in [Conn -> Nat]
  BY DEF Init
<1>3. ingress \in Seq(Request) /\ batch \in Seq(Request)
  BY DEF Init
<1>4. jobs \in Seq(Job) /\ callbacks \in Seq(Callback)
  BY DEF Init
<1> QED BY <1>1, <1>2, <1>3, <1>4 DEF Init, TypeOK

LEMMA TypeNext == SessionAssumption /\ TypeOK /\ [Next]_vars => TypeOK'
<1> SUFFICES ASSUME SessionAssumption, TypeOK, [Next]_vars PROVE TypeOK'
  OBVIOUS
<1> USE SessionAssumption
<1>a. batch # <<>> => Head(batch) \in Request /\ Tail(batch) \in Seq(Request)
  BY TakeHead DEF TypeOK
<1>b. jobs # <<>> => Head(jobs) \in Job /\ Tail(jobs) \in Seq(Job)
  BY TakeHead DEF TypeOK
<1>c. callbacks # <<>> => Head(callbacks) \in Callback /\ Tail(callbacks) \in Seq(Callback)
  BY TakeHead DEF TypeOK
<1>1. ASSUME NEW c \in Conn, Accept(c) PROVE TypeOK'
  BY <1>1 DEF TypeOK, Accept, Receive, Request, memory
<1>2. ASSUME NEW c \in Conn, OnFrame(c) PROVE TypeOK'
  <2>1. ClientFrame(c) \subseteq Request
    BY DEF ClientFrame, Request, SessionAssumption
  <2>2. ingress' \in Seq(Request)
    BY <1>2, <2>1 DEF TypeOK, OnFrame, Receive
  <2> QED BY <1>2, <2>2 DEF TypeOK, OnFrame, memory
<1>3. ASSUME NEW c \in Conn, HangUp(c) PROVE TypeOK'
  BY <1>3 DEF TypeOK, HangUp, Receive, Request, memory
<1>4. CASE DrainIngress
  BY <1>4 DEF TypeOK, DrainIngress, memory
<1>5. CASE HandleConnect
  BY <1>5, <1>a, RequestFields DEF TypeOK, HandleConnect, Handling
<1>6. CASE HandleEnter
  <2>1. jobs' \in Seq(Job)
    BY <1>6, <1>a, RequestFields DEF TypeOK, HandleEnter, Handling, Run, Job
  <2> QED BY <1>6, <1>a, <2>1 DEF TypeOK, HandleEnter, Handling, memory
<1>7. CASE DropPlayerMessage
  BY <1>7, <1>a DEF TypeOK, DropPlayerMessage, Handling, memory
<1>8. CASE HandleMovement
  <2>1. PICK p \in FindPlayer(Head(batch).conn) :
              Update(p, [p EXCEPT !.row.pos = Head(batch).to])
    BY <1>8 DEF HandleMovement
  <2>2. p \in Player /\ Head(batch).to \in Place
    BY <1>8, <1>a, RequestFields, <2>1 DEF TypeOK, HandleMovement, Handling, FindPlayer
  <2>3. [p EXCEPT !.row.pos = Head(batch).to] \in Player
    BY <2>2, MovedPlayer
  <2> QED BY <1>8, <1>a, <2>1, <2>3 DEF TypeOK, HandleMovement, Handling, Update
<1>9. CASE HandleItemTradeSell
  <2>1. jobs' \in Seq(Job)
    <3>1. PICK p \in FindPlayer(Head(batch).conn) :
            IF p.row.slot
              THEN Run([kind |-> "sell", conn |-> Head(batch).conn, char |-> p.char])
              ELSE UNCHANGED jobs
      BY <1>9 DEF HandleItemTradeSell
    <3>2. Head(batch).conn \in Conn /\ p.char \in Char
      BY <1>9, <1>a, <3>1, RequestFields
      DEF TypeOK, HandleItemTradeSell, Handling, FindPlayer, Player
    <3>3. [kind |-> "sell", conn |-> Head(batch).conn, char |-> p.char] \in Job
      BY <3>2, NewJobs
    <3> QED BY <3>1, <3>3, RunType DEF TypeOK
  <2> QED BY <1>9, <1>a, <2>1 DEF TypeOK, HandleItemTradeSell, Handling, memory
<1>10. CASE HandleCgExit
  <2> DEFINE c == Head(batch).conn
  <2>1. c \in Conn /\ batch' \in Seq(Request) /\ connections' \subseteq Conn
    BY <1>10, <1>a, RequestFields
    DEF TypeOK, HandleCgExit, Handling, ConnectionsAfterExit
  <2>2. CASE ~ConnectionIsIn(c)
    BY <1>10, <2>1, <2>2 DEF TypeOK, HandleCgExit, Handling
  <2>3. CASE ConnectionIsIn(c)
    <3>1. PICK p \in FindPlayer(c) :
            /\ Leave(c, p)
            /\ Run([kind |-> "save", conn |-> c, char |-> p.char, pos |-> p.row.pos])
      BY <1>10, <2>3 DEF HandleCgExit
    <3>2. p \in Player
      BY <3>1 DEF FindPlayer, TypeOK
    <3>3. jobs' \in Seq(Job)
      BY <2>1, <3>1, <3>2 DEF Run, Job, Player, Row, TypeOK
    <3>4. /\ byConn' \in [Conn -> PlayerRef \cup {None}]
          /\ byChar' \in [Char -> Conn \cup {None}]
          /\ pool' \subseteq Player
          /\ left' \in [Char -> Place \cup {None}]
      BY <3>1, <3>2 DEF Leave, TypeOK, Player, Row
    <3> QED BY <1>10, <2>1, <3>3, <3>4 DEF TypeOK, HandleCgExit, Handling
  <2> QED BY <2>2, <2>3
<1>11. CASE RunLoad
  <2>1. callbacks' \in Seq(Callback)
    <3>1. /\ Head(jobs).conn \in Conn /\ Head(jobs).char \in Char
          /\ db[Head(jobs).char] \in Row
      BY <1>11, <1>b, JobFields DEF TypeOK, RunLoad, Running
    <3>2. CASE Post([kind |-> "loaded", conn |-> Head(jobs).conn,
                     char |-> Head(jobs).char, row |-> db[Head(jobs).char]])
      BY <3>1, <3>2, NewCallbacks, PostType DEF TypeOK
    <3>3. CASE Post([kind |-> "done", conn |-> Head(jobs).conn])
      BY <3>1, <3>3, NewCallbacks, PostType DEF TypeOK
    <3> QED BY <1>11, <3>2, <3>3 DEF RunLoad
  <2> QED BY <1>11, <1>b, <2>1 DEF TypeOK, RunLoad, Running, memory
<1>12. CASE RunSell
  <2> DEFINE ch == Head(jobs).char
  <2>1. ch \in Char /\ Head(jobs).conn \in Conn /\ jobs' \in Seq(Job) /\ db[ch] \in Row
    BY <1>12, <1>b, JobFields DEF TypeOK, RunSell, Running
  <2>2. Credit(db[ch].money) \in Nat
    BY <2>1 DEF Credit, Row
  <2>3. Sold(db[ch]) \in Row
    BY <2>1, <2>2 DEF Row, Sold
  <2>4. db' \in [Char -> Row]
    BY <1>12, <2>1, <2>3 DEF TypeOK, RunSell
  <2>5. callbacks' \in Seq(Callback)
    <3>1. CASE Post([kind |-> "sold", conn |-> Head(jobs).conn, char |-> ch,
                     money |-> Credit(db[ch].money)])
      BY <3>1, <2>1, <2>2, NewCallbacks, PostType DEF TypeOK
    <3>2. CASE Post([kind |-> "done", conn |-> Head(jobs).conn])
      BY <3>2, <2>1, NewCallbacks, PostType DEF TypeOK
    <3> QED BY <1>12, <3>1, <3>2 DEF RunSell
  <2> QED BY <1>12, <2>1, <2>4, <2>5 DEF TypeOK, RunSell, Running, memory
<1>13. CASE RunSavePosition
  <2>1. /\ Head(jobs).conn \in Conn /\ Head(jobs).char \in Char
        /\ Head(jobs).pos \in Place
    BY <1>13, <1>b, JobFields DEF RunSavePosition, Running
  <2>2. [db[Head(jobs).char] EXCEPT !.pos = Head(jobs).pos] \in Row
    <3>1. db[Head(jobs).char] \in Row
      BY <2>1 DEF TypeOK
    <3> QED BY <2>1, <3>1 DEF Row
  <2>3. db' \in [Char -> Row]
    BY <1>13, <2>1, <2>2 DEF TypeOK, RunSavePosition
  <2>4. callbacks' \in Seq(Callback)
    BY <1>13, <2>1, NewCallbacks, PostType DEF TypeOK, RunSavePosition
  <2> QED BY <1>13, <1>b, <2>3, <2>4 DEF TypeOK, RunSavePosition, Running, memory
<1>14. CASE JobThrows
  <2>1. callbacks' \in Seq(Callback)
    BY <1>14, <1>b, JobFields, NewCallbacks, PostType DEF TypeOK, JobThrows, Running
  <2> QED BY <1>14, <1>b, <2>1 DEF TypeOK, JobThrows, Running, memory
<1>15. CASE OnLoaded
  <2> DEFINE d == Head(callbacks)
             new == [inst |-> nextInst, conn |-> d.conn, char |-> d.char, row |-> d.row]
  <2>1. /\ d.conn \in Conn /\ d.char \in Char /\ d.row \in Row
        /\ callbacks' \in Seq(Callback)
    BY <1>15, <1>c, CallbackFields DEF OnLoaded, Calling
  <2>2. new \in Player /\ [inst |-> nextInst, char |-> d.char] \in PlayerRef
    BY <2>1 DEF Player, PlayerRef, TypeOK
  <2>3. CASE Join(d.conn, d.char, d.row) /\ nextInst' = nextInst + 1
    BY <1>15, <2>1, <2>2, <2>3 DEF TypeOK, OnLoaded, Calling, Join
  <2>4. CASE UNCHANGED <<byConn, byChar, pool>> /\ nextInst' \in {nextInst, nextInst + 1}
    BY <1>15, <2>1, <2>4 DEF TypeOK, OnLoaded, Calling
  <2> QED BY <1>15, <2>3, <2>4 DEF OnLoaded
<1>16. CASE OnSold
  <2> DEFINE d == Head(callbacks)
  <2>1. d.conn \in Conn /\ d.money \in Nat /\ callbacks' \in Seq(Callback)
    BY <1>16, <1>c, CallbackFields DEF OnSold, Calling
  <2>2. ASSUME NEW p \in FindPlayer(d.conn)
        PROVE  [p EXCEPT !.row = [@ EXCEPT !.slot = FALSE, !.money = d.money]]
                 \in Player
    BY <2>1, PaidPlayer DEF FindPlayer, TypeOK
  <2>3. pool' \subseteq Player
    <3>1. CASE UNCHANGED pool
      BY <3>1 DEF TypeOK
    <3>2. CASE FindPlayer(d.conn) # {}
      <4> DEFINE paid(p) == [p EXCEPT !.row = [@ EXCEPT !.slot = FALSE,
                                                        !.money = d.money]]
      <4>1. PICK p \in FindPlayer(d.conn) : Update(p, paid(p))
        BY <1>16, <3>2 DEF OnSold
      <4>2. paid(p) \in Player
        BY <4>1, <2>2
      <4> HIDE DEF paid
      <4> QED BY <4>1, <4>2 DEF Update, TypeOK
    <3> QED BY <1>16, <3>1, <3>2 DEF OnSold
  <2> QED BY <1>16, <2>1, <2>3 DEF TypeOK, OnSold, Calling
<1>17. CASE OnDone
  BY <1>17, <1>c DEF TypeOK, OnDone, Calling
<1>18. CASE UNCHANGED vars
  BY <1>18 DEF TypeOK, vars, queues, memory
<1> QED
  BY <1>1, <1>2, <1>3, <1>4, <1>5, <1>6, <1>7, <1>8, <1>9, <1>10, <1>11, <1>12,
     <1>13, <1>14, <1>15, <1>16, <1>17, <1>18
  DEF Next, Tick, RunJob, RunCallback

\* Every variable keeps its type.
THEOREM TypeCorrect == Spec => []TypeOK
BY SessionAssumption, TypeInit, TypeNext, PTL DEF Spec
-----------------------------------------------------------------------------
(* The registries. Instance ids stay below the generator's counter, so the *)
(* player a Join adds is told apart from those already on the maps.        *)

RegistriesInv ==
  /\ RegistriesAgree
  /\ \A p \in pool : p.inst < nextInst

registries == <<byConn, byChar, pool>>

LEMMA RegistriesStutter ==
  ASSUME TypeOK, RegistriesInv, UNCHANGED registries,
         nextInst' \in {nextInst, nextInst + 1}
  PROVE  RegistriesInv'
<1>1. RegistriesAgree'
  BY DEF RegistriesInv, RegistriesAgree, registries
<1>2. \A p \in pool' : p.inst < nextInst'
  BY DEF RegistriesInv, registries, TypeOK, Player
<1> QED BY <1>1, <1>2 DEF RegistriesInv

LEMMA RegistriesUpdate ==
  ASSUME TypeOK, RegistriesInv, NEW p \in pool, NEW q \in Player,
         q.inst = p.inst, q.conn = p.conn, q.char = p.char,
         Update(p, q), UNCHANGED <<byConn, byChar, nextInst>>
  PROVE  RegistriesInv'
<1>1. \A r \in pool' : r = q \/ (r \in pool /\ r # p)
  BY DEF Update
<1>2. \A r \in pool' : r.inst < nextInst'
  BY <1>1 DEF RegistriesInv
<1>3. \A r \in pool' : byConn'[r.conn] = [inst |-> r.inst, char |-> r.char]
  <2>1. byConn[p.conn] = [inst |-> p.inst, char |-> p.char]
    BY DEF RegistriesInv, RegistriesAgree
  <2> QED BY <1>1, <2>1 DEF RegistriesInv, RegistriesAgree
<1>4. \A r, s \in pool' : r.inst = s.inst => r = s
  BY <1>1 DEF RegistriesInv, RegistriesAgree
<1>5. \A c \in Conn : byConn'[c] # None =>
        \E r \in pool' : r.inst = byConn'[c].inst /\ r.conn = c
  BY DEF RegistriesInv, RegistriesAgree, Update
<1> QED BY <1>2, <1>3, <1>4, <1>5 DEF RegistriesInv, RegistriesAgree

LEMMA RegistriesLeave ==
  ASSUME SessionAssumption, TypeOK, RegistriesInv, NEW c \in Conn, ConnectionIsIn(c),
         NEW p \in FindPlayer(c), Leave(c, p), UNCHANGED nextInst
  PROVE  RegistriesInv'
<1>1. /\ p \in Player /\ p \in pool
      /\ byConn[c] # None /\ byConn[c].inst = p.inst /\ byConn[c] \in PlayerRef
  BY DEF FindPlayer, TypeOK
<1>2. byConn[p.conn] = [inst |-> p.inst, char |-> p.char]
  BY <1>1 DEF RegistriesInv, RegistriesAgree
<1>3. p.conn = c /\ byConn[c] = [inst |-> p.inst, char |-> p.char]
  <2>1. PICK r \in pool : r.inst = byConn[c].inst /\ r.conn = c
    BY <1>1 DEF RegistriesInv, RegistriesAgree
  <2>2. r = p
    BY <2>1, <1>1 DEF RegistriesInv, RegistriesAgree
  <2> QED BY <2>1, <2>2, <1>2
<1>4. \A q \in pool : q.conn = c => q = p
  <2> SUFFICES ASSUME NEW q \in pool, q.conn = c PROVE q.inst = p.inst
    BY <1>1 DEF RegistriesInv, RegistriesAgree
  <2>1. byConn[c] = [inst |-> q.inst, char |-> q.char]
    BY DEF RegistriesInv, RegistriesAgree
  <2> QED BY <2>1, <1>1
<1>5. /\ byConn' = [byConn EXCEPT ![c] = None]
      /\ byChar' = [byChar EXCEPT ![p.char] = None]
      /\ pool' = pool \ {p}
  BY <1>3 DEF Leave
<1>6. \A d \in Conn : d # c /\ byConn[d] # None => byConn[d].char # p.char
  BY <1>1, <1>3 DEF RegistriesInv, RegistriesAgree
<1>7. \A d \in Conn : byConn'[d] # None => d # c /\ byConn'[d] = byConn[d]
  BY <1>5 DEF TypeOK
<1>8. \A d \in Conn : byConn'[d] # None => byChar'[byConn'[d].char] = d
  BY <1>5, <1>6, <1>7 DEF RegistriesInv, RegistriesAgree, TypeOK, PlayerRef
<1>9. \A ch \in Char : byChar'[ch] # None =>
        byConn'[byChar'[ch]] # None /\ byConn'[byChar'[ch]].char = ch
  <2> SUFFICES ASSUME NEW ch \in Char, byChar'[ch] # None
               PROVE  byConn'[byChar'[ch]] # None /\ byConn'[byChar'[ch]].char = ch
    OBVIOUS
  <2>1. ch # p.char /\ byChar'[ch] = byChar[ch] /\ byChar[ch] \in Conn
    BY <1>5 DEF TypeOK
  <2>2. byConn[byChar[ch]] # None /\ byConn[byChar[ch]].char = ch
    BY <2>1 DEF RegistriesInv, RegistriesAgree
  <2>3. byChar[ch] # c
    BY <2>1, <2>2, <1>3
  <2> QED BY <2>1, <2>2, <2>3, <1>5 DEF TypeOK
<1>10. \A d \in Conn : byConn'[d] # None =>
         \E q \in pool' : q.inst = byConn'[d].inst /\ q.conn = d
  BY <1>3, <1>5, <1>7 DEF RegistriesInv, RegistriesAgree
<1>11. \A q \in pool' : /\ byConn'[q.conn] = [inst |-> q.inst, char |-> q.char]
                       /\ q.inst < nextInst'
  <2> SUFFICES ASSUME NEW q \in pool'
               PROVE  /\ byConn'[q.conn] = [inst |-> q.inst, char |-> q.char]
                      /\ q.inst < nextInst'
    OBVIOUS
  <2>1. q \in pool /\ q.conn \in Conn
    BY <1>5 DEF TypeOK, Player
  <2>2. q.conn # c
    BY <1>4, <1>5, <2>1
  <2>3. byConn'[q.conn] = byConn[q.conn]
    BY <1>5, <2>1, <2>2 DEF TypeOK
  <2> QED BY <2>1, <2>3, <1>5 DEF RegistriesInv, RegistriesAgree
<1>12. \A q, r \in pool' : q.inst = r.inst => q = r
  BY <1>5 DEF RegistriesInv, RegistriesAgree
<1> QED BY <1>8, <1>9, <1>10, <1>11, <1>12 DEF RegistriesInv, RegistriesAgree

LEMMA RegistriesJoin ==
  ASSUME SessionAssumption, TypeOK, RegistriesInv,
         NEW c \in Conn, NEW ch \in Char, NEW row \in Row,
         CanJoin(c, ch, row), Join(c, ch, row), nextInst' = nextInst + 1
  PROVE  RegistriesInv'
<1> DEFINE new == [inst |-> nextInst, conn |-> c, char |-> ch, row |-> row]
<1>1. byConn[c] = None /\ byChar[ch] = None
  BY DEF CanJoin, IsOnline, ConnectionIsIn
<1>2. /\ byConn' = [byConn EXCEPT ![c] = [inst |-> nextInst, char |-> ch]]
      /\ byChar' = [byChar EXCEPT ![ch] = c]
      /\ pool' = pool \cup {new}
      /\ nextInst \in Nat /\ c # None
  BY DEF Join, TypeOK, SessionAssumption
<1>3. new.inst = nextInst /\ new.conn = c /\ new.char = ch
  OBVIOUS
<1> HIDE DEF new
<1>4. \A p \in pool : p.inst # nextInst /\ p.conn # c /\ p.conn \in Conn
  <2> SUFFICES ASSUME NEW p \in pool
               PROVE  p.inst # nextInst /\ p.conn # c /\ p.conn \in Conn
    OBVIOUS
  <2>1. p \in Player /\ p.inst \in Nat /\ p.char \in Char /\ p.conn \in Conn
    BY DEF TypeOK, Player
  <2>2. p.inst < nextInst
    BY DEF RegistriesInv
  <2>3. byConn[p.conn] = [inst |-> p.inst, char |-> p.char]
    BY DEF RegistriesInv, RegistriesAgree
  <2>4. byConn[p.conn] # None
    BY <2>1, <2>3 DEF SessionAssumption
  <2> QED BY <2>1, <2>2, <2>4, <1>1, <1>2
<1>5. \A d \in Conn : byConn'[d] = IF d = c THEN [inst |-> nextInst, char |-> ch]
                                            ELSE byConn[d]
  BY <1>2 DEF TypeOK
<1>6. \A x \in Char : byChar'[x] = IF x = ch THEN c ELSE byChar[x]
  BY <1>2 DEF TypeOK
<1>7. \A d \in Conn : d # c /\ byConn[d] # None =>
         byConn[d].char \in Char /\ byConn[d].char # ch
  BY <1>1 DEF RegistriesInv, RegistriesAgree, TypeOK, PlayerRef, SessionAssumption
<1>8. \A d \in Conn : byConn'[d] # None => byChar'[byConn'[d].char] = d
  BY <1>5, <1>6, <1>7 DEF RegistriesInv, RegistriesAgree
<1>9. \A x \in Char : byChar'[x] # None =>
        byConn'[byChar'[x]] # None /\ byConn'[byChar'[x]].char = x
  <2> SUFFICES ASSUME NEW x \in Char, byChar'[x] # None
               PROVE  byConn'[byChar'[x]] # None /\ byConn'[byChar'[x]].char = x
    OBVIOUS
  <2>1. CASE x = ch
    <3>1. byChar'[x] = c /\ byConn'[c].char = ch
      BY <1>5, <1>6, <2>1
    <3>2. byConn'[c] # None
      BY <1>2, <1>5 DEF SessionAssumption
    <3> QED BY <2>1, <3>1, <3>2
  <2>2. CASE x # ch
    <3>1. byChar'[x] = byChar[x] /\ byChar[x] \in Conn /\ byChar[x] # None
      BY <1>6, <2>2 DEF TypeOK
    <3>2. byConn[byChar[x]] # None /\ byConn[byChar[x]].char = x
      BY <3>1 DEF RegistriesInv, RegistriesAgree
    <3> QED BY <3>1, <3>2, <1>1, <1>5
  <2> QED BY <2>1, <2>2
<1>10. \A d \in Conn : byConn'[d] # None =>
         \E q \in pool' : q.inst = byConn'[d].inst /\ q.conn = d
  BY <1>2, <1>3, <1>5 DEF RegistriesInv, RegistriesAgree
<1>11. \A q \in pool' : /\ byConn'[q.conn] = [inst |-> q.inst, char |-> q.char]
                       /\ q.inst < nextInst'
  <2> SUFFICES ASSUME NEW q \in pool'
               PROVE  /\ byConn'[q.conn] = [inst |-> q.inst, char |-> q.char]
                      /\ q.inst < nextInst'
    OBVIOUS
  <2>1. CASE q = new
    BY <1>2, <1>3, <1>5, <2>1
  <2>2. CASE q \in pool
    <3>1. q.inst < nextInst /\ q.inst \in Nat
      BY <2>2 DEF RegistriesInv, TypeOK, Player
    <3>2. byConn[q.conn] = [inst |-> q.inst, char |-> q.char]
      BY <2>2 DEF RegistriesInv, RegistriesAgree
    <3> QED BY <2>2, <3>1, <3>2, <1>2, <1>4, <1>5
  <2> QED BY <1>2, <2>1, <2>2
<1>12. \A q, r \in pool' : q.inst = r.inst => q = r
  BY <1>2, <1>3, <1>4 DEF RegistriesInv, RegistriesAgree
<1> QED BY <1>8, <1>9, <1>10, <1>11, <1>12 DEF RegistriesInv, RegistriesAgree

LEMMA RegistriesNext ==
  SessionAssumption /\ TypeOK /\ RegistriesInv /\ [Next]_vars => RegistriesInv'
<1> SUFFICES ASSUME SessionAssumption, TypeOK, RegistriesInv, [Next]_vars
             PROVE  RegistriesInv'
  OBVIOUS
<1> USE SessionAssumption
<1>1. CASE \/ \E c \in Conn : Accept(c) \/ OnFrame(c) \/ HangUp(c)
           \/ DrainIngress \/ RunJob \/ UNCHANGED vars
  BY <1>1, RegistriesStutter
  DEF Accept, OnFrame, HangUp, DrainIngress, RunJob, RunLoad, RunSell,
      RunSavePosition, JobThrows, Running, vars, memory, registries
<1>2. CASE \/ HandleConnect \/ HandleEnter \/ DropPlayerMessage
           \/ HandleItemTradeSell \/ OnDone
  BY <1>2, RegistriesStutter
  DEF HandleConnect, HandleEnter, DropPlayerMessage, HandleItemTradeSell, OnDone,
      memory, registries
<1>3. CASE HandleMovement
  <2>1. PICK p \in FindPlayer(Head(batch).conn) :
              Update(p, [p EXCEPT !.row.pos = Head(batch).to])
    BY <1>3 DEF HandleMovement
  <2>2. p \in pool /\ p \in Player /\ Head(batch).to \in Place
    BY <1>3, <2>1, TakeHead, RequestFields
    DEF TypeOK, HandleMovement, Handling, FindPlayer
  <2>3. UNCHANGED <<byConn, byChar, nextInst>>
    BY <1>3 DEF HandleMovement
  <2> DEFINE q == [p EXCEPT !.row.pos = Head(batch).to]
  <2>4. q \in Player /\ q.inst = p.inst /\ q.conn = p.conn /\ q.char = p.char
    BY <2>2, MovedPlayer
  <2>5. Update(p, q)
    BY <2>1
  <2> HIDE DEF q
  <2> QED BY <2>2, <2>3, <2>4, <2>5, RegistriesUpdate
<1>4. CASE HandleCgExit
  <2> DEFINE c == Head(batch).conn
  <2>1. CASE ~ConnectionIsIn(c)
    BY <1>4, <2>1, RegistriesStutter DEF HandleCgExit, registries
  <2>2. CASE ConnectionIsIn(c)
    <3>1. c \in Conn
      BY <1>4, TakeHead, RequestFields DEF TypeOK, HandleCgExit, Handling
    <3>2. PICK p \in FindPlayer(c) : Leave(c, p)
      BY <1>4, <2>2 DEF HandleCgExit
    <3>3. UNCHANGED nextInst
      BY <1>4 DEF HandleCgExit
    <3> HIDE DEF c
    <3> QED BY <2>2, <3>1, <3>2, <3>3, RegistriesLeave
  <2> QED BY <2>1, <2>2
<1>5. CASE OnLoaded
  <2> DEFINE d == Head(callbacks)
  <2>1. d.conn \in Conn /\ d.char \in Char /\ d.row \in Row
    BY <1>5, TakeHead, CallbackFields DEF TypeOK, OnLoaded, Calling
  <2>2. \/ /\ CanJoin(d.conn, d.char, d.row) /\ Join(d.conn, d.char, d.row)
           /\ nextInst' = nextInst + 1
        \/ UNCHANGED registries /\ nextInst' \in {nextInst, nextInst + 1}
    BY <1>5 DEF OnLoaded, registries
  <2> HIDE DEF d
  <2> QED BY <2>1, <2>2, RegistriesJoin, RegistriesStutter
<1>6. CASE OnSold
  <2> DEFINE d == Head(callbacks)
             paid(p) == [p EXCEPT !.row = [@ EXCEPT !.slot = FALSE,
                                                    !.money = d.money]]
  <2>1. d.conn \in Conn /\ d.money \in Nat
    BY <1>6, TakeHead, CallbackFields DEF TypeOK, OnSold, Calling
  <2>2. UNCHANGED <<byConn, byChar, nextInst>>
    BY <1>6 DEF OnSold
  <2>3. CASE UNCHANGED pool
    BY <2>2, <2>3, RegistriesStutter DEF registries
  <2>4. CASE FindPlayer(d.conn) # {}
    <3>1. PICK p \in FindPlayer(d.conn) : Update(p, paid(p))
      BY <1>6, <2>4 DEF OnSold
    <3>2. p \in pool /\ p \in Player
      BY <3>1 DEF FindPlayer, TypeOK
    <3>3. /\ paid(p) \in Player /\ paid(p).inst = p.inst
          /\ paid(p).conn = p.conn /\ paid(p).char = p.char
      BY <2>1, <3>2, PaidPlayer
    <3> HIDE DEF paid
    <3> QED BY <2>2, <3>1, <3>2, <3>3, RegistriesUpdate
  <2> QED BY <1>6, <2>3, <2>4 DEF OnSold
<1> QED BY <1>1, <1>2, <1>3, <1>4, <1>5, <1>6 DEF Next, Tick, RunCallback

LEMMA RegistriesInit == SessionAssumption /\ Init => RegistriesInv
BY DEF Init, RegistriesInv, RegistriesAgree

\* Connections, characters and the players on the maps always tell one story,
\* whatever the order of logins, exits, hang-ups and late loads.
THEOREM RegistriesCorrect == Spec => []RegistriesAgree
<1>1. Init => RegistriesInv
  BY RegistriesInit, SessionAssumption
<1>2. RegistriesInv => RegistriesAgree
  BY DEF RegistriesInv
<1> QED
  BY <1>1, <1>2, TypeCorrect, RegistriesNext, SessionAssumption, PTL DEF Spec

-----------------------------------------------------------------------------
(* Sales. A row is only ever sold by a job that finds its slot full.       *)

LEMMA SoldNext ==
  SessionAssumption /\ TypeOK /\ SoldOnce /\ [Next]_vars => SoldOnce'
<1> SUFFICES ASSUME SessionAssumption, TypeOK, SoldOnce, [Next]_vars PROVE SoldOnce'
  OBVIOUS
<1>1. CASE UNCHANGED db
  BY <1>1 DEF SoldOnce
<1>2. CASE RunSell
  <2> DEFINE ch == Head(jobs).char
  <2>1. ch \in Char /\ db[ch] \in Row
    BY <1>2, TakeHead, JobFields DEF TypeOK, RunSell, Running
  <2>2. CASE db[ch].slot
    <3>1. db[ch].money = 0
      BY <2>1, <2>2 DEF SoldOnce
    <3>2. db' = [db EXCEPT ![ch] = Sold(@)]
      BY <1>2, <2>2 DEF RunSell, SlotHolds
    <3> HIDE DEF ch
    <3>3. db'[ch].slot = FALSE /\ db'[ch].money = 1
      <4>1. Sold(db[ch]).slot = FALSE /\ Sold(db[ch]).money = 1
        BY <2>1, <3>1 DEF Row, Sold, Credit
      <4> QED BY <2>1, <3>2, <4>1 DEF TypeOK
    <3>4. \A x \in Char : x # ch => db'[x] = db[x]
      BY <3>2 DEF TypeOK
    <3> QED BY <3>3, <3>4 DEF SoldOnce
  <2>3. CASE ~db[ch].slot
    BY <1>1, <1>2, <2>3 DEF RunSell, SlotHolds
  <2> QED BY <2>2, <2>3
<1>3. CASE RunSavePosition
  <2> DEFINE ch == Head(jobs).char
  <2>1. ch \in Char /\ db[ch] \in Row
    BY <1>3, TakeHead, JobFields DEF TypeOK, RunSavePosition, Running
  <2>2. db' = [db EXCEPT ![ch] = [@ EXCEPT !.pos = Head(jobs).pos]]
    BY <1>3 DEF RunSavePosition
  <2> HIDE DEF ch
  <2>3. db'[ch].slot = db[ch].slot /\ db'[ch].money = db[ch].money
    BY <2>1, <2>2 DEF TypeOK, Row
  <2>4. \A x \in Char : x # ch => db'[x] = db[x]
    BY <2>2 DEF TypeOK
  <2> QED BY <2>3, <2>4 DEF SoldOnce
<1> QED
  BY <1>1, <1>2, <1>3
  DEF Next, Tick, RunJob, RunCallback, Accept, OnFrame, HangUp, DrainIngress,
      HandleConnect, HandleEnter, DropPlayerMessage, HandleMovement,
      HandleItemTradeSell, HandleCgExit, Handling, RunLoad, JobThrows, OnLoaded,
      OnSold, OnDone, Calling, vars

\* A full slot becomes money once, however many sales of it are queued.
THEOREM SoldOnceCorrect == Spec => []SoldOnce
<1>1. Init => SoldOnce
  <2> SUFFICES ASSUME Init, NEW ch \in Char PROVE db[ch].slot = TRUE /\ db[ch].money = 0
    BY DEF SoldOnce
  <2>1. db[ch] \in [pos : Place, slot : {TRUE}, money : {0}]
    BY DEF Init
  <2> QED BY <2>1, Zenon
<1> QED BY <1>1, TypeCorrect, SoldNext, SessionAssumption, PTL DEF Spec

-----------------------------------------------------------------------------
(* Saves. The last save of a character that is queued is of the place it   *)
(* last left, and once none is queued that place is in its row.            *)

SaveOf(job, ch) == job.kind = "save" /\ job.char = ch

EndsAt(queue, pos, place, ch) ==
  \/ /\ \A i \in DOMAIN queue : ~SaveOf(queue[i], ch)
     /\ pos = place
  \/ \E i \in DOMAIN queue :
       /\ SaveOf(queue[i], ch) /\ queue[i].pos = place
       /\ \A j \in DOMAIN queue : j > i => ~SaveOf(queue[j], ch)

SavesInv ==
  faults = 0 =>
    \A ch \in Char : left[ch] # None => EndsAt(jobs, db[ch].pos, left[ch], ch)

\* A job queued behind the others is an earlier one of those or the new one.
LEMMA Appended ==
  ASSUME NEW queue \in Seq(Job), NEW job
  PROVE  /\ Len(queue) \in Nat /\ DOMAIN queue = 1..Len(queue)
         /\ DOMAIN Append(queue, job) = 1..(Len(queue) + 1)
         /\ Append(queue, job)[Len(queue) + 1] = job
         /\ \A i \in DOMAIN queue : Append(queue, job)[i] = queue[i]
<1>1. Len(queue) \in Nat /\ DOMAIN queue = 1..Len(queue)
  BY LenProperties
<1> QED BY <1>1

\* A job that saves nothing of the character leaves its last save the last.
LEMMA OtherJobQueued ==
  ASSUME NEW queue \in Seq(Job), NEW job, NEW ch, NEW pos, NEW place,
         EndsAt(queue, pos, place, ch), ~SaveOf(job, ch)
  PROVE  EndsAt(Append(queue, job), pos, place, ch)
<1> DEFINE longer == Append(queue, job)
<1>1. /\ Len(queue) \in Nat /\ DOMAIN queue = 1..Len(queue)
      /\ DOMAIN longer = 1..(Len(queue) + 1) /\ longer[Len(queue) + 1] = job
      /\ \A i \in DOMAIN queue : longer[i] = queue[i]
  BY Appended
<1> HIDE DEF longer
<1>2. \A i \in DOMAIN longer : i \in DOMAIN queue \/ longer[i] = job
  BY <1>1
<1>3. CASE \A i \in DOMAIN queue : ~SaveOf(queue[i], ch)
  BY <1>1, <1>2, <1>3 DEF EndsAt
<1>4. CASE \E i \in DOMAIN queue : SaveOf(queue[i], ch)
  <2>1. PICK i \in DOMAIN queue :
          /\ SaveOf(queue[i], ch) /\ queue[i].pos = place
          /\ \A j \in DOMAIN queue : j > i => ~SaveOf(queue[j], ch)
    BY <1>4 DEF EndsAt
  <2>2. i \in DOMAIN longer /\ longer[i] = queue[i]
    BY <1>1
  <2>3. \A j \in DOMAIN longer : j > i => ~SaveOf(longer[j], ch)
    BY <1>1, <1>2, <2>1
  <2> QED BY <2>1, <2>2, <2>3 DEF EndsAt
<1> QED BY <1>3, <1>4 DEF longer

\* A save behind all others is the last.
LEMMA SaveQueued ==
  ASSUME NEW queue \in Seq(Job), NEW job, NEW ch, NEW pos, SaveOf(job, ch)
  PROVE  EndsAt(Append(queue, job), pos, job.pos, ch)
<1> DEFINE longer == Append(queue, job)
<1>1. /\ Len(queue) + 1 \in DOMAIN longer /\ longer[Len(queue) + 1] = job
      /\ \A j \in DOMAIN longer : ~(j > Len(queue) + 1)
  BY Appended
<1> HIDE DEF longer
<1>2. EndsAt(longer, pos, job.pos, ch)
  BY <1>1 DEF EndsAt
<1> QED BY <1>2 DEF longer

\* The first job runs: the row is where its save puts the character, or where
\* it was.
LEMMA JobRun ==
  ASSUME NEW queue \in Seq(Job), queue # <<>>, NEW ch, NEW pos, NEW place,
         EndsAt(queue, pos, place, ch)
  PROVE  EndsAt(Tail(queue), IF SaveOf(Head(queue), ch) THEN Head(queue).pos ELSE pos, place, ch)
<1> DEFINE shorter == Tail(queue)
           now == IF SaveOf(Head(queue), ch) THEN Head(queue).pos ELSE pos
<1>1. /\ Len(queue) \in Nat /\ Len(queue) # 0 /\ DOMAIN queue = 1..Len(queue)
      /\ Head(queue) = queue[1]
      /\ DOMAIN shorter = 1..(Len(queue) - 1)
      /\ \A i \in 1..(Len(queue) - 1) : shorter[i] = queue[i + 1]
  <2>1. Len(queue) \in Nat /\ Len(queue) # 0 /\ DOMAIN queue = 1..Len(queue)
    BY EmptySeq, LenProperties
  <2>2. /\ Head(queue) = queue[1]
        /\ shorter \in Seq(Job) /\ Len(shorter) = Len(queue) - 1
        /\ \A i \in 1..(Len(queue) - 1) : shorter[i] = queue[i + 1]
    BY <2>1, HeadTailProperties
  <2>3. DOMAIN shorter = 1..(Len(queue) - 1)
    BY <2>2, LenProperties
  <2> QED BY <2>1, <2>2, <2>3
<1> HIDE DEF shorter
<1>2. CASE \A i \in DOMAIN queue : ~SaveOf(queue[i], ch)
  <2>1. \A i \in DOMAIN shorter : ~SaveOf(shorter[i], ch)
    BY <1>1, <1>2
  <2>2. now = pos /\ pos = place
    BY <1>1, <1>2 DEF EndsAt
  <2> QED BY <2>1, <2>2 DEF EndsAt, shorter
<1>3. CASE \E i \in DOMAIN queue : SaveOf(queue[i], ch)
  <2>1. PICK i \in DOMAIN queue :
          /\ SaveOf(queue[i], ch) /\ queue[i].pos = place
          /\ \A j \in DOMAIN queue : j > i => ~SaveOf(queue[j], ch)
    BY <1>3 DEF EndsAt
  <2>2. CASE i = 1
    <3>1. \A k \in DOMAIN shorter : ~SaveOf(shorter[k], ch)
      BY <1>1, <2>1, <2>2
    <3>2. now = place
      BY <1>1, <2>1, <2>2
    <3> QED BY <3>1, <3>2 DEF EndsAt, shorter
  <2>3. CASE i # 1
    <3>1. i - 1 \in DOMAIN shorter /\ shorter[i - 1] = queue[i]
      BY <1>1, <2>1, <2>3
    <3>2. \A k \in DOMAIN shorter : k > i - 1 => ~SaveOf(shorter[k], ch)
      BY <1>1, <2>1
    <3> QED BY <2>1, <3>1, <3>2 DEF EndsAt, shorter
  <2> QED BY <2>2, <2>3
<1> QED BY <1>2, <1>3

\* A request that queues no save.
LEMMA SavesQueue ==
  ASSUME TypeOK, SavesInv, NEW job, job.kind # "save", Run(job),
         UNCHANGED <<db, faults, left>>
  PROVE  SavesInv'
<1>1. \A ch \in Char : ~SaveOf(job, ch)
  BY DEF SaveOf
<1>2. ASSUME faults = 0, NEW ch \in Char, left[ch] # None
      PROVE  EndsAt(Append(jobs, job), db[ch].pos, left[ch], ch)
  BY <1>1, <1>2, OtherJobQueued DEF SavesInv, TypeOK
<1> QED BY <1>2 DEF SavesInv, Run

\* A job that moves nobody's row but by its save.
LEMMA SavesRun ==
  ASSUME TypeOK, SavesInv, NEW kind, Running(kind), faults' = faults,
         \A ch \in Char :
           db'[ch].pos = IF SaveOf(Head(jobs), ch) THEN Head(jobs).pos ELSE db[ch].pos
  PROVE  SavesInv'
<1>1. ASSUME faults = 0, NEW ch \in Char, left[ch] # None
      PROVE  EndsAt(Tail(jobs), db'[ch].pos, left[ch], ch)
  <2>1. EndsAt(jobs, db[ch].pos, left[ch], ch)
    BY <1>1 DEF SavesInv
  <2>2. jobs \in Seq(Job) /\ jobs # <<>>
    BY DEF Running, TypeOK
  <2> QED BY <2>1, <2>2, JobRun
<1> QED BY <1>1 DEF SavesInv, Running

LEMMA SavesNext == SessionAssumption /\ TypeOK /\ SavesInv /\ [Next]_vars => SavesInv'
<1> SUFFICES ASSUME SessionAssumption, TypeOK, SavesInv, [Next]_vars PROVE SavesInv'
  OBVIOUS
<1>1. CASE UNCHANGED <<jobs, db, faults, left>>
  BY <1>1 DEF SavesInv
<1>2. CASE HandleEnter
  BY <1>2, SavesQueue DEF HandleEnter, Handling
<1>3. CASE HandleItemTradeSell
  <2>1. \/ UNCHANGED jobs
        \/ \E p \in pool : Run([kind |-> "sell", conn |-> Head(batch).conn, char |-> p.char])
    BY <1>3 DEF HandleItemTradeSell, FindPlayer
  <2> QED BY <1>1, <1>3, <2>1, SavesQueue DEF HandleItemTradeSell, Handling
<1>4. CASE HandleCgExit
  <2> DEFINE c == Head(batch).conn
  <2>1. CASE ~ConnectionIsIn(c)
    BY <1>1, <1>4, <2>1 DEF HandleCgExit, Handling
  <2>2. CASE ConnectionIsIn(c)
    <3>1. PICK p \in FindPlayer(c) :
            /\ Leave(c, p)
            /\ Run([kind |-> "save", conn |-> c, char |-> p.char, pos |-> p.row.pos])
      BY <1>4, <2>2 DEF HandleCgExit
    <3> DEFINE job == [kind |-> "save", conn |-> c, char |-> p.char, pos |-> p.row.pos]
    <3>2. job.kind = "save" /\ job.char = p.char /\ job.pos = p.row.pos
      OBVIOUS
    <3>3. /\ jobs' = Append(jobs, job) /\ left' = [left EXCEPT ![p.char] = p.row.pos]
          /\ UNCHANGED <<db, faults>>
      BY <1>4, <3>1 DEF Run, Leave, HandleCgExit, Handling
    <3> HIDE DEF job
    <3>4. p.char \in Char /\ jobs \in Seq(Job) /\ left \in [Char -> Place \cup {None}]
      BY <3>1 DEF FindPlayer, TypeOK, Player
    <3>5. ASSUME faults = 0, NEW ch \in Char, left'[ch] # None
          PROVE  EndsAt(Append(jobs, job), db[ch].pos, left'[ch], ch)
      <4>1. CASE ch = p.char
        <5>1. SaveOf(job, ch) /\ left'[ch] = job.pos
          BY <3>2, <3>3, <3>4, <4>1 DEF SaveOf
        <5> QED BY <3>4, <5>1, SaveQueued
      <4>2. CASE ch # p.char
        <5>1. ~SaveOf(job, ch) /\ left'[ch] = left[ch]
          BY <3>2, <3>3, <3>4, <4>2 DEF SaveOf
        <5>2. EndsAt(jobs, db[ch].pos, left[ch], ch)
          BY <3>5, <5>1 DEF SavesInv
        <5> QED BY <3>4, <5>1, <5>2, OtherJobQueued
      <4> QED BY <4>1, <4>2
    <3> QED BY <3>3, <3>5 DEF SavesInv
  <2> QED BY <2>1, <2>2
<1>5. CASE RunLoad
  <2>1. Running("load") /\ UNCHANGED <<db, faults>> /\ Head(jobs).kind = "load"
    BY <1>5 DEF RunLoad, Running
  <2>2. \A ch \in Char : ~SaveOf(Head(jobs), ch)
    BY <2>1 DEF SaveOf
  <2> QED BY <2>1, <2>2, SavesRun
<1>6. CASE RunSell
  <2> DEFINE sold == Head(jobs).char
  <2>1. Running("sell") /\ UNCHANGED faults /\ Head(jobs).kind = "sell"
    BY <1>6 DEF RunSell, Running
  <2>2. \A ch \in Char : ~SaveOf(Head(jobs), ch)
    BY <2>1 DEF SaveOf
  <2>3. \A ch \in Char : db'[ch].pos = db[ch].pos
    <3>1. UNCHANGED db \/ db' = [db EXCEPT ![sold] = Sold(db[sold])]
      BY <1>6 DEF RunSell
    <3>2. \A ch \in Char : Sold(db[ch]).pos = db[ch].pos
      BY DEF TypeOK, Row, Sold
    <3> HIDE DEF sold
    <3> QED BY <3>1, <3>2 DEF TypeOK
  <2> QED BY <2>1, <2>2, <2>3, SavesRun
<1>7. CASE RunSavePosition
  <2> DEFINE moved == Head(jobs).char
             to == Head(jobs).pos
  <2>1. Running("save") /\ UNCHANGED faults /\ Head(jobs).kind = "save"
    BY <1>7 DEF RunSavePosition, Running
  <2>2. \A ch \in Char : SaveOf(Head(jobs), ch) <=> ch = moved
    BY <2>1 DEF SaveOf
  <2>3. db' = [db EXCEPT ![moved] = [db[moved] EXCEPT !.pos = to]]
    BY <1>7 DEF RunSavePosition
  <2>4. \A ch \in Char : [db[ch] EXCEPT !.pos = to].pos = to
    BY DEF TypeOK, Row
  <2> HIDE DEF moved, to
  <2>5. \A ch \in Char : db'[ch].pos = IF ch = moved THEN to ELSE db[ch].pos
    BY <2>3, <2>4 DEF TypeOK
  <2> QED BY <2>1, <2>2, <2>5, SavesRun DEF to
<1>8. CASE JobThrows
  <2>1. faults' # 0
    BY <1>8 DEF JobThrows, TypeOK
  <2> QED BY <2>1 DEF SavesInv
<1> QED
  BY <1>1, <1>2, <1>3, <1>4, <1>5, <1>6, <1>7, <1>8
  DEF Next, Tick, RunJob, RunCallback, Accept, OnFrame, HangUp, DrainIngress,
      HandleConnect, DropPlayerMessage, HandleMovement, Handling, OnLoaded, OnSold,
      OnDone, Calling, vars, queues, memory

\* A row ends up where its character last left the world, however often it came
\* and went while its saves were queued.
THEOREM SaveIsLastDepartureCorrect == Spec => []SaveIsLastDeparture
<1>1. Init => SavesInv
  BY DEF Init, SavesInv
<1>2. SavesInv => SaveIsLastDeparture
  <2> SUFFICES ASSUME SavesInv, NEW ch \in Char, left[ch] # None, faults = 0,
                      \A i \in DOMAIN jobs : ~(jobs[i].kind = "save" /\ jobs[i].char = ch)
               PROVE  db[ch].pos = left[ch]
    BY DEF SaveIsLastDeparture
  <2> QED BY DEF SavesInv, EndsAt, SaveOf
<1> QED
  BY <1>1, <1>2, TypeCorrect, SavesNext, SessionAssumption, PTL DEF Spec

-----------------------------------------------------------------------------
(* The queue of requests. A connection's connect is pushed before its      *)
(* disconnect and handled before it, so a connection is known to the world *)
(* exactly between the two.                                                *)

At(i, kind, c) == i \in 1..Len(Queue) /\ Queue[i].kind = kind /\ Queue[i].conn = c

ConnectAt(i, c) == At(i, "connect", c)
DisconnectAt(i, c) == At(i, "disconnect", c)

QueueInvOf(c) ==
  /\ net[c] = "fresh" =>
       c \notin connections /\ \A i \in Nat : ~ConnectAt(i, c) /\ ~DisconnectAt(i, c)
  /\ net[c] = "open" => c \in connections \/ \E i \in Nat : ConnectAt(i, c)
  /\ \A i, j \in Nat : ConnectAt(i, c) /\ ConnectAt(j, c) => i = j
  /\ \A i, j \in Nat : DisconnectAt(i, c) /\ DisconnectAt(j, c) => i = j
  /\ \A i \in Nat : ConnectAt(i, c) => c \notin connections
  /\ \A i \in Nat : DisconnectAt(i, c) =>
       /\ net[c] = "closed"
       /\ c \in connections \/ \E j \in Nat : j < i /\ ConnectAt(j, c)
  /\ \A i \in Nat : ConnectAt(i, c) /\ net[c] = "closed" =>
       \E j \in Nat : i < j /\ DisconnectAt(j, c)
  /\ c \in connections /\ net[c] = "closed" => \E j \in Nat : DisconnectAt(j, c)

QueueInv == \A c \in Conn : QueueInvOf(c)

LEMMA QueueType == TypeOK => Queue \in Seq(Request) /\ Len(Queue) \in Nat
BY DEF TypeOK, Queue

LEMMA QueueSame ==
  ASSUME Queue' = Queue, NEW i, NEW kind, NEW c
  PROVE  At(i, kind, c)' <=> At(i, kind, c)
BY DEF At

LEMMA QueueReceive ==
  ASSUME TypeOK, NEW r \in Request, Receive(r), batch' = batch,
         NEW i \in Nat, NEW kind, NEW c
  PROVE  /\ At(i, kind, c)' <=> \/ At(i, kind, c)
                                \/ i = Len(Queue) + 1 /\ r.kind = kind /\ r.conn = c
         /\ At(i, kind, c) => i < Len(Queue) + 1
<1>1. Queue' = Append(Queue, r)
  BY DEF TypeOK, Receive, Queue
<1> QED BY <1>1, QueueType DEF At

LEMMA QueueHandle ==
  ASSUME TypeOK, NEW kind, Handling(kind), NEW i \in Nat, NEW k, NEW c
  PROVE  /\ At(i, k, c)' <=> i > 0 /\ At(i + 1, k, c)
         /\ At(1, k, c) <=> Head(batch).kind = k /\ Head(batch).conn = c
<1>1. /\ batch \in Seq(Request) /\ ingress \in Seq(Request) /\ batch # <<>>
      /\ batch' = Tail(batch) /\ ingress' = ingress
  BY DEF TypeOK, Handling
<1>2. Queue # <<>> /\ Queue' = Tail(Queue) /\ Head(Queue) = Head(batch)
  BY <1>1 DEF Queue
<1>3. Queue \in Seq(Request)
  BY QueueType
<1> HIDE DEF Queue
<1> QED BY <1>2, <1>3 DEF At

LEMMA QueueDrain == TypeOK /\ DrainIngress => Queue' = Queue
BY DEF TypeOK, DrainIngress, Queue

LEMMA QueueStutter ==
  ASSUME QueueInv, Queue' = Queue, UNCHANGED <<net, connections>>
  PROVE  QueueInv'
BY QueueSame DEF QueueInv, QueueInvOf, ConnectAt, DisconnectAt

LEMMA QueueAccept ==
  ASSUME TypeOK, QueueInv, NEW c \in Conn, Accept(c)
  PROVE  QueueInv'
<1> DEFINE r == [kind |-> "connect", conn |-> c]
<1>1. r \in Request /\ r.kind = "connect" /\ r.conn = c
  BY DEF Request
<1>2. /\ net[c] = "fresh" /\ net' = [net EXCEPT ![c] = "open"]
      /\ UNCHANGED connections /\ Receive(r) /\ batch' = batch
  BY DEF Accept, memory
<1> HIDE DEF r
<1>3. \A i \in Nat, d \in Conn :
        /\ ConnectAt(i, d)' <=> ConnectAt(i, d) \/ (i = Len(Queue) + 1 /\ d = c)
        /\ DisconnectAt(i, d)' <=> DisconnectAt(i, d)
  BY <1>1, <1>2, QueueReceive DEF ConnectAt, DisconnectAt
<1>4. \A d \in Conn : d # c => net'[d] = net[d]
  BY <1>2 DEF TypeOK
<1>5. net'[c] = "open"
  BY <1>2 DEF TypeOK
<1>6. c \notin connections /\ \A i \in Nat : ~ConnectAt(i, c) /\ ~DisconnectAt(i, c)
  BY <1>2 DEF QueueInv, QueueInvOf
<1> QED BY <1>2, <1>3, <1>4, <1>5, <1>6 DEF QueueInv, QueueInvOf

LEMMA QueueFrame ==
  ASSUME SessionAssumption, TypeOK, QueueInv, NEW c \in Conn, OnFrame(c)
  PROVE  QueueInv'
<1>1. ClientFrame(c) \subseteq Request
  BY DEF ClientFrame, Request, SessionAssumption
<1>2. PICK r \in ClientFrame(c) : Receive(r)
  BY DEF OnFrame
<1>3. r \in Request /\ r.kind # "connect" /\ r.kind # "disconnect"
  BY <1>1, <1>2 DEF ClientFrame
<1>4. batch' = batch /\ net' = net /\ connections' = connections
  BY DEF OnFrame, memory
<1>5. \A i \in Nat, d \in Conn :
        /\ ConnectAt(i, d)' <=> ConnectAt(i, d)
        /\ DisconnectAt(i, d)' <=> DisconnectAt(i, d)
  BY <1>2, <1>3, <1>4, QueueReceive DEF ConnectAt, DisconnectAt
<1> QED BY <1>4, <1>5 DEF QueueInv, QueueInvOf

LEMMA QueueHangUp ==
  ASSUME TypeOK, QueueInv, NEW c \in Conn, HangUp(c)
  PROVE  QueueInv'
<1> DEFINE r == [kind |-> "disconnect", conn |-> c]
           n == Len(Queue) + 1
<1>1. r \in Request /\ r.kind = "disconnect" /\ r.conn = c
  BY DEF Request
<1>2. /\ net[c] = "open" /\ net' = [net EXCEPT ![c] = "closed"]
      /\ UNCHANGED connections /\ Receive(r) /\ batch' = batch
  BY DEF HangUp, memory
<1>0. n \in Nat
  BY QueueType
<1> HIDE DEF r
<1>3. \A i \in Nat, d \in Conn :
        /\ ConnectAt(i, d)' <=> ConnectAt(i, d)
        /\ DisconnectAt(i, d)' <=> DisconnectAt(i, d) \/ (i = n /\ d = c)
        /\ ConnectAt(i, d) => i < n
        /\ DisconnectAt(i, d) => i < n
  BY <1>1, <1>2, QueueReceive DEF ConnectAt, DisconnectAt
<1> HIDE DEF n
<1>4. \A d \in Conn : d # c => net'[d] = net[d]
  BY <1>2 DEF TypeOK
<1>5. net'[c] = "closed"
  BY <1>2 DEF TypeOK
<1>6. /\ \A i \in Nat : ~DisconnectAt(i, c)
      /\ c \in connections \/ \E i \in Nat : ConnectAt(i, c)
  BY <1>2 DEF QueueInv, QueueInvOf
<1> QED BY <1>0, <1>2, <1>3, <1>4, <1>5, <1>6 DEF QueueInv, QueueInvOf

(* What handling the head of the queue does to the requests in it.         *)

LEMMA QueueShift ==
  ASSUME TypeOK, NEW kind, Handling(kind)
  PROVE  \A i \in Nat, d \in Conn :
           /\ ConnectAt(i, d)' <=> i > 0 /\ ConnectAt(i + 1, d)
           /\ DisconnectAt(i, d)' <=> i > 0 /\ DisconnectAt(i + 1, d)
           /\ ConnectAt(i, d) \/ DisconnectAt(i, d) => i > 0
           /\ ConnectAt(i, d) /\ i = 1 => kind = "connect" /\ d = Head(batch).conn
           /\ DisconnectAt(i, d) /\ i = 1 => kind = "disconnect" /\ d = Head(batch).conn
<1>1. Head(batch).kind = kind
  BY DEF Handling
<1>2. \A i, c : At(i, "connect", c) \/ At(i, "disconnect", c) => i > 0
  BY QueueType DEF At
<1> QED BY <1>1, <1>2, QueueHandle DEF ConnectAt, DisconnectAt

LEMMA QueueHead ==
  ASSUME TypeOK, NEW c, c = Head(batch).conn
  PROVE  /\ Handling("connect") => ConnectAt(1, c)
         /\ Handling("disconnect") => DisconnectAt(1, c)
BY QueueHandle, 1 \in Nat DEF ConnectAt, DisconnectAt, Handling

\* A pending disconnect stays pending until it is the one handled.
LEMMA QueueKeeps ==
  ASSUME TypeOK, NEW kind, Handling(kind), NEW d \in Conn,
         kind # "disconnect" \/ d # Head(batch).conn
  PROVE  (\E i \in Nat : DisconnectAt(i, d)') <=> (\E i \in Nat : DisconnectAt(i, d))
<1>1. \A i \in Nat :
        /\ DisconnectAt(i, d)' <=> i > 0 /\ DisconnectAt(i + 1, d)
        /\ DisconnectAt(i, d) => i > 1
  BY QueueShift
<1>2. ASSUME NEW i \in Nat, DisconnectAt(i, d) PROVE \E j \in Nat : DisconnectAt(j, d)'
  <2>1. i - 1 \in Nat /\ i - 1 > 0 /\ (i - 1) + 1 = i
    BY <1>1, <1>2
  <2>2. DisconnectAt(i - 1, d)'
    BY <1>1, <1>2, <2>1
  <2> QED BY <2>1, <2>2
<1>3. ASSUME NEW i \in Nat, DisconnectAt(i, d)' PROVE \E j \in Nat : DisconnectAt(j, d)
  <2>1. i + 1 \in Nat /\ DisconnectAt(i + 1, d)
    BY <1>1, <1>3
  <2> QED BY <2>1
<1> QED BY <1>2, <1>3

\* A connection that is not the one joining or leaving only moves up the queue.
LEMMA QueueMoveUp ==
  ASSUME TypeOK, NEW kind, Handling(kind), NEW d \in Conn, QueueInvOf(d),
         kind \notin {"connect", "disconnect"} \/ d # Head(batch).conn,
         d \in connections' <=> d \in connections
  PROVE  QueueInvOf(d)'
<1>1. \A i \in Nat :
        /\ ConnectAt(i, d)' <=> i > 0 /\ ConnectAt(i + 1, d)
        /\ DisconnectAt(i, d)' <=> i > 0 /\ DisconnectAt(i + 1, d)
        /\ ConnectAt(i, d) \/ DisconnectAt(i, d) => i > 1
  BY QueueShift
<1>2. net' = net
  BY DEF Handling
<1>3. \A i \in Nat : ConnectAt(i, d) =>
        i - 1 \in Nat /\ i - 1 > 0 /\ (i - 1) + 1 = i /\ ConnectAt(i - 1, d)'
  <2> SUFFICES ASSUME NEW i \in Nat, ConnectAt(i, d)
               PROVE i - 1 \in Nat /\ i - 1 > 0 /\ (i - 1) + 1 = i /\ ConnectAt(i - 1, d)'
    OBVIOUS
  <2>1. i - 1 \in Nat /\ i - 1 > 0 /\ (i - 1) + 1 = i
    BY <1>1
  <2> QED BY <1>1, <2>1
<1>4. \A i \in Nat : DisconnectAt(i, d) =>
        i - 1 \in Nat /\ i - 1 > 0 /\ (i - 1) + 1 = i /\ DisconnectAt(i - 1, d)'
  <2> SUFFICES ASSUME NEW i \in Nat, DisconnectAt(i, d)
               PROVE i - 1 \in Nat /\ i - 1 > 0 /\ (i - 1) + 1 = i /\ DisconnectAt(i - 1, d)'
    OBVIOUS
  <2>1. i - 1 \in Nat /\ i - 1 > 0 /\ (i - 1) + 1 = i
    BY <1>1
  <2> QED BY <1>1, <2>1
<1>5. ASSUME NEW i \in Nat, DisconnectAt(i, d)'
      PROVE  /\ net'[d] = "closed"
             /\ d \in connections' \/ \E j \in Nat : j < i /\ ConnectAt(j, d)'
  <2>1. DisconnectAt(i + 1, d)
    BY <1>1, <1>5
  <2>2. d \in connections \/ \E j \in Nat : j < i + 1 /\ ConnectAt(j, d)
    BY <2>1 DEF QueueInvOf
  <2>3. ASSUME NEW j \in Nat, j < i + 1, ConnectAt(j, d)
        PROVE  \E k \in Nat : k < i /\ ConnectAt(k, d)'
    <3>1. j - 1 \in Nat /\ j - 1 < i /\ ConnectAt(j - 1, d)'
      BY <1>3, <2>3
    <3> QED BY <3>1
  <2> QED BY <1>2, <2>1, <2>2, <2>3 DEF QueueInvOf
<1>6. ASSUME NEW i \in Nat, ConnectAt(i, d)', net'[d] = "closed"
      PROVE  \E j \in Nat : i < j /\ DisconnectAt(j, d)'
  <2>1. PICK j \in Nat : i + 1 < j /\ DisconnectAt(j, d)
    BY <1>1, <1>2, <1>6 DEF QueueInvOf
  <2>2. j - 1 \in Nat /\ i < j - 1 /\ DisconnectAt(j - 1, d)'
    BY <1>4, <2>1
  <2> QED BY <2>2
<1>7. d \in connections' /\ net'[d] = "closed" => \E j \in Nat : DisconnectAt(j, d)'
  BY <1>2, <1>4 DEF QueueInvOf
<1>8. net'[d] = "open" => d \in connections' \/ \E i \in Nat : ConnectAt(i, d)'
  BY <1>2, <1>3 DEF QueueInvOf
<1>9. /\ \A i, j \in Nat : ConnectAt(i, d)' /\ ConnectAt(j, d)' => i = j
      /\ \A i, j \in Nat : DisconnectAt(i, d)' /\ DisconnectAt(j, d)' => i = j
      /\ \A i \in Nat : ConnectAt(i, d)' => d \notin connections'
  BY <1>1 DEF QueueInvOf
<1>10. net'[d] = "fresh" => /\ d \notin connections'
                          /\ \A i \in Nat : ~ConnectAt(i, d)' /\ ~DisconnectAt(i, d)'
  BY <1>1, <1>2 DEF QueueInvOf
<1> QED BY <1>5, <1>6, <1>7, <1>8, <1>9, <1>10 DEF QueueInvOf

LEMMA QueueConnect ==
  ASSUME TypeOK, QueueInv, NEW c \in Conn, c = Head(batch).conn,
         Handling("connect"), connections' = connections \cup {c}
  PROVE  /\ QueueInv'
         /\ c \notin connections
         /\ net[c] = "closed" => \E j \in Nat : DisconnectAt(j, c)'
<1>2. connections' = connections \cup {c} /\ Handling("connect") /\ net' = net
  BY DEF Handling
<1>3. \A i \in Nat :
        /\ ConnectAt(i, c)' <=> i > 0 /\ ConnectAt(i + 1, c)
        /\ DisconnectAt(i, c)' <=> i > 0 /\ DisconnectAt(i + 1, c)
        /\ DisconnectAt(i, c) => i > 1
  BY <1>2, QueueShift
<1>4. ConnectAt(1, c)
  BY <1>2, QueueHead
<1>5. \A d \in Conn \ {c} : QueueInvOf(d)'
  BY <1>2, QueueMoveUp DEF QueueInv
<1>6. QueueInvOf(c)
  BY DEF QueueInv
<1>7. /\ c \notin connections /\ net[c] # "fresh"
      /\ \A i \in Nat : ConnectAt(i, c) => i = 1
  BY <1>4, <1>6 DEF QueueInvOf
<1>8. net[c] = "closed" => \E j \in Nat : DisconnectAt(j, c)'
  <2> SUFFICES ASSUME net[c] = "closed" PROVE \E j \in Nat : DisconnectAt(j, c)'
    OBVIOUS
  <2>1. PICK j \in Nat : DisconnectAt(j, c)
    BY <1>4, <1>6 DEF QueueInvOf
  <2>2. j - 1 \in Nat /\ j - 1 > 0 /\ (j - 1) + 1 = j
    BY <1>3, <2>1
  <2>3. DisconnectAt(j - 1, c)'
    BY <1>3, <2>1, <2>2
  <2> QED BY <2>2, <2>3
<1>9. QueueInvOf(c)'
  <2>1. \A i \in Nat : ~ConnectAt(i, c)'
    BY <1>3, <1>7
  <2>2. \A i, j \in Nat : DisconnectAt(i, c)' /\ DisconnectAt(j, c)' => i = j
    BY <1>3, <1>6 DEF QueueInvOf
  <2>3. \A i \in Nat : DisconnectAt(i, c)' => net'[c] = "closed"
    BY <1>2, <1>3, <1>6 DEF QueueInvOf
  <2> QED BY <1>2, <1>7, <1>8, <2>1, <2>2, <2>3 DEF QueueInvOf
<1> QED BY <1>5, <1>7, <1>8, <1>9 DEF QueueInv

LEMMA QueueDisconnect ==
  ASSUME TypeOK, QueueInv, NEW c \in Conn, c = Head(batch).conn,
         Handling("disconnect"), connections' = connections \ {c}
  PROVE  /\ QueueInv'
         /\ c \in connections
         /\ net[c] = "closed"
         /\ \A i \in Nat : ~DisconnectAt(i, c)'
<1>2. connections' = connections \ {c} /\ net' = net
  BY DEF Handling
<1>3. \A i \in Nat :
        /\ ConnectAt(i, c)' <=> i > 0 /\ ConnectAt(i + 1, c)
        /\ DisconnectAt(i, c)' <=> i > 0 /\ DisconnectAt(i + 1, c)
        /\ ConnectAt(i, c) => i > 1
  BY QueueShift
<1>4. DisconnectAt(1, c)
  BY QueueHead
<1>5. \A d \in Conn \ {c} : QueueInvOf(d)'
  BY <1>2, QueueMoveUp DEF QueueInv
<1>6. QueueInvOf(c)
  BY DEF QueueInv
<1>7. /\ c \in connections /\ net[c] = "closed"
      /\ \A i \in Nat : DisconnectAt(i, c) => i = 1
      /\ \A i \in Nat : ~ConnectAt(i, c)
  <2>1. net[c] = "closed" /\ \A i \in Nat : DisconnectAt(i, c) => i = 1
    BY <1>4, <1>6 DEF QueueInvOf
  <2>2. c \in connections
    BY <1>3, <1>4, <1>6 DEF QueueInvOf
  <2>3. \A i \in Nat : ~ConnectAt(i, c)
    BY <1>6, <2>2 DEF QueueInvOf
  <2> QED BY <2>1, <2>2, <2>3
<1>8. /\ \A i \in Nat : ~DisconnectAt(i, c)'
      /\ \A i \in Nat : ~ConnectAt(i, c)'
  BY <1>3, <1>7
<1>9. QueueInvOf(c)'
  BY <1>2, <1>7, <1>8 DEF QueueInvOf
<1> QED BY <1>5, <1>7, <1>8, <1>9 DEF QueueInv
-----------------------------------------------------------------------------
(* Who is known to the world, and the refinement of Presence.              *)

KnownInv ==
  /\ QueueInv
  /\ \A c \in Conn : byConn[c] # None => c \in connections

LEMMA PendingAt ==
  /\ TypeOK => \A c : Pending(c, "disconnect") <=> \E i \in Nat : DisconnectAt(i, c)
  /\ TypeOK' => \A c : Pending(c, "disconnect")' <=> \E i \in Nat : DisconnectAt(i, c)'
<1>1. TypeOK => DOMAIN Queue = 1..Len(Queue) /\ 1..Len(Queue) \subseteq Nat
  BY QueueType
<1>2. TypeOK' => Queue' \in Seq(Request) /\ Len(Queue') \in Nat
  BY DEF TypeOK, Queue
<1>3. TypeOK' => DOMAIN Queue' = 1..Len(Queue') /\ 1..Len(Queue') \subseteq Nat
  BY <1>2
<1> QED BY <1>1, <1>3 DEF Pending, DisconnectAt, At

\* Each step of the queue's invariant, with what Presence sees of it.
LEMMA QueueNext ==
  ASSUME SessionAssumption, TypeOK, TypeOK', QueueInv, [Next]_vars
  PROVE  /\ QueueInv'
         /\ \/ UNCHANGED <<connections, Departed>>
            \/ \E c \in Conn \ (connections \cup Departed) :
                 /\ connections' = connections \cup {c}
                 /\ UNCHANGED <<Departed, byConn>>
            \/ \E c \in connections :
                 /\ connections' = connections \ {c}
                 /\ Departed' = Departed \cup {c}
                 /\ byConn' = [byConn EXCEPT ![c] = None]
<1> USE SessionAssumption
<1> DEFINE Goal == /\ QueueInv'
                   /\ UNCHANGED <<connections, Departed>>
<1>1. ASSUME NEW c \in Conn, Accept(c) PROVE Goal
  <2>1. QueueInv' /\ UNCHANGED connections
    BY <1>1, QueueAccept DEF Accept, memory
  <2>2. net' = [net EXCEPT ![c] = "open"] /\ net[c] = "fresh"
    BY <1>1 DEF Accept
  <2> DEFINE r == [kind |-> "connect", conn |-> c]
  <2>3. r \in Request /\ r.kind = "connect" /\ Receive(r) /\ batch' = batch
    BY <1>1 DEF Accept, Request
  <2> HIDE DEF r
  <2>4. \A d \in Conn, i \in Nat : DisconnectAt(i, d)' <=> DisconnectAt(i, d)
    BY <2>3, QueueReceive DEF DisconnectAt
  <2>5. Departed' = Departed
    BY <2>2, <2>4, PendingAt DEF Departed, TypeOK
  <2> QED BY <2>1, <2>5
<1>2. ASSUME NEW c \in Conn, OnFrame(c) PROVE Goal
  <2>1. QueueInv' /\ UNCHANGED <<connections, net, batch>>
    BY <1>2, QueueFrame DEF OnFrame, memory
  <2>2. PICK r \in ClientFrame(c) : Receive(r)
    BY <1>2 DEF OnFrame
  <2>3. r \in Request /\ r.kind # "disconnect"
    BY <2>2 DEF ClientFrame, Request, SessionAssumption
  <2>4. \A d \in Conn, i \in Nat : DisconnectAt(i, d)' <=> DisconnectAt(i, d)
    BY <2>1, <2>2, <2>3, QueueReceive DEF DisconnectAt
  <2>5. Departed' = Departed
    BY <2>1, <2>4, PendingAt DEF Departed
  <2> QED BY <2>1, <2>5
<1>3. ASSUME NEW c \in Conn, HangUp(c) PROVE Goal
  <2>1. QueueInv' /\ UNCHANGED <<connections, batch>>
    BY <1>3, QueueHangUp DEF HangUp, memory
  <2>2. net' = [net EXCEPT ![c] = "closed"] /\ net[c] = "open"
    BY <1>3 DEF HangUp
  <2> DEFINE r == [kind |-> "disconnect", conn |-> c]
             n == Len(Queue) + 1
  <2>3. /\ r \in Request /\ r.kind = "disconnect" /\ r.conn = c /\ Receive(r)
        /\ n \in Nat
    BY <1>3, QueueType DEF HangUp, Request
  <2> HIDE DEF r
  <2>4. \A d \in Conn, i \in Nat :
          DisconnectAt(i, d)' <=> DisconnectAt(i, d) \/ (i = n /\ d = c)
    BY <2>1, <2>3, QueueReceive DEF DisconnectAt
  <2> HIDE DEF n
  <2>5. \A d \in Conn \ {c} : net'[d] = net[d]
    BY <2>2 DEF TypeOK
  <2>6. c \notin Departed /\ c \notin Departed'
    BY <2>2, <2>3, <2>4, PendingAt DEF Departed
  <2>7. \A d \in Conn \ {c} : d \in Departed' <=> d \in Departed
    BY <2>4, <2>5, PendingAt DEF Departed
  <2>8. Departed' = Departed
    BY <2>6, <2>7 DEF Departed
  <2> QED BY <2>1, <2>8
<1>4. CASE UNCHANGED <<Queue, net, connections>>
  BY <1>4, QueueStutter, QueueSame, PendingAt DEF Departed, DisconnectAt
<1>5. CASE HandleConnect
  <2>1. PICK c \in Conn : c = Head(batch).conn
    BY <1>5, TakeHead, RequestFields DEF TypeOK, HandleConnect, Handling
  <2>2. /\ connections' = connections \cup {c} /\ UNCHANGED <<byConn, net>>
        /\ Handling("connect")
    BY <1>5, <2>1 DEF HandleConnect, Handling
  <2>3. /\ QueueInv' /\ c \notin connections
        /\ net[c] = "closed" => \E j \in Nat : DisconnectAt(j, c)'
    BY <2>1, <2>2, QueueConnect
  <2>4. \A d \in Conn : (\E i \in Nat : DisconnectAt(i, d)')
                        <=> (\E i \in Nat : DisconnectAt(i, d))
    BY <2>2, QueueKeeps
  <2>5. Departed' = Departed /\ c \notin Departed
    BY <2>2, <2>3, <2>4, PendingAt DEF Departed
  <2> QED BY <2>2, <2>3, <2>5
<1>6. ASSUME NEW kind \in {"enter", "move", "sell", "exit"}, Handling(kind),
             UNCHANGED connections
      PROVE  Goal
  <2>1. QueueInv'
    BY <1>6, QueueMoveUp DEF QueueInv
  <2>2. \A d \in Conn : (\E i \in Nat : DisconnectAt(i, d)')
                        <=> (\E i \in Nat : DisconnectAt(i, d))
    BY <1>6, QueueKeeps
  <2>3. UNCHANGED net
    BY <1>6 DEF Handling
  <2>4. Departed' = Departed
    BY <2>2, <2>3, PendingAt DEF Departed
  <2> QED BY <1>6, <2>1, <2>4
<1>7. CASE HandleCgExit /\ Head(batch).kind = "disconnect"
  <2>1. PICK c \in Conn : c = Head(batch).conn
    BY <1>7, TakeHead, RequestFields DEF TypeOK, HandleCgExit, Handling
  <2>2. Handling("disconnect") /\ connections' = connections \ {c} /\ UNCHANGED net
    BY <1>7, <2>1 DEF HandleCgExit, Handling, ConnectionsAfterExit
  <2>3. /\ QueueInv' /\ c \in connections /\ net[c] = "closed"
        /\ \A i \in Nat : ~DisconnectAt(i, c)'
    BY <2>1, <2>2, QueueDisconnect
  <2>4. \A d \in Conn \ {c} : (\E i \in Nat : DisconnectAt(i, d)')
                             <=> (\E i \in Nat : DisconnectAt(i, d))
    BY <2>1, <2>2, QueueKeeps
  <2>5. \A d \in Conn \ {c} : d \in Departed' <=> d \in Departed
    BY <2>2, <2>4, PendingAt DEF Departed
  <2>6. c \in Departed'
    BY <2>2, <2>3, PendingAt DEF Departed
  <2>7. Departed' = Departed \cup {c}
    BY <2>5, <2>6 DEF Departed
  <2>8. byConn' = [byConn EXCEPT ![c] = None]
    BY <1>7, <2>1 DEF HandleCgExit, Leave, ConnectionIsIn, TypeOK
  <2> QED BY <2>2, <2>3, <2>7, <2>8
<1>8. CASE HandleCgExit /\ Head(batch).kind # "disconnect"
  BY <1>6, <1>8 DEF HandleCgExit, Handling, ConnectionsAfterExit
<1>9. CASE HandleEnter \/ DropPlayerMessage \/ HandleMovement \/ HandleItemTradeSell
  BY <1>6, <1>9
  DEF HandleEnter, DropPlayerMessage, HandleMovement, HandleItemTradeSell, memory
<1>10. CASE DrainIngress
  BY <1>4, <1>10, QueueDrain DEF DrainIngress, memory
<1>11. CASE RunJob \/ RunCallback \/ UNCHANGED vars
  BY <1>4, <1>11
  DEF RunJob, RunLoad, RunSell, RunSavePosition, JobThrows, Running, RunCallback,
      OnLoaded, OnSold, OnDone, Calling, vars, queues, memory, Queue
<1> QED
  BY <1>1, <1>2, <1>3, <1>5, <1>7, <1>8, <1>9, <1>10, <1>11 DEF Next, Tick

\* What each step does to the characters played, seen without the queues.
LEMMA PlayingNext ==
  ASSUME SessionAssumption, TypeOK, RegistriesInv, [Next]_vars
  PROVE  \/ UNCHANGED byConn
         \/ \E c \in Conn : byConn[c] # None /\ byConn' = [byConn EXCEPT ![c] = None]
         \/ \E c \in connections, ch \in Char :
              /\ byConn[c] = None /\ byChar[ch] = None
              /\ byConn' = [byConn EXCEPT ![c] = [inst |-> nextInst, char |-> ch]]
              /\ UNCHANGED <<connections, net, batch, ingress>>
<1> USE SessionAssumption
<1>1. CASE HandleCgExit
  <2>1. PICK c \in Conn : c = Head(batch).conn
    BY <1>1, TakeHead, RequestFields DEF TypeOK, HandleCgExit, Handling
  <2> QED BY <1>1, <2>1 DEF HandleCgExit, Leave, ConnectionIsIn
<1>2. CASE OnLoaded
  <2>1. PICK c \in Conn, ch \in Char :
          c = Head(callbacks).conn /\ ch = Head(callbacks).char
    BY <1>2, TakeHead, CallbackFields DEF TypeOK, OnLoaded, Calling
  <2>2. UNCHANGED <<connections, net, batch, ingress>>
    BY <1>2 DEF OnLoaded, Calling
  <2>3. \/ UNCHANGED byConn
        \/ /\ c \in connections /\ byConn[c] = None /\ byChar[ch] = None
           /\ byConn' = [byConn EXCEPT ![c] = [inst |-> nextInst, char |-> ch]]
    BY <1>2, <2>1
    DEF OnLoaded, CanJoin, Join, IsConnected, IsOnline, ConnectionIsIn
  <2> QED BY <2>2, <2>3
<1> QED
  BY <1>1, <1>2
  DEF Next, Tick, RunJob, RunCallback, Accept, OnFrame, HangUp, DrainIngress,
      HandleConnect, HandleEnter, DropPlayerMessage, HandleMovement,
      HandleItemTradeSell, RunLoad, RunSell, RunSavePosition, JobThrows, Running,
      OnSold, OnDone, vars, memory

LEMMA KnownNext ==
  ASSUME SessionAssumption, TypeOK, TypeOK', RegistriesInv, KnownInv, [Next]_vars
  PROVE  KnownInv'
<1> USE SessionAssumption
<1>1. QueueInv'
  BY QueueNext DEF KnownInv
<1>2. ASSUME NEW c \in Conn, byConn'[c] # None PROVE c \in connections'
  <2>1. byConn[c] # None => c \in connections
    BY DEF KnownInv
  <2>2. CASE UNCHANGED <<connections, Departed>>
    <3>1. CASE UNCHANGED byConn
      BY <1>2, <2>1, <2>2, <3>1
    <3>2. ASSUME NEW d \in Conn, byConn' = [byConn EXCEPT ![d] = None]
          PROVE  c \in connections'
      <4>1. byConn'[c] = byConn[c]
        BY <1>2, <3>2 DEF TypeOK
      <4> QED BY <1>2, <2>1, <2>2, <4>1
    <3>3. ASSUME NEW d \in connections, NEW ch \in Char,
                 byConn' = [byConn EXCEPT ![d] = [inst |-> nextInst, char |-> ch]]
          PROVE  c \in connections'
      <4>1. c = d \/ byConn'[c] = byConn[c]
        BY <3>3 DEF TypeOK
      <4> QED BY <1>2, <2>1, <2>2, <4>1
    <3> QED BY <3>1, <3>2, <3>3, PlayingNext
  <2>3. CASE \E d \in Conn : connections' = connections \cup {d} /\ UNCHANGED byConn
    <3>1. byConn'[c] = byConn[c]
      BY <2>3
    <3>2. connections \subseteq connections'
      BY <2>3
    <3> QED BY <1>2, <2>1, <3>1, <3>2
  <2>4. CASE \E d \in connections : /\ connections' = connections \ {d}
                                    /\ byConn' = [byConn EXCEPT ![d] = None]
    BY <1>2, <2>1, <2>4 DEF TypeOK
  <2> QED BY <2>2, <2>3, <2>4, QueueNext DEF KnownInv
<1> QED BY <1>1, <1>2 DEF KnownInv

LEMMA KnownInit == SessionAssumption /\ Init => KnownInv
<1> SUFFICES ASSUME Init PROVE KnownInv
  OBVIOUS
<1>1. Len(Queue) = 0
  BY DEF Init, Queue
<1>2. \A i, c : ~ConnectAt(i, c) /\ ~DisconnectAt(i, c)
  BY <1>1 DEF ConnectAt, DisconnectAt, At
<1> QED BY <1>2 DEF Init, KnownInv, QueueInv, QueueInvOf

\* Connect and disconnect requests keep their order in the queue, and a connection
\* the world knows is open or has its disconnect still to come: the inductive
\* invariant that NobodyPlaysCorrect and PresenceImplemented rest on.
THEOREM KnownCorrect == Spec => [](TypeOK /\ RegistriesInv /\ KnownInv)
<1>1. Init => TypeOK /\ RegistriesInv /\ KnownInv
  BY SessionAssumption, TypeInit, RegistriesInit, KnownInit
<1>2. TypeOK /\ RegistriesInv /\ KnownInv /\ [Next]_vars
        => (TypeOK /\ RegistriesInv /\ KnownInv)'
  BY SessionAssumption, TypeNext, RegistriesNext, KnownNext
<1> QED BY <1>1, <1>2, PTL DEF Spec

\* A player is never left behind a closed socket, however late its load.
THEOREM NobodyPlaysCorrect == Spec => []NobodyPlaysAfterDisconnect
<1>1. TypeOK /\ KnownInv => NobodyPlaysAfterDisconnect
  BY PendingAt
  DEF KnownInv, QueueInv, QueueInvOf, NobodyPlaysAfterDisconnect, Departed
<1> QED BY <1>1, KnownCorrect, PTL

\* The registries implement Presence: every step of the server is a step of the
\* abstract specification or changes nothing it sees.
THEOREM PresenceImplemented == Spec => ImplementsPresence
<1> USE SessionAssumption
<1> DEFINE playing == [c \in Conn |-> IF byConn[c] = None THEN None ELSE byConn[c].char]
<1>1. Init => P!Init
  BY DEF Init, P!Init, Departed
<1>2. ASSUME TypeOK, TypeOK', RegistriesInv, KnownInv, [Next]_vars
      PROVE  [P!Next]_(P!vars)
  <2> USE <1>2
  <2>1. CASE UNCHANGED <<connections, Departed>>
    <3>1. CASE UNCHANGED byConn
      BY <2>1, <3>1 DEF P!vars
    <3>2. ASSUME NEW c \in Conn, byConn[c] # None, byConn' = [byConn EXCEPT ![c] = None]
          PROVE  P!Release(c)
      <4>1. playing' = [playing EXCEPT ![c] = None]
        BY <3>2 DEF TypeOK
      <4>2. playing[c] # None
        BY <3>2 DEF TypeOK, PlayerRef, SessionAssumption
      <4> QED BY <2>1, <4>1, <4>2 DEF P!Release
    <3>3. ASSUME NEW c \in connections, NEW ch \in Char,
                 byConn[c] = None, byChar[ch] = None,
                 byConn' = [byConn EXCEPT ![c] = [inst |-> nextInst, char |-> ch]]
          PROVE  P!Take(c, ch)
      <4>1. c \in Conn /\ nextInst \in Nat
        BY DEF TypeOK
      <4>2. [inst |-> nextInst, char |-> ch] # None
        BY <4>1 DEF SessionAssumption
      <4>3. playing' = [playing EXCEPT ![c] = ch]
        BY <3>3, <4>1, <4>2 DEF TypeOK
      <4>4. playing[c] = None
        BY <3>3, <4>1
      <4>5. \A d \in Conn : playing[d] # ch
        BY <3>3 DEF RegistriesInv, RegistriesAgree, SessionAssumption
      <4> QED BY <2>1, <4>3, <4>4, <4>5 DEF P!Take, P!Free
    <3> QED BY <3>1, <3>2, <3>3, PlayingNext DEF P!Next, TypeOK
  <2>2. ASSUME NEW c \in Conn \ (connections \cup Departed),
               connections' = connections \cup {c}, UNCHANGED <<Departed, byConn>>
        PROVE  P!Arrive(c)
    BY <2>2 DEF P!Arrive
  <2>3. ASSUME NEW c \in connections,
               connections' = connections \ {c}, Departed' = Departed \cup {c},
               byConn' = [byConn EXCEPT ![c] = None]
        PROVE  P!Depart(c)
    <3>1. playing' = [playing EXCEPT ![c] = None]
      BY <2>3 DEF TypeOK
    <3> QED BY <2>3, <3>1 DEF P!Depart
  <2> QED BY <2>1, <2>2, <2>3, QueueNext DEF KnownInv, P!Next, TypeOK
<1> QED BY <1>1, <1>2, KnownCorrect, PTL DEF Spec, ImplementsPresence, P!Spec

-----------------------------------------------------------------------------
(* Loads. A character is awaited from the request to enter with it until   *)
(* the callback of its load. If it is never asked for while it is online   *)
(* or awaited, no departure comes between a load and its callback, so the  *)
(* load runs behind every save of the character and the callback has the   *)
(* place it last left.                                                     *)

LoadOf(job, ch) == job.kind = "load" /\ job.char = ch
LoadedOf(done, ch) == done.kind = "loaded" /\ done.char = ch

Awaited(ch) ==
  \/ \E i \in DOMAIN jobs : LoadOf(jobs[i], ch)
  \/ \E i \in DOMAIN callbacks : LoadedOf(callbacks[i], ch)

\* Of a step: a character is asked for only while it is neither.
EntersAlone ==
  HandleEnter => LET ch == Head(batch).char IN ~IsOnline(ch) /\ ~Awaited(ch)

\* A client enters with a character that is offline and that nobody is entering
\* with: there is no second client, or it waits for its turn.
OneEnterAtATime == [][EntersAlone]_vars

NoJobFails == [](faults = 0)

LoadBehindSaves(ch) ==
  \A i, j \in DOMAIN jobs : LoadOf(jobs[i], ch) =>
    /\ LoadOf(jobs[j], ch) => i = j
    /\ SaveOf(jobs[j], ch) => j < i

LoadedIsLatest(ch) ==
  \A i \in DOMAIN callbacks : LoadedOf(callbacks[i], ch) =>
    /\ left[ch] \in {None, callbacks[i].row.pos}
    /\ \A j \in DOMAIN callbacks : LoadedOf(callbacks[j], ch) => i = j
    /\ \A j \in DOMAIN jobs : ~LoadOf(jobs[j], ch) /\ ~SaveOf(jobs[j], ch)

AwaitedOnce(ch) ==
  /\ Awaited(ch) => ~IsOnline(ch)
  /\ LoadBehindSaves(ch)
  /\ LoadedIsLatest(ch)

AwaitInv == \A ch \in Char : AwaitedOnce(ch)

LEMMA Longer ==
  ASSUME NEW S, NEW queue \in Seq(S), NEW e
  PROVE  /\ Len(queue) \in Nat
         /\ \A i \in DOMAIN queue : i \in Nat /\ i < Len(queue) + 1
         /\ \A i \in DOMAIN Append(queue, e) :
              \/ i \in DOMAIN queue /\ Append(queue, e)[i] = queue[i]
              \/ i = Len(queue) + 1 /\ Append(queue, e)[i] = e
<1>1. Len(queue) \in Nat /\ DOMAIN queue = 1..Len(queue)
  BY LenProperties
<1> QED BY <1>1

LEMMA Shorter ==
  ASSUME NEW S, NEW queue \in Seq(S), queue # <<>>
  PROVE  /\ 1 \in DOMAIN queue /\ Head(queue) = queue[1]
         /\ \A i \in DOMAIN queue : i \in Nat /\ i >= 1
         /\ \A i \in DOMAIN Tail(queue) :
              i \in Nat /\ i >= 1 /\ i + 1 \in DOMAIN queue /\ Tail(queue)[i] = queue[i + 1]
<1>1. Len(queue) \in Nat /\ Len(queue) # 0 /\ DOMAIN queue = 1..Len(queue)
  BY EmptySeq, LenProperties
<1>2. /\ Head(queue) = queue[1]
      /\ Tail(queue) \in Seq(S) /\ Len(Tail(queue)) = Len(queue) - 1
      /\ \A i \in 1..(Len(queue) - 1) : Tail(queue)[i] = queue[i + 1]
  BY <1>1, HeadTailProperties
<1>3. DOMAIN Tail(queue) = 1..(Len(queue) - 1)
  BY <1>2, LenProperties
<1> QED BY <1>1, <1>2, <1>3

(* One lemma for each thing a step can do to the loads of a character.     *)

\* A job of another character, or one that neither loads nor saves.
LEMMA AwaitOtherJob ==
  ASSUME TypeOK, NEW ch, AwaitedOnce(ch), NEW job, Run(job),
         ~LoadOf(job, ch), ~SaveOf(job, ch),
         UNCHANGED callbacks, left'[ch] = left[ch], byChar'[ch] = byChar[ch]
  PROVE  AwaitedOnce(ch)'
<1>1. \A i \in DOMAIN jobs' : (i \in DOMAIN jobs /\ jobs'[i] = jobs[i]) \/ jobs'[i] = job
  BY Longer DEF TypeOK, Run
<1>2. Awaited(ch)' => Awaited(ch)
  BY <1>1 DEF Awaited
<1>3. LoadBehindSaves(ch)'
  BY <1>1 DEF AwaitedOnce, LoadBehindSaves
<1>4. LoadedIsLatest(ch)'
  BY <1>1 DEF AwaitedOnce, LoadedIsLatest
<1> QED BY <1>2, <1>3, <1>4 DEF AwaitedOnce, IsOnline

\* The load of a character nobody awaits.
LEMMA AwaitEnter ==
  ASSUME TypeOK, NEW ch, NEW job, Run(job), LoadOf(job, ch),
         ~IsOnline(ch), ~Awaited(ch), UNCHANGED <<callbacks, left, byChar>>
  PROVE  AwaitedOnce(ch)'
<1>1. /\ Len(jobs) \in Nat
      /\ \A i \in DOMAIN jobs : i \in Nat /\ i < Len(jobs) + 1
      /\ \A i \in DOMAIN jobs' :
           \/ i \in DOMAIN jobs /\ jobs'[i] = jobs[i]
           \/ i = Len(jobs) + 1 /\ jobs'[i] = job
  BY Longer DEF TypeOK, Run
<1>2. \A i \in DOMAIN jobs' : LoadOf(jobs'[i], ch) => i = Len(jobs) + 1
  BY <1>1 DEF Awaited
<1>3. \A i \in DOMAIN jobs' : SaveOf(jobs'[i], ch) => i \in DOMAIN jobs
  BY <1>1 DEF LoadOf, SaveOf
<1>4. LoadBehindSaves(ch)'
  BY <1>1, <1>2, <1>3 DEF LoadBehindSaves
<1>5. LoadedIsLatest(ch)'
  BY DEF LoadedIsLatest, Awaited
<1> QED BY <1>4, <1>5 DEF AwaitedOnce, IsOnline

\* The save of a character that leaves: it was online, so nobody awaits it.
LEMMA AwaitExit ==
  ASSUME TypeOK, NEW ch, ~Awaited(ch), NEW job, Run(job), SaveOf(job, ch),
         UNCHANGED callbacks
  PROVE  AwaitedOnce(ch)'
<1>1. \A i \in DOMAIN jobs' : (i \in DOMAIN jobs /\ jobs'[i] = jobs[i]) \/ jobs'[i] = job
  BY Longer DEF TypeOK, Run
<1>2. \A i \in DOMAIN jobs' : ~LoadOf(jobs'[i], ch)
  BY <1>1 DEF Awaited, LoadOf, SaveOf
<1>3. \A i \in DOMAIN callbacks' : ~LoadedOf(callbacks'[i], ch)
  BY DEF Awaited
<1> QED BY <1>2, <1>3 DEF AwaitedOnce, Awaited, LoadBehindSaves, LoadedIsLatest

\* A job that runs and brings nothing loaded of the character, a load that finds
\* no session among them.
LEMMA AwaitRun ==
  ASSUME TypeOK, NEW ch, AwaitedOnce(ch), NEW kind, Running(kind),
         NEW done, Post(done), ~LoadedOf(done, ch)
  PROVE  AwaitedOnce(ch)'
<1>1. \A i \in DOMAIN jobs' : i \in Nat /\ i + 1 \in DOMAIN jobs /\ jobs'[i] = jobs[i + 1]
  BY Shorter DEF TypeOK, Running
<1>2. \A i \in DOMAIN callbacks' :
        (i \in DOMAIN callbacks /\ callbacks'[i] = callbacks[i]) \/ callbacks'[i] = done
  BY Longer DEF TypeOK, Post
<1>3. UNCHANGED <<left, byChar>>
  BY DEF Running, memory
<1>4. Awaited(ch)' => Awaited(ch)
  BY <1>1, <1>2 DEF Awaited
<1>5. LoadBehindSaves(ch)'
  <2> SUFFICES ASSUME NEW i \in DOMAIN jobs', NEW j \in DOMAIN jobs', LoadOf(jobs'[i], ch)
               PROVE  /\ LoadOf(jobs'[j], ch) => i = j
                      /\ SaveOf(jobs'[j], ch) => j < i
    BY DEF LoadBehindSaves
  <2>1. /\ i \in Nat /\ i + 1 \in DOMAIN jobs /\ jobs'[i] = jobs[i + 1]
        /\ j \in Nat /\ j + 1 \in DOMAIN jobs /\ jobs'[j] = jobs[j + 1]
    BY <1>1
  <2>2. /\ LoadOf(jobs[j + 1], ch) => i + 1 = j + 1
        /\ SaveOf(jobs[j + 1], ch) => j + 1 < i + 1
    BY <2>1 DEF AwaitedOnce, LoadBehindSaves
  <2> QED BY <2>1, <2>2
<1>6. LoadedIsLatest(ch)'
  <2> SUFFICES ASSUME NEW i \in DOMAIN callbacks', LoadedOf(callbacks'[i], ch)
               PROVE  /\ left[ch] \in {None, callbacks'[i].row.pos}
                      /\ \A j \in DOMAIN callbacks' : LoadedOf(callbacks'[j], ch) => i = j
                      /\ \A j \in DOMAIN jobs' : ~LoadOf(jobs'[j], ch) /\ ~SaveOf(jobs'[j], ch)
    BY <1>3 DEF LoadedIsLatest
  <2>1. i \in DOMAIN callbacks /\ callbacks'[i] = callbacks[i]
    BY <1>2
  <2>2. /\ left[ch] \in {None, callbacks[i].row.pos}
        /\ \A j \in DOMAIN callbacks : LoadedOf(callbacks[j], ch) => i = j
        /\ \A j \in DOMAIN jobs : ~LoadOf(jobs[j], ch) /\ ~SaveOf(jobs[j], ch)
    BY <2>1 DEF AwaitedOnce, LoadedIsLatest
  <2> QED BY <1>1, <1>2, <2>1, <2>2
<1> QED BY <1>3, <1>4, <1>5, <1>6 DEF AwaitedOnce, IsOnline

\* The load itself: no save of the character is left before it or behind it, so
\* the row it reads is where the character last left.
LEMMA AwaitLoad ==
  ASSUME TypeOK, SavesInv, faults = 0, NEW ch \in Char, AwaitedOnce(ch),
         NEW kind, Running(kind), LoadOf(Head(jobs), ch),
         NEW done, Post(done), LoadedOf(done, ch), done.row = db[ch]
  PROVE  AwaitedOnce(ch)'
<1>1. /\ 1 \in DOMAIN jobs /\ Head(jobs) = jobs[1]
      /\ \A i \in DOMAIN jobs : i \in Nat /\ i >= 1
      /\ \A i \in DOMAIN jobs' :
           i \in Nat /\ i >= 1 /\ i + 1 \in DOMAIN jobs /\ jobs'[i] = jobs[i + 1]
  BY Shorter DEF TypeOK, Running
<1>2. \A i \in DOMAIN callbacks' :
        \/ i \in DOMAIN callbacks /\ callbacks'[i] = callbacks[i]
        \/ i = Len(callbacks) + 1 /\ callbacks'[i] = done
  BY Longer DEF TypeOK, Post
<1>3. UNCHANGED <<left, byChar>>
  BY DEF Running, memory
<1>4. \A i \in DOMAIN jobs : LoadOf(jobs[i], ch) => i = 1
  BY <1>1 DEF AwaitedOnce, LoadBehindSaves
<1>5. \A i \in DOMAIN jobs : ~SaveOf(jobs[i], ch)
  <2> SUFFICES ASSUME NEW i \in DOMAIN jobs, SaveOf(jobs[i], ch) PROVE FALSE
    OBVIOUS
  <2>1. i < 1
    BY <1>1 DEF AwaitedOnce, LoadBehindSaves
  <2> QED BY <1>1, <2>1
<1>6. \A i \in DOMAIN jobs' : ~LoadOf(jobs'[i], ch) /\ ~SaveOf(jobs'[i], ch)
  <2> SUFFICES ASSUME NEW i \in DOMAIN jobs'
               PROVE  ~LoadOf(jobs'[i], ch) /\ ~SaveOf(jobs'[i], ch)
    OBVIOUS
  <2>1. i >= 1 /\ i \in Nat /\ i + 1 \in DOMAIN jobs /\ jobs'[i] = jobs[i + 1] /\ i + 1 # 1
    BY <1>1
  <2> QED BY <1>4, <1>5, <2>1
<1>7. \A i \in DOMAIN callbacks : ~LoadedOf(callbacks[i], ch)
  BY <1>1 DEF AwaitedOnce, LoadedIsLatest
<1>8. \A i \in DOMAIN callbacks' :
        LoadedOf(callbacks'[i], ch) => i = Len(callbacks) + 1 /\ callbacks'[i] = done
  BY <1>2, <1>7
<1>9. left[ch] \in {None, done.row.pos}
  BY <1>5 DEF SavesInv, EndsAt
<1>10. LoadedIsLatest(ch)'
  BY <1>3, <1>6, <1>8, <1>9 DEF LoadedIsLatest
<1>11. LoadBehindSaves(ch)'
  BY <1>6 DEF LoadBehindSaves
<1>12. Awaited(ch)
  BY <1>1 DEF Awaited
<1> QED BY <1>3, <1>10, <1>11, <1>12 DEF AwaitedOnce, IsOnline

\* A callback: only that of its own load can bring the character online.
LEMMA AwaitCallback ==
  ASSUME TypeOK, NEW ch, AwaitedOnce(ch), NEW kind, Calling(kind),
         byChar'[ch] = byChar[ch] \/ LoadedOf(Head(callbacks), ch)
  PROVE  AwaitedOnce(ch)'
<1>1. /\ 1 \in DOMAIN callbacks /\ Head(callbacks) = callbacks[1]
      /\ \A i \in DOMAIN callbacks' :
           /\ i \in Nat /\ i >= 1 /\ i + 1 \in DOMAIN callbacks
           /\ callbacks'[i] = callbacks[i + 1]
  BY Shorter DEF TypeOK, Calling
<1>2. UNCHANGED <<jobs, left>>
  BY DEF Calling
<1>3. Awaited(ch)' => Awaited(ch)
  BY <1>1, <1>2 DEF Awaited
<1>4. LoadBehindSaves(ch)'
  BY <1>2 DEF AwaitedOnce, LoadBehindSaves
<1>5. LoadedIsLatest(ch)'
  <2> SUFFICES ASSUME NEW i \in DOMAIN callbacks', LoadedOf(callbacks'[i], ch)
               PROVE  /\ left[ch] \in {None, callbacks'[i].row.pos}
                      /\ \A j \in DOMAIN callbacks' : LoadedOf(callbacks'[j], ch) => i = j
                      /\ \A j \in DOMAIN jobs : ~LoadOf(jobs[j], ch) /\ ~SaveOf(jobs[j], ch)
    BY <1>2 DEF LoadedIsLatest
  <2>1. i \in Nat /\ i + 1 \in DOMAIN callbacks /\ callbacks'[i] = callbacks[i + 1]
    BY <1>1
  <2>2. /\ left[ch] \in {None, callbacks[i + 1].row.pos}
        /\ \A j \in DOMAIN callbacks : LoadedOf(callbacks[j], ch) => i + 1 = j
        /\ \A j \in DOMAIN jobs : ~LoadOf(jobs[j], ch) /\ ~SaveOf(jobs[j], ch)
    BY <2>1 DEF AwaitedOnce, LoadedIsLatest
  <2>3. \A j \in DOMAIN callbacks' : LoadedOf(callbacks'[j], ch) => i = j
    <3> SUFFICES ASSUME NEW j \in DOMAIN callbacks', LoadedOf(callbacks'[j], ch) PROVE i = j
      OBVIOUS
    <3>1. j \in Nat /\ j + 1 \in DOMAIN callbacks /\ callbacks'[j] = callbacks[j + 1]
      BY <1>1
    <3>2. i + 1 = j + 1
      BY <2>2, <3>1
    <3> QED BY <2>1, <3>1, <3>2
  <2> QED BY <2>1, <2>2, <2>3
<1>6. Awaited(ch)' => ~IsOnline(ch)'
  <2>1. CASE byChar'[ch] = byChar[ch]
    BY <1>3, <2>1 DEF AwaitedOnce, IsOnline
  <2>2. CASE LoadedOf(Head(callbacks), ch)
    <3>1. \A j \in DOMAIN callbacks : LoadedOf(callbacks[j], ch) => j = 1
      BY <1>1, <2>2 DEF AwaitedOnce, LoadedIsLatest
    <3>2. \A j \in DOMAIN jobs : ~LoadOf(jobs[j], ch)
      BY <1>1, <2>2 DEF AwaitedOnce, LoadedIsLatest
    <3>3. \A i \in DOMAIN callbacks' : ~LoadedOf(callbacks'[i], ch)
      <4> SUFFICES ASSUME NEW i \in DOMAIN callbacks', LoadedOf(callbacks'[i], ch) PROVE FALSE
        OBVIOUS
      <4>1. /\ i \in Nat /\ i >= 1 /\ i + 1 \in DOMAIN callbacks
            /\ callbacks'[i] = callbacks[i + 1]
        BY <1>1
      <4>2. i + 1 = 1
        BY <3>1, <4>1
      <4> QED BY <4>1, <4>2
    <3> QED BY <1>2, <3>2, <3>3 DEF Awaited
  <2> QED BY <2>1, <2>2
<1> QED BY <1>4, <1>5, <1>6 DEF AwaitedOnce

LEMMA AwaitNext ==
  ASSUME SessionAssumption, TypeOK, RegistriesInv, SavesInv, AwaitInv, faults = 0,
         [Next]_vars, [EntersAlone]_vars
  PROVE  AwaitInv'
<1> SUFFICES ASSUME NEW ch \in Char PROVE AwaitedOnce(ch)'
  BY DEF AwaitInv
<1> USE SessionAssumption
<1>0. AwaitedOnce(ch)
  BY DEF AwaitInv
<1>1. CASE UNCHANGED <<jobs, callbacks, byChar, left>>
  BY <1>0, <1>1
  DEF AwaitedOnce, Awaited, IsOnline, LoadBehindSaves, LoadedIsLatest
<1>2. CASE HandleEnter
  <2> DEFINE job == [kind |-> "load", conn |-> Head(batch).conn, char |-> Head(batch).char]
  <2>1. Run(job) /\ UNCHANGED <<callbacks, left, byChar>>
    BY <1>2 DEF HandleEnter, Handling, memory
  <2>2. job.kind = "load" /\ job.char = Head(batch).char
    OBVIOUS
  <2>3. EntersAlone
    <3>1. jobs' # jobs
      <4>1. Len(jobs') = Len(jobs) + 1 /\ Len(jobs) \in Nat
        BY <2>1, LenProperties, AppendProperties DEF Run, TypeOK
      <4> QED BY <4>1
    <3> QED BY <3>1 DEF vars, queues
  <2> HIDE DEF job
  <2>4. ~SaveOf(job, ch)
    BY <2>2 DEF SaveOf
  <2>5. CASE LoadOf(job, ch)
    <3>1. ~IsOnline(ch) /\ ~Awaited(ch)
      BY <1>2, <2>2, <2>3, <2>5 DEF EntersAlone, LoadOf
    <3> QED BY <2>1, <2>5, <3>1, AwaitEnter
  <2>6. CASE ~LoadOf(job, ch)
    BY <1>0, <2>1, <2>4, <2>6, AwaitOtherJob
  <2> QED BY <2>5, <2>6
<1>3. CASE HandleItemTradeSell
  <2>1. UNCHANGED <<callbacks, left, byChar>>
    BY <1>3 DEF HandleItemTradeSell, Handling, memory
  <2>2. CASE UNCHANGED jobs
    BY <1>1, <2>1, <2>2
  <2>3. CASE \E p \in pool : Run([kind |-> "sell", conn |-> Head(batch).conn, char |-> p.char])
    <3>1. PICK job : Run(job) /\ job.kind = "sell"
      BY <2>3
    <3>2. ~LoadOf(job, ch) /\ ~SaveOf(job, ch)
      BY <3>1 DEF LoadOf, SaveOf
    <3> QED BY <1>0, <2>1, <3>1, <3>2, AwaitOtherJob
  <2> QED BY <1>3, <2>2, <2>3 DEF HandleItemTradeSell, FindPlayer
<1>4. CASE HandleCgExit
  <2> DEFINE c == Head(batch).conn
  <2>1. UNCHANGED callbacks
    BY <1>4 DEF HandleCgExit, Handling
  <2>2. CASE ~ConnectionIsIn(c)
    BY <1>1, <1>4, <2>1, <2>2 DEF HandleCgExit
  <2>3. CASE ConnectionIsIn(c)
    <3>1. PICK p \in FindPlayer(c) :
            /\ Leave(c, p)
            /\ Run([kind |-> "save", conn |-> c, char |-> p.char, pos |-> p.row.pos])
      BY <1>4, <2>3 DEF HandleCgExit
    <3>2. PICK job : Run(job) /\ job.kind = "save" /\ job.char = p.char
      BY <3>1
    <3>3. c \in Conn
      BY <1>4, TakeHead, RequestFields DEF HandleCgExit, Handling, TypeOK
    <3>4. /\ p \in pool /\ byConn[c] # None /\ p.inst = byConn[c].inst
          /\ p.char \in Char /\ p.conn \in Conn
      BY <3>1 DEF FindPlayer, TypeOK, Player
    <3>5. byConn[c].char = p.char /\ byChar[p.char] = c
      <4>1. PICK q \in pool : q.inst = byConn[c].inst /\ q.conn = c
        BY <3>3, <3>4 DEF RegistriesInv, RegistriesAgree
      <4>2. q = p
        BY <3>4, <4>1 DEF RegistriesInv, RegistriesAgree
      <4>3. byConn[c] = [inst |-> p.inst, char |-> p.char]
        BY <3>4, <4>1, <4>2 DEF RegistriesInv, RegistriesAgree
      <4>4. byConn[c].char = p.char
        BY <4>3
      <4> QED BY <3>3, <3>4, <4>4 DEF RegistriesInv, RegistriesAgree
    <3>6. c # None
      BY <3>3 DEF SessionAssumption
    <3>7. CASE ch = p.char
      <4>1. ~Awaited(ch)
        BY <1>0, <3>5, <3>6, <3>7 DEF AwaitedOnce, IsOnline
      <4>2. SaveOf(job, ch)
        BY <3>2, <3>7 DEF SaveOf
      <4> QED BY <2>1, <3>2, <4>1, <4>2, AwaitExit
    <3>8. CASE ch # p.char
      <4>1. left'[ch] = left[ch] /\ byChar'[ch] = byChar[ch]
        BY <3>1, <3>5, <3>8 DEF Leave, TypeOK
      <4>2. ~LoadOf(job, ch) /\ ~SaveOf(job, ch)
        BY <3>2, <3>8 DEF LoadOf, SaveOf
      <4> QED BY <1>0, <2>1, <3>2, <4>1, <4>2, AwaitOtherJob
    <3> QED BY <3>7, <3>8
  <2> QED BY <2>2, <2>3
<1>5. CASE RunLoad
  <2> DEFINE loading == Head(jobs).char
  <2>1. Running("load") /\ Head(jobs).kind = "load"
    BY <1>5 DEF RunLoad, Running
  <2>2. PICK done :
          /\ Post(done)
          /\ \/ done.kind = "loaded" /\ done.char = loading /\ done.row = db[loading]
             \/ done.kind = "done"
    BY <1>5 DEF RunLoad
  <2>3. CASE LoadedOf(done, ch)
    <3>1. loading = ch /\ done.row = db[ch]
      BY <2>2, <2>3 DEF LoadedOf
    <3>2. LoadOf(Head(jobs), ch)
      BY <2>1, <3>1 DEF LoadOf
    <3> QED BY <1>0, <2>1, <2>2, <2>3, <3>1, <3>2, AwaitLoad
  <2>4. CASE ~LoadedOf(done, ch)
    BY <1>0, <2>1, <2>2, <2>4, AwaitRun
  <2> QED BY <2>3, <2>4
<1>6. CASE RunSell \/ RunSavePosition \/ JobThrows
  <2>1. \E kind : Running(kind)
    BY <1>6 DEF RunSell, RunSavePosition, JobThrows
  <2>2. PICK done : Post(done) /\ done.kind \in {"sold", "done"}
    BY <1>6 DEF RunSell, RunSavePosition, JobThrows
  <2>3. ~LoadedOf(done, ch)
    BY <2>2 DEF LoadedOf
  <2> QED BY <1>0, <2>1, <2>2, <2>3, AwaitRun
<1>7. CASE OnLoaded
  <2> DEFINE done == Head(callbacks)
  <2>1. Calling("loaded") /\ done.kind = "loaded"
    BY <1>7 DEF OnLoaded, Calling
  <2>2. UNCHANGED byChar \/ byChar' = [byChar EXCEPT ![done.char] = done.conn]
    BY <1>7 DEF OnLoaded, Join
  <2>3. byChar'[ch] = byChar[ch] \/ ch = done.char
    BY <2>2 DEF TypeOK
  <2> QED BY <1>0, <2>1, <2>3, AwaitCallback DEF LoadedOf
<1>8. CASE OnSold \/ OnDone
  <2>1. (\E kind : Calling(kind)) /\ UNCHANGED byChar
    BY <1>8 DEF OnSold, OnDone
  <2> QED BY <1>0, <2>1, AwaitCallback
<1> QED
  BY <1>1, <1>2, <1>3, <1>4, <1>5, <1>6, <1>7, <1>8
  DEF Next, Tick, RunJob, RunCallback, Accept, OnFrame, HangUp, DrainIngress,
      HandleConnect, DropPlayerMessage, HandleMovement, Handling, vars, queues, memory

\* Whoever comes into the world comes by a load, with the row it read.
LEMMA NewPlayer ==
  ASSUME SessionAssumption, TypeOK, [Next]_vars, NEW p \in pool',
         \A q \in pool : q.inst # p.inst
  PROVE  /\ UNCHANGED left
         /\ 1 \in DOMAIN callbacks /\ LoadedOf(callbacks[1], p.char)
         /\ p.row = callbacks[1].row /\ p.char \in Char
<1> USE SessionAssumption
<1>1. ~(pool' \subseteq pool)
  OBVIOUS
<1>2. ASSUME NEW q \in pool, NEW r, Update(q, r), r.inst = q.inst PROVE FALSE
  BY <1>2 DEF Update
<1>3. CASE OnLoaded
  <2>1. callbacks # <<>> /\ Head(callbacks).kind = "loaded" /\ UNCHANGED left
    BY <1>3 DEF OnLoaded, Calling
  <2>2. 1 \in DOMAIN callbacks /\ Head(callbacks) = callbacks[1]
    BY <2>1, Shorter DEF TypeOK
  <2>3. Head(callbacks).char \in Char
    BY <2>1, TakeHead, CallbackFields DEF TypeOK
  <2>4. Join(Head(callbacks).conn, Head(callbacks).char, Head(callbacks).row)
    BY <1>1, <1>3 DEF OnLoaded
  <2>5. p = [inst |-> nextInst, conn |-> Head(callbacks).conn,
             char |-> Head(callbacks).char, row |-> Head(callbacks).row]
    BY <2>4 DEF Join
  <2>6. p.char = Head(callbacks).char /\ p.row = Head(callbacks).row
    BY <2>5
  <2> QED BY <2>1, <2>2, <2>3, <2>6 DEF LoadedOf
<1>4. CASE HandleMovement
  <2>1. PICK q \in pool : Update(q, [q EXCEPT !.row.pos = Head(batch).to])
    BY <1>4 DEF HandleMovement, FindPlayer
  <2>2. Head(batch).to \in Place
    BY <1>4, TakeHead, RequestFields DEF HandleMovement, Handling, TypeOK
  <2>3. [q EXCEPT !.row.pos = Head(batch).to].inst = q.inst
    BY <2>2, MovedPlayer DEF TypeOK
  <2> QED BY <1>2, <2>1, <2>3
<1>5. CASE OnSold
  <2>1. Head(callbacks).money \in Nat
    BY <1>5, TakeHead, CallbackFields DEF OnSold, Calling, TypeOK
  <2>2. PICK q \in pool :
          Update(q, [q EXCEPT !.row = [@ EXCEPT !.slot = FALSE,
                                                !.money = Head(callbacks).money]])
    BY <1>1, <1>5 DEF OnSold, FindPlayer
  <2>3. [q EXCEPT !.row = [@ EXCEPT !.slot = FALSE,
                                    !.money = Head(callbacks).money]].inst = q.inst
    BY <2>1, PaidPlayer DEF TypeOK
  <2> QED BY <1>2, <2>2, <2>3
<1>6. CASE HandleCgExit
  BY <1>1, <1>6 DEF HandleCgExit, Leave
<1> QED
  BY <1>1, <1>3, <1>4, <1>5, <1>6
  DEF Next, Tick, RunJob, RunCallback, Accept, OnFrame, HangUp, DrainIngress,
      HandleConnect, HandleEnter, DropPlayerMessage, HandleItemTradeSell, RunLoad,
      RunSell, RunSavePosition, JobThrows, Running, OnDone, vars, memory

\* What Session.cpp:112 says of a re-login holds when clients enter one at a time
\* and no job fails: however quickly a character comes back after it left, on this
\* connection or another, and whatever else is queued, it stands where it left. The
\* load is then queued behind the save.
THEOREM RejoinsCorrect == Spec /\ OneEnterAtATime /\ NoJobFails => RejoinsWhereItLeft
<1> DEFINE InPlace == \A p \in pool' :
      (\A q \in pool : q.inst # p.inst) => left[p.char] \in {None, p.row.pos}
<1>1. Init => SavesInv /\ AwaitInv
  <2> SUFFICES ASSUME Init PROVE SavesInv /\ AwaitInv
    OBVIOUS
  <2>1. DOMAIN jobs = {} /\ DOMAIN callbacks = {} /\ \A ch \in Char : left[ch] = None
    BY EmptySeq DEF Init
  <2> QED BY <2>1 DEF SavesInv, AwaitInv, AwaitedOnce, Awaited, LoadBehindSaves, LoadedIsLatest
<1>2. TypeOK /\ RegistriesInv /\ SavesInv /\ AwaitInv /\ faults = 0
        /\ [Next]_vars /\ [EntersAlone]_vars => SavesInv' /\ AwaitInv'
  BY SessionAssumption, SavesNext, AwaitNext
<1>3. TypeOK /\ AwaitInv /\ [Next]_vars => InPlace
  <2> SUFFICES ASSUME TypeOK, AwaitInv, [Next]_vars, NEW p \in pool',
                      \A q \in pool : q.inst # p.inst
               PROVE  left[p.char] \in {None, p.row.pos}
    OBVIOUS
  <2>1. /\ 1 \in DOMAIN callbacks /\ LoadedOf(callbacks[1], p.char)
        /\ p.row = callbacks[1].row /\ p.char \in Char
    BY SessionAssumption, NewPlayer
  <2> QED BY <2>1 DEF AwaitInv, AwaitedOnce, LoadedIsLatest
<1>4. TypeOK /\ AwaitInv /\ [Next]_vars => [InPlace]_vars
  BY <1>3
<1>5. RejoinsWhereItLeft <=> [][InPlace]_vars
  BY DEF RejoinsWhereItLeft
<1> HIDE DEF InPlace
<1> QED
  BY <1>1, <1>2, <1>4, <1>5, KnownCorrect, PTL DEF Spec, OneEnterAtATime, NoJobFails
=============================================================================
