------------------------------- MODULE Session -------------------------------
(***************************************************************************)
(* The game server's session core: how connections, the world and the      *)
(* database thread hand work to each other.                                *)
(*                                                                         *)
(*   I/O threads   push requests to the ingress queue (GameServer.cpp)     *)
(*   world strand  swaps the queue out once per tick and handles the batch *)
(*                 request by request (World.cpp); between ticks it runs   *)
(*                 the callbacks of finished database jobs                 *)
(*   DB thread     runs jobs in the order they were queued and posts each  *)
(*                 outcome back to the world strand (Persistence.h)        *)
(*                                                                         *)
(* The player operations are the session's own (enter, leave, disconnect), *)
(* CG_CHAR_MOVE for one that changes only memory, and CG_ITEM_TRADE_SELL   *)
(* for one that changes the database first and memory in its callback.     *)
(***************************************************************************)
EXTENDS Integers, Sequences

CONSTANTS
  Conn,       \* ConnectionId values; Server::m_nextConnectionId never repeats one
  Char,       \* `character` rows
  Place,      \* map and coordinates of a character
  Loaded,     \* the places on a map the Atlas holds
  None,
  MaxFrames,  \* frames a client sends on one connection
  MaxFaults   \* database jobs that throw

ASSUME SessionAssumption ==
  /\ Loaded \subseteq Place
  /\ None \notin Conn \cup Char \cup Place
  /\ None \notin [inst : Nat, char : Char]
  /\ MaxFrames \in Nat
  /\ MaxFaults \in Nat

VARIABLES
  net,         \* the socket: "fresh" until accepted, "open", "closed"
  frames,      \* frames received on each connection
  ingress,     \* World::ingress, the requests no tick has taken yet
  batch,       \* World::m_requests, what the running tick has left to handle
  connections, \* World::m_connections
  byConn,      \* World::m_playersByConnection: PlayerRef or None
  byChar,      \* World::m_connectionsByCharacter: connection or None
  pool,        \* the players on the maps
  nextInst,    \* EntityIdGenerator's counter
  jobs,        \* Persistence::m_thread's queue
  callbacks,   \* work posted to the world strand by finished jobs
  db,          \* the rows of each character
  faults,      \* jobs that threw so far
  left         \* history: where each character stood when it last left

memory == <<connections, byConn, byChar, pool, nextInst>>
queues == <<ingress, batch, jobs, callbacks>>
vars == <<net, frames, queues, memory, db, faults, left>>

\* A `character` row with its position, one inventory slot (full or not) and the
\* wallet, counted in sales of that slot's item.
Row == [pos : Place, slot : BOOLEAN, money : Nat]

Player == [inst : Nat, conn : Conn, char : Char, row : Row]
PlayerRef == [inst : Nat, char : Char]

\* GameConnect, GameExit with disconnected set, and the client's own messages.
Request ==
       [kind : {"connect", "disconnect", "sell", "exit"}, conn : Conn]
  \cup [kind : {"enter"}, conn : Conn, char : Char]
  \cup [kind : {"move"}, conn : Conn, to : Place]

Job ==
       [kind : {"load", "sell"}, conn : Conn, char : Char]
  \cup [kind : {"save"}, conn : Conn, char : Char, pos : Place]

\* What a job sends back that changes the world; a callback that only replies to
\* the client is "done".
Callback ==
       [kind : {"loaded"}, conn : Conn, char : Char, row : Row]
  \cup [kind : {"sold"}, conn : Conn, char : Char, money : Nat]
  \cup [kind : {"done"}, conn : Conn]

-----------------------------------------------------------------------------
(* World                                                                   *)

\* Mutant: the duplicate login check is lost.
NobodyIsOnline(ch) == FALSE

IsOnline(ch) == byChar[ch] # None

\* Mutant: Join lets a connection in twice.
NoConnectionIsIn(c) == FALSE

ConnectionIsIn(c) == byConn[c] # None

\* Mutant: the callback of a load does not ask whether its client is still there.
AssumeConnected(c) == TRUE

IsConnected(c) == c \in connections

\* World::FindPlayer, as the set of the players it finds (none or one).
FindPlayer(c) == {p \in pool : byConn[c] # None /\ p.inst = byConn[c].inst}

Update(p, q) == pool' = (pool \ {p}) \cup {q}

\* World::Join: Spawn fails only on a map the Atlas does not hold, or on an
\* instance id in use.
CanJoin(c, ch, row) ==
  /\ row.pos \in Loaded
  /\ ~IsOnline(ch)
  /\ ~ConnectionIsIn(c)

Join(c, ch, row) ==
  /\ pool' = pool \cup {[inst |-> nextInst, conn |-> c, char |-> ch, row |-> row]}
  /\ byConn' = [byConn EXCEPT ![c] = [inst |-> nextInst, char |-> ch]]
  /\ byChar' = [byChar EXCEPT ![ch] = c]

\* World::Leave of a connection with a player.
Leave(c, p) ==
  /\ byConn' = [byConn EXCEPT ![c] = None]
  /\ byChar' = [byChar EXCEPT ![byConn[c].char] = None]
  /\ pool' = pool \ {p}
  /\ left' = [left EXCEPT ![p.char] = p.row.pos]

-----------------------------------------------------------------------------
(* Sockets, on the I/O threads                                             *)

Receive(request) == ingress' = Append(ingress, request)

Accept(c) ==
  /\ net[c] = "fresh"
  /\ net' = [net EXCEPT ![c] = "open"]
  /\ Receive([kind |-> "connect", conn |-> c])
  /\ UNCHANGED <<frames, batch, jobs, callbacks, memory, db, faults, left>>

ClientFrame(c) ==
       {[kind |-> k, conn |-> c] : k \in {"sell", "exit"}}
  \cup {[kind |-> "enter", conn |-> c, char |-> ch] : ch \in Char}
  \cup {[kind |-> "move", conn |-> c, to |-> to] : to \in Loaded}

OnFrame(c) ==
  /\ net[c] = "open"
  /\ frames[c] < MaxFrames
  /\ frames' = [frames EXCEPT ![c] = @ + 1]
  /\ \E request \in ClientFrame(c) : Receive(request)
  /\ UNCHANGED <<net, batch, jobs, callbacks, memory, db, faults, left>>

HangUp(c) ==
  /\ net[c] = "open"
  /\ net' = [net EXCEPT ![c] = "closed"]
  /\ Receive([kind |-> "disconnect", conn |-> c])
  /\ UNCHANGED <<frames, batch, jobs, callbacks, memory, db, faults, left>>

-----------------------------------------------------------------------------
(* The tick: BatchQueue::DrainTo, then every request in turn               *)

DrainIngress ==
  /\ batch = <<>>
  /\ ingress # <<>>
  /\ batch' = ingress
  /\ ingress' = <<>>
  /\ UNCHANGED <<net, frames, jobs, callbacks, memory, db, faults, left>>

Handling(kind) ==
  /\ batch # <<>>
  /\ Head(batch).kind = kind
  /\ batch' = Tail(batch)
  /\ UNCHANGED <<net, frames, ingress, callbacks, db, faults>>

\* Mutant: a job overtakes those queued before it.
RunFirst(job) == jobs' = <<job>> \o jobs

Run(job) == jobs' = Append(jobs, job)

HandleConnect ==
  /\ Handling("connect")
  /\ connections' = connections \cup {Head(batch).conn}
  /\ UNCHANGED <<byConn, byChar, pool, nextInst, jobs, left>>

HandleEnter ==
  /\ Handling("enter")
  /\ Run([kind |-> "load", conn |-> Head(batch).conn, char |-> Head(batch).char])
  /\ UNCHANGED <<memory, left>>

\* PlayerMessage::Handle: a message that needs a player is dropped without one.
DropPlayerMessage ==
  /\ \E kind \in {"move", "sell"} : Handling(kind)
  /\ FindPlayer(Head(batch).conn) = {}
  /\ UNCHANGED <<memory, jobs, left>>

HandleMovement ==
  /\ Handling("move")
  /\ \E p \in FindPlayer(Head(batch).conn) :
       Update(p, [p EXCEPT !.row.pos = Head(batch).to])
  /\ UNCHANGED <<connections, byConn, byChar, nextInst, jobs, left>>

\* An empty slot in the cache is refused at once.
HandleItemTradeSell ==
  /\ Handling("sell")
  /\ \E p \in FindPlayer(Head(batch).conn) :
       IF p.row.slot
         THEN Run([kind |-> "sell", conn |-> Head(batch).conn, char |-> p.char])
         ELSE UNCHANGED jobs
  /\ UNCHANGED <<memory, left>>

\* Mutant: a disconnect leaves but stays on the list of connections.
StillListed(request) == connections

ConnectionsAfterExit(request) ==
  IF request.kind = "disconnect" THEN connections \ {request.conn} ELSE connections

\* CG_EXIT, and the disconnect that takes the same path. The position is saved
\* by a job queued behind all of this character's earlier ones.
HandleCgExit ==
  /\ \E kind \in {"exit", "disconnect"} : Handling(kind)
  /\ connections' = ConnectionsAfterExit(Head(batch))
  /\ LET c == Head(batch).conn IN
          IF ~ConnectionIsIn(c)
            THEN UNCHANGED <<byConn, byChar, pool, jobs, left>>
            ELSE \E p \in FindPlayer(c) :
                   /\ Leave(c, p)
                   /\ Run([kind |-> "save", conn |-> c, char |-> p.char,
                           pos |-> p.row.pos])
  /\ UNCHANGED nextInst

-----------------------------------------------------------------------------
(* The DB thread                                                           *)

Post(callback) == callbacks' = Append(callbacks, callback)

Running(kind) ==
  /\ jobs # <<>>
  /\ Head(jobs).kind = kind
  /\ jobs' = Tail(jobs)
  /\ UNCHANGED <<net, frames, ingress, batch, memory, left>>

\* LoadForEnter finds the character, or no session, account or character that
\* matches the request.
RunLoad ==
  /\ Running("load")
  /\ \/ Post([kind |-> "loaded", conn |-> Head(jobs).conn, char |-> Head(jobs).char,
              row |-> db[Head(jobs).char]])
     \/ Post([kind |-> "done", conn |-> Head(jobs).conn])
  /\ UNCHANGED <<db, faults>>

\* Mutant: the slot is not compared with what the handler saw.
SlotUnchecked(ch) == TRUE

SlotHolds(ch) == db[ch].slot

\* Mutant: the price is taken instead of given.
Debit(money) == money - 1

Credit(money) == money + 1

Sold(row) == [row EXCEPT !.slot = FALSE, !.money = Credit(row.money)]

\* ClearInventorySlot compares the slot with what the handler saw; the credit is
\* in the same transaction.
RunSell ==
  /\ Running("sell")
  /\ LET ch == Head(jobs).char IN
       IF SlotHolds(ch)
         THEN /\ db' = [db EXCEPT ![ch] = Sold(@)]
              /\ Post([kind |-> "sold", conn |-> Head(jobs).conn, char |-> ch,
                       money |-> Credit(db[ch].money)])
         ELSE /\ UNCHANGED db
              /\ Post([kind |-> "done", conn |-> Head(jobs).conn])
  /\ UNCHANGED faults

RunSavePosition ==
  /\ Running("save")
  /\ db' = [db EXCEPT ![Head(jobs).char].pos = Head(jobs).pos]
  /\ Post([kind |-> "done", conn |-> Head(jobs).conn])
  /\ UNCHANGED faults

\* Persistence::Attempt: a job that throws changes nothing and reports back.
JobThrows ==
  /\ faults < MaxFaults
  /\ faults' = faults + 1
  /\ \E kind \in {"load", "sell", "save"} : Running(kind)
  /\ Post([kind |-> "done", conn |-> Head(jobs).conn])
  /\ UNCHANGED db

-----------------------------------------------------------------------------
(* Callbacks, on the world strand between two ticks                        *)

Calling(kind) ==
  /\ batch = <<>>
  /\ callbacks # <<>>
  /\ Head(callbacks).kind = kind
  /\ callbacks' = Tail(callbacks)
  /\ UNCHANGED <<net, frames, ingress, batch, connections, jobs, db, faults, left>>

\* HandleEnter's callback. The instance id is taken before Join can refuse.
OnLoaded ==
  /\ Calling("loaded")
  /\ LET done == Head(callbacks) IN
       IF IsConnected(done.conn) /\ ~IsOnline(done.char)
         THEN /\ nextInst' = nextInst + 1
              /\ IF CanJoin(done.conn, done.char, done.row)
                   THEN Join(done.conn, done.char, done.row)
                   ELSE UNCHANGED <<byConn, byChar, pool>>
         ELSE UNCHANGED <<byConn, byChar, pool, nextInst>>

\* The callback of a sale finds its player by connection, not by character.
OnSold ==
  /\ Calling("sold")
  /\ LET done == Head(callbacks) IN
       IF FindPlayer(done.conn) = {}
         THEN UNCHANGED pool
         ELSE \E p \in FindPlayer(done.conn) :
                Update(p, [p EXCEPT !.row = [@ EXCEPT !.slot = FALSE,
                                                      !.money = done.money]])
  /\ UNCHANGED <<byConn, byChar, nextInst>>

OnDone ==
  /\ Calling("done")
  /\ UNCHANGED <<byConn, byChar, pool, nextInst>>

-----------------------------------------------------------------------------
Init ==
  /\ net = [c \in Conn |-> "fresh"]
  /\ frames = [c \in Conn |-> 0]
  /\ ingress = <<>> /\ batch = <<>> /\ jobs = <<>> /\ callbacks = <<>>
  /\ connections = {}
  /\ byConn = [c \in Conn |-> None]
  /\ byChar = [ch \in Char |-> None]
  /\ pool = {}
  /\ nextInst = 1
  /\ db \in [Char -> [pos : Place, slot : {TRUE}, money : {0}]]
  /\ faults = 0
  /\ left = [ch \in Char |-> None]

Tick ==
  \/ HandleConnect \/ HandleEnter \/ DropPlayerMessage \/ HandleMovement
  \/ HandleItemTradeSell \/ HandleCgExit

RunJob == RunLoad \/ RunSell \/ RunSavePosition \/ JobThrows

RunCallback == OnLoaded \/ OnSold \/ OnDone

Next ==
  \/ \E c \in Conn : Accept(c) \/ OnFrame(c) \/ HangUp(c)
  \/ DrainIngress
  \/ Tick
  \/ RunJob
  \/ RunCallback

Spec == Init /\ [][Next]_vars

\* The tick timer re-arms itself, the DB thread runs while it has a job, and the
\* world strand is a FIFO executor: a posted callback runs even though ticks
\* keep taking the strand, so its fairness is strong.
FairSpec ==
  /\ Spec
  /\ WF_vars(DrainIngress) /\ WF_vars(Tick) /\ WF_vars(RunJob)
  /\ SF_vars(RunCallback)
-----------------------------------------------------------------------------
(* Properties                                                              *)

TypeOK ==
  /\ net \in [Conn -> {"fresh", "open", "closed"}]
  /\ frames \in [Conn -> Nat]
  /\ ingress \in Seq(Request) /\ batch \in Seq(Request)
  /\ jobs \in Seq(Job) /\ callbacks \in Seq(Callback)
  /\ connections \subseteq Conn
  /\ byConn \in [Conn -> PlayerRef \cup {None}]
  /\ byChar \in [Char -> Conn \cup {None}]
  /\ pool \subseteq Player
  /\ nextInst \in Nat
  /\ db \in [Char -> Row]
  /\ faults \in Nat
  /\ left \in [Char -> Place \cup {None}]

\* World::Join and World::Leave keep three structures: who plays on each
\* connection, which connection plays each character, and the players on the
\* maps. They describe the same set of players, so no character is in the world
\* twice and FindPlayer finds the connection's own player, never a dead reference.
RegistriesAgree ==
  /\ \A c \in Conn : byConn[c] # None => byChar[byConn[c].char] = c
  /\ \A ch \in Char : byChar[ch] # None =>
       byConn[byChar[ch]] # None /\ byConn[byChar[ch]].char = ch
  /\ \A c \in Conn : byConn[c] # None =>
       \E p \in pool : p.inst = byConn[c].inst /\ p.conn = c
  /\ \A p \in pool : byConn[p.conn] = [inst |-> p.inst, char |-> p.char]
  /\ \A p, q \in pool : p.inst = q.inst => p = q

\* What the world has received and not handled yet, in the order it will be.
Queue == batch \o ingress

Pending(c, kind) ==
  \E i \in DOMAIN Queue : Queue[i].kind = kind /\ Queue[i].conn = c

Departed == {c \in Conn : net[c] = "closed" /\ ~Pending(c, "disconnect")}

\* However late a character finishes loading, it joins only for a connection
\* whose disconnect the world has still to see (Session.cpp:81), and that
\* disconnect then takes it out: nobody is left in the world behind a closed
\* socket.
NobodyPlaysAfterDisconnect ==
  /\ \A c \in Conn : byConn[c] # None => c \in connections
  /\ connections \cap Departed = {}

\* The compare-and-swap on the slot and the transaction around it let a full
\* slot become money once, whatever sales are queued, on however many
\* connections and from however stale a cache.
SoldOnce == \A ch \in Char : db[ch].money = IF db[ch].slot THEN 0 ELSE 1

\* Once the save of a character's last departure has run, its row holds the
\* place it left from, even if it came and went several times meanwhile.
SaveIsLastDeparture ==
  \A ch \in Char :
    ( /\ left[ch] # None
      /\ faults = 0
      /\ \A i \in DOMAIN jobs : ~(jobs[i].kind = "save" /\ jobs[i].char = ch) )
    => db[ch].pos = left[ch]

\* A closed socket is forgotten in the end, and its player with it.
DisconnectIsForgotten ==
  \A c \in Conn : net[c] = "closed" ~> (c \in Departed /\ byConn[c] = None)

\* The registries implement Presence.
P == INSTANCE Presence WITH
  known <- connections,
  departed <- Departed,
  playing <- [c \in Conn |-> IF byConn[c] = None THEN None ELSE byConn[c].char]

ImplementsPresence == P!Spec

\* "a quick re-login's load is queued behind this save anyway" (Session.cpp:112):
\* a character that joins again stands where it last left.
RejoinsWhereItLeft ==
  [][\A p \in pool' :
       (\A q \in pool : q.inst # p.inst) => left[p.char] \in {None, p.row.pos}]_vars
=============================================================================
