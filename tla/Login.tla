-------------------------------- MODULE Login --------------------------------
(***************************************************************************)
(* The login server beside the game server: two processes, one SQLite      *)
(* file.                                                                   *)
(*                                                                         *)
(* A handler of the login server reads the LoginSessionStore on its        *)
(* connection's strand and leaves the rest to a pool of one thread, whose  *)
(* jobs run one statement at a time. An exception in the pool ends the     *)
(* process. The game server reads and writes the same file from its own    *)
(* thread; BEGIN IMMEDIATE keeps the writers of the two processes apart,   *)
(* nothing else does.                                                      *)
(*                                                                         *)
(* There is one server_id. A client shows the game server a session, a     *)
(* username and a character's name; they need not be those it got or gave  *)
(* at the login server, which it may never have talked to.                 *)
(***************************************************************************)
EXTENDS Integers, Sequences

CONSTANTS
  Conn,          \* clients, with a login connection each
  Username, Password, Name,
  SessionId,     \* the session ids clients name, known or not
  Place,
  Home,          \* where a created character stands
  Grace,         \* kSevenDaysInSeconds
  StartAccounts, \* the database at the start
  StartTables,
  MaxClock,
  None,
  Sent,          \* the requests clients send
  MaxRequests,
  MaxCrashes,    \* exceptions in the pool, and stops of the login server
  MaxEvents      \* requests and crashes together

Account == [username : Username, password : Password]

CharacterRow == [id : Nat, account : Nat, name : Name, deleteAt : Nat]

PositionRow == [id : Nat, place : Place]

Tables == [characters : SUBSET CharacterRow, positions : SUBSET PositionRow,
           skills : SUBSET Nat, next : Nat]

Ids(rows) == {row.id : row \in rows}

\* The tables as the servers find them: no row without those that belong to it,
\* no id or name twice, and AUTOINCREMENT past every id.
Sound(t) ==
  /\ Ids(t.characters) = Ids(t.positions)
  /\ Ids(t.characters) \subseteq t.skills
  /\ \A p, q \in t.positions : p.id = q.id => p = q
  /\ \A row, other \in t.characters : row.id = other.id \/ row.name = other.name => row = other
  /\ \A row \in t.characters : row.id < t.next

ASSUME LoginAssumption ==
  /\ Home \in Place /\ SessionId \subseteq Nat
  /\ StartAccounts \in Seq(Account) /\ StartTables \in Tables /\ Sound(StartTables)
  /\ {Grace, MaxClock, MaxRequests, MaxCrashes, MaxEvents} \subseteq Nat /\ MaxClock >= 1
  /\ None \notin Nat /\ None \notin Place /\ None \notin Tables
  /\ Sent \subseteq {"login", "list", "create", "delete", "cancel", "locate", "connect",
                "enter", "exit"}

VARIABLES
  accounts,   \* accounts: a row's place is its id
  sessions,   \* session: each row's account
  db,         \* character, character_position and character_skill, committed
  txn,        \* the same inside the pool's open transaction, or None
  pool,       \* m_dbPool's queue
  accountOf,  \* LoginSessionStore::m_accountsByConnection
  sessionOf,  \* LoginSessionStore::m_sessionIdsByConnection
  lastRow,    \* sqlite3_last_insert_rowid of the pool's connection
  handed,     \* the session each client was handed last
  proven,     \* history: the accounts whose password each client gave
  jobs,       \* the game server's Persistence queue
  loaded,     \* its finished loads, on their way to the world strand
  playing,    \* its player of each client, or None
  clock, requests, crashes

tables == <<accounts, sessions, db, txn>>
store == <<accountOf, sessionOf, lastRow>>
client == <<handed, proven>>
game == <<jobs, loaded, playing>>
bounds == <<clock, requests, crashes>>
vars == <<tables, pool, store, client, game, bounds>>

Statement == {"ensureAccount", "insertSession", "setSession", "checkName",
              "readClock", "insertCharacter", "insertPosition", "insertSkills",
              "deletePositions", "deleteCharacters", "update"}

LoginJob ==
  [kind : {"login"}, conn : Conn, username : Username, password : Password, account : Nat,
   todo : Seq(Statement)]

SweepJob == [kind : {"sweep"}, account : Nat, now : Nat, todo : Seq(Statement)]

CharacterJob ==
  [kind : {"create", "delete", "cancel", "locate"}, account : Nat, name : Name, place : Place,
   todo : Seq(Statement)]

Job == LoginJob \cup SweepJob \cup CharacterJob

\* The username is history: the one its client named to enter.
Player == [id : Nat, account : Nat, session : Nat, username : Username, place : Place]

GameJob ==
       [kind : {"load"}, conn : Conn, session : Nat, username : Username, name : Name]
  \cup [kind : {"save"}, id : Nat, place : Place]

-----------------------------------------------------------------------------
(* Handlers of the login server                                            *)

Post(job) == pool' = Append(pool, job)

EventsLeft == requests + crashes < MaxEvents

Request(kind) ==
  /\ kind \in Sent
  /\ requests < MaxRequests /\ EventsLeft
  /\ requests' = requests + 1
  /\ UNCHANGED <<tables, store, game, clock, crashes>>

HandleLogin(c, username, password) ==
  /\ Request("login")
  /\ Post([kind |-> "login", conn |-> c, username |-> username, password |-> password,
           account |-> 0, todo |-> <<"ensureAccount", "insertSession", "setSession">>])
  /\ UNCHANGED client

\* A request on behalf of the account the store names now.
PostFor(c, kind, job) ==
  /\ Request(kind)
  /\ IF accountOf[c] = None THEN UNCHANGED pool ELSE Post(job)
  /\ UNCHANGED client

\* The sweep is what a list changes.
HandleGetCharacterList(c) ==
  PostFor(c, "list", [kind |-> "sweep", account |-> accountOf[c], now |-> 0,
                      todo |-> <<"readClock", "deletePositions", "deleteCharacters">>])

ForCharacter(c, kind, name, place, todo) ==
  PostFor(c, kind, [kind |-> kind, account |-> accountOf[c], name |-> name, place |-> place,
                    todo |-> todo])

HandleDeleteCharacter(c, name) == ForCharacter(c, "delete", name, Home, <<"update">>)

HandleCancelDeleteCharacter(c, name) == ForCharacter(c, "cancel", name, Home, <<"update">>)

HandleCreateCharacter(c, name) ==
  ForCharacter(c, "create", name, Home,
               <<"checkName", "insertCharacter", "insertPosition", "insertSkills">>)

HandleUpdateCharacterLocation(c, name, place) ==
  ForCharacter(c, "locate", name, place, <<"update">>)

\* Answered from the store, without the pool.
HandleGameServerConnection(c) ==
  /\ Request("connect")
  /\ handed' = [handed EXCEPT ![c] = IF sessionOf[c] = None THEN @ ELSE sessionOf[c]]
  /\ UNCHANGED <<pool, proven>>

-----------------------------------------------------------------------------
(* The pool                                                                *)

\* The last statement of a job removes it.
Done(job) == IF Len(job.todo) = 1 THEN Tail(pool) ELSE [pool EXCEPT ![1].todo = Tail(@)]

Running(statement) ==
  /\ pool # <<>>
  /\ Head(pool).todo[1] = statement
  /\ UNCHANGED <<handed, game, bounds>>

Authenticated(c, account) ==
  /\ accountOf' = [accountOf EXCEPT ![c] = account]
  /\ proven' = [proven EXCEPT ![c] = @ \cup {account}]

Matching(username) == {id \in DOMAIN accounts : accounts[id].username = username}

\* EnsureAccount registers a name it does not know, and the store learns the
\* account before its session is inserted.
EnsureAccount ==
  /\ Running("ensureAccount")
  /\ LET job == Head(pool)  known == Matching(job.username) IN
       \/ \E id \in known :
            /\ accounts[id].password # job.password
            /\ pool' = Tail(pool)
            /\ UNCHANGED <<accounts, accountOf, proven, lastRow>>
       \/ \E id \in known :
            /\ accounts[id].password = job.password
            /\ pool' = [pool EXCEPT ![1].todo = Tail(@), ![1].account = id]
            /\ Authenticated(job.conn, id)
            /\ UNCHANGED <<accounts, lastRow>>
       \/ /\ known = {}
          /\ accounts' = Append(accounts, [username |-> job.username, password |-> job.password])
          /\ pool' = [pool EXCEPT ![1].todo = Tail(@), ![1].account = Len(accounts')]
          /\ Authenticated(job.conn, Len(accounts'))
          /\ lastRow' = Len(accounts')
  /\ UNCHANGED <<sessions, db, txn, sessionOf>>

\* Mutant: the insert of the session does not come before its id is read.
KeptRow(row) == lastRow

LastInsertRowId(row) == row

InsertSession ==
  /\ Running("insertSession")
  /\ pool' = Done(Head(pool))
  /\ sessions' = Append(sessions, Head(pool).account)
  /\ lastRow' = LastInsertRowId(Len(sessions'))
  /\ UNCHANGED <<accounts, db, txn, accountOf, sessionOf, proven>>

SetSessionId ==
  /\ Running("setSession")
  /\ pool' = Done(Head(pool))
  /\ sessionOf' = [sessionOf EXCEPT ![Head(pool).conn] = lastRow]
  /\ UNCHANGED <<tables, accountOf, lastRow, proven>>

\* Mutant: names are compared within the account.
OwnNameTaken(job) == \E row \in db.characters : row.name = job.name /\ row.account = job.account

NameTaken(job) == \E row \in db.characters : row.name = job.name

CheckName ==
  /\ Running("checkName")
  /\ pool' = IF NameTaken(Head(pool)) THEN Tail(pool) ELSE Done(Head(pool))
  /\ UNCHANGED <<tables, store, proven>>

\* The rows the open transaction sees.
Seen == IF txn = None THEN db ELSE txn

\* Mutant: each statement of a transaction is its own commit.
WriteThrough(rows, last) ==
  /\ db' = rows
  /\ txn' = IF last THEN None ELSE rows

\* BEGIN IMMEDIATE with the first statement, COMMIT with the last.
Write(rows, last) ==
  /\ db' = IF last THEN rows ELSE db
  /\ txn' = IF last THEN None ELSE rows

\* The sweep reads the time once, for all its statements.
ReadClock ==
  /\ Running("readClock")
  /\ pool' = [pool EXCEPT ![1].todo = Tail(@), ![1].now = clock]
  /\ UNCHANGED <<tables, store, proven>>

\* kExpiredWhere.
Expired(rows, job) ==
  {row \in rows : row.account = job.account /\ row.deleteAt > 0 /\ row.deleteAt < job.now}

\* What a statement of HandleCreateCharacter or of the sweep leaves.
After(rows, job, statement) ==
  CASE statement = "insertCharacter" ->
         [rows EXCEPT !.next = @ + 1,
                      !.characters = @ \cup {[id |-> rows.next, account |-> job.account,
                                              name |-> job.name, deleteAt |-> 0]}]
    [] statement = "insertPosition" ->
         [rows EXCEPT !.positions = @ \cup {[id |-> rows.next - 1, place |-> job.place]}]
    [] statement = "insertSkills" -> [rows EXCEPT !.skills = @ \cup {rows.next - 1}]
    [] statement = "deletePositions" ->
         [rows EXCEPT !.positions =
            {p \in @ : p.id \notin Ids(Expired(rows.characters, job))}]
    [] statement = "deleteCharacters" ->
         [rows EXCEPT !.characters = @ \ Expired(@, job)]

Transacted == {"insertCharacter", "insertPosition", "insertSkills",
               "deletePositions", "deleteCharacters"}

RunStatement ==
  \E statement \in Transacted :
    /\ Running(statement)
    /\ pool' = Done(Head(pool))
    /\ Write(After(Seen, Head(pool), statement), Len(Head(pool).todo) = 1)
    /\ UNCHANGED <<accounts, sessions, store, proven>>

\* Mutant: the grace period is subtracted.
GraceBehind == clock - Grace

ScheduledDeletion == clock + Grace

Updated(row, kind) ==
  [row EXCEPT !.deleteAt = CASE kind = "delete" -> ScheduledDeletion
                             [] kind = "cancel" -> 0
                             [] OTHER -> @]

\* SELECT the account's character by name, then UPDATE it by its id.
RunUpdate ==
  /\ Running("update")
  /\ pool' = Done(Head(pool))
  /\ LET job == Head(pool)
         Mine(row) == row.account = job.account /\ row.name = job.name
         mine == {row \in db.characters : Mine(row)} IN
       db' = IF job.kind = "locate"
               THEN [db EXCEPT !.positions =
                      {IF p.id \in Ids(mine) THEN [p EXCEPT !.place = job.place] ELSE p : p \in @}]
               ELSE [db EXCEPT !.characters =
                      {IF Mine(row) THEN Updated(row, job.kind) ELSE row : row \in @}]
  /\ UNCHANGED <<accounts, sessions, txn, store, proven>>

\* The login server stops, because a job threw or otherwise, and starts again:
\* what was not committed is gone, and so is the store.
Crash ==
  /\ crashes < MaxCrashes /\ EventsLeft
  /\ crashes' = crashes + 1
  /\ txn' = None
  /\ pool' = <<>>
  /\ accountOf' = [c \in Conn |-> None]
  /\ sessionOf' = [c \in Conn |-> None]
  /\ lastRow' = 0
  /\ UNCHANGED <<accounts, sessions, db, client, game, clock, requests>>

-----------------------------------------------------------------------------
(* The game server                                                         *)

Elsewhere == UNCHANGED <<accounts, sessions, txn, pool, store, client, clock, crashes>>

GameRequest(kind) ==
  /\ kind \in Sent
  /\ requests < MaxRequests /\ EventsLeft
  /\ requests' = requests + 1
  /\ UNCHANGED db
  /\ Elsewhere

\* Session, username and name are whatever the request says.
HandleEnter(c, session, username, name) ==
  /\ GameRequest("enter")
  /\ jobs' = Append(jobs, [kind |-> "load", conn |-> c, session |-> session,
                           username |-> username, name |-> name])
  /\ UNCHANGED <<loaded, playing>>

RunGame(kind) ==
  /\ jobs # <<>>
  /\ Head(jobs).kind = kind
  /\ jobs' = Tail(jobs)
  /\ UNCHANGED <<playing, requests>>
  /\ Elsewhere

\* Mutant: any session does for any account.
AnyName(account, job) == TRUE

IsClaimed(account, job) == accounts[account].username = job.username

\* What CG_ENTER finds: the session must be one, its account the one the client
\* claims, the character one of that account with a position.
Found(job) ==
  IF job.session \notin DOMAIN sessions THEN {}
  ELSE LET account == sessions[job.session] IN
    {[id |-> p.id, account |-> account, session |-> job.session, username |-> job.username,
      place |-> p.place] : p \in
       {p \in db.positions :
          /\ IsClaimed(account, job)
          /\ \E row \in db.characters :
               row.id = p.id /\ row.account = account /\ row.name = job.name}}

LoadForEnter ==
  /\ RunGame("load")
  /\ LET job == Head(jobs) IN
       IF Found(job) = {} THEN UNCHANGED loaded
       ELSE \E player \in Found(job) :
              loaded' = Append(loaded, [conn |-> job.conn, player |-> player])
  /\ UNCHANGED db

IsOnline(id) == \E c \in Conn : playing[c] # None /\ playing[c].id = id

OnLoaded ==
  /\ loaded # <<>>
  /\ loaded' = Tail(loaded)
  /\ LET done == Head(loaded) IN
       playing' = IF IsOnline(done.player.id) \/ playing[done.conn] # None THEN playing
                  ELSE [playing EXCEPT ![done.conn] = done.player]
  /\ UNCHANGED <<db, jobs, requests>>
  /\ Elsewhere

HandleCgExit(c) ==
  /\ GameRequest("exit")
  /\ playing[c] # None
  /\ jobs' = Append(jobs, [kind |-> "save", id |-> playing[c].id, place |-> playing[c].place])
  /\ playing' = [playing EXCEPT ![c] = None]
  /\ UNCHANGED loaded

UpdatePosition(rows, at) ==
  {IF p.id = at.id THEN [p EXCEPT !.place = at.place] ELSE p : p \in rows}

\* Waits for the other process's transaction.
SavePosition ==
  /\ RunGame("save")
  /\ txn = None
  /\ db' = [db EXCEPT !.positions = UpdatePosition(@, Head(jobs))]
  /\ UNCHANGED loaded

Tick ==
  /\ clock < MaxClock
  /\ clock' = clock + 1
  /\ UNCHANGED <<tables, pool, store, client, game, requests, crashes>>

-----------------------------------------------------------------------------
Init ==
  /\ accounts = StartAccounts /\ sessions = <<>>
  /\ db = StartTables
  /\ txn = None
  /\ pool = <<>>
  /\ accountOf = [c \in Conn |-> None] /\ sessionOf = [c \in Conn |-> None]
  /\ lastRow = 0
  /\ handed = [c \in Conn |-> None] /\ proven = [c \in Conn |-> {}]
  /\ jobs = <<>> /\ loaded = <<>>
  /\ playing = [c \in Conn |-> None]
  /\ clock = 1 /\ requests = 0 /\ crashes = 0

Handle(c) ==
  \/ \E username \in Username, password \in Password : HandleLogin(c, username, password)
  \/ HandleGetCharacterList(c)
  \/ \E name \in Name :
       \/ HandleDeleteCharacter(c, name)
       \/ HandleCancelDeleteCharacter(c, name)
       \/ HandleCreateCharacter(c, name)
       \/ \E place \in Place : HandleUpdateCharacterLocation(c, name, place)
       \/ \E session \in SessionId, username \in Username : HandleEnter(c, session, username, name)
  \/ HandleGameServerConnection(c)
  \/ HandleCgExit(c)

RunPool == EnsureAccount \/ InsertSession \/ SetSessionId \/ CheckName \/ ReadClock \/ RunStatement \/ RunUpdate

Next ==
  \/ \E c \in Conn : Handle(c)
  \/ RunPool
  \/ Crash
  \/ LoadForEnter \/ OnLoaded \/ SavePosition
  \/ Tick

Spec == Init /\ [][Next]_vars
-----------------------------------------------------------------------------
(* Properties                                                              *)

TypeOK ==
  /\ accounts \in Seq(Account) /\ sessions \in Seq(Nat)
  /\ db \in Tables /\ txn \in Tables \cup {None}
  /\ pool \in Seq(Job)
  /\ accountOf \in [Conn -> Nat \cup {None}] /\ sessionOf \in [Conn -> Nat \cup {None}]
  /\ lastRow \in Nat
  /\ handed \in [Conn -> Nat \cup {None}] /\ proven \in [Conn -> SUBSET Nat]
  /\ jobs \in Seq(GameJob) /\ loaded \in Seq([conn : Conn, player : Player])
  /\ playing \in [Conn -> Player \cup {None}]
  /\ clock \in 0..MaxClock /\ requests \in 0..MaxRequests /\ crashes \in 0..MaxCrashes

\* "A crash between the two INSERTs below would leave a `character` row with no
\* matching `character_position` row ... silently soft-locking the character"
\* (Character.cpp:364). In what is committed every character has exactly one
\* position and its skills, and no position outlives its character, wherever the
\* process stops and although the game server saves the position of a character
\* that may be swept while it plays.
EveryCharacterHasItsRows ==
  /\ Ids(db.characters) = Ids(db.positions)
  /\ Ids(db.characters) \subseteq db.skills
  /\ \A p, q \in db.positions : p.id = q.id => p = q

\* character.name has no UNIQUE constraint, the check and the insert are two
\* statements: of two clients creating the same name at once one is refused.
NamesAreUnique ==
  \A row, other \in db.characters : row.name = other.name => row = other

\* The store learns the account before the session exists and keeps the previous
\* session meanwhile (Auth.cpp:74-83), and a client may log in again, or fail to,
\* at any time: the session a client is handed is of an account whose password it
\* gave.
HandsOverItsOwn ==
  \A c \in Conn :
    handed[c] # None => handed[c] \in DOMAIN sessions /\ sessions[handed[c]] \in proven[c]

\* "The session only proves some account logged in, so check it's the one the
\* client claims" (Session.cpp:38). The game server does not ask who was handed the
\* session: this is all that a player's connection has shown. Its session is of the
\* player's account, that account has the username the connection named, someone
\* gave its password, and the character is the account's for as long as there is
\* one of that id, although it may be swept and others created while it plays.
PlaysWhatItNamed ==
  \A c \in Conn :
    playing[c] # None =>
      LET p == playing[c] IN
        /\ p.session \in DOMAIN sessions /\ sessions[p.session] = p.account
        /\ accounts[p.account].username = p.username
        /\ \E d \in Conn : p.account \in proven[d]
        /\ \A row \in db.characters : row.id = p.id => row.account = p.account
=============================================================================
