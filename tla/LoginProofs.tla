----------------------------- MODULE LoginProofs ------------------------------
(***************************************************************************)
(* Proofs about Login, for any number of clients, accounts, names, places, *)
(* requests and crashes, and any database to start with.                   *)
(***************************************************************************)
EXTENDS Login, SequenceTheorems, TLAPS

Characters == {"delete", "cancel", "locate"}

\* The statements of a job as its handler posts it,
Posted(kind, todo) ==
  \/ /\ kind = "login" /\ Len(todo) = 3
     /\ todo[1] = "ensureAccount" /\ todo[2] = "insertSession" /\ todo[3] = "setSession"
  \/ /\ kind = "sweep" /\ Len(todo) = 3
     /\ todo[1] = "readClock" /\ todo[2] = "deletePositions" /\ todo[3] = "deleteCharacters"
  \/ /\ kind = "create" /\ Len(todo) = 4
     /\ todo[1] = "checkName" /\ todo[2] = "insertCharacter"
     /\ todo[3] = "insertPosition" /\ todo[4] = "insertSkills"
  \/ kind \in Characters /\ Len(todo) = 1 /\ todo[1] = "update"

\* and what is left of one that has begun.
Begun(kind, todo) ==
  \/ /\ kind = "login" /\ Len(todo) = 2
     /\ todo[1] = "insertSession" /\ todo[2] = "setSession"
  \/ kind = "login" /\ Len(todo) = 1 /\ todo[1] = "setSession"
  \/ /\ kind = "sweep" /\ Len(todo) = 2
     /\ todo[1] = "deletePositions" /\ todo[2] = "deleteCharacters"
  \/ kind = "sweep" /\ Len(todo) = 1 /\ todo[1] = "deleteCharacters"
  \/ /\ kind = "create" /\ Len(todo) = 3
     /\ todo[1] = "insertCharacter" /\ todo[2] = "insertPosition" /\ todo[3] = "insertSkills"
  \/ /\ kind = "create" /\ Len(todo) = 2
     /\ todo[1] = "insertPosition" /\ todo[2] = "insertSkills"
  \/ kind = "create" /\ Len(todo) = 1 /\ todo[1] = "insertSkills"

\* The pool has one thread: only its first job has begun.
PoolInv ==
  /\ pool \in Seq(Job)
  /\ pool # <<>> =>
       Posted(pool[1].kind, pool[1].todo) \/ Begun(pool[1].kind, pool[1].todo)
  /\ \A i \in 2..Len(pool) : Posted(pool[i].kind, pool[i].todo)

\* What the open transaction holds, by the statement it has come to: nothing but
\* the pool writes while it is open, so it is the committed rows with the job's
\* first statements applied. A name found free stays so until the commit.
RowsInv ==
  /\ db \in Tables /\ txn \in Tables \cup {None}
  /\ Sound(db)
  /\ txn # None =>
       pool # <<>> /\ pool[1].todo[1] \in {"insertPosition", "insertSkills", "deleteCharacters"}
  /\ pool # <<>> /\ pool[1].todo[1] \in {"insertPosition", "insertSkills", "deleteCharacters"} =>
       txn # None
  /\ pool # <<>> =>
       LET job == pool[1]
           next == job.todo[1]
           made == After(db, job, "insertCharacter")
       IN /\ next \in {"insertCharacter", "insertPosition", "insertSkills"} => ~NameTaken(job)
          /\ next = "insertPosition" => txn = made
          /\ next = "insertSkills" => txn = After(made, job, "insertPosition")
          /\ next = "deleteCharacters" => txn = After(db, job, "deletePositions")

\* A session, by its id, of an account whose password the client gave.
Given(c, s) == s \in DOMAIN sessions /\ sessions[s] \in proven[c]

\* Whatever names a session on a client's behalf at the login server names one of
\* those.
OwnedInv ==
  /\ \A c \in Conn : sessionOf[c] # None => Given(c, sessionOf[c])
  /\ \A c \in Conn : handed[c] # None => Given(c, handed[c])
  /\ pool # <<>> /\ pool[1].todo[1] = "insertSession" =>
       pool[1].account \in proven[pool[1].conn]
  /\ pool # <<>> /\ pool[1].todo[1] = "setSession" => Given(pool[1].conn, lastRow)

\* No session without a client that gave its account's password.
SessionsInv ==
  /\ \A c \in Conn : proven[c] \subseteq DOMAIN accounts
  /\ \A s \in DOMAIN sessions : \E d \in Conn : sessions[s] \in proven[d]

\* A player's session is its account's, the account has the name the client named,
\* and no other account has, or can get, the character.
Fits(p) ==
  /\ p.session \in DOMAIN sessions /\ sessions[p.session] = p.account
  /\ accounts[p.account].username = p.username
  /\ p.id < db.next
  /\ \A row \in db.characters : row.id = p.id => row.account = p.account

\* So of those loaded and those who play.
PlayersInv ==
  /\ \A i \in 1..Len(loaded) : Fits(loaded[i].player)
  /\ \A c \in Conn : playing[c] # None => Fits(playing[c])

LoginInv == TypeOK /\ PoolInv /\ RowsInv /\ OwnedInv /\ SessionsInv /\ PlayersInv

-----------------------------------------------------------------------------
(* The pool's queue                                                        *)

(* A sequence that is not empty, and what follows its first element.       *)
LEMMA RestOf ==
  ASSUME NEW S, NEW s \in Seq(S), Len(s) >= 1
  PROVE  /\ s # <<>> /\ s[1] \in S /\ Head(s) = s[1]
         /\ Tail(s) \in Seq(S) /\ Len(Tail(s)) = Len(s) - 1
         /\ \A i \in 1..(Len(s) - 1) : Tail(s)[i] = s[i + 1]
BY HeadTailProperties, EmptySeq

(* The fields of a job.                                                    *)
LEMMA JobFields ==
  ASSUME NEW job \in Job
  PROVE  /\ job.kind \in {"login", "sweep", "create"} \cup Characters
         /\ job.account \in Nat /\ job.todo \in Seq(Statement)
         /\ job.kind = "login" <=> job \in LoginJob
         /\ job.kind = "sweep" <=> job \in SweepJob
         /\ job.kind \in {"create"} \cup Characters <=> job \in CharacterJob
<1>1. CASE job \in LoginJob
  BY <1>1 DEF LoginJob, SweepJob, CharacterJob, Characters
<1>2. CASE job \in SweepJob
  BY <1>2 DEF LoginJob, SweepJob, CharacterJob, Characters
<1>3. CASE job \in CharacterJob
  BY <1>3 DEF LoginJob, SweepJob, CharacterJob, Characters
<1>4. QED
  BY <1>1, <1>2, <1>3 DEF Job

(* The next statement says what kind of job it is of and whether the job   *)
(* has begun; after the last one of a kind nothing is left.                *)
LEMMA NextStatement ==
  ASSUME NEW kind, NEW todo \in Seq(Statement), Posted(kind, todo) \/ Begun(kind, todo)
  PROVE  /\ Len(todo) >= 1 /\ todo # <<>>
         /\ todo[1] \in {"ensureAccount", "insertSession", "setSession"} => kind = "login"
         /\ todo[1] \in {"readClock", "deletePositions", "deleteCharacters"} => kind = "sweep"
         /\ todo[1] \in {"checkName", "insertCharacter", "insertPosition", "insertSkills"}
              => kind = "create"
         /\ todo[1] = "update" => kind \in Characters
         /\ Posted(kind, todo) =>
              todo[1] \in {"ensureAccount", "readClock", "checkName", "update"}
         /\ todo[1] \in {"setSession", "deleteCharacters", "insertSkills", "update"}
              <=> Len(todo) = 1
<1>1. Len(todo) \in Nat
  BY LenProperties
<1>2. Len(todo) >= 1
  BY <1>1 DEF Posted, Begun
<1>3. QED
  BY <1>2, RestOf DEF Posted, Begun, Characters

(* After a statement that is not the last the next one is the one that     *)
(* follows.                                                                *)
LEMMA RestOfJob ==
  ASSUME NEW kind, NEW todo \in Seq(Statement), Posted(kind, todo) \/ Begun(kind, todo),
         Len(todo) # 1
  PROVE  /\ Begun(kind, Tail(todo))
         /\ todo[1] = "ensureAccount" => Tail(todo)[1] = "insertSession"
         /\ todo[1] = "insertSession" => Tail(todo)[1] = "setSession"
         /\ todo[1] = "readClock" => Tail(todo)[1] = "deletePositions"
         /\ todo[1] = "deletePositions" => Tail(todo)[1] = "deleteCharacters"
         /\ todo[1] = "checkName" => Tail(todo)[1] = "insertCharacter"
         /\ todo[1] = "insertCharacter" => Tail(todo)[1] = "insertPosition"
         /\ todo[1] = "insertPosition" => Tail(todo)[1] = "insertSkills"
<1> DEFINE rest == Tail(todo)
<1>1. /\ rest \in Seq(Statement) /\ Len(rest) \in Nat /\ Len(rest) = Len(todo) - 1
      /\ Len(todo) >= 2 => rest[1] = todo[2]
      /\ Len(todo) >= 3 => rest[2] = todo[3]
      /\ Len(todo) >= 4 => rest[3] = todo[4]
  BY NextStatement, RestOf, LenProperties
<1> HIDE DEF rest
<1>2. /\ Begun(kind, rest)
      /\ todo[1] = "ensureAccount" => rest[1] = "insertSession"
      /\ todo[1] = "insertSession" => rest[1] = "setSession"
      /\ todo[1] = "readClock" => rest[1] = "deletePositions"
      /\ todo[1] = "deletePositions" => rest[1] = "deleteCharacters"
      /\ todo[1] = "checkName" => rest[1] = "insertCharacter"
      /\ todo[1] = "insertCharacter" => rest[1] = "insertPosition"
      /\ todo[1] = "insertPosition" => rest[1] = "insertSkills"
  BY <1>1 DEF Posted, Begun, Characters
<1>3. QED
  BY <1>2 DEF rest

(* The first job keeps its other fields while its statements are done.     *)
LEMMA GoingOnIsAJob ==
  ASSUME NEW job \in Job, NEW todo \in Seq(Statement)
  PROVE  /\ [job EXCEPT !.todo = todo] \in Job
         /\ [job EXCEPT !.todo = todo].kind = job.kind
         /\ [job EXCEPT !.todo = todo].todo = todo
         /\ [job EXCEPT !.todo = todo].account = job.account
         /\ job.kind = "login" => [job EXCEPT !.todo = todo].conn = job.conn
         /\ job.kind = "sweep" => [job EXCEPT !.todo = todo].now = job.now
         /\ job.kind = "create" => /\ [job EXCEPT !.todo = todo].name = job.name
                                   /\ [job EXCEPT !.todo = todo].place = job.place
<1>1. CASE job \in LoginJob
  BY <1>1 DEF LoginJob, Job
<1>2. CASE job \in SweepJob
  BY <1>2 DEF SweepJob, Job
<1>3. CASE job \in CharacterJob
  BY <1>3 DEF CharacterJob, Job
<1>4. QED
  BY <1>1, <1>2, <1>3 DEF Job

(* A request joins the end of the pool's queue.                            *)
LEMMA JobPosted ==
  ASSUME PoolInv, NEW job \in Job, Posted(job.kind, job.todo), pool' = Append(pool, job)
  PROVE  /\ PoolInv' /\ pool' # <<>>
         /\ pool # <<>> => pool'[1] = pool[1]
         /\ pool = <<>> => pool'[1] = job
<1>1. /\ pool' \in Seq(Job) /\ Len(pool') = Len(pool) + 1
      /\ \A i \in 1..Len(pool) : pool'[i] = pool[i]
      /\ pool'[Len(pool) + 1] = job
  BY AppendProperties DEF PoolInv
<1>2. /\ Len(pool) \in Nat
      /\ pool # <<>> => Len(pool) >= 1
      /\ pool = <<>> => Len(pool) = 0
  BY EmptySeq, LenProperties DEF PoolInv
<1>3. pool' # <<>>
  BY <1>1, <1>2, RestOf
<1>4. QED
  BY <1>1, <1>2, <1>3 DEF PoolInv

(* The next job starts from its first statement.                           *)
LEMMA JobDone ==
  ASSUME PoolInv, pool # <<>>, pool' = Tail(pool)
  PROVE  /\ PoolInv'
         /\ pool' # <<>> => Posted(pool'[1].kind, pool'[1].todo)
<1>1. /\ pool' \in Seq(Job) /\ Len(pool') = Len(pool) - 1
      /\ \A i \in 1..Len(pool') : pool'[i] = pool[i + 1]
  BY HeadTailProperties DEF PoolInv
<1>2. Len(pool) \in Nat /\ (pool' # <<>> => Len(pool') >= 1)
  BY <1>1, EmptySeq, LenProperties DEF PoolInv
<1>3. QED
  BY <1>1, <1>2 DEF PoolInv

(* While a job goes on the others wait.                                    *)
LEMMA JobGoesOn ==
  ASSUME PoolInv, pool # <<>>, NEW job \in Job, Begun(job.kind, job.todo),
         pool' = [pool EXCEPT ![1] = job]
  PROVE  PoolInv' /\ pool' # <<>> /\ pool'[1] = job
<1>1. Len(pool) \in Nat /\ Len(pool) >= 1
  BY EmptySeq, LenProperties DEF PoolInv
<1>2. /\ pool' \in Seq(Job) /\ Len(pool') = Len(pool)
      /\ pool'[1] = job /\ \A i \in 2..Len(pool) : pool'[i] = pool[i]
  BY <1>1 DEF PoolInv
<1>3. QED
  BY <1>1, <1>2, RestOf DEF PoolInv

(* What a statement leaves of the queue.                                   *)
LEMMA StatementDone ==
  ASSUME PoolInv, pool # <<>>, pool' = Done(pool[1])
  PROVE  /\ PoolInv'
         /\ Len(pool[1].todo) = 1 /\ pool' # <<>> => Posted(pool'[1].kind, pool'[1].todo)
         /\ Len(pool[1].todo) # 1 =>
              pool' # <<>> /\ pool'[1] = [pool[1] EXCEPT !.todo = Tail(pool[1].todo)]
<1> DEFINE job == pool[1]
<1>1. /\ job \in Job /\ job.todo \in Seq(Statement)
      /\ Posted(job.kind, job.todo) \/ Begun(job.kind, job.todo)
  BY RestOf, EmptySeq, JobFields DEF PoolInv
<1>2. CASE Len(job.todo) = 1
  BY <1>2, JobDone DEF Done
<1>3. CASE Len(job.todo) # 1
  <2> DEFINE rest == [job EXCEPT !.todo = Tail(job.todo)]
  <2>1. Tail(job.todo) \in Seq(Statement) /\ Begun(job.kind, Tail(job.todo))
    BY <1>1, <1>3, RestOf, RestOfJob, NextStatement
  <2>2. rest \in Job /\ Begun(rest.kind, rest.todo)
    BY <1>1, <2>1, GoingOnIsAJob
  <2>3. pool' = [pool EXCEPT ![1] = rest]
    BY <1>3 DEF Done
  <2>4. QED
    BY <1>3, <2>2, <2>3, JobGoesOn
<1>4. QED
  BY <1>2, <1>3

(* The job a statement is run for.                                         *)
LEMMA RunningJob ==
  ASSUME PoolInv, NEW statement, Running(statement)
  PROVE  /\ pool # <<>> /\ Head(pool) = pool[1] /\ pool[1] \in Job
         /\ pool[1].todo \in Seq(Statement) /\ pool[1].todo[1] = statement
         /\ Posted(pool[1].kind, pool[1].todo) \/ Begun(pool[1].kind, pool[1].todo)
BY RestOf, EmptySeq, JobFields DEF PoolInv, Running

-----------------------------------------------------------------------------
(* Rows                                                                    *)

(* What becomes of the characters: those there are keep their account, new *)
(* ones get new ids.                                                       *)
Kept(t, u) ==
  /\ t.next <= u.next
  /\ \A row \in u.characters :
       row.id >= t.next \/ \E old \in t.characters : old.id = row.id /\ old.account = row.account

LEMMA KeptItself == ASSUME NEW t \in Tables PROVE Kept(t, t)
BY DEF Kept, Tables

(* What each statement leaves, field by field.                             *)
LEMMA AfterIs ==
  ASSUME NEW t \in Tables, NEW job
  PROVE  /\ After(t, job, "insertCharacter") =
              [characters |-> t.characters \cup {[id |-> t.next, account |-> job.account,
                                                  name |-> job.name, deleteAt |-> 0]},
               positions |-> t.positions, skills |-> t.skills, next |-> t.next + 1]
         /\ After(t, job, "insertPosition") =
              [characters |-> t.characters,
               positions |-> t.positions \cup {[id |-> t.next - 1, place |-> job.place]},
               skills |-> t.skills, next |-> t.next]
         /\ After(t, job, "insertSkills") =
              [characters |-> t.characters, positions |-> t.positions,
               skills |-> t.skills \cup {t.next - 1}, next |-> t.next]
         /\ After(t, job, "deletePositions") =
              [characters |-> t.characters,
               positions |-> {p \in t.positions : p.id \notin Ids(Expired(t.characters, job))},
               skills |-> t.skills, next |-> t.next]
         /\ After(t, job, "deleteCharacters") =
              [characters |-> t.characters \ Expired(t.characters, job),
               positions |-> t.positions, skills |-> t.skills, next |-> t.next]
BY DEF After, Tables

(* Tables made of rows.                                                    *)
LEMMA TablesType ==
  ASSUME NEW characters \in SUBSET CharacterRow, NEW positions \in SUBSET PositionRow,
         NEW skills \in SUBSET Nat, NEW next \in Nat
  PROVE  [characters |-> characters, positions |-> positions, skills |-> skills, next |-> next]
           \in Tables
BY DEF Tables

(* One more row, one more id.                                              *)
LEMMA IdsOfOneMore ==
  ASSUME NEW rows, NEW row
  PROVE  Ids(rows \cup {row}) = Ids(rows) \cup {row.id}
BY DEF Ids

(* The three inserts of a creation leave the tables sound if the name is   *)
(* free.                                                                   *)
LEMMA CreatedIsSound ==
  ASSUME NEW t \in Tables, Sound(t), NEW job,
         job.account \in Nat, job.name \in Name, job.place \in Place,
         \A row \in t.characters : row.name # job.name
  PROVE  LET made == After(t, job, "insertCharacter")
             placed == After(made, job, "insertPosition")
             skilled == After(placed, job, "insertSkills")
         IN /\ made \in Tables /\ placed \in Tables /\ skilled \in Tables /\ Sound(skilled)
            /\ Kept(t, skilled)
<1> DEFINE row == [id |-> t.next, account |-> job.account, name |-> job.name, deleteAt |-> 0]
           at == [id |-> t.next, place |-> job.place]
           characters == t.characters \cup {row}
           positions == t.positions \cup {at}
           made == After(t, job, "insertCharacter")
           placed == After(made, job, "insertPosition")
           skilled == After(placed, job, "insertSkills")
<1>1. /\ t.characters \in SUBSET CharacterRow /\ t.positions \in SUBSET PositionRow
      /\ t.skills \in SUBSET Nat /\ t.next \in Nat
      /\ t.next + 1 \in Nat /\ t.next + 1 - 1 = t.next
  BY DEF Tables
<1>2. /\ row \in CharacterRow /\ row.id = t.next /\ row.name = job.name
      /\ at \in PositionRow /\ at.id = t.next
  BY <1>1 DEF CharacterRow, PositionRow
<1>3. made = [characters |-> characters, positions |-> t.positions, skills |-> t.skills,
              next |-> t.next + 1]
  BY AfterIs
<1>4. made \in Tables /\ made.next - 1 = t.next
  <2> HIDE DEF row
  <2>1. characters \in SUBSET CharacterRow
    BY <1>1, <1>2
  <2> HIDE DEF made, characters
  <2>2. made \in Tables
    <3>1. [characters |-> characters, positions |-> t.positions, skills |-> t.skills,
           next |-> t.next + 1] \in Tables
      BY <1>1, <2>1, TablesType
    <3>2. QED
      BY <1>3, <3>1
  <2>3. made.next = t.next + 1
    BY <1>3
  <2>4. QED
    BY <1>1, <2>2, <2>3
<1>5. placed = [characters |-> made.characters, positions |-> made.positions \cup {at},
                skills |-> made.skills, next |-> made.next]
  <2> HIDE DEF made
  <2>1. After(made, job, "insertPosition") =
          [characters |-> made.characters,
           positions |-> made.positions \cup {[id |-> made.next - 1, place |-> job.place]},
           skills |-> made.skills, next |-> made.next]
    BY <1>4, AfterIs
  <2>2. QED
    BY <1>4, <2>1
<1>6. placed = [characters |-> characters, positions |-> positions, skills |-> t.skills,
                next |-> t.next + 1]
  <2> HIDE DEF made, placed, row, at
  <2>1. QED
    BY <1>3, <1>5
<1>7. placed \in Tables /\ placed.next - 1 = t.next
  <2> HIDE DEF row, at
  <2>1. characters \in SUBSET CharacterRow /\ positions \in SUBSET PositionRow
    BY <1>1, <1>2
  <2> HIDE DEF placed, characters, positions
  <2>2. placed \in Tables
    BY <1>1, <1>6, <2>1, TablesType
  <2>3. placed.next = t.next + 1
    BY <1>6
  <2>4. QED
    BY <1>1, <2>2, <2>3
<1>8. skilled = [characters |-> placed.characters, positions |-> placed.positions,
                 skills |-> placed.skills \cup {t.next}, next |-> placed.next]
  <2> HIDE DEF placed
  <2>1. After(placed, job, "insertSkills") =
          [characters |-> placed.characters, positions |-> placed.positions,
           skills |-> placed.skills \cup {placed.next - 1}, next |-> placed.next]
    BY <1>7, AfterIs
  <2>2. QED
    BY <1>7, <2>1
<1> HIDE DEF made, placed, skilled, row, at
<1>9. skilled = [characters |-> characters, positions |-> positions,
                 skills |-> t.skills \cup {t.next}, next |-> t.next + 1]
  BY <1>6, <1>8
<1>10. skilled \in Tables
  <2>1. /\ characters \in SUBSET CharacterRow /\ positions \in SUBSET PositionRow
        /\ t.skills \cup {t.next} \in SUBSET Nat
    BY <1>1, <1>2
  <2> HIDE DEF characters, positions
  <2>2. QED
    BY <1>1, <1>9, <2>1, TablesType
<1>11. Sound(skilled)
  <2>1. /\ Ids(characters) = Ids(t.characters) \cup {t.next}
        /\ Ids(positions) = Ids(t.positions) \cup {t.next}
    BY <1>2, IdsOfOneMore
  <2>2. /\ Ids(skilled.characters) = Ids(skilled.positions)
        /\ Ids(skilled.characters) \subseteq skilled.skills
    BY <1>9, <2>1 DEF Sound
  <2>3. \A r \in t.characters : r.id \in Nat /\ r.id < t.next
    BY <1>1 DEF Sound, CharacterRow
  <2>4. \A p \in t.positions : p.id \in Nat /\ p.id < t.next
    <3>1. \A p \in t.positions : \E r \in t.characters : r.id = p.id
      BY DEF Sound, Ids
    <3>2. QED
      BY <2>3, <3>1
  <2>5. \A p, q \in positions : p.id = q.id => p = q
    BY <1>1, <1>2, <2>4 DEF Sound
  <2>6. \A r, other \in characters : r.id = other.id \/ r.name = other.name => r = other
    BY <1>1, <1>2, <2>3 DEF Sound
  <2>7. \A r \in characters : r.id < t.next + 1
    BY <1>1, <1>2, <2>3
  <2>8. QED
    BY <1>9, <2>2, <2>5, <2>6, <2>7 DEF Sound
<1>12. Kept(t, skilled)
  <2>1. /\ t.next <= t.next + 1
        /\ \A r \in characters : r \in t.characters \/ r.id >= t.next
    BY <1>1, <1>2
  <2>2. skilled.next = t.next + 1 /\ skilled.characters = characters
    BY <1>9
  <2>3. QED
    BY <2>1, <2>2 DEF Kept
<1>13. QED
  BY <1>4, <1>7, <1>10, <1>11, <1>12 DEF made, placed, skilled

(* The two deletes of a sweep take both rows of the characters that go.    *)
LEMMA SweptIsSound ==
  ASSUME NEW t \in Tables, Sound(t), NEW job
  PROVE  LET begun == After(t, job, "deletePositions")
             swept == After(begun, job, "deleteCharacters")
         IN begun \in Tables /\ swept \in Tables /\ Sound(swept) /\ Kept(t, swept)
<1> DEFINE gone == Expired(t.characters, job)
           begun == After(t, job, "deletePositions")
           swept == After(begun, job, "deleteCharacters")
           left == {p \in t.positions : p.id \notin Ids(gone)}
<1>1. /\ t.characters \in SUBSET CharacterRow /\ t.positions \in SUBSET PositionRow
      /\ t.skills \in SUBSET Nat /\ t.next \in Nat
      /\ gone \subseteq t.characters
  BY DEF Tables, Expired
<1>2. /\ begun = [characters |-> t.characters, positions |-> left, skills |-> t.skills,
                  next |-> t.next]
      /\ begun \in Tables
  <2>1. begun = [characters |-> t.characters, positions |-> left, skills |-> t.skills,
                 next |-> t.next]
    BY AfterIs
  <2>2. left \in SUBSET PositionRow
    BY <1>1
  <2> HIDE DEF begun, left
  <2>3. QED
    BY <1>1, <2>1, <2>2, TablesType
<1>3. swept = [characters |-> begun.characters \ Expired(begun.characters, job),
               positions |-> begun.positions, skills |-> begun.skills, next |-> begun.next]
  BY <1>2, AfterIs
<1>4. swept = [characters |-> t.characters \ gone, positions |-> left, skills |-> t.skills,
               next |-> t.next]
  BY <1>2, <1>3
<1> HIDE DEF swept
<1>5. swept \in Tables
  BY <1>1, <1>4 DEF Tables
<1>6. Ids(t.characters \ gone) = Ids(t.characters) \ Ids(gone)
  BY <1>1 DEF Ids, Sound
<1>7. Ids(left) = Ids(t.positions) \ Ids(gone)
  BY DEF Ids
<1>8. Sound(swept)
  BY <1>1, <1>4, <1>6, <1>7 DEF Sound
<1>9. Kept(t, swept)
  BY <1>1, <1>4 DEF Kept
<1>10. QED
  BY <1>2, <1>5, <1>8, <1>9 DEF swept

(* Deleting, or no longer deleting, a character changes neither ids nor    *)
(* names.                                                                  *)
LEMMA UpdatedIsSound ==
  ASSUME NEW t \in Tables, Sound(t), NEW account \in Nat, NEW name \in Name, NEW deleteAt \in Nat
  PROVE  LET rows == {IF row.account = account /\ row.name = name
                        THEN [row EXCEPT !.deleteAt = deleteAt] ELSE row : row \in t.characters}
         IN /\ [t EXCEPT !.characters = rows] \in Tables /\ Sound([t EXCEPT !.characters = rows])
            /\ Kept(t, [t EXCEPT !.characters = rows])
<1> DEFINE New(row) == IF row.account = account /\ row.name = name
                         THEN [row EXCEPT !.deleteAt = deleteAt] ELSE row
           rows == {New(row) : row \in t.characters}
<1>1. /\ t.characters \in SUBSET CharacterRow /\ t.positions \in SUBSET PositionRow
      /\ t.skills \in SUBSET Nat /\ t.next \in Nat
  BY DEF Tables
<1>2. \A row \in t.characters :
        /\ New(row) \in CharacterRow /\ New(row).id = row.id /\ New(row).name = row.name
        /\ New(row).account = row.account
  BY <1>1 DEF CharacterRow
<1> HIDE DEF New
<1>3. rows \in SUBSET CharacterRow /\ Ids(rows) = Ids(t.characters)
  BY <1>2 DEF Ids
<1>4. \A row, other \in rows : row.id = other.id \/ row.name = other.name => row = other
  BY <1>2 DEF Sound
<1>5. /\ \A row \in rows : row.id < t.next
      /\ \A row \in rows : \E old \in t.characters : old.id = row.id /\ old.account = row.account
  BY <1>2 DEF Sound
<1> HIDE DEF rows
<1>6. [t EXCEPT !.characters = rows] =
        [characters |-> rows, positions |-> t.positions, skills |-> t.skills, next |-> t.next]
  BY DEF Tables
<1>7. Kept(t, [t EXCEPT !.characters = rows])
  BY <1>1, <1>5, <1>6 DEF Kept
<1>8. QED
  BY <1>1, <1>3, <1>4, <1>5, <1>6, <1>7 DEF Sound, Tables, rows, New

(* Neither does moving characters.                                         *)
LEMMA MovedIsSound ==
  ASSUME NEW t \in Tables, Sound(t), NEW ids, NEW to \in Place
  PROVE  LET rows == {IF p.id \in ids THEN [p EXCEPT !.place = to] ELSE p : p \in t.positions}
         IN /\ [t EXCEPT !.positions = rows] \in Tables /\ Sound([t EXCEPT !.positions = rows])
            /\ Kept(t, [t EXCEPT !.positions = rows])
<1> DEFINE New(p) == IF p.id \in ids THEN [p EXCEPT !.place = to] ELSE p
           rows == {New(p) : p \in t.positions}
<1>1. /\ t.characters \in SUBSET CharacterRow /\ t.positions \in SUBSET PositionRow
      /\ t.skills \in SUBSET Nat /\ t.next \in Nat
  BY DEF Tables
<1>2. \A p \in t.positions : New(p) \in PositionRow /\ New(p).id = p.id
  BY <1>1 DEF PositionRow
<1> HIDE DEF New
<1>3. rows \in SUBSET PositionRow /\ Ids(rows) = Ids(t.positions)
  BY <1>2 DEF Ids
<1>4. \A p, q \in rows : p.id = q.id => p = q
  BY <1>2 DEF Sound
<1> HIDE DEF rows
<1>5. [t EXCEPT !.positions = rows] =
        [characters |-> t.characters, positions |-> rows, skills |-> t.skills, next |-> t.next]
  BY DEF Tables
<1>6. Kept(t, [t EXCEPT !.positions = rows])
  BY <1>1, <1>5 DEF Kept
<1>7. QED
  BY <1>1, <1>3, <1>4, <1>5, <1>6 DEF Sound, Tables, rows, New

(* A statement does not look at what is left of the job.                   *)
LEMMA SameJob ==
  ASSUME NEW t \in Tables, NEW job, NEW rest, rest.account = job.account
  PROVE  /\ rest.name = job.name =>
              After(t, rest, "insertCharacter") = After(t, job, "insertCharacter")
         /\ rest.place = job.place =>
              After(t, rest, "insertPosition") = After(t, job, "insertPosition")
         /\ rest.now = job.now =>
              After(t, rest, "deletePositions") = After(t, job, "deletePositions")
BY DEF After, Expired

(* Without a transaction only a free name has to be shown of what the pool *)
(* comes to.                                                               *)
LEMMA NoTransaction ==
  ASSUME db' \in Tables, Sound(db'), txn' = None, PoolInv',
         pool' # <<>> =>
           /\ pool'[1].todo[1] \notin {"insertPosition", "insertSkills", "deleteCharacters"}
           /\ pool'[1].todo[1] = "insertCharacter" => ~NameTaken(pool[1])'
  PROVE  RowsInv'
BY DEF RowsInv

(* Nothing happens while the first job stays and no row is written.        *)
LEMMA RowsStay ==
  ASSUME RowsInv, UNCHANGED <<db, txn>>, pool # <<>>, pool' # <<>>, pool'[1] = pool[1]
  PROVE  RowsInv'
BY DEF RowsInv, NameTaken

(* A request joins the pool.                                               *)
LEMMA RowsPosted ==
  ASSUME RowsInv, PoolInv, UNCHANGED <<db, txn>>, NEW job \in Job, Posted(job.kind, job.todo),
         Post(job)
  PROVE  RowsInv'
<1>1. /\ PoolInv' /\ pool' # <<>>
      /\ pool # <<>> => pool'[1] = pool[1]
      /\ pool = <<>> => pool'[1] = job
  BY JobPosted DEF Post
<1>2. CASE pool # <<>>
  BY <1>1, <1>2, RowsStay
<1>3. CASE pool = <<>>
  <2>1. job.todo[1] \in {"ensureAccount", "readClock", "checkName", "update"}
    BY JobFields, NextStatement
  <2>2. txn = None /\ db \in Tables /\ Sound(db)
    BY <1>3 DEF RowsInv
  <2>3. QED
    BY <1>1, <1>3, <2>1, <2>2, NoTransaction
<1>4. QED
  BY <1>2, <1>3

(* What the head of the queue is after a statement.                        *)
LEMMA NextOfPool ==
  ASSUME PoolInv, NEW statement, Running(statement), pool' = Done(pool[1])
  PROVE  /\ PoolInv'
         /\ statement \in {"setSession", "deleteCharacters", "insertSkills", "update"} =>
              /\ pool' = Tail(pool)
              /\ pool' # <<>> =>
                   pool'[1].todo[1] \in {"ensureAccount", "readClock", "checkName", "update"}
         /\ statement \notin {"setSession", "deleteCharacters", "insertSkills", "update"} =>
              /\ pool' # <<>> /\ Len(pool[1].todo) # 1
              /\ pool'[1] = [pool[1] EXCEPT !.todo = Tail(pool[1].todo)]
              /\ pool'[1].todo = Tail(pool[1].todo)
<1>1. /\ pool # <<>> /\ Head(pool) = pool[1] /\ pool[1] \in Job
      /\ pool[1].todo \in Seq(Statement) /\ pool[1].todo[1] = statement
      /\ Posted(pool[1].kind, pool[1].todo) \/ Begun(pool[1].kind, pool[1].todo)
  BY RunningJob
<1>2. statement \in {"setSession", "deleteCharacters", "insertSkills", "update"}
        <=> Len(pool[1].todo) = 1
  BY <1>1, NextStatement
<1>3. /\ PoolInv'
      /\ Len(pool[1].todo) = 1 /\ pool' # <<>> => Posted(pool'[1].kind, pool'[1].todo)
      /\ Len(pool[1].todo) # 1 =>
           pool' # <<>> /\ pool'[1] = [pool[1] EXCEPT !.todo = Tail(pool[1].todo)]
  BY <1>1, StatementDone
<1>4. CASE Len(pool[1].todo) = 1
  <2>1. pool' = Tail(pool)
    BY <1>4 DEF Done
  <2>2. ASSUME pool' # <<>>
        PROVE  pool'[1].todo[1] \in {"ensureAccount", "readClock", "checkName", "update"}
    <3>1. pool'[1] \in Job
      BY <1>3, <2>2, RestOf, EmptySeq DEF PoolInv
    <3>2. pool'[1].todo \in Seq(Statement)
      BY <3>1, JobFields
    <3>3. QED
      BY <1>3, <1>4, <2>2, <3>2, NextStatement
  <2>3. QED
    BY <1>2, <1>3, <1>4, <2>1, <2>2
<1>5. CASE Len(pool[1].todo) # 1
  <2>1. Tail(pool[1].todo) \in Seq(Statement)
    BY <1>1, NextStatement, RestOf
  <2>2. [pool[1] EXCEPT !.todo = Tail(pool[1].todo)].todo = Tail(pool[1].todo)
    BY <1>1, <2>1, GoingOnIsAJob
  <2>3. QED
    BY <1>2, <1>3, <1>5, <2>2
<1>6. QED
  BY <1>4, <1>5

(* A statement of an open or opening transaction. The first of them finds  *)
(* the committed rows, the others what their predecessors left; the last   *)
(* one commits tables that are sound.                                      *)
LEMMA RowsRunStatement ==
  ASSUME RowsInv, PoolInv, RunStatement
  PROVE  RowsInv' /\ Kept(db, db')
<1> DEFINE job == pool[1]
           made == After(db, job, "insertCharacter")
           placed == After(made, job, "insertPosition")
           skilled == After(placed, job, "insertSkills")
           begun == After(db, job, "deletePositions")
           swept == After(begun, job, "deleteCharacters")
<1> PICK statement \in Transacted :
      /\ Running(statement)
      /\ pool' = Done(Head(pool))
      /\ Write(After(Seen, Head(pool), statement), Len(Head(pool).todo) = 1)
  BY DEF RunStatement
<1>1. /\ pool # <<>> /\ Head(pool) = job /\ job \in Job /\ job.todo[1] = statement
      /\ job.todo \in Seq(Statement)
      /\ Posted(job.kind, job.todo) \/ Begun(job.kind, job.todo)
  BY RunningJob
<1>2. pool' = Done(pool[1])
  BY <1>1
<1>3. /\ PoolInv'
      /\ statement \in {"deleteCharacters", "insertSkills"} /\ pool' # <<>> =>
           pool'[1].todo[1] \in {"ensureAccount", "readClock", "checkName", "update"}
      /\ statement \in {"insertCharacter", "insertPosition", "deletePositions"} =>
           /\ pool' # <<>> /\ Len(job.todo) # 1
           /\ pool'[1] = [job EXCEPT !.todo = Tail(job.todo)]
           /\ pool'[1].todo = Tail(job.todo)
  BY <1>2, NextOfPool
<1>4. /\ db \in Tables /\ Sound(db) /\ None \notin Tables
      /\ statement \in {"insertCharacter", "insertPosition", "insertSkills"} => ~NameTaken(job)
      /\ statement = "insertPosition" => txn = made
      /\ statement = "insertSkills" => txn = placed
      /\ statement = "deleteCharacters" => txn = begun
      /\ statement \in {"insertCharacter", "deletePositions"} => txn = None
      /\ Kept(db, db)
  BY <1>1, KeptItself, LoginAssumption DEF RowsInv
<1>5. ASSUME statement \in {"insertCharacter", "insertPosition", "insertSkills"}
      PROVE  /\ job.kind = "create" /\ job \in CharacterJob
             /\ made \in Tables /\ placed \in Tables /\ skilled \in Tables /\ Sound(skilled)
             /\ Kept(db, skilled)
  <2>1. job.kind = "create"
    BY <1>1, <1>5, NextStatement
  <2>2. job \in CharacterJob
    BY <1>1, <2>1, JobFields
  <2>3. job.account \in Nat /\ job.name \in Name /\ job.place \in Place
    BY <2>2 DEF CharacterJob
  <2>4. \A row \in db.characters : row.name # job.name
    BY <1>4, <1>5 DEF NameTaken
  <2>5. QED
    BY <1>4, <2>1, <2>2, <2>3, <2>4, CreatedIsSound
<1>6. ASSUME statement \in {"deletePositions", "deleteCharacters"}
      PROVE  /\ job.kind = "sweep"
             /\ begun \in Tables /\ swept \in Tables /\ Sound(swept) /\ Kept(db, swept)
  <2>1. job.kind = "sweep"
    BY <1>1, <1>6, NextStatement
  <2>2. QED
    BY <1>4, <2>1, SweptIsSound
<1> DEFINE rest == [job EXCEPT !.todo = Tail(job.todo)]
<1>7. ASSUME statement \in {"insertCharacter", "insertPosition", "deletePositions"}
      PROVE  /\ rest.account = job.account
             /\ job.kind = "sweep" => rest.now = job.now
             /\ job.kind = "create" => rest.name = job.name /\ rest.place = job.place
  <2>1. Tail(job.todo) \in Seq(Statement)
    BY <1>1, NextStatement, RestOf
  <2>2. QED
    BY <1>1, <2>1, GoingOnIsAJob
<1> HIDE DEF job, rest, made, placed, skilled, begun, swept
<1>8. CASE statement = "insertCharacter"
  <2>1. db' = db /\ txn' = made
    BY <1>1, <1>3, <1>4, <1>8 DEF Write, Seen, made
  <2>2. pool'[1] = rest /\ pool' # <<>> /\ pool'[1].todo[1] = "insertPosition"
    BY <1>1, <1>3, <1>8, RestOfJob DEF rest
  <2>3. After(db, rest, "insertCharacter") = made
    BY <1>4, <1>5, <1>7, <1>8, SameJob DEF made
  <2>4. ~NameTaken(pool[1])'
    BY <1>4, <1>5, <1>7, <1>8, <2>1, <2>2 DEF NameTaken
  <2>5. QED
    BY <1>4, <1>5, <1>8, <2>1, <2>2, <2>3, <2>4 DEF RowsInv
<1>9. CASE statement = "insertPosition"
  <2>1. db' = db /\ txn' = placed
    BY <1>1, <1>3, <1>4, <1>5, <1>9 DEF Write, Seen, placed
  <2>2. pool'[1] = rest /\ pool' # <<>> /\ pool'[1].todo[1] = "insertSkills"
    BY <1>1, <1>3, <1>9, RestOfJob DEF rest
  <2>3. After(db, rest, "insertCharacter") = made
    BY <1>4, <1>5, <1>7, <1>9, SameJob DEF made
  <2>4. After(made, rest, "insertPosition") = placed
    BY <1>4, <1>5, <1>7, <1>9, SameJob DEF placed
  <2>5. ~NameTaken(pool[1])'
    BY <1>4, <1>5, <1>7, <1>9, <2>1, <2>2 DEF NameTaken
  <2>6. QED
    BY <1>4, <1>5, <1>9, <2>1, <2>2, <2>3, <2>4, <2>5 DEF RowsInv
<1>10. CASE statement = "insertSkills"
  <2>1. Len(job.todo) = 1
    BY <1>1, <1>10, NextStatement
  <2>2. db' = skilled /\ txn' = None
    BY <1>1, <1>4, <1>5, <1>10, <2>1 DEF Write, Seen, skilled
  <2>3. QED
    BY <1>3, <1>5, <1>10, <2>2, NoTransaction
<1>11. CASE statement = "deletePositions"
  <2>1. db' = db /\ txn' = begun
    BY <1>1, <1>3, <1>4, <1>11 DEF Write, Seen, begun
  <2>2. pool'[1] = rest /\ pool' # <<>> /\ pool'[1].todo[1] = "deleteCharacters"
    BY <1>1, <1>3, <1>11, RestOfJob DEF rest
  <2>3. After(db, rest, "deletePositions") = begun
    BY <1>4, <1>6, <1>7, <1>11, SameJob DEF begun
  <2>4. QED
    BY <1>4, <1>6, <1>11, <2>1, <2>2, <2>3 DEF RowsInv
<1>12. CASE statement = "deleteCharacters"
  <2>1. Len(job.todo) = 1
    BY <1>1, <1>12, NextStatement
  <2>2. db' = swept /\ txn' = None
    BY <1>1, <1>4, <1>6, <1>12, <2>1 DEF Write, Seen, swept
  <2>3. QED
    BY <1>3, <1>6, <1>12, <2>2, NoTransaction
<1>13. QED
  BY <1>8, <1>9, <1>10, <1>11, <1>12 DEF Transacted

(* A character's deletion or relocation is one statement outside any       *)
(* transaction.                                                            *)
LEMMA RowsRunUpdate ==
  ASSUME RowsInv, PoolInv, clock \in Nat, RunUpdate
  PROVE  RowsInv' /\ Kept(db, db')
<1> DEFINE job == pool[1]
           Mine(row) == row.account = job.account /\ row.name = job.name
           mine == {row \in db.characters : Mine(row)}
<1>1. /\ pool # <<>> /\ Head(pool) = job /\ job \in Job /\ job.todo[1] = "update"
      /\ job.todo \in Seq(Statement)
      /\ Posted(job.kind, job.todo) \/ Begun(job.kind, job.todo)
  BY RunningJob DEF RunUpdate
<1>2. pool' = Done(pool[1])
  BY <1>1 DEF RunUpdate
<1>3. /\ PoolInv'
      /\ pool' # <<>> => pool'[1].todo[1] \in {"ensureAccount", "readClock", "checkName", "update"}
  BY <1>2, NextOfPool DEF RunUpdate
<1>4. db \in Tables /\ Sound(db) /\ txn = None
  BY <1>1 DEF RowsInv
<1>5. job.kind \in Characters /\ job \in CharacterJob
  BY <1>1, NextStatement, JobFields DEF Characters
<1>6. job.account \in Nat /\ job.name \in Name /\ job.place \in Place
  BY <1>5 DEF CharacterJob
<1>7. db' \in Tables /\ Sound(db') /\ Kept(db, db')
  <2>1. CASE job.kind = "locate"
    <3>1. db' = [db EXCEPT !.positions =
                  {IF p.id \in Ids(mine) THEN [p EXCEPT !.place = job.place] ELSE p : p \in @}]
      BY <1>1, <2>1 DEF RunUpdate
    <3>2. QED
      BY <1>4, <1>6, <3>1, MovedIsSound
  <2>2. CASE job.kind # "locate"
    <3> DEFINE deleteAt == IF job.kind = "delete" THEN clock + Grace ELSE 0
    <3>1. deleteAt \in Nat
      BY LoginAssumption
    <3> DEFINE Old(row) == IF row.account = Head(pool).account /\ row.name = Head(pool).name
                             THEN Updated(row, Head(pool).kind) ELSE row
               New(row) == IF row.account = job.account /\ row.name = job.name
                             THEN [row EXCEPT !.deleteAt = deleteAt] ELSE row
    <3>2. \A row : Old(row) = New(row)
      BY <1>1, <1>5, <2>2 DEF Updated, ScheduledDeletion, Characters
    <3>3. db' = [db EXCEPT !.characters = {Old(row) : row \in db.characters}]
      BY <1>1, <2>2 DEF RunUpdate
    <3> HIDE DEF Old, New
    <3>4. {Old(row) : row \in db.characters} = {New(row) : row \in db.characters}
      BY <3>2
    <3>5. db' = [db EXCEPT !.characters = {New(row) : row \in db.characters}]
      BY <3>3, <3>4
    <3> USE DEF New
    <3> HIDE DEF deleteAt
    <3>6. QED
      BY <1>4, <1>6, <3>1, <3>5, UpdatedIsSound
  <2>3. QED
    BY <2>1, <2>2
<1>8. txn' = None
  BY <1>4 DEF RunUpdate
<1>9. QED
  BY <1>3, <1>7, <1>8, NoTransaction

-----------------------------------------------------------------------------
(* Steps of the queue and of the rows                                      *)

(* What the client asks for becomes a job, or nothing.                     *)
LEMMA PostForPosts ==
  ASSUME NEW c \in Conn, NEW kind, NEW job, PostFor(c, kind, job),
         accountOf[c] # None => job \in Job /\ Posted(job.kind, job.todo)
  PROVE  /\ UNCHANGED <<db, txn>>
         /\ UNCHANGED pool \/ \E posted \in Job : Posted(posted.kind, posted.todo) /\ Post(posted)
BY DEF PostFor, Request, tables

(* A handler queues a job or leaves the pool alone.                        *)
LEMMA HandlerPosts ==
  ASSUME TypeOK, NEW c \in Conn, Handle(c)
  PROVE  /\ UNCHANGED <<db, txn>>
         /\ UNCHANGED pool \/ \E posted \in Job : Posted(posted.kind, posted.todo) /\ Post(posted)
<1> DEFINE Goal == /\ UNCHANGED <<db, txn>>
                   /\ \/ UNCHANGED pool
                      \/ \E posted \in Job : Posted(posted.kind, posted.todo) /\ Post(posted)
<1> SUFFICES Goal
  OBVIOUS
<1>1. ASSUME NEW username \in Username, NEW password \in Password,
             HandleLogin(c, username, password)
      PROVE  Goal
  <2> DEFINE job == [kind |-> "login", conn |-> c, username |-> username, password |-> password,
                     account |-> 0,
                     todo |-> <<"ensureAccount", "insertSession", "setSession">>]
  <2>1. job \in Job
    BY DEF Job, LoginJob, Statement
  <2>2. Posted(job.kind, job.todo)
    BY DEF Posted
  <2>3. UNCHANGED <<db, txn>> /\ Post(job)
    BY <1>1 DEF HandleLogin, Request, tables
  <2>4. QED
    BY <2>1, <2>2, <2>3
<1>2. ASSUME HandleGetCharacterList(c)
      PROVE  Goal
  <2> DEFINE job == [kind |-> "sweep", account |-> accountOf[c], now |-> 0,
                     todo |-> <<"readClock", "deletePositions", "deleteCharacters">>]
  <2>1. accountOf[c] # None => job \in Job
    BY DEF Job, SweepJob, Statement, TypeOK
  <2>2. Posted(job.kind, job.todo)
    BY DEF Posted
  <2>3. PostFor(c, "list", job)
    BY <1>2 DEF HandleGetCharacterList
  <2>4. QED
    BY <2>1, <2>2, <2>3, PostForPosts
<1>3. ASSUME NEW name \in Name, HandleCreateCharacter(c, name)
      PROVE  Goal
  <2> DEFINE job == [kind |-> "create", account |-> accountOf[c], name |-> name, place |-> Home,
                     todo |-> <<"checkName", "insertCharacter", "insertPosition", "insertSkills">>]
  <2>1. accountOf[c] # None => job \in Job
    BY LoginAssumption DEF Job, CharacterJob, Statement, TypeOK
  <2>2. Posted(job.kind, job.todo)
    BY DEF Posted
  <2>3. PostFor(c, "create", job)
    BY <1>3 DEF HandleCreateCharacter, ForCharacter
  <2>4. QED
    BY <2>1, <2>2, <2>3, PostForPosts
<1>4. ASSUME NEW name \in Name, NEW kind \in Characters, NEW place \in Place,
             ForCharacter(c, kind, name, place, <<"update">>)
      PROVE  Goal
  <2> DEFINE job == [kind |-> kind, account |-> accountOf[c], name |-> name, place |-> place,
                     todo |-> <<"update">>]
  <2>1. accountOf[c] # None => job \in Job
    BY DEF Job, CharacterJob, Statement, TypeOK, Characters
  <2>2. Posted(job.kind, job.todo)
    BY DEF Posted
  <2>3. PostFor(c, kind, job)
    BY <1>4 DEF ForCharacter
  <2>4. QED
    BY <2>1, <2>2, <2>3, PostForPosts
<1>5. ASSUME HandleGameServerConnection(c)
      PROVE  Goal
  BY <1>5 DEF HandleGameServerConnection, Request, tables
<1>6. ASSUME NEW session \in SessionId, NEW username \in Username, NEW name \in Name,
             HandleEnter(c, session, username, name)
      PROVE  Goal
  BY <1>6 DEF HandleEnter, GameRequest, Elsewhere
<1>7. ASSUME HandleCgExit(c)
      PROVE  Goal
  BY <1>7 DEF HandleCgExit, GameRequest, Elsewhere
<1>8. Home \in Place /\ {"delete", "cancel", "locate"} \subseteq Characters
  BY LoginAssumption DEF Characters
<1>9. QED
  BY <1>1, <1>2, <1>3, <1>4, <1>5, <1>6, <1>7, <1>8
     DEF Handle, HandleDeleteCharacter, HandleCancelDeleteCharacter, HandleUpdateCharacterLocation

(* EnsureAccount ends the job of a wrong password and goes on with the     *)
(* account of a right one.                                                 *)
LEMMA EnsureAccountRuns ==
  ASSUME TypeOK, PoolInv, EnsureAccount
  PROVE  /\ PoolInv'
         /\ \/ /\ UNCHANGED <<accountOf, proven>>
               /\ pool' # <<>> =>
                    pool'[1].todo[1] \in {"ensureAccount", "readClock", "checkName", "update"}
            \/ /\ pool' # <<>> /\ pool'[1] \in LoginJob
               /\ pool'[1].todo[1] = "insertSession"
               /\ Authenticated(pool'[1].conn, pool'[1].account)
<1> DEFINE job == pool[1]
           rest(id) == [job EXCEPT !.todo = Tail(job.todo), !.account = id]
<1>1. /\ pool # <<>> /\ Head(pool) = job /\ job \in Job /\ job.todo[1] = "ensureAccount"
      /\ job.todo \in Seq(Statement)
      /\ Posted(job.kind, job.todo) \/ Begun(job.kind, job.todo)
  BY RunningJob DEF EnsureAccount
<1>2. job.kind = "login" /\ Len(job.todo) # 1
  BY <1>1, NextStatement
<1>3. job \in LoginJob
  BY <1>1, <1>2, JobFields
<1>4. /\ Tail(job.todo) \in Seq(Statement) /\ Begun(job.kind, Tail(job.todo))
      /\ Tail(job.todo)[1] = "insertSession"
  <2>1. Len(job.todo) >= 1
    BY <1>1, NextStatement
  <2>2. Tail(job.todo) \in Seq(Statement)
    BY <1>1, <2>1, RestOf
  <2>3. QED
    BY <1>1, <1>2, <2>2, RestOfJob
<1>5. ASSUME pool' = Tail(pool)
      PROVE  /\ PoolInv'
             /\ pool' # <<>> =>
                  pool'[1].todo[1] \in {"ensureAccount", "readClock", "checkName", "update"}
  <2>1. PoolInv' /\ (pool' # <<>> => Posted(pool'[1].kind, pool'[1].todo))
    BY <1>1, <1>5, JobDone
  <2>2. ASSUME pool' # <<>>
        PROVE  pool'[1].todo \in Seq(Statement)
    BY <2>1, <2>2, RestOf, EmptySeq, JobFields DEF PoolInv
  <2>3. QED
    BY <2>1, <2>2, NextStatement
<1>6. ASSUME NEW id \in Nat, pool' = [pool EXCEPT ![1].todo = Tail(@), ![1].account = id]
      PROVE  /\ PoolInv' /\ pool' # <<>> /\ pool'[1] \in LoginJob
             /\ pool'[1].todo[1] = "insertSession"
             /\ pool'[1].conn = job.conn /\ pool'[1].account = id
  <2>1. /\ rest(id) \in Job /\ rest(id) \in LoginJob /\ Begun(rest(id).kind, rest(id).todo)
        /\ rest(id).conn = job.conn /\ rest(id).account = id
        /\ rest(id).todo[1] = "insertSession"
    <3>1. /\ rest(id) \in Job /\ rest(id) \in LoginJob /\ rest(id).kind = "login"
          /\ rest(id).conn = job.conn /\ rest(id).todo = Tail(job.todo) /\ rest(id).account = id
      <4> HIDE DEF job
      <4>1. QED
        BY <1>3, <1>4 DEF LoginJob, Job
    <3> HIDE DEF rest
    <3>2. QED
      BY <1>2, <1>4, <3>1
  <2>2. pool' = [pool EXCEPT ![1] = rest(id)]
    BY <1>1, <1>3, <1>6 DEF PoolInv, LoginJob
  <2> HIDE DEF rest
  <2>3. PoolInv' /\ pool' # <<>> /\ pool'[1] = rest(id)
    BY <1>1, <2>1, <2>2, JobGoesOn
  <2>4. QED
    BY <2>1, <2>3
<1>7. CASE pool' = Tail(pool) /\ UNCHANGED <<accountOf, proven>>
  BY <1>5, <1>7
<1>8. ASSUME NEW id \in Nat, pool' = [pool EXCEPT ![1].todo = Tail(@), ![1].account = id],
             Authenticated(job.conn, id)
      PROVE  /\ PoolInv' /\ pool' # <<>> /\ pool'[1] \in LoginJob
             /\ pool'[1].todo[1] = "insertSession"
             /\ Authenticated(pool'[1].conn, pool'[1].account)
  BY <1>6, <1>8
<1>9. DOMAIN accounts \subseteq Nat /\ Len(accounts) + 1 \in Nat
  BY LenProperties DEF TypeOK
<1>10. ASSUME NEW a \in Account, accounts' = Append(accounts, a)
       PROVE  Len(accounts') \in Nat
  BY <1>10, <1>9, AppendProperties DEF TypeOK
<1>11. [username |-> job.username, password |-> job.password] \in Account
  BY <1>3 DEF LoginJob, Account
<1>12. \/ pool' = Tail(pool) /\ UNCHANGED <<accountOf, proven>>
       \/ \E id \in Nat : /\ pool' = [pool EXCEPT ![1].todo = Tail(@), ![1].account = id]
                          /\ Authenticated(job.conn, id)
  <2>1. CASE \E id \in Matching(job.username) : pool' = Tail(pool) /\ UNCHANGED <<accountOf, proven>>
    BY <2>1
  <2>2. CASE \E id \in Matching(job.username) :
               /\ pool' = [pool EXCEPT ![1].todo = Tail(@), ![1].account = id]
               /\ Authenticated(job.conn, id)
    BY <1>9, <2>2 DEF Matching
  <2>3. CASE /\ accounts' = Append(accounts, [username |-> job.username, password |-> job.password])
             /\ pool' = [pool EXCEPT ![1].todo = Tail(@), ![1].account = Len(accounts')]
             /\ Authenticated(job.conn, Len(accounts'))
    BY <1>10, <1>11, <2>3
  <2>4. QED
    BY <1>1, <2>1, <2>2, <2>3 DEF EnsureAccount
<1>13. QED
  BY <1>7, <1>8, <1>12

(* ReadClock only notes the time.                                          *)
LEMMA ReadClockRuns ==
  ASSUME PoolInv, clock \in Nat, ReadClock
  PROVE  PoolInv' /\ pool' # <<>> /\ pool'[1].todo[1] = "deletePositions"
<1> DEFINE job == pool[1]
           rest == [job EXCEPT !.todo = Tail(job.todo), !.now = clock]
<1>1. /\ pool # <<>> /\ Head(pool) = job /\ job \in Job /\ job.todo[1] = "readClock"
      /\ job.todo \in Seq(Statement)
      /\ Posted(job.kind, job.todo) \/ Begun(job.kind, job.todo)
  BY RunningJob DEF ReadClock
<1>2. job.kind = "sweep" /\ Len(job.todo) # 1 /\ Len(job.todo) >= 1
  BY <1>1, NextStatement
<1>3. job \in SweepJob
  BY <1>1, <1>2, JobFields
<1>4. Tail(job.todo) \in Seq(Statement)
  BY <1>1, <1>2, RestOf
<1>5. Begun(job.kind, Tail(job.todo)) /\ Tail(job.todo)[1] = "deletePositions"
  BY <1>1, <1>2, RestOfJob
<1>6. rest \in Job /\ rest.kind = "sweep" /\ rest.todo = Tail(job.todo)
  <2> HIDE DEF job
  <2>1. QED
    BY <1>3, <1>4 DEF SweepJob, Job
<1>7. pool' = [pool EXCEPT ![1] = rest]
  BY <1>1, <1>3 DEF ReadClock, PoolInv, SweepJob
<1> HIDE DEF rest
<1>8. PoolInv' /\ pool' # <<>> /\ pool'[1] = rest
  BY <1>1, <1>2, <1>5, <1>6, <1>7, JobGoesOn
<1>9. QED
  BY <1>2, <1>5, <1>6, <1>8

(* The queue keeps its order and the rows their transaction.               *)
LEMMA RowsStep ==
  ASSUME TypeOK, PoolInv, RowsInv, [Next]_vars
  PROVE  PoolInv' /\ RowsInv' /\ Kept(db, db')
<1> DEFINE Goal == PoolInv' /\ RowsInv' /\ Kept(db, db')
<1>1. /\ db \in Tables /\ Sound(db) /\ Kept(db, db) /\ clock \in Nat
      /\ \A statement \in {"ensureAccount", "insertSession", "setSession", "checkName",
                           "readClock", "update"} : Running(statement) => txn = None
  <2>1. db \in Tables /\ Sound(db) /\ Kept(db, db)
    BY KeptItself DEF RowsInv
  <2>2. clock \in Nat
    BY LoginAssumption DEF TypeOK
  <2>3. ASSUME NEW statement \in {"ensureAccount", "insertSession", "setSession", "checkName",
                                 "readClock", "update"},
               Running(statement)
        PROVE  txn = None
    BY <2>3, RunningJob DEF RowsInv
  <2>4. QED
    BY <2>1, <2>2, <2>3
<1>2. ASSUME UNCHANGED <<db, txn, pool>>
      PROVE  Goal
  BY <1>1, <1>2 DEF PoolInv, RowsInv, NameTaken
<1>3. ASSUME NEW c \in Conn, Handle(c)
      PROVE  Goal
  <2>1. CASE UNCHANGED pool
    BY <1>2, <1>3, <2>1, HandlerPosts
  <2>2. CASE \E posted \in Job : Posted(posted.kind, posted.todo) /\ Post(posted)
    <3>1. PICK posted \in Job : Posted(posted.kind, posted.todo) /\ Post(posted)
      BY <2>2
    <3>2. UNCHANGED <<db, txn>>
      BY <1>3, HandlerPosts
    <3>3. QED
      BY <1>1, <3>1, <3>2, JobPosted, RowsPosted DEF Post
  <2>3. QED
    BY <1>3, <2>1, <2>2, HandlerPosts
<1>4. CASE EnsureAccount
  <2>1. PoolInv' /\ (pool' # <<>> => pool'[1].todo[1] \in
          {"insertSession", "ensureAccount", "readClock", "checkName", "update"})
    BY <1>4, EnsureAccountRuns
  <2>2. db' = db /\ txn' = None
    BY <1>1, <1>4 DEF EnsureAccount
  <2>3. QED
    BY <1>1, <2>1, <2>2, NoTransaction
<1>5. CASE InsertSession
  <2>1. Running("insertSession") /\ pool' = Done(pool[1]) /\ UNCHANGED <<db, txn>>
    BY <1>5, RunningJob DEF InsertSession
  <2>2. PoolInv' /\ pool' # <<>> /\ pool'[1].todo = Tail(pool[1].todo) /\ Len(pool[1].todo) # 1
    BY <2>1, NextOfPool
  <2>3. pool'[1].todo[1] = "setSession"
    BY <2>1, <2>2, RunningJob, RestOfJob
  <2>4. QED
    BY <1>1, <2>1, <2>2, <2>3, NoTransaction
<1>6. CASE SetSessionId
  <2>1. Running("setSession") /\ pool' = Done(pool[1]) /\ UNCHANGED <<db, txn>>
    BY <1>6, RunningJob DEF SetSessionId, tables
  <2>2. PoolInv' /\ (pool' # <<>> =>
          pool'[1].todo[1] \in {"ensureAccount", "readClock", "checkName", "update"})
    BY <2>1, NextOfPool
  <2>3. QED
    BY <1>1, <2>1, <2>2, NoTransaction
<1>7. CASE CheckName
  <2>1. Running("checkName") /\ UNCHANGED <<db, txn>> /\ Head(pool) = pool[1] /\ pool # <<>>
    BY <1>7, RunningJob DEF CheckName, tables
  <2>2. CASE NameTaken(pool[1])
    <3>1. pool' = Tail(pool)
      BY <1>7, <2>1, <2>2 DEF CheckName
    <3>2. PoolInv' /\ (pool' # <<>> => Posted(pool'[1].kind, pool'[1].todo))
      BY <2>1, <3>1, JobDone
    <3>3. ASSUME pool' # <<>>
          PROVE  pool'[1].todo \in Seq(Statement)
      BY <3>2, <3>3, RestOf, EmptySeq, JobFields DEF PoolInv
    <3>4. pool' # <<>> => pool'[1].todo[1] \in {"ensureAccount", "readClock", "checkName", "update"}
      BY <3>2, <3>3, NextStatement
    <3>5. QED
      BY <1>1, <2>1, <3>2, <3>4, NoTransaction
  <2>3. CASE ~NameTaken(pool[1])
    <3>1. pool' = Done(pool[1])
      BY <1>7, <2>1, <2>3 DEF CheckName
    <3>2. /\ PoolInv' /\ pool' # <<>> /\ pool'[1].todo = Tail(pool[1].todo)
          /\ pool'[1] = [pool[1] EXCEPT !.todo = Tail(pool[1].todo)] /\ Len(pool[1].todo) # 1
      <4>1. "checkName" \notin {"setSession", "deleteCharacters", "insertSkills", "update"}
        OBVIOUS
      <4> HIDE DEF Goal
      <4>2. QED
        BY <2>1, <3>1, <4>1, NextOfPool, Zenon
    <3>3. pool'[1].todo[1] = "insertCharacter"
      BY <2>1, <3>2, RunningJob, RestOfJob
    <3>4. pool[1].kind = "create" /\ pool[1] \in Job /\ Tail(pool[1].todo) \in Seq(Statement)
      <4>1. /\ pool[1].todo[1] = "checkName" /\ pool[1].todo \in Seq(Statement)
            /\ Posted(pool[1].kind, pool[1].todo) \/ Begun(pool[1].kind, pool[1].todo)
            /\ pool[1] \in Job
        BY <2>1, RunningJob
      <4>2. pool[1].kind = "create" /\ Len(pool[1].todo) >= 1
        BY <4>1, NextStatement
      <4>3. QED
        BY <4>1, <4>2, RestOf
    <3>5. pool'[1].name = pool[1].name
      BY <3>2, <3>4, GoingOnIsAJob
    <3>6. ~NameTaken(pool[1])'
      BY <2>1, <2>3, <3>5 DEF NameTaken
    <3>7. QED
      BY <1>1, <2>1, <3>2, <3>3, <3>6, NoTransaction
  <2>4. QED
    BY <2>2, <2>3
<1>8. CASE ReadClock
  <2>1. PoolInv' /\ pool' # <<>> /\ pool'[1].todo[1] = "deletePositions"
    BY <1>1, <1>8, ReadClockRuns
  <2>2. db' = db /\ txn' = None
    BY <1>1, <1>8 DEF ReadClock, tables
  <2>3. QED
    BY <1>1, <2>1, <2>2, NoTransaction
<1>9. CASE RunStatement
  <2>1. PoolInv'
    BY <1>9, RunningJob, NextOfPool DEF RunStatement
  <2>2. QED
    BY <1>9, <2>1, RowsRunStatement
<1>10. CASE RunUpdate
  <2>1. PoolInv'
    BY <1>10, RunningJob, NextOfPool DEF RunUpdate
  <2>2. QED
    BY <1>1, <1>10, <2>1, RowsRunUpdate
<1>11. CASE Crash
  <2>1. PoolInv'
    BY <1>11, EmptySeq DEF Crash, PoolInv
  <2>2. RowsInv'
    BY <1>1, <1>11, <2>1, NoTransaction DEF Crash
  <2>3. QED
    BY <1>1, <1>11, <2>1, <2>2 DEF Crash
<1>12. CASE SavePosition
  <2>1. UNCHANGED <<txn, pool>> /\ txn = None /\ jobs # <<>> /\ Head(jobs).kind = "save"
    BY <1>12 DEF SavePosition, RunGame, Elsewhere
  <2>2. Head(jobs).place \in Place
    BY <2>1, RestOf, EmptySeq DEF TypeOK, GameJob
  <2>3. db' \in Tables /\ Sound(db') /\ Kept(db, db') /\ db'.characters = db.characters
    <3> DEFINE at == Head(jobs)
    <3>1. db' = [db EXCEPT !.positions = UpdatePosition(@, at)]
      BY <1>12 DEF SavePosition
    <3>2. UpdatePosition(db.positions, at) =
            {IF p.id \in {at.id} THEN [p EXCEPT !.place = at.place] ELSE p : p \in db.positions}
      BY DEF UpdatePosition
    <3> HIDE DEF at
    <3>3. db' = [db EXCEPT !.positions =
            {IF p.id \in {at.id} THEN [p EXCEPT !.place = at.place] ELSE p : p \in db.positions}]
      BY <3>1, <3>2
    <3>4. db' \in Tables /\ Sound(db') /\ Kept(db, db')
      BY <1>1, <2>2, <3>3, MovedIsSound DEF at
    <3>5. QED
      BY <1>1, <3>3, <3>4 DEF Tables
  <2>4. PoolInv'
    BY <2>1 DEF PoolInv
  <2>5. ASSUME pool' # <<>>
        PROVE  /\ pool'[1].todo[1] \notin {"insertPosition", "insertSkills", "deleteCharacters"}
               /\ pool'[1].todo[1] = "insertCharacter" => ~NameTaken(pool[1])'
    <3>1. /\ pool[1].todo[1] \notin {"insertPosition", "insertSkills", "deleteCharacters"}
          /\ pool[1].todo[1] = "insertCharacter" => ~NameTaken(pool[1])
      BY <2>1, <2>5 DEF RowsInv
    <3>2. QED
      BY <2>1, <2>3, <3>1 DEF NameTaken
  <2>6. QED
    BY <2>1, <2>3, <2>4, <2>5, NoTransaction
<1>13. CASE LoadForEnter \/ OnLoaded
  BY <1>2, <1>13 DEF LoadForEnter, OnLoaded, RunGame, Elsewhere
<1>14. CASE Tick \/ UNCHANGED vars
  BY <1>2, <1>14 DEF Tick, vars, tables
<1>15. QED
  BY <1>3, <1>4, <1>5, <1>6, <1>7, <1>8, <1>9, <1>10, <1>11, <1>12, <1>13, <1>14 DEF Next, RunPool

-----------------------------------------------------------------------------
(* What a step of the pool leaves of its queue                             *)

(* The first job is removed, or goes on for the same client.               *)
OthersWait ==
  \/ pool' = Tail(pool)
  \/ /\ Len(pool') = Len(pool) /\ \A i \in 2..Len(pool) : pool'[i] = pool[i]
     /\ pool'[1].kind = pool[1].kind
     /\ pool[1].kind = "login" => pool'[1].conn = pool[1].conn

(* Done leaves the other jobs alone.                                       *)
LEMMA OthersWaitAfterDone ==
  ASSUME PoolInv, pool # <<>>, pool' = Done(pool[1])
  PROVE  OthersWait /\ (Len(pool[1].todo) # 1 => pool'[1].account = pool[1].account)
<1> DEFINE job == pool[1]
<1>1. /\ job \in Job /\ job.todo \in Seq(Statement) /\ Len(pool) \in Nat /\ Len(pool) >= 1
      /\ Posted(job.kind, job.todo) \/ Begun(job.kind, job.todo)
  BY RestOf, EmptySeq, LenProperties, JobFields DEF PoolInv
<1>2. CASE Len(job.todo) = 1
  BY <1>2 DEF Done, OthersWait
<1>3. CASE Len(job.todo) # 1
  <2> DEFINE rest == [job EXCEPT !.todo = Tail(job.todo)]
  <2>1. Tail(job.todo) \in Seq(Statement)
    BY <1>1, <1>3, RestOf, NextStatement
  <2>2. /\ rest \in Job /\ rest.kind = job.kind /\ rest.account = job.account
        /\ job.kind = "login" => rest.conn = job.conn
    BY <1>1, <2>1, GoingOnIsAJob
  <2>3. pool' = [pool EXCEPT ![1] = rest]
    BY <1>3 DEF Done
  <2> HIDE DEF rest
  <2>4. /\ Len(pool') = Len(pool) /\ \A i \in 2..Len(pool) : pool'[i] = pool[i]
        /\ pool'[1] = rest
    BY <1>1, <2>2, <2>3 DEF PoolInv
  <2>5. QED
    BY <2>2, <2>4 DEF OthersWait
<1>4. QED
  BY <1>2, <1>3

(* Nor do the steps that write into the job.                               *)
LEMMA OthersWaitAfterNoting ==
  ASSUME PoolInv, pool # <<>>, NEW value,
         \/ pool[1] \in LoginJob /\ pool' = [pool EXCEPT ![1].todo = Tail(@), ![1].account = value]
         \/ pool[1] \in SweepJob /\ pool' = [pool EXCEPT ![1].todo = Tail(@), ![1].now = value]
  PROVE  OthersWait
<1>1. Len(pool) \in Nat /\ Len(pool) >= 1
  BY EmptySeq, LenProperties DEF PoolInv
<1>2. Len(pool') = Len(pool) /\ \A i \in 2..Len(pool) : pool'[i] = pool[i]
  BY <1>1 DEF PoolInv
<1>3. CASE pool[1] \in LoginJob /\ pool' = [pool EXCEPT ![1].todo = Tail(@), ![1].account = value]
  <2>1. pool'[1].kind = pool[1].kind /\ pool'[1].conn = pool[1].conn
    BY <1>1, <1>3 DEF PoolInv, LoginJob
  <2>2. QED
    BY <1>2, <2>1 DEF OthersWait
<1>4. CASE pool[1] \in SweepJob /\ pool' = [pool EXCEPT ![1].todo = Tail(@), ![1].now = value]
  <2>1. pool'[1].kind = pool[1].kind /\ pool[1].kind # "login"
    BY <1>1, <1>4 DEF PoolInv, SweepJob
  <2>2. QED
    BY <1>2, <2>1 DEF OthersWait
<1>5. QED
  BY <1>3, <1>4

(* So every step of the pool.                                              *)
LEMMA PoolAdvances ==
  ASSUME PoolInv, RunPool
  PROVE  pool # <<>> /\ pool[1] \in Job /\ OthersWait
<1>1. CASE EnsureAccount
  <2>1. /\ pool # <<>> /\ Head(pool) = pool[1] /\ pool[1] \in Job
        /\ pool[1].todo \in Seq(Statement) /\ pool[1].todo[1] = "ensureAccount"
        /\ Posted(pool[1].kind, pool[1].todo) \/ Begun(pool[1].kind, pool[1].todo)
    BY <1>1, RunningJob DEF EnsureAccount
  <2>2. pool[1] \in LoginJob
    BY <2>1, NextStatement, JobFields
  <2>3. pool' = Tail(pool) \/ \E id : pool' = [pool EXCEPT ![1].todo = Tail(@), ![1].account = id]
    <3>1. CASE \E id \in Matching(pool[1].username) : pool' = Tail(pool)
      BY <3>1
    <3>2. CASE \E id \in Matching(pool[1].username) :
                 pool' = [pool EXCEPT ![1].todo = Tail(@), ![1].account = id]
      BY <3>2
    <3>3. CASE pool' = [pool EXCEPT ![1].todo = Tail(@), ![1].account = Len(accounts')]
      BY <3>3
    <3>4. QED
      BY <1>1, <2>1, <3>1, <3>2, <3>3 DEF EnsureAccount
  <2>4. QED
    BY <2>1, <2>2, <2>3, OthersWaitAfterNoting DEF OthersWait
<1>2. CASE ReadClock
  <2>1. /\ pool # <<>> /\ Head(pool) = pool[1] /\ pool[1] \in Job
        /\ pool[1].todo \in Seq(Statement) /\ pool[1].todo[1] = "readClock"
        /\ Posted(pool[1].kind, pool[1].todo) \/ Begun(pool[1].kind, pool[1].todo)
    BY <1>2, RunningJob DEF ReadClock
  <2>2. pool[1] \in SweepJob
    BY <2>1, NextStatement, JobFields
  <2>3. pool' = [pool EXCEPT ![1].todo = Tail(@), ![1].now = clock]
    BY <1>2 DEF ReadClock
  <2>4. QED
    BY <2>1, <2>2, <2>3, OthersWaitAfterNoting
<1>3. ASSUME NEW statement, Running(statement), pool' = Done(Head(pool)) \/ pool' = Tail(pool)
      PROVE  pool # <<>> /\ pool[1] \in Job /\ OthersWait
  BY <1>3, RunningJob, OthersWaitAfterDone DEF OthersWait
<1>4. CASE InsertSession
  BY <1>3, <1>4 DEF InsertSession
<1>5. CASE SetSessionId
  BY <1>3, <1>5 DEF SetSessionId
<1>6. CASE CheckName
  BY <1>3, <1>6 DEF CheckName
<1>7. CASE RunStatement
  BY <1>3, <1>7 DEF RunStatement
<1>8. CASE RunUpdate
  BY <1>3, <1>8 DEF RunUpdate
<1>9. QED
  BY <1>1, <1>2, <1>4, <1>5, <1>6, <1>7, <1>8 DEF RunPool

(* A login that begins or goes on is the first job's.                      *)
LEMMA LoginGoesOn ==
  ASSUME PoolInv, PoolInv', RunPool
  PROVE  pool' # <<>> /\ pool'[1].todo[1] \in {"insertSession", "setSession"} =>
           pool[1].kind = "login" /\ pool'[1].conn = pool[1].conn /\ pool' # Tail(pool)
<1>1. pool # <<>> /\ OthersWait /\ Len(pool) \in Nat /\ Len(pool) >= 1
  BY PoolAdvances, EmptySeq, LenProperties DEF PoolInv
<1>2. CASE pool' = Tail(pool)
  <2>1. ASSUME pool' # <<>>
        PROVE  pool'[1].todo[1] \notin {"insertSession", "setSession"}
    <3>1. Posted(pool'[1].kind, pool'[1].todo)
      BY <1>1, <1>2, <2>1, JobDone
    <3>2. pool'[1].todo \in Seq(Statement)
      BY <2>1, RestOf, EmptySeq, JobFields DEF PoolInv
    <3>3. QED
      BY <3>1, <3>2, NextStatement
  <2>2. QED
    BY <2>1
<1>3. CASE pool' # Tail(pool)
  <2>1. /\ Len(pool') = Len(pool) /\ \A i \in 2..Len(pool) : pool'[i] = pool[i]
        /\ pool'[1].kind = pool[1].kind
        /\ pool[1].kind = "login" => pool'[1].conn = pool[1].conn
    BY <1>1, <1>3 DEF OthersWait
  <2>2. ASSUME pool' # <<>>, pool'[1].todo[1] \in {"insertSession", "setSession"}
        PROVE  pool'[1].kind = "login"
    <3>1. pool'[1].todo \in Seq(Statement)
      BY <2>2, RestOf, EmptySeq, JobFields DEF PoolInv
    <3>2. Posted(pool'[1].kind, pool'[1].todo) \/ Begun(pool'[1].kind, pool'[1].todo)
      BY <2>2 DEF PoolInv
    <3>3. QED
      BY <2>2, <3>1, <3>2, NextStatement
  <2>3. QED
    BY <1>3, <2>1, <2>2
<1>4. QED
  BY <1>2, <1>3

-----------------------------------------------------------------------------
(* Types                                                                   *)

(* TypeOK without the queue and the tables, whose types their invariants   *)
(* give.                                                                   *)
LoginTypes ==
  /\ accounts \in Seq(Account) /\ sessions \in Seq(Nat)
  /\ accountOf \in [Conn -> Nat \cup {None}] /\ sessionOf \in [Conn -> Nat \cup {None}]
  /\ lastRow \in Nat
  /\ handed \in [Conn -> Nat \cup {None}] /\ proven \in [Conn -> SUBSET Nat]

GameTypes ==
  /\ jobs \in Seq(GameJob) /\ loaded \in Seq([conn : Conn, player : Player])
  /\ playing \in [Conn -> Player \cup {None}]

CountTypes ==
  clock \in 0..MaxClock /\ requests \in 0..MaxRequests /\ crashes \in 0..MaxCrashes

LEMMA TypesAre == TypeOK <=> /\ LoginTypes /\ GameTypes /\ CountTypes
                            /\ db \in Tables /\ txn \in Tables \cup {None} /\ pool \in Seq(Job)
BY DEF TypeOK, LoginTypes, GameTypes, CountTypes

(* An account that EnsureAccount comes to is a number.                     *)
LEMMA AuthenticatedTypes ==
  ASSUME LoginTypes, NEW c \in Conn, NEW account \in Nat, Authenticated(c, account)
  PROVE  /\ accountOf' \in [Conn -> Nat \cup {None}] /\ proven' \in [Conn -> SUBSET Nat]
         /\ account \in proven'[c]
         /\ \A d \in Conn : proven[d] \subseteq proven'[d]
BY DEF LoginTypes, Authenticated

(* Passwords given, sessions and accounts stay.                            *)
StoreGrows ==
  /\ \A c \in Conn : proven[c] \subseteq proven'[c]
  /\ \A s \in DOMAIN sessions : s \in DOMAIN sessions' /\ sessions'[s] = sessions[s]
  /\ \A a \in DOMAIN accounts : a \in DOMAIN accounts' /\ accounts'[a] = accounts[a]

(* The login whose account is looked up.                                   *)
LEMMA EnsuredLogin ==
  ASSUME PoolInv, EnsureAccount
  PROVE  /\ pool[1] \in LoginJob /\ pool[1].conn \in Conn /\ Head(pool) = pool[1]
         /\ [username |-> pool[1].username, password |-> pool[1].password] \in Account
<1>1. /\ pool # <<>> /\ Head(pool) = pool[1] /\ pool[1] \in Job
      /\ pool[1].todo \in Seq(Statement) /\ pool[1].todo[1] = "ensureAccount"
      /\ Posted(pool[1].kind, pool[1].todo) \/ Begun(pool[1].kind, pool[1].todo)
  BY RunningJob DEF EnsureAccount
<1>2. pool[1] \in LoginJob
  BY <1>1, NextStatement, JobFields
<1>3. QED
  BY <1>1, <1>2 DEF LoginJob, Account

(* What the login server's steps leave of its own state.                   *)
LEMMA PoolTypes ==
  ASSUME TypeOK, PoolInv, RunPool
  PROVE  LoginTypes' /\ StoreGrows /\ UNCHANGED <<handed, game, bounds>>
<1>1. LoginTypes /\ DOMAIN accounts \subseteq Nat
  BY LenProperties, TypesAre DEF TypeOK
<1>2. pool # <<>> /\ pool[1] \in Job /\ Head(pool) = pool[1]
  BY PoolAdvances, RestOf, EmptySeq DEF PoolInv
<1>3. UNCHANGED <<handed, game, bounds>>
  BY DEF RunPool, EnsureAccount, InsertSession, SetSessionId, CheckName, ReadClock, RunStatement,
         RunUpdate, Running
<1>4. CASE EnsureAccount
  <2>1. /\ pool[1].conn \in Conn
        /\ [username |-> pool[1].username, password |-> pool[1].password] \in Account
    BY <1>4, EnsuredLogin
  <2>2. UNCHANGED <<sessions, sessionOf, handed>>
    BY <1>3, <1>4 DEF EnsureAccount
  <2>3. CASE UNCHANGED <<accounts, accountOf, proven, lastRow>>
    BY <1>1, <1>3, <2>2, <2>3 DEF LoginTypes, StoreGrows
  <2>4. CASE \E id \in Matching(pool[1].username) :
               Authenticated(pool[1].conn, id) /\ UNCHANGED <<accounts, lastRow>>
    <3>1. PICK id \in Nat : Authenticated(pool[1].conn, id)
      BY <1>1, <2>4 DEF Matching
    <3>2. QED
      BY <1>1, <1>3, <2>1, <2>2, <2>4, <3>1, AuthenticatedTypes DEF LoginTypes, StoreGrows
  <2>5. CASE /\ accounts' = Append(accounts, [username |-> pool[1].username,
                                               password |-> pool[1].password])
             /\ Authenticated(pool[1].conn, Len(accounts')) /\ lastRow' = Len(accounts')
    <3>1. /\ accounts' \in Seq(Account) /\ Len(accounts') \in Nat
          /\ \A a \in DOMAIN accounts : a \in DOMAIN accounts' /\ accounts'[a] = accounts[a]
      BY <1>1, <2>1, <2>5, AppendProperties, LenProperties DEF LoginTypes
    <3>2. QED
      BY <1>1, <1>3, <2>1, <2>2, <2>5, <3>1, AuthenticatedTypes DEF LoginTypes, StoreGrows
  <2>6. QED
    BY <1>2, <1>3, <1>4, <2>3, <2>4, <2>5 DEF EnsureAccount
<1>5. CASE InsertSession
  <2>1. pool[1].account \in Nat
    BY <1>2, JobFields
  <2>2. /\ sessions' \in Seq(Nat) /\ Len(sessions') \in Nat
        /\ \A s \in DOMAIN sessions : s \in DOMAIN sessions' /\ sessions'[s] = sessions[s]
    BY <1>1, <1>2, <1>5, <2>1, AppendProperties, LenProperties DEF InsertSession, LoginTypes
  <2>3. QED
    BY <1>1, <1>3, <1>5, <2>2 DEF InsertSession, LoginTypes, LastInsertRowId, StoreGrows
<1>6. CASE SetSessionId
  BY <1>1, <1>3, <1>6 DEF SetSessionId, LoginTypes, tables, StoreGrows
<1>7. CASE UNCHANGED <<accounts, sessions, store, proven>>
  BY <1>1, <1>3, <1>7 DEF LoginTypes, store, StoreGrows
<1>8. QED
  BY <1>3, <1>4, <1>5, <1>6, <1>7
     DEF RunPool, CheckName, ReadClock, RunStatement, RunUpdate, tables

-----------------------------------------------------------------------------
(* Whose sessions                                                          *)

(* OwnedInv in two parts: what the store and the clients hold,             *)
ClientsOwn ==
  /\ \A c \in Conn : sessionOf[c] # None => Given(c, sessionOf[c])
  /\ \A c \in Conn : handed[c] # None => Given(c, handed[c])

(* and what the pool's first job does.                                     *)
LoginOwns ==
  /\ pool # <<>> /\ pool[1].todo[1] = "insertSession" =>
       pool[1].account \in proven[pool[1].conn]
  /\ pool # <<>> /\ pool[1].todo[1] = "setSession" => Given(pool[1].conn, lastRow)

LEMMA OwnedIs == OwnedInv <=> ClientsOwn /\ LoginOwns
BY DEF OwnedInv, ClientsOwn, LoginOwns

(* Given, after the step.                                                  *)
GivenThen(c, s) == s \in DOMAIN sessions' /\ sessions'[s] \in proven'[c]

(* A session once given stays given.                                       *)
LEMMA GivenStays ==
  ASSUME StoreGrows, NEW c \in Conn, NEW s, Given(c, s)
  PROVE  GivenThen(c, s)
BY DEF Given, GivenThen, StoreGrows

(* The pool gives a client the session it inserted for the account whose   *)
(* password it checked.                                                    *)
LEMMA PoolGives ==
  ASSUME TypeOK, PoolInv, OwnedInv, PoolInv', RunPool
  PROVE  OwnedInv'
<1>1. /\ LoginTypes /\ ClientsOwn /\ LoginOwns /\ UNCHANGED handed
  BY TypesAre, OwnedIs, PoolTypes
<1>2. \A c \in Conn : \A s : Given(c, s) => GivenThen(c, s)
  BY PoolTypes, GivenStays
<1>3. ASSUME \A c \in Conn : sessionOf'[c] # None => GivenThen(c, sessionOf'[c])
      PROVE  ClientsOwn'
  BY <1>1, <1>2, <1>3 DEF ClientsOwn, Given, GivenThen
<1>4. UNCHANGED sessionOf => ClientsOwn'
  <2>1. UNCHANGED sessionOf => \A c \in Conn : sessionOf'[c] # None => GivenThen(c, sessionOf'[c])
    BY <1>1, <1>2 DEF ClientsOwn
  <2>2. QED
    BY <1>3, <2>1
<1>5. CASE EnsureAccount
  <2>1. ClientsOwn'
    BY <1>4, <1>5 DEF EnsureAccount
  <2>2. LoginOwns'
    <3>1. CASE /\ UNCHANGED <<accountOf, proven>>
               /\ pool' # <<>> =>
                    pool'[1].todo[1] \in {"ensureAccount", "readClock", "checkName", "update"}
      BY <3>1 DEF LoginOwns
    <3>2. CASE /\ pool' # <<>> /\ pool'[1] \in LoginJob /\ pool'[1].todo[1] = "insertSession"
               /\ Authenticated(pool'[1].conn, pool'[1].account)
      <4>1. pool'[1].conn \in Conn /\ pool'[1].account \in Nat
        BY <3>2 DEF LoginJob
      <4>2. pool'[1].account \in proven'[pool'[1].conn]
        BY <1>1, <3>2, <4>1, AuthenticatedTypes
      <4>3. QED
        BY <3>2, <4>2 DEF LoginOwns
    <3>3. QED
      BY <1>5, <3>1, <3>2, EnsureAccountRuns
  <2>3. QED
    BY <2>1, <2>2 DEF OwnedInv, ClientsOwn, LoginOwns
<1>6. CASE InsertSession
  <2>1. /\ Running("insertSession") /\ pool' = Done(pool[1]) /\ pool # <<>> /\ Head(pool) = pool[1]
        /\ pool[1] \in Job /\ pool[1].todo \in Seq(Statement) /\ pool[1].todo[1] = "insertSession"
        /\ Posted(pool[1].kind, pool[1].todo) \/ Begun(pool[1].kind, pool[1].todo)
    BY <1>6, RunningJob DEF InsertSession
  <2>2. pool[1].kind = "login" /\ pool[1] \in LoginJob
    BY <2>1, NextStatement, JobFields
  <2>3. pool' # <<>> /\ Len(pool[1].todo) # 1 /\ pool'[1].todo = Tail(pool[1].todo)
    BY <2>1, NextOfPool
  <2>4. pool'[1].todo[1] = "setSession"
    BY <2>1, <2>3, RestOfJob
  <2>5. pool'[1].conn = pool[1].conn
    BY <2>3, <2>4, LoginGoesOn
  <2>6. GivenThen(pool[1].conn, lastRow')
    <3>1. pool[1].account \in proven[pool[1].conn] /\ pool[1].account \in Nat
      BY <1>1, <2>1, JobFields DEF LoginOwns
    <3>2. /\ sessions' = Append(sessions, pool[1].account) /\ lastRow' = Len(sessions')
          /\ UNCHANGED proven
      BY <1>6, <2>1 DEF InsertSession, LastInsertRowId
    <3>3. lastRow' \in DOMAIN sessions' /\ sessions'[lastRow'] = pool[1].account
      BY <1>1, <3>1, <3>2, AppendProperties, LenProperties DEF LoginTypes
    <3>4. QED
      BY <3>1, <3>2, <3>3 DEF GivenThen
  <2>7. LoginOwns'
    BY <2>4, <2>5, <2>6 DEF LoginOwns, Given, GivenThen
  <2>8. ClientsOwn'
    BY <1>4, <1>6 DEF InsertSession
  <2>9. QED
    BY <2>7, <2>8 DEF OwnedInv, ClientsOwn, LoginOwns
<1>7. ASSUME RunPool, ~EnsureAccount, ~InsertSession
      PROVE  LoginOwns'
  <2>1. PICK statement \in Statement \ {"ensureAccount", "insertSession"} : Running(statement)
    BY <1>7 DEF RunPool, SetSessionId, CheckName, ReadClock, RunStatement, RunUpdate, Transacted,
                Statement
  <2>2. /\ pool[1].todo \in Seq(Statement) /\ pool[1].todo[1] = statement /\ pool # <<>>
        /\ Posted(pool[1].kind, pool[1].todo) \/ Begun(pool[1].kind, pool[1].todo)
    BY <2>1, RunningJob
  <2>3. ASSUME pool' # <<>>, pool'[1].todo[1] \in {"insertSession", "setSession"}
        PROVE  FALSE
    <3>1. pool[1].kind = "login" /\ pool' # Tail(pool)
      BY <2>3, LoginGoesOn
    <3>2. statement = "setSession"
      BY <2>1, <2>2, <3>1 DEF Statement, Posted, Begun, Characters
    <3>3. SetSessionId
      BY <1>7, <2>2, <3>2, RunningJob
         DEF RunPool, SetSessionId, CheckName, ReadClock, RunStatement, RunUpdate, Transacted
    <3>4. pool' = Done(pool[1])
      BY <3>3, RunningJob DEF SetSessionId
    <3>5. pool' = Tail(pool)
      BY <2>1, <3>2, <3>4, NextOfPool
    <3>6. QED
      BY <3>1, <3>5
  <2>4. QED
    BY <2>3 DEF LoginOwns
<1>8. CASE SetSessionId
  <2>1. /\ pool # <<>> /\ Head(pool) = pool[1] /\ pool[1] \in Job
        /\ pool[1].todo \in Seq(Statement) /\ pool[1].todo[1] = "setSession"
        /\ Posted(pool[1].kind, pool[1].todo) \/ Begun(pool[1].kind, pool[1].todo)
    BY <1>8, RunningJob DEF SetSessionId
  <2>2. pool[1] \in LoginJob
    BY <2>1, NextStatement, JobFields
  <2>3. pool[1].conn \in Conn
    BY <2>2 DEF LoginJob
  <2>4. /\ sessionOf' = [sessionOf EXCEPT ![pool[1].conn] = lastRow]
        /\ UNCHANGED <<sessions, proven, lastRow>>
    BY <1>8, <2>1 DEF SetSessionId, tables
  <2>5. \A c \in Conn : sessionOf'[c] # None => GivenThen(c, sessionOf'[c])
    BY <1>1, <2>1, <2>3, <2>4 DEF ClientsOwn, LoginOwns, LoginTypes, Given, GivenThen
  <2>6. ClientsOwn'
    BY <1>3, <2>5
  <2>7. LoginOwns'
    <3>1. ~EnsureAccount /\ ~InsertSession
      BY <2>1, RunningJob DEF EnsureAccount, InsertSession
    <3>2. QED
      BY <1>7, <3>1
  <2>8. QED
    BY <2>6, <2>7 DEF OwnedInv, ClientsOwn, LoginOwns
<1>9. CASE ~EnsureAccount /\ ~InsertSession /\ ~SetSessionId
  <2>1. UNCHANGED sessionOf
    BY <1>9 DEF RunPool, CheckName, ReadClock, RunStatement, RunUpdate, store
  <2>2. QED
    BY <1>4, <1>7, <1>9, <2>1 DEF OwnedInv, ClientsOwn, LoginOwns
<1>10. QED
  BY <1>5, <1>6, <1>8, <1>9

(* It inserts no session but for an account whose password was given.      *)
LEMMA SessionsStep ==
  ASSUME TypeOK, PoolInv, OwnedInv, SessionsInv, RunPool
  PROVE  SessionsInv'
<1>1. LoginTypes /\ LoginOwns /\ StoreGrows
  BY TypesAre, OwnedIs, PoolTypes
<1>2. \A c \in Conn : proven[c] \subseteq DOMAIN accounts'
  BY <1>1 DEF SessionsInv, StoreGrows
<1>3. \A s \in DOMAIN sessions : \E d \in Conn : sessions[s] \in proven'[d]
  BY <1>1 DEF SessionsInv, StoreGrows
<1>4. CASE EnsureAccount
  <2>1. UNCHANGED sessions /\ pool[1].conn \in Conn /\ Head(pool) = pool[1]
    BY <1>4, EnsuredLogin DEF EnsureAccount
  <2>2. \/ UNCHANGED proven
        \/ \E id \in DOMAIN accounts' : Authenticated(pool[1].conn, id)
    <3>1. CASE UNCHANGED proven
      BY <3>1
    <3>2. CASE \E id \in Matching(pool[1].username) :
                 Authenticated(pool[1].conn, id) /\ UNCHANGED accounts
      BY <3>2 DEF Matching
    <3>3. CASE /\ accounts' = Append(accounts, [username |-> pool[1].username,
                                                 password |-> pool[1].password])
               /\ Authenticated(pool[1].conn, Len(accounts'))
      <4>1. Len(accounts') \in DOMAIN accounts'
        BY <1>1, <1>4, <3>3, EnsuredLogin, AppendProperties, LenProperties DEF LoginTypes
      <4>2. QED
        BY <3>3, <4>1
    <3>4. QED
      BY <1>4, <2>1, <3>1, <3>2, <3>3 DEF EnsureAccount
  <2>3. \A c \in Conn : proven'[c] \subseteq DOMAIN accounts'
    BY <1>1, <1>2, <2>1, <2>2 DEF Authenticated, LoginTypes
  <2>4. QED
    BY <1>3, <2>1, <2>3 DEF SessionsInv
<1>5. CASE InsertSession
  <2>1. /\ pool # <<>> /\ Head(pool) = pool[1] /\ pool[1] \in Job
        /\ pool[1].todo \in Seq(Statement) /\ pool[1].todo[1] = "insertSession"
        /\ Posted(pool[1].kind, pool[1].todo) \/ Begun(pool[1].kind, pool[1].todo)
    BY <1>5, RunningJob DEF InsertSession
  <2>2. pool[1] \in LoginJob
    BY <2>1, NextStatement, JobFields
  <2>3. PICK c \in Conn, a \in Nat : c = pool[1].conn /\ a = pool[1].account
    BY <2>2 DEF LoginJob
  <2>4. a \in proven[c] /\ sessions' = Append(sessions, a) /\ UNCHANGED <<accounts, proven>>
    BY <1>1, <1>5, <2>1, <2>3 DEF LoginOwns, InsertSession
  <2>5. \A s \in DOMAIN sessions' : sessions'[s] = a \/ (s \in DOMAIN sessions /\ sessions'[s] = sessions[s])
    BY <1>1, <2>4, AppendProperties, LenProperties DEF LoginTypes
  <2>6. QED
    BY <1>2, <1>3, <2>4, <2>5 DEF SessionsInv
<1>6. CASE ~EnsureAccount /\ ~InsertSession
  <2>1. UNCHANGED <<accounts, sessions, proven>>
    BY <1>6 DEF RunPool, SetSessionId, CheckName, ReadClock, RunStatement, RunUpdate, tables
  <2>2. QED
    BY <2>1 DEF SessionsInv
<1>7. QED
  BY <1>4, <1>5, <1>6

(* A request that reaches the pool leaves what the first job owns.         *)
LEMMA PostedOwns ==
  ASSUME PoolInv, LoginOwns, UNCHANGED <<sessions, proven, lastRow>>,
         UNCHANGED pool \/ \E posted \in Job : Posted(posted.kind, posted.todo) /\ Post(posted)
  PROVE  LoginOwns'
<1>1. CASE UNCHANGED pool
  BY <1>1 DEF LoginOwns, Given
<1>2. CASE \E posted \in Job : Posted(posted.kind, posted.todo) /\ Post(posted)
  <2>1. PICK posted \in Job : Posted(posted.kind, posted.todo) /\ Post(posted)
    BY <1>2
  <2>2. pool # <<>> => pool'[1] = pool[1]
    BY <2>1, JobPosted DEF Post
  <2>3. pool = <<>> => pool'[1].todo[1] \notin {"insertSession", "setSession"}
    <3>1. posted.todo[1] \in {"ensureAccount", "readClock", "checkName", "update"}
      BY <2>1, JobFields, NextStatement
    <3>2. QED
      BY <2>1, <3>1, JobPosted DEF Post
  <2>4. QED
    BY <2>2, <2>3 DEF LoginOwns, Given
<1>3. QED
  BY <1>1, <1>2

-----------------------------------------------------------------------------
(* Whose characters                                                        *)

(* Fits, after the step.                                                   *)
FitsThen(p) ==
  /\ p.session \in DOMAIN sessions' /\ sessions'[p.session] = p.account
  /\ accounts'[p.account].username = p.username
  /\ p.id < db'.next
  /\ \A row \in db'.characters : row.id = p.id => row.account = p.account

(* No session, account or character that comes later changes it.           *)
LEMMA FitsStays ==
  ASSUME SessionsInv, StoreGrows, db \in Tables, db' \in Tables, Kept(db, db'),
         NEW p \in Player, Fits(p)
  PROVE  FitsThen(p)
<1>1. p.id \in Nat /\ db.next \in Nat /\ db'.next \in Nat
  BY DEF Player, Tables
<1>2. p.session \in DOMAIN sessions' /\ sessions'[p.session] = p.account
  BY DEF Fits, StoreGrows
<1>3. accounts'[p.account].username = p.username
  <2>1. p.account \in DOMAIN accounts
    BY DEF Fits, SessionsInv
  <2>2. QED
    BY <2>1 DEF Fits, StoreGrows
<1>4. p.id < db.next /\ p.id < db'.next
  BY <1>1 DEF Fits, Kept
<1>5. ASSUME NEW row \in db'.characters, row.id = p.id
      PROVE  row.account = p.account
  <2>1. ~(row.id >= db.next)
    BY <1>1, <1>4, <1>5
  <2>2. PICK old \in db.characters : old.id = row.id /\ old.account = row.account
    BY <2>1 DEF Kept
  <2>3. QED
    BY <1>5, <2>2 DEF Fits
<1>6. QED
  BY <1>2, <1>3, <1>4, <1>5 DEF FitsThen

(* Players come from loads, and loads from what was found.                 *)
LEMMA PlayersStep ==
  ASSUME GameTypes, GameTypes', SessionsInv, PlayersInv, StoreGrows,
         db \in Tables, db' \in Tables, Kept(db, db'),
         \A i \in 1..Len(loaded') :
           FitsThen(loaded'[i].player) \/ \E j \in 1..Len(loaded) : loaded'[i] = loaded[j],
         \A c \in Conn : \/ playing'[c] \in {None, playing[c]}
                         \/ \E j \in 1..Len(loaded) : playing'[c] = loaded[j].player
  PROVE  PlayersInv'
<1>1. \A p \in Player : Fits(p) => FitsThen(p)
  BY FitsStays
<1>2. \A j \in 1..Len(loaded) : loaded[j].player \in Player
  <2>1. \A j \in 1..Len(loaded) : loaded[j] \in [conn : Conn, player : Player]
    BY LenProperties DEF GameTypes
  <2>2. QED
    BY <2>1
<1>3. \A j \in 1..Len(loaded) : FitsThen(loaded[j].player)
  BY <1>1, <1>2 DEF PlayersInv
<1>4. \A i \in 1..Len(loaded') : FitsThen(loaded'[i].player)
  BY <1>3
<1>5. ASSUME NEW c \in Conn, playing'[c] # None
      PROVE  FitsThen(playing'[c])
  <2>1. CASE playing'[c] = playing[c]
    <3>1. playing[c] \in Player /\ Fits(playing[c])
      BY <1>5, <2>1 DEF GameTypes, PlayersInv
    <3>2. QED
      BY <1>1, <2>1, <3>1
  <2>2. CASE \E j \in 1..Len(loaded) : playing'[c] = loaded[j].player
    BY <1>3, <2>2
  <2>3. QED
    BY <1>5, <2>1, <2>2
<1>6. QED
  BY <1>4, <1>5 DEF PlayersInv, Fits, FitsThen

(* What a load finds is a character of the session's account, whose name   *)
(* the client named.                                                       *)
LEMMA FoundFits ==
  ASSUME TypeOK, RowsInv, NEW job, job.session \in Nat, job.username \in Username,
         NEW player \in Found(job)
  PROVE  player \in Player /\ Fits(player)
<1>1. job.session \in DOMAIN sessions
  BY DEF Found
<1>2. PICK account \in Nat : account = sessions[job.session]
  BY <1>1 DEF TypeOK
<1>3. PICK p \in db.positions :
        /\ player = [id |-> p.id, account |-> account, session |-> job.session,
                     username |-> job.username, place |-> p.place]
        /\ IsClaimed(account, job)
        /\ \E row \in db.characters : row.id = p.id /\ row.account = account /\ row.name = job.name
  BY <1>1, <1>2 DEF Found
<1>4. /\ player.id = p.id /\ player.account = account /\ player.session = job.session
      /\ player.username = job.username
  BY <1>3
<1>5. p.id \in Nat /\ p.place \in Place
  BY <1>3 DEF TypeOK, Tables, PositionRow
<1>6. PICK row \in db.characters : row.id = p.id /\ row.account = account
  BY <1>3
<1>7. player \in Player
  BY <1>2, <1>3, <1>5 DEF Player
<1>8. accounts[account].username = job.username
  BY <1>3 DEF IsClaimed
<1>9. p.id < db.next /\ \A other \in db.characters : other.id = p.id => other.account = account
  BY <1>6 DEF RowsInv, Sound
<1>10. QED
  BY <1>1, <1>2, <1>4, <1>7, <1>8, <1>9 DEF Fits

(* Jobs of the game server.                                                *)
LEMMA JobAppended ==
  ASSUME GameTypes, NEW job \in GameJob, jobs' = Append(jobs, job)
  PROVE  jobs' \in Seq(GameJob)
BY AppendProperties DEF GameTypes

LEMMA JobTaken ==
  ASSUME GameTypes, jobs # <<>>, jobs' = Tail(jobs)
  PROVE  jobs' \in Seq(GameJob) /\ Head(jobs) \in GameJob
<1>1. Len(jobs) \in Nat /\ Len(jobs) >= 1
  BY EmptySeq, LenProperties DEF GameTypes
<1>2. QED
  BY <1>1, RestOf DEF GameTypes

-----------------------------------------------------------------------------
(* Steps of the clients and of the game server                             *)

(* What no request changes.                                                *)
LEMMA HandlerLeaves ==
  ASSUME NEW c \in Conn, Handle(c)
  PROVE  /\ UNCHANGED <<accounts, sessions, db, accountOf, sessionOf, lastRow, proven, loaded>>
         /\ requests < MaxRequests /\ requests' = requests + 1 /\ UNCHANGED <<clock, crashes>>
         /\ UNCHANGED handed \/ HandleGameServerConnection(c)
         /\ \/ UNCHANGED <<jobs, playing>>
            \/ HandleCgExit(c)
            \/ \E session \in SessionId, username \in Username, name \in Name :
                 HandleEnter(c, session, username, name)
BY DEF Handle, HandleLogin, HandleGetCharacterList, HandleDeleteCharacter,
       HandleCancelDeleteCharacter, HandleCreateCharacter, HandleUpdateCharacterLocation,
       ForCharacter, PostFor, Request, HandleGameServerConnection, HandleEnter, HandleCgExit,
       GameRequest, Elsewhere, tables, store, client, game

(* A client is handed the session the store holds for it; the game server  *)
(* takes its requests as they come.                                        *)
LEMMA HandlerStep ==
  ASSUME TypeOK, PoolInv, OwnedInv, NEW c \in Conn, Handle(c)
  PROVE  /\ LoginTypes' /\ GameTypes' /\ CountTypes' /\ OwnedInv'
         /\ \A d \in Conn : playing'[d] \in {None, playing[d]}
<1>1. LoginTypes /\ GameTypes /\ ClientsOwn /\ LoginOwns
  BY TypesAre, OwnedIs
<1>2. UNCHANGED <<accounts, sessions, db, accountOf, sessionOf, lastRow, proven, loaded>>
  BY HandlerLeaves
<1>3. CountTypes'
  <2>1. /\ requests < MaxRequests /\ requests' = requests + 1
        /\ UNCHANGED <<clock, crashes>>
    BY HandlerLeaves
  <2>2. requests \in 0..MaxRequests /\ MaxRequests \in Nat /\ CountTypes
    BY LoginAssumption DEF TypeOK, CountTypes
  <2>3. QED
    BY <2>1, <2>2 DEF CountTypes
<1>4. /\ handed' \in [Conn -> Nat \cup {None}]
      /\ \A d \in Conn : handed'[d] # None => Given(d, handed'[d])
  <2>1. CASE UNCHANGED handed
    BY <1>1, <2>1 DEF LoginTypes, ClientsOwn
  <2>2. CASE HandleGameServerConnection(c)
    <3>1. handed' = [handed EXCEPT ![c] = IF sessionOf[c] = None THEN @ ELSE sessionOf[c]]
      BY <2>2 DEF HandleGameServerConnection
    <3>2. QED
      BY <1>1, <3>1 DEF LoginTypes, ClientsOwn
  <2>3. QED
    BY <2>1, <2>2, HandlerLeaves
<1>5. LoginTypes'
  BY <1>1, <1>2, <1>4 DEF LoginTypes
<1>6. ClientsOwn'
  BY <1>1, <1>2, <1>4 DEF ClientsOwn, Given
<1>7. LoginOwns'
  BY <1>1, <1>2, HandlerPosts, PostedOwns
<1>8. OwnedInv'
  BY <1>6, <1>7 DEF OwnedInv, ClientsOwn, LoginOwns
<1>9. jobs' \in Seq(GameJob) /\ playing' \in [Conn -> Player \cup {None}]
      /\ \A d \in Conn : playing'[d] \in {None, playing[d]}
  <2>1. CASE UNCHANGED <<jobs, playing>>
    BY <1>1, <2>1 DEF GameTypes
  <2>2. CASE HandleCgExit(c)
    <3>1. playing[c] \in Player
      BY <2>2 DEF HandleCgExit, TypeOK
    <3>2. [kind |-> "save", id |-> playing[c].id, place |-> playing[c].place] \in GameJob
      BY <3>1 DEF GameJob, Player
    <3>3. jobs' \in Seq(GameJob)
      BY <1>1, <2>2, <3>2, JobAppended DEF HandleCgExit
    <3>4. playing' = [playing EXCEPT ![c] = None]
      BY <2>2 DEF HandleCgExit
    <3>5. QED
      BY <1>1, <3>3, <3>4 DEF GameTypes
  <2>3. ASSUME NEW session \in SessionId, NEW username \in Username, NEW name \in Name,
               HandleEnter(c, session, username, name)
        PROVE  jobs' \in Seq(GameJob) /\ UNCHANGED playing
    <3>1. session \in Nat
      BY LoginAssumption
    <3>2. [kind |-> "load", conn |-> c, session |-> session, username |-> username,
           name |-> name] \in GameJob
      BY <3>1 DEF GameJob
    <3>3. QED
      BY <1>1, <2>3, <3>2, JobAppended DEF HandleEnter
  <2>4. QED
    BY <1>1, <2>1, <2>2, <2>3, HandlerLeaves DEF GameTypes
<1>10. GameTypes'
  BY <1>1, <1>2, <1>9 DEF GameTypes
<1>11. QED
  BY <1>3, <1>5, <1>8, <1>9, <1>10

(* The game server loads what the request names, and enters who was        *)
(* loaded.                                                                 *)
LEMMA GameStep ==
  ASSUME TypeOK, RowsInv, LoadForEnter \/ OnLoaded \/ SavePosition
  PROVE  /\ GameTypes'
         /\ \A i \in 1..Len(loaded') :
              \/ Fits(loaded'[i].player) /\ db' = db
              \/ \E j \in 1..Len(loaded) : loaded'[i] = loaded[j]
         /\ \A c \in Conn : \/ playing'[c] \in {None, playing[c]}
                            \/ \E j \in 1..Len(loaded) : playing'[c] = loaded[j].player
<1>1. /\ GameTypes /\ Len(loaded) \in Nat
      /\ \A i \in 1..Len(loaded) : loaded[i] \in [conn : Conn, player : Player]
  BY TypesAre, LenProperties DEF GameTypes
<1>2. CASE OnLoaded
  <2>1. /\ loaded # <<>> /\ loaded' = Tail(loaded) /\ UNCHANGED jobs
        /\ playing' = playing \/ playing' = [playing EXCEPT ![Head(loaded).conn] = Head(loaded).player]
    BY <1>2 DEF OnLoaded
  <2>2. Len(loaded) >= 1
    BY <1>1, <2>1, EmptySeq DEF GameTypes
  <2>3. /\ Head(loaded) = loaded[1]
        /\ loaded' \in Seq([conn : Conn, player : Player]) /\ Len(loaded') = Len(loaded) - 1
        /\ \A i \in 1..Len(loaded') : loaded'[i] = loaded[i + 1]
    BY <1>1, <2>1, <2>2, RestOf DEF GameTypes
  <2>4. \A i \in 1..Len(loaded') : \E j \in 1..Len(loaded) : loaded'[i] = loaded[j]
    BY <1>1, <2>2, <2>3
  <2>5. PICK d \in Conn, p \in Player : d = loaded[1].conn /\ p = loaded[1].player
    BY <1>1, <2>2
  <2>6. playing' = playing \/ playing' = [playing EXCEPT ![d] = p]
    BY <2>1, <2>3, <2>5
  <2>7. \A c \in Conn : playing'[c] = playing[c] \/ playing'[c] = loaded[1].player
    BY <1>1, <2>5, <2>6 DEF GameTypes
  <2>8. playing' \in [Conn -> Player \cup {None}]
    BY <1>1, <2>6 DEF GameTypes
  <2>9. GameTypes'
    BY <1>1, <2>1, <2>3, <2>8 DEF GameTypes
  <2>10. 1 \in 1..Len(loaded)
    BY <1>1, <2>2
  <2>11. QED
    BY <2>4, <2>7, <2>9, <2>10
<1>3. ASSUME RunGame("load") \/ RunGame("save")
      PROVE  jobs' \in Seq(GameJob) /\ Head(jobs) \in GameJob /\ UNCHANGED playing
  BY <1>1, <1>3, JobTaken DEF RunGame
<1>4. CASE SavePosition
  BY <1>1, <1>3, <1>4 DEF SavePosition, GameTypes
<1>5. CASE LoadForEnter
  <2>1. PICK job \in GameJob : job = Head(jobs) /\ job.kind = "load"
    BY <1>3, <1>5 DEF LoadForEnter, RunGame
  <2>2. job.conn \in Conn /\ job.session \in Nat /\ job.username \in Username
    BY <2>1 DEF GameJob
  <2>3. db' = db /\ jobs' \in Seq(GameJob) /\ UNCHANGED playing
    BY <1>3, <1>5 DEF LoadForEnter
  <2>4. CASE UNCHANGED loaded
    BY <1>1, <2>3, <2>4 DEF GameTypes
  <2>5. CASE \E player \in Found(job) : loaded' = Append(loaded, [conn |-> job.conn, player |-> player])
    <3>1. PICK player \in Found(job) : loaded' = Append(loaded, [conn |-> job.conn, player |-> player])
      BY <2>5
    <3>2. player \in Player /\ Fits(player)
      BY <2>2, FoundFits
    <3> DEFINE done == [conn |-> job.conn, player |-> player]
    <3>3. done \in [conn : Conn, player : Player] /\ done.player = player
      BY <2>2, <3>2
    <3> HIDE DEF done
    <3>4. /\ loaded' \in Seq([conn : Conn, player : Player]) /\ Len(loaded') = Len(loaded) + 1
          /\ \A i \in 1..Len(loaded) : loaded'[i] = loaded[i]
          /\ loaded'[Len(loaded) + 1] = done
      BY <1>1, <3>1, <3>3, AppendProperties DEF GameTypes, done
    <3>5. \A i \in 1..Len(loaded') :
            Fits(loaded'[i].player) \/ \E j \in 1..Len(loaded) : loaded'[i] = loaded[j]
      BY <1>1, <3>2, <3>3, <3>4
    <3>6. GameTypes'
      BY <1>1, <2>3, <3>4 DEF GameTypes
    <3>7. QED
      BY <2>3, <3>5, <3>6
  <2>6. QED
    BY <1>5, <2>1, <2>4, <2>5 DEF LoadForEnter
<1>6. QED
  BY <1>2, <1>4, <1>5

-----------------------------------------------------------------------------
(* The invariant                                                           *)

LEMMA LoginInvInit == ASSUME Init PROVE LoginInv
<1>1. TypeOK
  <2>1. clock \in 0..MaxClock /\ requests \in 0..MaxRequests /\ crashes \in 0..MaxCrashes
    BY LoginAssumption DEF Init
  <2>2. /\ jobs \in Seq(GameJob) /\ loaded \in Seq([conn : Conn, player : Player])
        /\ sessions \in Seq(Nat) /\ pool \in Seq(Job)
    BY EmptySeq DEF Init
  <2>3. QED
    BY <2>1, <2>2, LoginAssumption DEF Init, TypeOK
<1>2. PoolInv
  BY EmptySeq DEF Init, PoolInv
<1>3. RowsInv
  BY LoginAssumption DEF Init, RowsInv
<1>4. OwnedInv
  BY EmptySeq DEF Init, OwnedInv
<1>5. SessionsInv /\ PlayersInv
  BY EmptySeq DEF Init, SessionsInv, PlayersInv
<1>6. QED
  BY <1>1, <1>2, <1>3, <1>4, <1>5 DEF LoginInv

(* A step that changes neither accounts nor sessions nor passwords.        *)
LEMMA StoreStays ==
  ASSUME SessionsInv, UNCHANGED <<accounts, sessions, proven>>
  PROVE  SessionsInv' /\ StoreGrows
BY DEF SessionsInv, StoreGrows

(* Nor players.                                                            *)
LEMMA PlayersStay ==
  ASSUME GameTypes, GameTypes', SessionsInv, PlayersInv, StoreGrows,
         db \in Tables, db' \in Tables, Kept(db, db'), UNCHANGED loaded,
         \A c \in Conn : playing'[c] \in {None, playing[c]}
  PROVE  PlayersInv'
BY PlayersStep

LEMMA LoginInvStep == ASSUME LoginInv, [Next]_vars PROVE LoginInv'
<1>1. /\ TypeOK /\ PoolInv /\ RowsInv /\ OwnedInv /\ SessionsInv /\ PlayersInv
      /\ LoginTypes /\ GameTypes /\ CountTypes /\ PoolInv' /\ RowsInv' /\ Kept(db, db')
  BY RowsStep, TypesAre DEF LoginInv
<1>2. db \in Tables /\ db' \in Tables
  BY <1>1 DEF RowsInv
<1> SUFFICES LoginTypes' /\ GameTypes' /\ CountTypes' /\ OwnedInv' /\ SessionsInv' /\ PlayersInv'
  BY <1>1 DEF LoginInv, TypeOK, LoginTypes, GameTypes, CountTypes, PoolInv, RowsInv
<1>3. ASSUME NEW c \in Conn, Handle(c)
      PROVE  /\ LoginTypes' /\ GameTypes' /\ CountTypes' /\ OwnedInv'
             /\ SessionsInv' /\ PlayersInv'
  <2>1. /\ LoginTypes' /\ GameTypes' /\ CountTypes' /\ OwnedInv'
        /\ \A d \in Conn : playing'[d] \in {None, playing[d]}
    BY <1>1, <1>3, HandlerStep
  <2>2. UNCHANGED <<accounts, sessions, proven, loaded>>
    BY <1>3, HandlerLeaves
  <2>3. SessionsInv' /\ StoreGrows
    BY <1>1, <2>2, StoreStays
  <2>4. QED
    BY <1>1, <1>2, <2>1, <2>2, <2>3, PlayersStay
<1>4. CASE RunPool
  <2>1. LoginTypes' /\ StoreGrows /\ UNCHANGED <<handed, game, bounds>>
    BY <1>1, <1>4, PoolTypes
  <2>2. /\ GameTypes' /\ CountTypes' /\ UNCHANGED loaded
        /\ \A d \in Conn : playing'[d] \in {None, playing[d]}
    BY <1>1, <2>1 DEF game, bounds, GameTypes, CountTypes
  <2>3. OwnedInv' /\ SessionsInv'
    BY <1>1, <1>4, PoolGives, SessionsStep
  <2>4. QED
    BY <1>1, <1>2, <2>1, <2>2, <2>3, PlayersStay
<1>5. CASE Crash
  <2>1. LoginTypes'
    BY <1>1, <1>5 DEF Crash, client, LoginTypes
  <2>2. GameTypes' /\ UNCHANGED loaded /\ \A d \in Conn : playing'[d] \in {None, playing[d]}
    BY <1>1, <1>5 DEF Crash, game, GameTypes
  <2>3. CountTypes'
    <3>1. /\ crashes < MaxCrashes /\ crashes' = crashes + 1
          /\ clock' = clock /\ requests' = requests
      BY <1>5 DEF Crash
    <3>2. QED
      BY <1>1, <3>1, LoginAssumption DEF CountTypes
  <2>4. OwnedInv'
    BY <1>1, <1>5 DEF Crash, client, OwnedInv, Given
  <2>5. SessionsInv' /\ StoreGrows
    BY <1>1, <1>5, StoreStays DEF Crash, client
  <2>6. QED
    BY <1>1, <1>2, <2>1, <2>2, <2>3, <2>4, <2>5, PlayersStay
<1>6. CASE LoadForEnter \/ OnLoaded \/ SavePosition
  <2>1. UNCHANGED <<accounts, sessions, txn, pool, store, client, clock, crashes, requests>>
    BY <1>6 DEF LoadForEnter, OnLoaded, SavePosition, RunGame, Elsewhere
  <2>2. LoginTypes' /\ CountTypes'
    BY <1>1, <2>1 DEF store, client, LoginTypes, CountTypes
  <2>3. OwnedInv'
    BY <1>1, <2>1 DEF store, client, OwnedInv, Given
  <2>4. SessionsInv' /\ StoreGrows
    BY <1>1, <2>1, StoreStays DEF client
  <2>5. /\ GameTypes'
        /\ \A i \in 1..Len(loaded') :
             \/ Fits(loaded'[i].player) /\ db' = db
             \/ \E j \in 1..Len(loaded) : loaded'[i] = loaded[j]
        /\ \A c \in Conn : \/ playing'[c] \in {None, playing[c]}
                           \/ \E j \in 1..Len(loaded) : playing'[c] = loaded[j].player
    BY <1>1, <1>6, GameStep
  <2>6. db' = db => \A p : Fits(p) => FitsThen(p)
    BY <2>1 DEF Fits, FitsThen
  <2>7. \A i \in 1..Len(loaded') :
          FitsThen(loaded'[i].player) \/ \E j \in 1..Len(loaded) : loaded'[i] = loaded[j]
    BY <2>5, <2>6
  <2>8. PlayersInv'
    BY <1>1, <1>2, <2>4, <2>5, <2>7, PlayersStep
  <2>9. QED
    BY <2>2, <2>3, <2>4, <2>5, <2>8
<1>7. CASE Tick \/ UNCHANGED vars
  <2>1. UNCHANGED <<tables, store, client, game, pool, requests, crashes>> /\ clock' \in 0..MaxClock
    BY <1>1, <1>7, LoginAssumption DEF Tick, CountTypes, vars, bounds
  <2>2. LoginTypes' /\ CountTypes' /\ OwnedInv'
    BY <1>1, <2>1 DEF tables, store, client, LoginTypes, CountTypes, OwnedInv, Given
  <2>3. GameTypes' /\ UNCHANGED loaded /\ \A d \in Conn : playing'[d] \in {None, playing[d]}
    BY <1>1, <2>1 DEF game, GameTypes
  <2>4. SessionsInv' /\ StoreGrows
    BY <1>1, <2>1, StoreStays DEF tables, client
  <2>5. QED
    BY <1>1, <1>2, <2>2, <2>3, <2>4, PlayersStay
<1>8. QED
  BY <1>3, <1>4, <1>5, <1>6, <1>7 DEF Next

(* Every variable of the two servers has its type, for any number of       *)
(* clients, requests and crashes.                                          *)
THEOREM LoginTypeCorrect == Spec => []TypeOK
<1>1. Init => LoginInv
  BY LoginInvInit
<1>2. LoginInv /\ [Next]_vars => LoginInv'
  BY LoginInvStep
<1>3. LoginInv => TypeOK
  BY DEF LoginInv
<1>4. QED
  BY <1>1, <1>2, <1>3, PTL DEF Spec

(* In what is committed no character lacks its position or its skills,     *)
(* however far a creation or a sweep had come when the process stopped.    *)
THEOREM RowsCorrect == Spec => []EveryCharacterHasItsRows
<1>1. Init => LoginInv
  BY LoginInvInit
<1>2. LoginInv /\ [Next]_vars => LoginInv'
  BY LoginInvStep
<1>3. LoginInv => EveryCharacterHasItsRows
  BY DEF LoginInv, RowsInv, Sound, EveryCharacterHasItsRows
<1>4. QED
  BY <1>1, <1>2, <1>3, PTL DEF Spec

(* No two characters get one name, although the check and the insert are   *)
(* two statements and nothing in the schema forbids it.                    *)
THEOREM NamesAreUniqueCorrect == Spec => []NamesAreUnique
<1>1. Init => LoginInv
  BY LoginInvInit
<1>2. LoginInv /\ [Next]_vars => LoginInv'
  BY LoginInvStep
<1>3. LoginInv => NamesAreUnique
  BY DEF LoginInv, RowsInv, Sound, NamesAreUnique
<1>4. QED
  BY <1>1, <1>2, <1>3, PTL DEF Spec

(* The session a client is handed is of an account whose password it gave. *)
THEOREM HandsOverItsOwnCorrect == Spec => []HandsOverItsOwn
<1>1. Init => LoginInv
  BY LoginInvInit
<1>2. LoginInv /\ [Next]_vars => LoginInv'
  BY LoginInvStep
<1>3. LoginInv => HandsOverItsOwn
  BY DEF LoginInv, OwnedInv, Given, HandsOverItsOwn
<1>4. QED
  BY <1>1, <1>2, <1>3, PTL DEF Spec

(* Whatever session, username and name a client shows the game server, it  *)
(* plays a character of the session's account only, which has the username *)
(* it named, which someone gave the password of, and which keeps the       *)
(* character.                                                              *)
THEOREM PlaysWhatItNamedCorrect == Spec => []PlaysWhatItNamed
<1>1. Init => LoginInv
  BY LoginInvInit
<1>2. LoginInv /\ [Next]_vars => LoginInv'
  BY LoginInvStep
<1>3. LoginInv => PlaysWhatItNamed
  BY DEF LoginInv, SessionsInv, PlayersInv, Fits, PlaysWhatItNamed
<1>4. QED
  BY <1>1, <1>2, <1>3, PTL DEF Spec
=============================================================================
