----------------------------- MODULE ServerProofs -----------------------------
(***************************************************************************)
(* Proofs about Server, for any sets of connections and senders, any       *)
(* prefixes and any bounds.                                                *)
(***************************************************************************)
EXTENDS Server, SequenceTheorems, TLAPS

Calls == [name : {"connected", "frame", "disconnected"}, bytes : Seq(Unit)]

-----------------------------------------------------------------------------
(* Types                                                                   *)

(* A frame is a sequence of units.                                         *)
LEMMA FrameType ==
  ASSUME NEW n \in Nat, NEW length \in Nat
  PROVE  Frame(n, length) \in Seq(Unit)
<1>1. Frame(n, length) \in [1..length -> Unit]
  BY DEF Frame, Unit
<1> QED BY <1>1, SeqDef

(* Units of the frames a client has sent so far, numbered from 1.          *)

SentUnit(k) == [frame : 1..k, at : Nat]

(* Whatever is on the wire or buffered belongs to a frame of its client:   *)
(* the prefix a connection reads is one that was sent.                     *)

UnitsWereSent ==
  \A c \in Conn :
    /\ wire[c] \in Seq(SentUnit(Len(lengths[c])))
    /\ buffer[c] \in Seq(SentUnit(Len(lengths[c])))

(* The units of the n-th frame are among those of the first n frames.      *)
LEMMA FrameWasSent ==
  ASSUME NEW n \in Nat \ {0}, NEW length \in Nat
  PROVE  Frame(n, length) \in Seq(SentUnit(n))
<1>1. Frame(n, length) \in [1..length -> SentUnit(n)]
  BY DEF Frame, SentUnit
<1> QED BY <1>1, SeqDef

(* What a read or a frame takes off the front keeps the type.              *)
LEMMA PrefixType ==
  ASSUME NEW S, NEW s \in Seq(S), NEW n \in Nat, n <= Len(s)
  PROVE  SubSeq(s, 1, n) \in Seq(S)
<1>1. \A i \in 1..n : s[i] \in S
  BY ElementOfSeq
<1> QED BY <1>1, SubSeqProperties

(* What is left behind a prefix keeps the type.                            *)
LEMMA RestType ==
  ASSUME NEW S, NEW s \in Seq(S), NEW n \in Nat
  PROVE  SubSeq(s, n + 1, Len(s)) \in Seq(S)
<1>1. \A i \in (n + 1)..Len(s) : s[i] \in S
  BY ElementOfSeq
<1>2. Len(s) \in Nat
  OBVIOUS
<1> QED BY <1>1, <1>2, SubSeqProperties

(* DoWrite starts a write of a message or none.                            *)
LEMMA DoWriteType ==
  ASSUME NEW q \in Seq(Message)
  PROVE  DoWrite(q) \in Message \cup {None}
BY HeadTailProperties DEF DoWrite, Front

(* A callback of the owner is recorded with its type.                      *)
LEMMA CallType ==
  ASSUME TypeOK, NEW c \in Conn, NEW name \in {"connected", "frame", "disconnected"},
         NEW bytes \in Seq(Unit), Call(c, name, bytes)
  PROVE  calls' \in [Conn -> Seq(Calls)]
<1>1. Callback(name, bytes) \in Calls
  BY DEF Callback, Calls
<1>2. calls[c] \in Seq(Calls)
  BY DEF TypeOK, Calls
<1>3. Append(calls[c], Callback(name, bytes)) \in Seq(Calls)
  BY <1>1, <1>2, AppendProperties
<1> QED BY <1>3 DEF TypeOK, Call, Calls

(* The types hold at the start.                                            *)
LEMMA TypeInit == Init => TypeOK
BY EmptySeq, ServerAssumption DEF Init, TypeOK

(* A length prefix read off the buffer is one that clients send.           *)
LEMMA TotalIsALength ==
  ASSUME TypeOK, UnitsWereSent, NEW c \in Conn, buffer[c] # <<>>, NEW total \in TotalLength(c)
  PROVE  total \in Length /\ total \in Nat
<1> DEFINE first == Head(buffer[c])
<1>1. first \in SentUnit(Len(lengths[c]))
  BY HeadTailProperties DEF UnitsWereSent
<1>2. lengths[c] \in Seq(Length)
  BY DEF TypeOK
<1>3. first.frame \in 1..Len(lengths[c])
  BY <1>1 DEF SentUnit
<1>4. lengths[c][first.frame] \in Length
  BY <1>2, <1>3, ElementOfSeq
<1> QED BY <1>4, ServerAssumption DEF TotalLength

ServerInv == TypeOK /\ UnitsWereSent /\ OneWriteOfTheFront

(* Every step keeps the types.                                             *)
LEMMA TypeNext == ServerInv /\ [Next]_vars => TypeOK'
<1> SUFFICES ASSUME TypeOK, UnitsWereSent, OneWriteOfTheFront, [Next]_vars PROVE TypeOK'
  BY DEF ServerInv
<1> USE ServerAssumption
<1>1. ASSUME NEW c \in Conn, NEW length \in Length, ClientSends(c, length) PROVE TypeOK'
  <2>1. /\ lengths[c] \in Seq(Length) /\ length \in Nat
        /\ wire[c] \in Seq(Unit)
    BY DEF TypeOK
  <2>2. Append(lengths[c], length) \in Seq(Length)
    BY <2>1, AppendProperties
  <2>3. lengths' \in [Conn -> Seq(Length)] /\ lengths'[c] = Append(lengths[c], length)
    BY <1>1, <2>2 DEF ClientSends, TypeOK
  <2>4. Len(lengths'[c]) \in Nat
    BY <2>2, <2>3
  <2>5. wire[c] \o Frame(Len(lengths'[c]), length) \in Seq(Unit)
    BY <2>1, <2>4, FrameType, ConcatProperties
  <2>6. wire' \in [Conn -> Seq(Unit)]
    BY <1>1, <2>5 DEF ClientSends, TypeOK
  <2> QED BY <1>1, <2>3, <2>6 DEF ClientSends, TypeOK, reader, writer
<1>2. ASSUME NEW c \in Conn, HangUp(c) PROVE TypeOK'
  BY <1>2 DEF HangUp, TypeOK, reader, writer
<1>3. ASSUME NEW c \in Conn, RegisterConnection(c) PROVE TypeOK'
  BY <1>3 DEF RegisterConnection, TypeOK, client, reader, writer
<1>4. ASSUME NEW c \in Conn, Start(c) PROVE TypeOK'
  <2>1. calls' \in [Conn -> Seq(Calls)]
    BY <1>4, CallType, EmptySeq DEF Start
  <2> QED BY <1>4, <2>1 DEF Start, TypeOK, client, writer, Calls
<1>5. ASSUME NEW c \in Conn, HandleRead(c) PROVE TypeOK'
  <2>1. PICK n \in 1..Chunk :
          /\ n <= Len(wire[c])
          /\ buffer' = [buffer EXCEPT ![c] = @ \o SubSeq(wire[c], 1, n)]
          /\ wire' = [wire EXCEPT ![c] = SubSeq(@, n + 1, Len(@))]
    BY <1>5 DEF HandleRead
  <2>2. n \in Nat /\ wire[c] \in Seq(Unit) /\ buffer[c] \in Seq(Unit)
    BY DEF TypeOK
  <2>3. /\ SubSeq(wire[c], 1, n) \in Seq(Unit)
        /\ SubSeq(wire[c], n + 1, Len(wire[c])) \in Seq(Unit)
    BY <2>1, <2>2, PrefixType, RestType
  <2>4. buffer[c] \o SubSeq(wire[c], 1, n) \in Seq(Unit)
    BY <2>2, <2>3, ConcatProperties
  <2>5. buffer' \in [Conn -> Seq(Unit)] /\ wire' \in [Conn -> Seq(Unit)]
    BY <2>1, <2>3, <2>4 DEF TypeOK
  <2> QED BY <1>5, <2>5 DEF HandleRead, TypeOK, writer
<1>6. ASSUME NEW c \in Conn, DrainFrame(c) PROVE TypeOK'
  <2>1. buffer[c] \in Seq(Unit) /\ Prefix \in Nat
    BY DEF TypeOK
  <2>2. at' \in [Conn -> {"fresh", "registered", "reading", "draining", "closed"}]
    BY <1>6 DEF DrainFrame, TypeOK
  <2>3. buffer[c] # <<>> /\ Head(buffer[c]) \in Unit
    <3>1. Len(buffer[c]) > 0
      BY <1>6, <2>1 DEF DrainFrame
    <3>2. buffer[c] # <<>>
      BY <3>1, EmptySeq
    <3> QED BY <2>1, <3>2, HeadTailProperties
  <2>4. PICK total \in TotalLength(c) :
          \/ /\ buffer' = [buffer EXCEPT ![c] = <<>>]
             /\ UNCHANGED calls
          \/ UNCHANGED reader
          \/ /\ total >= 2 * Prefix
             /\ Len(buffer[c]) >= total
             /\ Call(c, "frame", SubSeq(buffer[c], 1, total))
             /\ buffer' = [buffer EXCEPT ![c] = Erase(@, total)]
    BY <1>6 DEF DrainFrame
  <2>5. buffer' \in [Conn -> Seq(Unit)] /\ calls' \in [Conn -> Seq(Calls)]
    <3>1. CASE buffer' = [buffer EXCEPT ![c] = <<>>] /\ UNCHANGED calls
      BY <3>1, EmptySeq DEF TypeOK, Calls
    <3>2. CASE UNCHANGED reader
      BY <3>2 DEF reader, TypeOK, Calls
    <3>3. CASE /\ total >= 2 * Prefix
               /\ Len(buffer[c]) >= total
               /\ Call(c, "frame", SubSeq(buffer[c], 1, total))
               /\ buffer' = [buffer EXCEPT ![c] = Erase(@, total)]
      <4>1. CASE total \in Nat
        <5>1. SubSeq(buffer[c], 1, total) \in Seq(Unit) /\ Erase(buffer[c], total) \in Seq(Unit)
          BY <2>1, <3>3, <4>1, PrefixType, RestType DEF Erase
        <5>2. calls' \in [Conn -> Seq(Calls)]
          BY <3>3, <5>1, CallType
        <5> QED BY <3>3, <5>1, <5>2 DEF TypeOK
      <4>2. total \in Nat
        BY <2>3, TotalIsALength
      <4> QED BY <4>1, <4>2
    <3> QED BY <2>4, <3>1, <3>2, <3>3
  <2> QED BY <1>6, <2>2, <2>5 DEF DrainFrame, Draining, TypeOK, client, writer, Calls
<1>7. ASSUME NEW c \in Conn, ReadOn(c) PROVE TypeOK'
  BY <1>7 DEF ReadOn, Draining, TypeOK, client, reader, writer
<1>8. ASSUME NEW c \in Conn, HandleDisconnect(c) PROVE TypeOK'
  <2>1. calls' \in [Conn -> Seq(Calls)]
    BY <1>8, CallType, EmptySeq DEF HandleDisconnect
  <2> QED BY <1>8, <2>1 DEF HandleDisconnect, UnregisterConnection, TypeOK, client, writer, Calls
<1>9. ASSUME NEW s \in Sender, NEW targets \in SUBSET Conn, LookUp(s, targets) PROVE TypeOK'
  <2>1. sends' \in 0..MaxSends /\ sends' \in Nat
    BY <1>9 DEF LookUp, TypeOK
  <2>2. Found(targets, sends') \in [to : (SUBSET Conn) \ {{}}, n : Nat] \cup {None}
    BY <2>1 DEF Found
  <2> QED BY <1>9, <2>1, <2>2 DEF LookUp, TypeOK, client, reader, writer
<1>10. ASSUME NEW s \in Sender, NEW c \in Conn, Send(s, c) PROVE TypeOK'
  <2>1. sending[s] \in [to : (SUBSET Conn) \ {{}}, n : Nat]
    BY <1>10 DEF Send, TypeOK
  <2>2. [by |-> s, n |-> sending[s].n] \in Message
    BY <2>1 DEF Message
  <2>3. strand[c] \in Seq(Message)
    BY DEF TypeOK
  <2>4. Append(strand[c], [by |-> s, n |-> sending[s].n]) \in Seq(Message)
    BY <2>2, <2>3, AppendProperties
  <2>5. Found(sending[s].to \ {c}, sending[s].n) \in [to : (SUBSET Conn) \ {{}}, n : Nat] \cup {None}
    <3>1. sending[s].to \ {c} \in SUBSET Conn /\ sending[s].n \in Nat
      BY <2>1
    <3> QED BY <3>1 DEF Found
  <2> QED BY <1>10, <2>4, <2>5 DEF Send, TypeOK, client, reader, writer
<1>11. ASSUME NEW c \in Conn, PushSend(c) PROVE TypeOK'
  <2>1. strand[c] \in Seq(Message) /\ strand[c] # <<>> /\ queue[c] \in Seq(Message)
    BY <1>11 DEF PushSend, TypeOK
  <2>2. Head(strand[c]) \in Message /\ Tail(strand[c]) \in Seq(Message)
    BY <2>1, HeadTailProperties
  <2>3. Append(queue[c], Head(strand[c])) \in Seq(Message)
    BY <2>1, <2>2, AppendProperties
  <2>4. queue'[c] \in Seq(Message) /\ queue' \in [Conn -> Seq(Message)]
    BY <1>11, <2>3 DEF PushSend, TypeOK
  <2>5. StartIfIdle(c, queue'[c]) \in Message \cup {None}
    BY <2>4, DoWriteType DEF StartIfIdle, TypeOK
  <2> QED BY <1>11, <2>2, <2>4, <2>5 DEF PushSend, TypeOK, client, reader
<1>12. ASSUME NEW c \in Conn, HandleWrite(c) PROVE TypeOK'
  <2>1. writing[c] \in Message /\ queue[c] \in Seq(Message) /\ written[c] \in Seq(Message)
    BY <1>12 DEF HandleWrite, WriteCompletes, TypeOK
  <2>2. queue[c] # <<>>
    BY <1>12 DEF OneWriteOfTheFront, HandleWrite, WriteCompletes
  <2>3. Tail(queue[c]) \in Seq(Message)
    BY <2>1, <2>2, HeadTailProperties
  <2>4. queue'[c] \in Seq(Message) /\ queue' \in [Conn -> Seq(Message)]
    BY <1>12, <2>3 DEF HandleWrite, TypeOK
  <2>5. DoWrite(queue'[c]) \in Message \cup {None}
    BY <2>4, DoWriteType
  <2>6. Append(written[c], writing[c]) \in Seq(Message)
    BY <2>1, AppendProperties
  <2> QED
    BY <1>12, <2>4, <2>5, <2>6 DEF HandleWrite, WriteCompletes, TypeOK, client, reader
<1>13. ASSUME NEW c \in Conn, HandleWriteError(c) PROVE TypeOK'
  BY <1>13, EmptySeq DEF HandleWriteError, WriteCompletes, Clear, TypeOK, client, reader
<1>14. CASE UNCHANGED vars
  BY <1>14 DEF vars, TypeOK, client, reader, writer
<1> QED
  BY <1>1, <1>2, <1>3, <1>4, <1>5, <1>6, <1>7, <1>8, <1>9, <1>10, <1>11, <1>12, <1>13, <1>14
  DEF Next, Client, Reactor, Failure, SendTo, Broadcast, TypeOK

-----------------------------------------------------------------------------
(* The buffer holds units of frames that were sent.                        *)

(* Nothing is on the wire at the start.                                    *)
LEMMA UnitsInit == Init => UnitsWereSent
<1>1. \A S : <<>> \in Seq(S)
  BY EmptySeq
<1>2. Init => \A c \in Conn : wire[c] = <<>> /\ buffer[c] = <<>>
  BY DEF Init
<1> QED BY <1>1, <1>2 DEF UnitsWereSent

(* Every step keeps units of sent frames only on the wire and buffered.    *)
LEMMA UnitsNext == ServerInv /\ [Next]_vars => UnitsWereSent'
<1> SUFFICES ASSUME TypeOK, UnitsWereSent, OneWriteOfTheFront, [Next]_vars, NEW d \in Conn
             PROVE  /\ wire'[d] \in Seq(SentUnit(Len(lengths'[d])))
                    /\ buffer'[d] \in Seq(SentUnit(Len(lengths'[d])))
  BY DEF ServerInv, UnitsWereSent
<1> DEFINE S == SentUnit(Len(lengths[d]))
<1> USE ServerAssumption
<1>0. /\ wire[d] \in Seq(S) /\ buffer[d] \in Seq(S) /\ Len(lengths[d]) \in Nat
      /\ lengths[d] \in Seq(Length)
  BY DEF UnitsWereSent, TypeOK
<1>1. ASSUME NEW length \in Length, ClientSends(d, length)
      PROVE  /\ wire'[d] \in Seq(SentUnit(Len(lengths'[d])))
             /\ buffer'[d] \in Seq(SentUnit(Len(lengths'[d])))
  <2>1. lengths'[d] = Append(lengths[d], length) /\ buffer'[d] = buffer[d]
    BY <1>1 DEF ClientSends, TypeOK, reader
  <2>2. Len(lengths'[d]) = Len(lengths[d]) + 1
    BY <2>1, <1>0, AppendProperties
  <2>3. S \subseteq SentUnit(Len(lengths'[d]))
    BY <2>2, <1>0 DEF SentUnit
  <2>4. Frame(Len(lengths'[d]), length) \in Seq(SentUnit(Len(lengths'[d])))
    <3>1. Len(lengths'[d]) \in Nat \ {0} /\ length \in Nat
      BY <2>2, <1>0
    <3> QED BY <3>1, FrameWasSent
  <2>5. wire'[d] = wire[d] \o Frame(Len(lengths'[d]), length)
    BY <1>1 DEF ClientSends, TypeOK
  <2>6. /\ wire[d] \in Seq(SentUnit(Len(lengths'[d])))
        /\ buffer[d] \in Seq(SentUnit(Len(lengths'[d])))
    BY <1>0, <2>3, SeqMonotonic
  <2> QED BY <2>1, <2>4, <2>5, <2>6, ConcatProperties
<1>2. ASSUME HandleRead(d) PROVE wire'[d] \in Seq(S) /\ buffer'[d] \in Seq(S)
  <2>1. PICK n \in 1..Chunk :
          /\ n <= Len(wire[d])
          /\ buffer' = [buffer EXCEPT ![d] = @ \o SubSeq(wire[d], 1, n)]
          /\ wire' = [wire EXCEPT ![d] = SubSeq(@, n + 1, Len(@))]
    BY <1>2 DEF HandleRead
  <2>2. n \in Nat
    OBVIOUS
  <2>3. SubSeq(wire[d], 1, n) \in Seq(S) /\ SubSeq(wire[d], n + 1, Len(wire[d])) \in Seq(S)
    BY <1>0, <2>1, <2>2, PrefixType, RestType
  <2>4. buffer[d] \o SubSeq(wire[d], 1, n) \in Seq(S)
    BY <1>0, <2>3, ConcatProperties
  <2> QED BY <2>1, <2>3, <2>4 DEF TypeOK
<1>3. ASSUME DrainFrame(d) PROVE wire'[d] \in Seq(S) /\ buffer'[d] \in Seq(S)
  <2>1. buffer[d] # <<>>
    BY <1>3, <1>0, EmptySeq DEF DrainFrame
  <2>2. \A total \in TotalLength(d) : Erase(buffer[d], total) \in Seq(S)
    BY <1>0, <2>1, TotalIsALength, RestType DEF Erase
  <2>3. buffer'[d] = <<>> \/ buffer'[d] = buffer[d]
        \/ \E total \in TotalLength(d) : buffer'[d] = Erase(buffer[d], total)
    BY <1>3 DEF DrainFrame, TypeOK, reader
  <2>4. wire'[d] = wire[d]
    BY <1>3 DEF DrainFrame, Draining, client
  <2> QED BY <1>0, <2>2, <2>3, <2>4, EmptySeq
<1>4. CASE ~ \/ \E length \in Length : ClientSends(d, length)
             \/ HandleRead(d) \/ DrainFrame(d)
  <2> DEFINE Same == wire'[d] = wire[d] /\ buffer'[d] = buffer[d] /\ lengths'[d] = lengths[d]
  <2>1. ASSUME NEW c \in Conn, Client(c) PROVE Same
    <3>1. ASSUME HangUp(c) PROVE Same
      BY <3>1 DEF HangUp, reader
    <3>2. ASSUME NEW length \in Length, ClientSends(c, length) PROVE Same
      <4>1. c # d
        BY <1>4, <3>2
      <4> QED BY <3>2, <4>1 DEF ClientSends, reader, TypeOK
    <3> QED BY <2>1, <3>1, <3>2 DEF Client
  <2>2. ASSUME NEW c \in Conn, HandleRead(c) \/ DrainFrame(c) PROVE Same
    <3>1. c # d
      BY <1>4, <2>2
    <3>2. ASSUME HandleRead(c) PROVE Same
      BY <3>1, <3>2 DEF HandleRead, TypeOK
    <3>3. ASSUME DrainFrame(c) PROVE Same
      BY <3>1, <3>3 DEF DrainFrame, Draining, client, reader, TypeOK
    <3> QED BY <2>2, <3>2, <3>3
  <2>3. ASSUME NEW c \in Conn, RegisterConnection(c) \/ Start(c) \/ ReadOn(c) \/ PushSend(c)
                               \/ HandleWrite(c) \/ Failure(c)
        PROVE  Same
    BY <2>3 DEF RegisterConnection, Start, ReadOn, Draining, PushSend, HandleWrite, WriteCompletes,
      Failure, HandleDisconnect, HandleWriteError, client, reader
  <2>4. ASSUME NEW s \in Sender, Broadcast(s) \/ \E c \in Conn : SendTo(s, c) \/ Send(s, c)
        PROVE  Same
    BY <2>4 DEF Broadcast, SendTo, LookUp, Send, client, reader
  <2>5. ASSUME UNCHANGED vars PROVE Same
    BY <2>5 DEF vars, client, reader
  <2>6. Same
    BY <2>1, <2>2, <2>3, <2>4, <2>5 DEF Next, Reactor
  <2> QED BY <1>0, <2>6
<1>5. HandleRead(d) \/ DrainFrame(d) => lengths' = lengths
  BY DEF HandleRead, DrainFrame, Draining, client
<1> QED BY <1>1, <1>2, <1>3, <1>4, <1>5

-----------------------------------------------------------------------------
(* One write at a time, of the queue's front                               *)

(* No write is outstanding at the start, and no queue has a front.         *)
LEMMA FrontInit == Init => OneWriteOfTheFront
BY DEF Init, OneWriteOfTheFront

(* Every step keeps the outstanding write that of the front.               *)
LEMMA FrontNext == ServerInv /\ [Next]_vars => OneWriteOfTheFront'
<1> SUFFICES ASSUME TypeOK, UnitsWereSent, OneWriteOfTheFront, [Next]_vars, NEW d \in Conn
             PROVE  writing'[d] = IF queue'[d] = <<>> THEN None ELSE Head(queue'[d])
  BY DEF ServerInv, OneWriteOfTheFront
<1>1. writing[d] = IF queue[d] = <<>> THEN None ELSE Head(queue[d])
  BY DEF OneWriteOfTheFront
<1>2. CASE PushSend(d)
  <2> DEFINE m == Head(strand[d])
  <2>1. queue[d] \in Seq(Message) /\ m \in Message
    BY <1>2, HeadTailProperties DEF PushSend, TypeOK
  <2>2. /\ queue'[d] = Append(queue[d], m)
        /\ writing'[d] = StartIfIdle(d, queue'[d])
    BY <1>2 DEF PushSend, TypeOK
  <2>3. queue'[d] # <<>>
    BY <2>1, <2>2, AppendProperties
  <2>4. CASE queue[d] = <<>>
    BY <2>2, <2>3, <2>4 DEF StartIfIdle, DoWrite, Front
  <2>5. CASE queue[d] # <<>>
    <3>1. Head(Append(queue[d], m)) = Head(queue[d])
      BY <2>1, <2>5
    <3> QED BY <1>1, <2>2, <2>3, <2>5, <3>1 DEF StartIfIdle
  <2> QED BY <2>4, <2>5
<1>3. CASE HandleWrite(d)
  BY <1>3 DEF HandleWrite, DoWrite, Front, TypeOK
<1>4. CASE HandleWriteError(d)
  BY <1>4 DEF HandleWriteError, Clear, TypeOK
<1>5. CASE ~(PushSend(d) \/ HandleWrite(d) \/ HandleWriteError(d))
  <2> DEFINE Same == queue'[d] = queue[d] /\ writing'[d] = writing[d]
  <2>1. ASSUME NEW c \in Conn, PushSend(c) \/ HandleWrite(c) \/ HandleWriteError(c) PROVE Same
    BY <1>5, <2>1 DEF PushSend, HandleWrite, HandleWriteError, TypeOK
  <2>2. ASSUME NEW c \in Conn, Client(c) \/ RegisterConnection(c) \/ Start(c) PROVE Same
    BY <2>2 DEF Client, ClientSends, HangUp, RegisterConnection, Start, writer
  <2>3. ASSUME NEW c \in Conn, HandleRead(c) \/ DrainFrame(c) \/ ReadOn(c) \/ HandleDisconnect(c)
        PROVE  Same
    BY <2>3 DEF HandleRead, DrainFrame, ReadOn, Draining, HandleDisconnect, writer
  <2>4. ASSUME NEW s \in Sender, Broadcast(s) \/ \E c \in Conn : SendTo(s, c) \/ Send(s, c)
        PROVE  Same
    BY <2>4 DEF Broadcast, SendTo, LookUp, Send, writer
  <2>5. ASSUME UNCHANGED vars PROVE Same
    BY <2>5 DEF vars, writer
  <2>6. Same
    BY <2>1, <2>2, <2>3, <2>4, <2>5 DEF Next, Reactor, Failure
  <2> QED BY <1>1, <2>6
<1> QED BY <1>2, <1>3, <1>4, <1>5

(* The inductive invariant: the types need both other parts, a prefix that *)
(* was sent and a queue that is not empty while a write is outstanding.    *)
LEMMA ServerInvariant == Spec => []ServerInv
<1>1. Init => ServerInv
  BY TypeInit, UnitsInit, FrontInit DEF ServerInv
<1>2. ServerInv /\ [Next]_vars => ServerInv'
  BY TypeNext, UnitsNext, FrontNext DEF ServerInv
<1> QED BY <1>1, <1>2, PTL DEF Spec

(* The state of Server keeps its types.                                    *)
THEOREM ServerTypeCorrect == Spec => []TypeOK
BY ServerInvariant, PTL DEF ServerInv

(* One write at most is outstanding on a socket, of the queue's front.     *)
THEOREM OneWriteCorrect == Spec => []OneWriteOfTheFront
BY ServerInvariant, PTL DEF ServerInv

-----------------------------------------------------------------------------
(* The order of one sender's messages                                      *)

Ordered(q) ==
  \A i, j \in 1..Len(q) : i < j /\ q[i].by = q[j].by => q[i].n < q[j].n

Before(p, q) ==
  \A i \in 1..Len(p), j \in 1..Len(q) : p[i].by = q[j].by => p[i].n < q[j].n

(* Messages to c that were posted: the call their sender is at, if c is    *)
(* still to get its message, is a later one.                               *)
Posted(q, c, pending, count) ==
  \A i \in 1..Len(q) :
    /\ q[i].n <= count
    /\ pending[q[i].by] # None /\ c \in pending[q[i].by].to => q[i].n < pending[q[i].by].n

(* Written, then queued, then still on the strand: in the order of calls.  *)
OrderInv ==
  /\ \A s \in Sender : sending[s] # None => sending[s].n <= sends
  /\ \A c \in Conn :
       /\ Ordered(written[c]) /\ Ordered(queue[c]) /\ Ordered(strand[c])
       /\ Before(written[c], queue[c]) /\ Before(written[c], strand[c])
       /\ Before(queue[c], strand[c])
       /\ Posted(written[c], c, sending, sends)
       /\ Posted(queue[c], c, sending, sends)
       /\ Posted(strand[c], c, sending, sends)

(* The messages of a sequence with one appended.                           *)
LEMMA AppendedAt ==
  ASSUME NEW q \in Seq(Message), NEW m \in Message
  PROVE  /\ Len(Append(q, m)) = Len(q) + 1 /\ Len(q) \in Nat
         /\ \A i \in 1..Len(Append(q, m)) :
              \/ i = Len(q) + 1 /\ Append(q, m)[i] = m
              \/ i \in 1..Len(q) /\ Append(q, m)[i] = q[i]
BY AppendProperties

(* The messages of a tail are those behind the first.                      *)
LEMMA TailAt ==
  ASSUME NEW q \in Seq(Message), q # <<>>
  PROVE  /\ Head(q) = q[1] /\ 1 \in 1..Len(q) /\ Len(q) \in Nat
         /\ \A i \in 1..Len(Tail(q)) : i + 1 \in 1..Len(q) /\ Tail(q)[i] = q[i + 1]
BY HeadTailProperties, EmptySeq

(* Every message of a sequence has a number and a sender.                  *)
LEMMA Numbers ==
  ASSUME NEW q \in Seq(Message), NEW i \in 1..Len(q)
  PROVE  q[i] \in Message /\ q[i].n \in Nat /\ q[i].by \in Sender
<1>1. q[i] \in Message
  BY ElementOfSeq
<1> QED BY <1>1 DEF Message

(* The head of q moves to the end of p.                                    *)
LEMMA HeadMoves ==
  ASSUME NEW p \in Seq(Message), NEW q \in Seq(Message), q # <<>>,
         Ordered(p), Ordered(q), Before(p, q)
  PROVE  /\ Ordered(Append(p, Head(q))) /\ Ordered(Tail(q))
         /\ Before(Append(p, Head(q)), Tail(q))
<1> DEFINE m == Head(q)
<1>0. m \in Message
  BY HeadTailProperties
<1>1. Ordered(Append(p, m))
  <2>1. \A i \in 1..Len(p) : p[i].by = m.by => p[i].n < m.n
    BY TailAt DEF Before
  <2> HIDE DEF m
  <2> QED BY <1>0, <2>1, AppendedAt DEF Ordered
<1>2. Ordered(Tail(q))
  BY TailAt DEF Ordered
<1>3. Before(Append(p, m), Tail(q))
  <2>1. \A j \in 1..Len(Tail(q)) : m.by = Tail(q)[j].by => m.n < Tail(q)[j].n
    BY TailAt DEF Ordered
  <2>2. Before(p, Tail(q))
    BY TailAt DEF Before
  <2> HIDE DEF m
  <2> QED BY <1>0, <2>1, <2>2, AppendedAt DEF Before
<1> QED BY <1>1, <1>2, <1>3

(* The head of q moves to the end of p, and both stay before r.            *)
LEMMA HeadMovesBefore ==
  ASSUME NEW p \in Seq(Message), NEW q \in Seq(Message), q # <<>>,
         NEW r \in Seq(Message), Before(p, r), Before(q, r)
  PROVE  Before(Append(p, Head(q)), r) /\ Before(Tail(q), r)
<1> DEFINE m == Head(q)
<1>0. m \in Message
  BY HeadTailProperties
<1>1. \A j \in 1..Len(r) : m.by = r[j].by => m.n < r[j].n
  BY TailAt DEF Before
<1>2. Before(Tail(q), r)
  BY TailAt DEF Before
<1> HIDE DEF m
<1>3. Before(Append(p, m), r)
  BY <1>0, <1>1, AppendedAt DEF Before
<1> QED BY <1>2, <1>3 DEF m

(* The head of q moves to the end of p, and both stay behind r.            *)
LEMMA HeadMovesAfter ==
  ASSUME NEW p \in Seq(Message), NEW q \in Seq(Message), q # <<>>,
         NEW r \in Seq(Message), Before(r, p), Before(r, q)
  PROVE  Before(r, Append(p, Head(q))) /\ Before(r, Tail(q))
<1> DEFINE m == Head(q)
<1>0. m \in Message
  BY HeadTailProperties
<1>1. \A j \in 1..Len(r) : r[j].by = m.by => r[j].n < m.n
  BY TailAt DEF Before
<1>2. Before(r, Tail(q))
  BY TailAt DEF Before
<1> HIDE DEF m
<1>3. Before(r, Append(p, m))
  BY <1>0, <1>1, AppendedAt DEF Before
<1> QED BY <1>2, <1>3 DEF m

(* The head of q moves to the end of p, and both hold posted messages.     *)
LEMMA HeadMovesPosted ==
  ASSUME NEW p \in Seq(Message), NEW q \in Seq(Message), q # <<>>,
         NEW c, NEW pending, NEW count,
         Posted(p, c, pending, count), Posted(q, c, pending, count)
  PROVE  Posted(Append(p, Head(q)), c, pending, count) /\ Posted(Tail(q), c, pending, count)
<1> DEFINE m == Head(q)
<1>0. m \in Message
  BY HeadTailProperties
<1>1. /\ m.n <= count
      /\ pending[m.by] # None /\ c \in pending[m.by].to => m.n < pending[m.by].n
  BY TailAt DEF Posted
<1>2. Posted(Tail(q), c, pending, count)
  BY TailAt DEF Posted
<1> HIDE DEF m
<1>3. Posted(Append(p, m), c, pending, count)
  BY <1>0, <1>1, AppendedAt DEF Posted
<1> QED BY <1>2, <1>3 DEF m

(* A message later than everything its sender posted before.               *)
LEMMA LastAppended ==
  ASSUME NEW p \in Seq(Message), NEW q \in Seq(Message), NEW m \in Message,
         \A i \in 1..Len(q) : q[i].by = m.by => q[i].n < m.n,
         \A i \in 1..Len(p) : p[i].by = m.by => p[i].n < m.n,
         Ordered(q), Before(p, q)
  PROVE  Ordered(Append(q, m)) /\ Before(p, Append(q, m))
<1>1. Ordered(Append(q, m))
  BY AppendedAt DEF Ordered
<1>2. Before(p, Append(q, m))
  BY AppendedAt DEF Before
<1> QED BY <1>1, <1>2

(* What the order of one connection's messages depends on.                 *)
QueuesOf(c) == <<strand[c], queue[c], written[c]>>

OrderedAt(c) ==
  /\ Ordered(written[c]) /\ Ordered(queue[c]) /\ Ordered(strand[c])
  /\ Before(written[c], queue[c]) /\ Before(written[c], strand[c])
  /\ Before(queue[c], strand[c])

PostedAt(c) ==
  /\ Posted(written[c], c, sending, sends)
  /\ Posted(queue[c], c, sending, sends)
  /\ Posted(strand[c], c, sending, sends)

(* Nothing is sent at the start.                                           *)
LEMMA OrderInit == Init => OrderInv
<1> SUFFICES ASSUME Init PROVE OrderInv
  OBVIOUS
<1>1. \A s \in Sender : sending[s] = None
  BY DEF Init
<1>2. \A c \in Conn : Len(written[c]) = 0 /\ Len(queue[c]) = 0 /\ Len(strand[c]) = 0
  BY EmptySeq DEF Init
<1> QED BY <1>1, <1>2 DEF OrderInv, Ordered, Before, Posted

(* A posted send that reaches the queue keeps the order.                   *)
LEMMA PushKeepsOrder ==
  ASSUME ServerInv, OrderInv, NEW c \in Conn, PushSend(c) PROVE OrderInv'
<1>1. /\ strand[c] \in Seq(Message) /\ queue[c] \in Seq(Message) /\ written[c] \in Seq(Message)
      /\ strand[c] # <<>>
  BY DEF PushSend, ServerInv, TypeOK
<1>2. /\ strand'[c] = Tail(strand[c]) /\ queue'[c] = Append(queue[c], Head(strand[c]))
      /\ written' = written /\ sending' = sending /\ sends' = sends
      /\ \A d \in Conn \ {c} : strand'[d] = strand[d] /\ queue'[d] = queue[d]
  BY DEF PushSend, ServerInv, TypeOK
<1>3. OrderedAt(c) /\ PostedAt(c)
  BY DEF OrderInv, OrderedAt, PostedAt
<1>4. /\ Ordered(queue'[c]) /\ Ordered(strand'[c]) /\ Before(queue'[c], strand'[c])
  BY <1>1, <1>2, <1>3, HeadMoves DEF OrderedAt
<1>5. Before(written'[c], queue'[c]) /\ Before(written'[c], strand'[c])
  BY <1>1, <1>2, <1>3, HeadMovesAfter DEF OrderedAt
<1>6. Posted(queue'[c], c, sending, sends) /\ Posted(strand'[c], c, sending, sends)
  BY <1>1, <1>2, <1>3, HeadMovesPosted DEF PostedAt
<1> QED BY <1>2, <1>3, <1>4, <1>5, <1>6 DEF OrderInv, OrderedAt, PostedAt

(* A completed write keeps the order.                                      *)
LEMMA WriteKeepsOrder ==
  ASSUME ServerInv, OrderInv, NEW c \in Conn, HandleWrite(c) PROVE OrderInv'
<1>1. /\ strand[c] \in Seq(Message) /\ queue[c] \in Seq(Message) /\ written[c] \in Seq(Message)
      /\ queue[c] # <<>> /\ writing[c] = Head(queue[c])
  BY DEF HandleWrite, WriteCompletes, ServerInv, TypeOK, OneWriteOfTheFront
<1>2. /\ queue'[c] = Tail(queue[c]) /\ written'[c] = Append(written[c], Head(queue[c]))
      /\ strand' = strand /\ sending' = sending /\ sends' = sends
      /\ \A d \in Conn \ {c} : written'[d] = written[d] /\ queue'[d] = queue[d]
  BY <1>1 DEF HandleWrite, WriteCompletes, ServerInv, TypeOK
<1>3. OrderedAt(c) /\ PostedAt(c)
  BY DEF OrderInv, OrderedAt, PostedAt
<1>4. /\ Ordered(written'[c]) /\ Ordered(queue'[c]) /\ Before(written'[c], queue'[c])
  BY <1>1, <1>2, <1>3, HeadMoves DEF OrderedAt
<1>5. Before(written'[c], strand'[c]) /\ Before(queue'[c], strand'[c])
  BY <1>1, <1>2, <1>3, HeadMovesBefore DEF OrderedAt
<1>6. Posted(written'[c], c, sending, sends) /\ Posted(queue'[c], c, sending, sends)
  BY <1>1, <1>2, <1>3, HeadMovesPosted DEF PostedAt
<1> QED BY <1>2, <1>3, <1>4, <1>5, <1>6 DEF OrderInv, OrderedAt, PostedAt

(* A failed write, which drops the queue, keeps the order.                 *)
LEMMA ErrorKeepsOrder ==
  ASSUME ServerInv, OrderInv, NEW c \in Conn, HandleWriteError(c) PROVE OrderInv'
<1>1. /\ queue'[c] = <<>> /\ strand' = strand /\ sending' = sending /\ sends' = sends
      /\ written' = written /\ \A d \in Conn \ {c} : queue'[d] = queue[d]
  BY DEF HandleWriteError, WriteCompletes, Clear, ServerInv, TypeOK
<1>2. Len(queue'[c]) = 0
  BY <1>1, EmptySeq
<1>3. /\ Ordered(queue'[c]) /\ Before(written[c], queue'[c]) /\ Before(queue'[c], strand[c])
      /\ Posted(queue'[c], c, sending, sends)
  BY <1>2 DEF Ordered, Before, Posted
<1> QED BY <1>1, <1>3 DEF OrderInv

(* A send posted to a strand keeps the order.                              *)
LEMMA SendKeepsOrder ==
  ASSUME ServerInv, OrderInv, NEW s \in Sender, NEW c \in Conn, Send(s, c) PROVE OrderInv'
<1> DEFINE m == [by |-> s, n |-> sending[s].n]
<1>1. /\ strand[c] \in Seq(Message) /\ queue[c] \in Seq(Message) /\ written[c] \in Seq(Message)
      /\ sending[s] \in [to : (SUBSET Conn) \ {{}}, n : Nat] /\ c \in sending[s].to
      /\ sending[s] # None
  BY DEF Send, ServerInv, TypeOK
<1>2. m \in Message /\ m.by = s /\ m.n = sending[s].n /\ m.n \in Nat
  BY <1>1 DEF Message
<1>3. /\ strand'[c] = Append(strand[c], m) /\ queue' = queue /\ written' = written
      /\ sends' = sends /\ sending'[s] = Found(sending[s].to \ {c}, sending[s].n)
      /\ \A d \in Conn \ {c} : strand'[d] = strand[d]
      /\ \A t \in Sender \ {s} : sending'[t] = sending[t]
  BY DEF Send, ServerInv, TypeOK, writer
<1> HIDE DEF m
<1>4. OrderedAt(c) /\ PostedAt(c) /\ sends \in Nat
  BY DEF OrderInv, OrderedAt, PostedAt, ServerInv, TypeOK
<1>5. \A q \in Seq(Message) : Posted(q, c, sending, sends) =>
        \A i \in 1..Len(q) : q[i].by = m.by => q[i].n < m.n
  BY <1>1, <1>2 DEF Posted
<1>6. Ordered(strand'[c]) /\ Before(written[c], strand'[c]) /\ Before(queue[c], strand'[c])
  <2>1. /\ \A i \in 1..Len(strand[c]) : strand[c][i].by = m.by => strand[c][i].n < m.n
        /\ \A i \in 1..Len(queue[c]) : queue[c][i].by = m.by => queue[c][i].n < m.n
        /\ \A i \in 1..Len(written[c]) : written[c][i].by = m.by => written[c][i].n < m.n
    BY <1>1, <1>4, <1>5 DEF PostedAt
  <2>2. Ordered(strand[c]) /\ Before(written[c], strand[c]) /\ Before(queue[c], strand[c])
    BY <1>4 DEF OrderedAt
  <2>3. Ordered(Append(strand[c], m)) /\ Before(written[c], Append(strand[c], m))
    BY <1>1, <1>2, <2>1, <2>2, LastAppended
  <2>4. Before(queue[c], Append(strand[c], m))
    BY <1>1, <1>2, <2>1, <2>2, LastAppended
  <2> QED BY <1>3, <2>3, <2>4
<1>7. /\ sending'[s] # None => sending'[s].n = sending[s].n /\ sending'[s].to = sending[s].to \ {c}
  BY <1>3 DEF Found
<1>8. ASSUME NEW d \in Conn, NEW q \in Seq(Message), Posted(q, d, sending, sends)
      PROVE  Posted(q, d, sending', sends)
  <2> SUFFICES ASSUME NEW i \in 1..Len(q)
               PROVE  /\ q[i].n <= sends
                      /\ sending'[q[i].by] # None /\ d \in sending'[q[i].by].to
                           => q[i].n < sending'[q[i].by].n
    BY DEF Posted
  <2>1. q[i].by \in Sender
    BY Numbers
  <2>2. /\ q[i].n <= sends
        /\ sending[q[i].by] # None /\ d \in sending[q[i].by].to => q[i].n < sending[q[i].by].n
    BY <1>8 DEF Posted
  <2>3. CASE q[i].by = s
    BY <1>1, <1>7, <2>2, <2>3
  <2>4. CASE q[i].by # s
    BY <1>3, <2>1, <2>2, <2>4
  <2> QED BY <2>3, <2>4
<1>9. Posted(strand'[c], c, sending', sends)
  <2>1. Posted(strand[c], c, sending', sends)
    BY <1>1, <1>4, <1>8 DEF PostedAt
  <2>2. m.n <= sends
    BY <1>1, <1>2 DEF OrderInv
  <2>3. sending'[m.by] # None => c \notin sending'[m.by].to
    BY <1>2, <1>7
  <2> QED BY <1>1, <1>2, <1>3, <2>1, <2>2, <2>3, AppendedAt DEF Posted
<1>10. \A t \in Sender : sending'[t] # None => sending'[t].n <= sends'
  BY <1>1, <1>3, <1>7 DEF OrderInv
<1>11. ASSUME NEW d \in Conn PROVE (OrderedAt(d) /\ PostedAt(d))'
  <2>1. OrderedAt(d) /\ PostedAt(d)
    BY DEF OrderInv, OrderedAt, PostedAt
  <2>2. /\ written[d] \in Seq(Message) /\ queue[d] \in Seq(Message) /\ strand[d] \in Seq(Message)
    BY DEF ServerInv, TypeOK
  <2>3. /\ Posted(written[d], d, sending', sends) /\ Posted(queue[d], d, sending', sends)
        /\ Posted(strand[d], d, sending', sends)
    BY <1>8, <2>1, <2>2 DEF PostedAt
  <2>4. CASE d = c
    BY <1>3, <1>4, <1>6, <1>9, <2>3, <2>4 DEF OrderedAt, PostedAt
  <2>5. CASE d # c
    BY <1>3, <2>1, <2>3, <2>5 DEF OrderedAt, PostedAt
  <2> QED BY <2>4, <2>5
<1> QED BY <1>10, <1>11 DEF OrderInv, OrderedAt, PostedAt

(* A call that looks its targets up keeps the order.                       *)
LEMMA LookUpKeepsOrder ==
  ASSUME ServerInv, OrderInv, NEW s \in Sender, NEW targets \in SUBSET Conn, LookUp(s, targets)
  PROVE  OrderInv'
<1>1. /\ sends \in Nat /\ sends' = sends + 1 /\ sending'[s] = Found(targets, sends')
      /\ \A t \in Sender \ {s} : sending'[t] = sending[t]
      /\ strand' = strand /\ queue' = queue /\ written' = written
  BY DEF LookUp, ServerInv, TypeOK, writer
<1>2. sending'[s] # None => sending'[s].n = sends + 1
  BY <1>1 DEF Found
<1>3. ASSUME NEW d \in Conn, NEW q \in Seq(Message), Posted(q, d, sending, sends)
      PROVE  Posted(q, d, sending', sends')
  <2> SUFFICES ASSUME NEW i \in 1..Len(q)
               PROVE  /\ q[i].n <= sends'
                      /\ sending'[q[i].by] # None /\ d \in sending'[q[i].by].to
                           => q[i].n < sending'[q[i].by].n
    BY DEF Posted
  <2>1. q[i].by \in Sender /\ q[i].n \in Nat /\ q[i].n <= sends
    BY <1>3, Numbers DEF Posted
  <2>2. CASE q[i].by = s
    BY <1>1, <1>2, <2>1, <2>2
  <2>3. CASE q[i].by # s
    BY <1>1, <1>3, <2>1, <2>3 DEF Posted
  <2> QED BY <2>2, <2>3
<1>4. \A t \in Sender : sending'[t] # None => sending'[t].n <= sends'
  <2>1. \A t \in Sender : sending[t] # None => sending[t].n \in Nat
    BY DEF ServerInv, TypeOK
  <2> QED BY <1>1, <1>2, <2>1 DEF OrderInv
<1>5. ASSUME NEW d \in Conn
      PROVE  /\ Posted(written'[d], d, sending', sends') /\ Posted(queue'[d], d, sending', sends')
             /\ Posted(strand'[d], d, sending', sends')
  BY <1>1, <1>3 DEF ServerInv, TypeOK, OrderInv
<1> QED BY <1>1, <1>4, <1>5 DEF OrderInv

(* Every step keeps the order.                                             *)
LEMMA OrderNext == ServerInv /\ OrderInv /\ [Next]_vars => OrderInv'
<1> SUFFICES ASSUME ServerInv, OrderInv, [Next]_vars PROVE OrderInv'
  OBVIOUS
<1> DEFINE Same == UNCHANGED <<strand, queue, written, sending, sends>>
<1>1. ASSUME Same PROVE OrderInv'
  BY <1>1 DEF OrderInv
<1>2. ASSUME NEW c \in Conn, Client(c) PROVE Same
  BY <1>2 DEF Client, ClientSends, HangUp, writer
<1>3. ASSUME NEW c \in Conn, RegisterConnection(c) \/ Start(c) \/ HandleRead(c) \/ DrainFrame(c)
                             \/ ReadOn(c) \/ HandleDisconnect(c)
      PROVE  Same
  BY <1>3 DEF RegisterConnection, Start, HandleRead, DrainFrame, ReadOn, Draining, HandleDisconnect,
    writer
<1>4. ASSUME UNCHANGED vars PROVE Same
  BY <1>4 DEF vars, writer
<1>5. ASSUME NEW s \in Sender, Broadcast(s) \/ \E c \in Conn : SendTo(s, c) PROVE OrderInv'
  <2>1. \E targets \in SUBSET Conn : LookUp(s, targets)
    <3>1. connections \in SUBSET Conn /\ \A c \in Conn : {c} \cap connections \in SUBSET Conn
      BY DEF ServerInv, TypeOK
    <3>2. ASSUME Broadcast(s) PROVE \E targets \in SUBSET Conn : LookUp(s, targets)
      BY <3>1, <3>2 DEF Broadcast
    <3>3. ASSUME NEW c \in Conn, SendTo(s, c)
          PROVE  \E targets \in SUBSET Conn : LookUp(s, targets)
      BY <3>1, <3>3 DEF SendTo
    <3> QED BY <1>5, <3>2, <3>3
  <2> QED BY <2>1, LookUpKeepsOrder
<1> HIDE DEF Same
<1> QED
  BY <1>1, <1>2, <1>3, <1>4, <1>5, PushKeepsOrder, WriteKeepsOrder, ErrorKeepsOrder, SendKeepsOrder
  DEF Next, Reactor, Failure

(* Messages of one thread to one client are written in the order of its    *)
(* calls, for any number of threads and clients.                           *)
THEOREM WrittenInOrderCorrect == Spec => []WrittenInOrder
<1>1. Init => OrderInv
  BY OrderInit
<1>2. ServerInv /\ OrderInv /\ [Next]_vars => OrderInv'
  BY OrderNext
<1>3. ServerInv /\ OrderInv => WrittenInOrder
  <2> SUFFICES ASSUME ServerInv, OrderInv, NEW c \in Conn
               PROVE  \A i, j \in DOMAIN written[c] :
                        i < j /\ written[c][i].by = written[c][j].by
                          => written[c][i].n < written[c][j].n
    BY DEF WrittenInOrder
  <2>1. DOMAIN written[c] = 1..Len(written[c])
    BY DEF ServerInv, TypeOK
  <2> QED BY <2>1 DEF OrderInv, Ordered
<1> QED BY <1>1, <1>2, <1>3, ServerInvariant, PTL DEF Spec
-----------------------------------------------------------------------------
(* The frames of a client, whole and in its order                          *)

(* The unit a frame has at each of its places.                             *)
PartOf(f, j) == [frame |-> f, at |-> j]

(* What follows a frame that begins at i: the next one, or nothing more.   *)
WholeAt(s, lens, i, f) ==
  /\ f \in 1..Len(lens)
  /\ i + lens[f] <= Len(s) + 1
  /\ \A j \in 1..lens[f] : s[i + j - 1] = PartOf(f, j)
  /\ IF i + lens[f] = Len(s) + 1 THEN f = Len(lens) ELSE s[i + lens[f]] = PartOf(f + 1, 1)

(* s consists of the frames of lens from the k-th on.                      *)
FramesFrom(s, lens, k) ==
  /\ IF s = <<>> THEN k = Len(lens) + 1 ELSE s[1] = PartOf(k, 1)
  /\ \A i \in 1..Len(s) : s[i].at = 1 => WholeAt(s, lens, i, s[i].frame)

(* What a connection has still to read and what it has read already.       *)
Stream(c) == buffer[c] \o wire[c]

(* The number of the frame the owner has not been given yet.               *)
NextFrame(c) == IF at[c] \in {"fresh", "registered"} THEN 1 ELSE Len(calls[c])

(* An impossible prefix was read: from here on anything may be a frame.    *)
Misread(c) == \E k \in 1..Len(lengths[c]) : k <= Len(calls[c]) /\ lengths[c][k] < 2 * Prefix

(* The owner's callbacks, and where their connection is then; a frame that *)
(* was handed over is one that was sent.                                   *)
CallsMatchState(c) ==
  /\ at[c] \in {"fresh", "registered"} <=> calls[c] = <<>>
  /\ at[c] = "closed" => c \notin connections
  /\ \A i \in 1..Len(calls[c]) :
       /\ calls[c][i].name = "connected" <=> i = 1
       /\ calls[c][i].name = "disconnected" => i = Len(calls[c]) /\ at[c] = "closed"
       /\ calls[c][i].name = "frame" =>
            \/ \E k \in 1..Len(lengths[c]) : k < i /\ lengths[c][k] < 2 * Prefix
            \/ /\ i - 1 \in 1..Len(lengths[c])
               /\ calls[c][i].bytes = Frame(i - 1, lengths[c][i - 1])

(* The stream is cut at the frames' borders until a prefix is misread.     *)
StreamIsFramed(c) ==
  at[c] = "closed" \/ Misread(c) \/ FramesFrom(Stream(c), lengths[c], NextFrame(c))

CallbacksAt(c) == CallsMatchState(c) /\ StreamIsFramed(c)

CallbacksInv == \A c \in Conn : CallbacksAt(c)

(* Clients send no empty frames.                                           *)
LEMMA LengthsArePositive ==
  ASSUME NEW lens \in Seq(Length), NEW f \in 1..Len(lens)
  PROVE  lens[f] \in Nat /\ lens[f] >= 1
<1>1. lens[f] \in Length
  BY ElementOfSeq
<1>2. \A n \in Length : n \in Nat /\ n >= Prefix
  BY ServerAssumption
<1>3. Prefix \in Nat /\ Prefix >= 1
  BY ServerAssumption
<1> QED BY <1>1, <1>2, <1>3

(* A stream with the units of one more frame at its end.                   *)
LEMMA FrameAppended ==
  ASSUME NEW s \in Seq(Unit), NEW n \in Nat, NEW length \in Nat
  PROVE  /\ s \o Frame(n, length) \in Seq(Unit)
         /\ Len(s \o Frame(n, length)) = Len(s) + length
         /\ \A i \in 1..Len(s) : (s \o Frame(n, length))[i] = s[i]
         /\ \A j \in 1..length : (s \o Frame(n, length))[Len(s) + j] = PartOf(n, j)
<1>1. Frame(n, length) \in Seq(Unit)
  BY FrameType
<1>2. Len(Frame(n, length)) = length
  BY <1>1 DEF Frame
<1>3. \A j \in 1..length : Frame(n, length)[j] = PartOf(n, j)
  BY DEF Frame, PartOf
<1>4. Len(s) \in Nat
  OBVIOUS
<1> DEFINE F == Frame(n, length)
<1>5. /\ s \o F \in Seq(Unit) /\ Len(s \o F) = Len(s) + length
      /\ \A i \in 1..Len(s) + length : (s \o F)[i] = IF i <= Len(s) THEN s[i] ELSE F[i - Len(s)]
  BY <1>1, <1>2, ConcatProperties
<1> HIDE DEF F
<1>6. \A j \in 1..length : (s \o F)[Len(s) + j] = PartOf(n, j)
  <2> SUFFICES ASSUME NEW j \in 1..length PROVE (s \o F)[Len(s) + j] = PartOf(n, j)
    OBVIOUS
  <2>1. Len(s) + j \in 1..Len(s) + length /\ ~(Len(s) + j <= Len(s)) /\ Len(s) + j - Len(s) = j
    BY <1>4
  <2> QED BY <1>3, <1>5, <2>1 DEF F
<1> QED BY <1>4, <1>5, <1>6 DEF F

(* A frame sent after the others follows them.                             *)
LEMMA FramesAppend ==
  ASSUME NEW s \in Seq(Unit), NEW lens \in Seq(Length), NEW k \in Nat, NEW length \in Length,
         FramesFrom(s, lens, k)
  PROVE  FramesFrom(s \o Frame(Len(lens) + 1, length), Append(lens, length), k)
<1> DEFINE n == Len(lens) + 1
           t == s \o Frame(n, length)
           L == Append(lens, length)
<1>0. length \in Nat /\ length >= 1 /\ n \in Nat /\ Len(s) \in Nat
  BY ServerAssumption
<1>1. /\ Len(t) = Len(s) + length /\ t \in Seq(Unit)
      /\ \A i \in 1..Len(s) : t[i] = s[i]
      /\ \A j \in 1..length : t[Len(s) + j] = PartOf(n, j)
  BY <1>0, FrameAppended
<1>2. Len(L) = n /\ L[n] = length /\ \A f \in 1..Len(lens) : L[f] = lens[f]
  BY AppendProperties
<1>3. \A f \in 1..Len(lens) : lens[f] \in Nat /\ lens[f] >= 1
  BY LengthsArePositive
<1> HIDE DEF t, L
<1>4. t # <<>> /\ t[1] = PartOf(k, 1)
  <2>1. t # <<>>
    BY <1>0, <1>1
  <2>2. CASE s = <<>>
    BY <1>0, <1>1, <2>2 DEF FramesFrom
  <2>3. CASE s # <<>>
    <3>1. 1 \in 1..Len(s)
      BY <2>3, <1>0
    <3>2. s[1] = PartOf(k, 1)
      BY <2>3 DEF FramesFrom
    <3> QED BY <1>1, <2>1, <3>1, <3>2
  <2> QED BY <2>1, <2>2, <2>3
<1>5. ASSUME NEW i \in 1..Len(t), t[i].at = 1
      PROVE  WholeAt(t, L, i, t[i].frame)
  <2>1. CASE i <= Len(s)
    <3> DEFINE f == s[i].frame
    <3>1. i \in 1..Len(s) /\ t[i] = s[i] /\ WholeAt(s, lens, i, f)
      BY <1>0, <1>1, <1>5, <2>1 DEF FramesFrom
    <3>2. f \in 1..Len(lens) /\ f \in 1..Len(L) /\ L[f] = lens[f] /\ lens[f] \in Nat /\ lens[f] >= 1
      BY <1>2, <1>3, <3>1 DEF WholeAt
    <3>3. i + L[f] <= Len(s) + 1 /\ i + L[f] <= Len(t) + 1 /\ i + L[f] # Len(t) + 1
      <4>1. PICK m \in Nat : m = L[f]
        BY <3>2
      <4>2. i + m <= Len(s) + 1
        BY <3>1, <3>2, <4>1 DEF WholeAt
      <4>3. i + m <= Len(t) + 1 /\ i + m # Len(t) + 1
        BY <1>0, <1>1, <4>1, <4>2
      <4> QED BY <4>1, <4>2, <4>3
    <3>4. \A j \in 1..L[f] : t[i + j - 1] = PartOf(f, j)
      <4> SUFFICES ASSUME NEW j \in 1..L[f] PROVE t[i + j - 1] = PartOf(f, j)
        OBVIOUS
      <4>1. i + j - 1 \in 1..Len(s)
        <5> DEFINE m == L[f]
                   r == Len(s)
        <5>1. m \in Nat /\ j \in 1..m /\ i + m <= r + 1 /\ i \in 1..r /\ r \in Nat
          BY <1>0, <3>1, <3>2, <3>3
        <5> HIDE DEF m, r
        <5>2. i + j - 1 \in 1..r
          BY <5>1
        <5> QED BY <5>2 DEF r
      <4> QED BY <1>1, <3>1, <3>2, <4>1 DEF WholeAt
    <3>5. t[i + L[f]] = PartOf(f + 1, 1)
      <4>1. CASE i + L[f] = Len(s) + 1
        <5>1. f = Len(lens)
          BY <3>1, <3>2, <4>1 DEF WholeAt
        <5>2. i + L[f] = Len(s) + 1 /\ 1 \in 1..length
          BY <1>0, <3>2, <4>1
        <5> QED BY <1>1, <5>1, <5>2
      <4>2. CASE i + L[f] # Len(s) + 1
        <5>1. i + L[f] \in 1..Len(s)
          <6>1. L[f] \in Nat /\ L[f] >= 1 /\ i \in Nat
            BY <3>1, <3>2
          <6> DEFINE m == L[f]
          <6>2. m \in Nat /\ m >= 1 /\ i + m <= Len(s) + 1 /\ i + m # Len(s) + 1
            BY <3>3, <4>2, <6>1
          <6> HIDE DEF m
          <6>3. i + m \in 1..Len(s)
            BY <1>0, <6>1, <6>2
          <6> QED BY <6>3 DEF m
        <5> QED BY <1>1, <3>1, <3>2, <4>2, <5>1 DEF WholeAt
      <4> QED BY <4>1, <4>2
    <3> QED BY <3>1, <3>2, <3>3, <3>4, <3>5 DEF WholeAt
  <2>2. CASE i > Len(s)
    <3>1. i - Len(s) \in 1..length /\ t[i] = PartOf(n, i - Len(s))
      <4>1. i - Len(s) \in 1..length /\ i = Len(s) + (i - Len(s))
        BY <1>0, <1>1, <2>2
      <4> QED BY <1>1, <4>1
    <3>2. i = Len(s) + 1 /\ t[i].frame = n
      BY <1>0, <1>5, <3>1 DEF PartOf
    <3>3. \A j \in 1..L[n] : t[i + j - 1] = PartOf(n, j)
      BY <1>0, <1>1, <1>2, <3>2
    <3>4. n \in 1..Len(L) /\ i + L[n] = Len(t) + 1 /\ n = Len(L)
      BY <1>0, <1>1, <1>2, <3>2
    <3> QED BY <3>2, <3>3, <3>4 DEF WholeAt
  <2> QED BY <1>0, <2>1, <2>2
<1> QED BY <1>4, <1>5 DEF FramesFrom, t, L

(* What is left behind a prefix, unit by unit.                             *)
LEMMA SuffixProperties ==
  ASSUME NEW s \in Seq(Unit), NEW n \in Nat, n <= Len(s)
  PROVE  LET t == SubSeq(s, n + 1, Len(s)) IN
           t \in Seq(Unit) /\ Len(t) = Len(s) - n /\ \A i \in 1..Len(s) - n : t[i] = s[n + i]
<1>0. Len(s) \in Nat
  OBVIOUS
<1>1. \A i \in (n + 1)..Len(s) : s[i] \in Unit
  BY ElementOfSeq
<1>2. /\ SubSeq(s, n + 1, Len(s)) \in Seq(Unit)
      /\ Len(SubSeq(s, n + 1, Len(s))) = IF n + 1 <= Len(s) THEN Len(s) - (n + 1) + 1 ELSE 0
      /\ \A i \in 1..Len(s) - (n + 1) + 1 : SubSeq(s, n + 1, Len(s))[i] = s[n + 1 + i - 1]
  BY <1>0, <1>1, SubSeqProperties
<1>3. \A i \in 1..Len(s) - n : SubSeq(s, n + 1, Len(s))[i] = s[n + i]
  <2> SUFFICES ASSUME NEW i \in 1..Len(s) - n PROVE SubSeq(s, n + 1, Len(s))[i] = s[n + i]
    OBVIOUS
  <2>1. i \in 1..Len(s) - (n + 1) + 1 /\ n + 1 + i - 1 = n + i
    BY <1>0
  <2> QED BY <1>2, <2>1
<1>4. Len(SubSeq(s, n + 1, Len(s))) = Len(s) - n
  BY <1>0, <1>2
<1> QED BY <1>2, <1>3, <1>4

(* The first frame of a stream, and the frames that follow it.             *)
LEMMA FrameErased ==
  ASSUME NEW s \in Seq(Unit), NEW lens \in Seq(Length), NEW k \in Nat,
         FramesFrom(s, lens, k), s # <<>>
  PROVE  /\ k \in 1..Len(lens) /\ lens[k] \in 1..Len(s)
         /\ \A j \in 1..lens[k] : s[j] = PartOf(k, j)
         /\ FramesFrom(SubSeq(s, lens[k] + 1, Len(s)), lens, k + 1)
<1> DEFINE n == lens[k]
           t == SubSeq(s, n + 1, Len(s))
<1>0. Len(s) \in Nat /\ 1 \in 1..Len(s) /\ s[1] = PartOf(k, 1)
  BY DEF FramesFrom
<1>1. WholeAt(s, lens, 1, k)
  BY <1>0 DEF FramesFrom, PartOf
<1>2. k \in 1..Len(lens) /\ n \in Nat /\ n >= 1 /\ n <= Len(s)
  <2>1. k \in 1..Len(lens) /\ 1 + n <= Len(s) + 1
    BY <1>1 DEF WholeAt
  <2>2. n \in Nat /\ n >= 1
    BY <2>1, LengthsArePositive
  <2>3. n <= Len(s)
    <3> HIDE DEF n
    <3> QED BY <1>0, <2>1, <2>2
  <2> QED BY <2>1, <2>2, <2>3
<1>3. \A j \in 1..n : s[j] = PartOf(k, j)
  <2> SUFFICES ASSUME NEW j \in 1..n PROVE s[j] = PartOf(k, j)
    OBVIOUS
  <2>1. 1 + j - 1 = j
    BY <1>2
  <2>2. s[1 + j - 1] = PartOf(k, j)
    BY <1>1 DEF WholeAt
  <2> QED BY <2>1, <2>2
<1>4. t \in Seq(Unit) /\ Len(t) = Len(s) - n /\ \A i \in 1..Len(t) : t[i] = s[n + i]
  <2>1. t \in Seq(Unit) /\ Len(t) = Len(s) - n /\ \A i \in 1..Len(s) - n : t[i] = s[n + i]
    <3> HIDE DEF n
    <3> QED BY <1>2, SuffixProperties
  <2> HIDE DEF t, n
  <2> QED BY <2>1
<1> HIDE DEF t
<1>5. IF t = <<>> THEN k + 1 = Len(lens) + 1 ELSE t[1] = PartOf(k + 1, 1)
  <2>1. CASE t = <<>>
    <3>1. n = Len(s)
      BY <1>0, <1>2, <1>4, <2>1
    <3> QED BY <1>0, <1>1, <1>2, <2>1, <3>1 DEF WholeAt
  <2>2. CASE t # <<>>
    <3>1. 1 \in 1..Len(t) /\ n # Len(s)
      BY <1>0, <1>2, <1>4, <2>2
    <3>2. s[1 + n] = PartOf(k + 1, 1)
      BY <1>0, <1>1, <1>2, <3>1 DEF WholeAt
    <3>3. t[1] = s[n + 1] /\ n + 1 = 1 + n
      BY <1>2, <1>4, <3>1
    <3> QED BY <2>2, <3>2, <3>3
  <2> QED BY <2>1, <2>2
<1>6. ASSUME NEW i \in 1..Len(t), t[i].at = 1
      PROVE  WholeAt(t, lens, i, t[i].frame)
  <2> DEFINE f == t[i].frame
  <2>1. n + i \in 1..Len(s) /\ t[i] = s[n + i] /\ i \in Nat /\ i >= 1
    BY <1>0, <1>2, <1>4
  <2>2. WholeAt(s, lens, n + i, f)
    BY <1>6, <2>1 DEF FramesFrom
  <2>3. f \in 1..Len(lens) /\ n + i + lens[f] <= Len(s) + 1
    BY <2>2 DEF WholeAt
  <2>4. lens[f] \in Nat /\ lens[f] >= 1
    BY <2>3, LengthsArePositive
  <2>5. \A j \in 1..lens[f] : t[i + j - 1] = PartOf(f, j)
    <3> SUFFICES ASSUME NEW j \in 1..lens[f] PROVE t[i + j - 1] = PartOf(f, j)
      OBVIOUS
    <3>1. i + j - 1 \in 1..Len(t) /\ n + (i + j - 1) = n + i + j - 1
      <4> DEFINE m == lens[f]
      <4>1. m \in Nat /\ j \in 1..m /\ n + i + m <= Len(s) + 1
        BY <2>3, <2>4
      <4> HIDE DEF m, n
      <4> QED BY <1>0, <1>2, <1>4, <2>1, <4>1
    <3>2. s[n + i + j - 1] = PartOf(f, j)
      BY <2>2 DEF WholeAt
    <3> QED BY <1>4, <3>1, <3>2
  <2>6. IF i + lens[f] = Len(t) + 1 THEN f = Len(lens) ELSE t[i + lens[f]] = PartOf(f + 1, 1)
    <3>1. CASE i + lens[f] = Len(t) + 1
      <4>1. n + i + lens[f] = Len(s) + 1
        <5> DEFINE m == lens[f]
        <5>1. m \in Nat /\ i + m = Len(t) + 1
          BY <2>4, <3>1
        <5> HIDE DEF m, n
        <5>2. n + i + m = Len(s) + 1
          BY <1>0, <1>2, <1>4, <2>1, <5>1
        <5> QED BY <5>2 DEF m
      <4> QED BY <2>2, <3>1, <4>1 DEF WholeAt
    <3>2. CASE i + lens[f] # Len(t) + 1
      <4>1. /\ n + i + lens[f] # Len(s) + 1 /\ i + lens[f] \in 1..Len(t)
            /\ n + (i + lens[f]) = n + i + lens[f]
        <5> DEFINE m == lens[f]
        <5>1. m \in Nat /\ m >= 1 /\ i + m # Len(t) + 1 /\ n + i + m <= Len(s) + 1
          BY <2>3, <2>4, <3>2
        <5> HIDE DEF m, n
        <5>2. /\ n + i + m # Len(s) + 1 /\ i + m \in 1..Len(t)
              /\ n + (i + m) = n + i + m
          <6>1. Len(t) = Len(s) - n /\ n \in Nat /\ i \in Nat /\ i >= 1
            BY <1>2, <1>4, <2>1
          <6> QED BY <1>0, <5>1, <6>1
        <5> QED BY <5>2 DEF m
      <4> QED BY <1>4, <2>2, <3>2, <4>1 DEF WholeAt
    <3> QED BY <3>1, <3>2
  <2>7. i + lens[f] <= Len(t) + 1
    <3> DEFINE m == lens[f]
    <3>1. m \in Nat /\ n + i + m <= Len(s) + 1
      BY <2>3, <2>4
    <3>2. Len(t) = Len(s) - n /\ n \in Nat /\ i \in Nat
      BY <1>2, <1>4, <2>1
    <3> HIDE DEF m, n
    <3>3. i + m <= Len(t) + 1
      BY <1>0, <3>1, <3>2
    <3> QED BY <3>3 DEF m
  <2> QED BY <2>3, <2>5, <2>6, <2>7 DEF WholeAt
<1>7. FramesFrom(t, lens, k + 1)
  BY <1>5, <1>6, Zenon DEF FramesFrom
<1> QED BY <1>2, <1>3, <1>7 DEF t

(* Reading moves units from the wire to the buffer: the stream stays.      *)
LEMMA StreamRead ==
  ASSUME NEW b \in Seq(Unit), NEW w \in Seq(Unit), NEW n \in Nat, n <= Len(w)
  PROVE  (b \o SubSeq(w, 1, n)) \o SubSeq(w, n + 1, Len(w)) = b \o w
<1> DEFINE p == SubSeq(w, 1, n)
           r == SubSeq(w, n + 1, Len(w))
<1>1. p \in Seq(Unit) /\ r \in Seq(Unit)
  BY PrefixType, RestType
<1>2. p \o r = w
  <2>1. 1 \in 1..Len(w) + 1 /\ n \in 0..Len(w) /\ Len(w) \in n..Len(w) /\ 1 - 1 = 0
    OBVIOUS
  <2>2. p \o r = SubSeq(w, 1, Len(w))
    BY <2>1, ConcatAdjacentSubSeq
  <2> QED BY <2>2, SubSeqFull
<1> HIDE DEF p, r
<1>3. (b \o p) \o r = b \o (p \o r)
  BY <1>1, ConcatAssociative
<1> QED BY <1>2, <1>3 DEF p, r

(* Erasing from the buffer erases from the stream.                         *)
LEMMA StreamErased ==
  ASSUME NEW b \in Seq(Unit), NEW w \in Seq(Unit), NEW n \in Nat, n <= Len(b)
  PROVE  SubSeq(b, n + 1, Len(b)) \o w = SubSeq(b \o w, n + 1, Len(b \o w))
<1> DEFINE r == SubSeq(b, n + 1, Len(b))
           s == b \o w
           t == SubSeq(s, n + 1, Len(s))
<1>0. Len(b) \in Nat /\ Len(w) \in Nat
  OBVIOUS
<1>1. s \in Seq(Unit) /\ Len(s) = Len(b) + Len(w)
      /\ \A i \in 1..Len(b) + Len(w) : s[i] = IF i <= Len(b) THEN b[i] ELSE w[i - Len(b)]
  BY ConcatProperties
<1>2. r \in Seq(Unit) /\ Len(r) = Len(b) - n /\ \A i \in 1..Len(b) - n : r[i] = b[n + i]
  BY SuffixProperties
<1> HIDE DEF s, r
<1>3. t \in Seq(Unit) /\ Len(t) = Len(s) - n /\ \A i \in 1..Len(s) - n : t[i] = s[n + i]
  <2>1. n <= Len(s) /\ s \in Seq(Unit)
    BY <1>0, <1>1
  <2> QED BY <2>1, SuffixProperties
<1> HIDE DEF t
<1> DEFINE u == r \o w
<1>4. u \in Seq(Unit) /\ Len(u) = Len(r) + Len(w)
      /\ \A i \in 1..Len(r) + Len(w) : u[i] = IF i <= Len(r) THEN r[i] ELSE w[i - Len(r)]
  BY <1>2, ConcatProperties
<1> HIDE DEF u
<1>5. Len(u) = Len(t)
  BY <1>0, <1>1, <1>2, <1>3, <1>4
<1>6. ASSUME NEW i \in 1..Len(u) PROVE u[i] = t[i]
  <2>1. n + i \in 1..Len(s) /\ t[i] = s[n + i]
    <3>1. Len(u) = Len(s) - n /\ Len(s) \in Nat
      BY <1>0, <1>1, <1>3, <1>5
    <3>2. n + i \in 1..Len(s) /\ i \in 1..Len(s) - n
      BY <3>1
    <3> QED BY <1>3, <3>2
  <2>2. CASE i <= Len(b) - n
    <3>1. u[i] = r[i] /\ r[i] = b[n + i]
      BY <1>0, <1>2, <1>4, <2>2
    <3>2. s[n + i] = b[n + i]
      BY <1>0, <1>1, <2>1, <2>2
    <3> QED BY <2>1, <3>1, <3>2
  <2>3. CASE ~(i <= Len(b) - n)
    <3>1. u[i] = w[i - Len(r)] /\ i - Len(r) = n + i - Len(b)
      BY <1>0, <1>2, <1>4, <2>3
    <3>2. s[n + i] = w[n + i - Len(b)]
      BY <1>0, <1>1, <2>1, <2>3
    <3> QED BY <2>1, <3>1, <3>2
  <2> QED BY <2>2, <2>3
<1>7. u = t
  BY <1>3, <1>4, <1>5, <1>6, SeqEqual
<1> QED BY <1>7 DEF u, t, s, r

(* A connection whose stream, frames and callbacks stay keeps the order.   *)
LEMMA CallbacksSame ==
  ASSUME NEW c \in Conn, CallbacksAt(c),
         at'[c] = at[c], calls'[c] = calls[c], lengths'[c] = lengths[c], Stream(c)' = Stream(c),
         c \in connections' => c \in connections
  PROVE  CallbacksAt(c)'
<1>1. CallsMatchState(c)'
  BY DEF CallbacksAt, CallsMatchState
<1>2. StreamIsFramed(c)'
  BY DEF CallbacksAt, StreamIsFramed, Misread, NextFrame
<1> QED BY <1>1, <1>2 DEF CallbacksAt

(* Another frame of a client.                                              *)
LEMMA CallbacksClientSends ==
  ASSUME TypeOK, NEW c \in Conn, CallbacksAt(c), NEW length \in Length, ClientSends(c, length)
  PROVE  CallbacksAt(c)'
<1>1. /\ at' = at /\ calls' = calls /\ connections' = connections /\ buffer' = buffer
      /\ lengths'[c] = Append(lengths[c], length)
      /\ wire'[c] = wire[c] \o Frame(Len(lengths'[c]), length)
      /\ lengths[c] \in Seq(Length) /\ wire[c] \in Seq(Unit) /\ buffer[c] \in Seq(Unit)
      /\ calls[c] \in Seq(Calls)
  BY DEF ClientSends, reader, TypeOK, Calls
<1>2. /\ Len(lengths'[c]) = Len(lengths[c]) + 1 /\ Len(lengths[c]) \in Nat
      /\ \A k \in 1..Len(lengths[c]) : k \in 1..Len(lengths'[c]) /\ lengths'[c][k] = lengths[c][k]
  BY <1>1, AppendProperties
<1>3. CallsMatchState(c)'
  BY <1>1, <1>2 DEF CallbacksAt, CallsMatchState
<1>4. CASE at[c] = "closed" \/ Misread(c)
  BY <1>1, <1>2, <1>3, <1>4 DEF CallbacksAt, StreamIsFramed, Misread
<1>5. CASE FramesFrom(Stream(c), lengths[c], NextFrame(c))
  <2> DEFINE F == Frame(Len(lengths[c]) + 1, length)
  <2>1. F \in Seq(Unit)
    <3>1. Len(lengths[c]) + 1 \in Nat /\ length \in Nat
      BY <1>2, ServerAssumption
    <3> QED BY <3>1, FrameType
  <2> HIDE DEF F
  <2>2. Stream(c)' = Stream(c) \o F /\ Stream(c) \in Seq(Unit)
    <3>1. buffer[c] \o (wire[c] \o F) = (buffer[c] \o wire[c]) \o F
      <4>1. wire[c] \in Seq(Unit) /\ buffer[c] \in Seq(Unit)
        BY <1>1
      <4>2. \A x, y, z \in Seq(Unit) : x \o (y \o z) = (x \o y) \o z
        BY ConcatAssociative
      <4> QED BY <2>1, <4>1, <4>2
    <3>2. Stream(c) \in Seq(Unit)
      BY <1>1, ConcatProperties DEF Stream
    <3>3. wire'[c] = wire[c] \o F
      BY <1>1, <1>2 DEF F
    <3> QED BY <1>1, <3>1, <3>2, <3>3 DEF Stream
  <2>3. NextFrame(c)' = NextFrame(c) /\ NextFrame(c) \in Nat
    BY <1>1 DEF NextFrame
  <2>4. FramesFrom(Stream(c) \o F, Append(lengths[c], length), NextFrame(c))
    BY <1>1, <1>5, <2>2, <2>3, FramesAppend DEF F
  <2> QED BY <1>1, <1>3, <2>2, <2>3, <2>4 DEF CallbacksAt, StreamIsFramed, F
<1> QED BY <1>4, <1>5 DEF CallbacksAt, StreamIsFramed

(* A connection that was accepted.                                         *)
LEMMA CallbacksRegister ==
  ASSUME TypeOK, NEW c \in Conn, CallbacksAt(c), RegisterConnection(c)
  PROVE  CallbacksAt(c)'
<1>1. /\ at[c] = "fresh" /\ at'[c] = "registered" /\ calls' = calls /\ lengths' = lengths
      /\ buffer' = buffer /\ wire' = wire /\ calls[c] = <<>>
  BY DEF RegisterConnection, TypeOK, client, reader, CallbacksAt, CallsMatchState
<1>2. CallsMatchState(c)'
  BY <1>1, EmptySeq DEF CallbacksAt, CallsMatchState
<1>3. Misread(c)' = Misread(c) /\ NextFrame(c)' = NextFrame(c) /\ Stream(c)' = Stream(c)
  BY <1>1 DEF Misread, NextFrame, Stream
<1> QED BY <1>1, <1>2, <1>3 DEF CallbacksAt, StreamIsFramed

(* A callback appended to those of c.                                      *)
LEMMA CalledAt ==
  ASSUME TypeOK, NEW c \in Conn, NEW name \in {"connected", "frame", "disconnected"},
         NEW bytes \in Seq(Unit), Call(c, name, bytes)
  PROVE  /\ Len(calls'[c]) = Len(calls[c]) + 1 /\ Len(calls[c]) \in Nat
         /\ \A i \in 1..Len(calls[c]) : calls'[c][i] = calls[c][i]
         /\ calls'[c][Len(calls[c]) + 1].name = name
         /\ calls'[c][Len(calls[c]) + 1].bytes = bytes
         /\ calls'[c] # <<>>
<1>1. calls[c] \in Seq(Calls) /\ Callback(name, bytes) \in Calls
  BY DEF TypeOK, Calls, Callback
<1>2. calls'[c] = Append(calls[c], Callback(name, bytes))
  BY DEF Call, TypeOK
<1> QED BY <1>1, <1>2, AppendProperties DEF Callback

(* The callback a connection starts with.                                  *)
LEMMA CallbacksStart ==
  ASSUME TypeOK, NEW c \in Conn, CallbacksAt(c), Start(c)
  PROVE  CallbacksAt(c)'
<1>1. /\ at[c] = "registered" /\ at'[c] = "reading" /\ lengths' = lengths
      /\ buffer' = buffer /\ wire' = wire /\ calls[c] = <<>>
      /\ Call(c, "connected", <<>>) /\ <<>> \in Seq(Unit)
  BY EmptySeq DEF Start, TypeOK, client, reader, CallbacksAt, CallsMatchState
<1>2. Len(calls'[c]) = 1 /\ calls'[c][1].name = "connected" /\ calls'[c] # <<>>
  <2>1. Len(calls[c]) = 0
    BY <1>1, EmptySeq
  <2>2. /\ Len(calls'[c]) = Len(calls[c]) + 1
        /\ calls'[c][Len(calls[c]) + 1].name = "connected" /\ calls'[c] # <<>>
    BY <1>1, CalledAt
  <2> QED BY <2>1, <2>2
<1>3. CallsMatchState(c)'
  BY <1>1, <1>2 DEF CallsMatchState
<1>4. NextFrame(c)' = NextFrame(c) /\ Stream(c)' = Stream(c)
  BY <1>1, <1>2 DEF NextFrame, Stream
<1>5. ~Misread(c)
  BY <1>1, EmptySeq DEF Misread
<1> QED BY <1>1, <1>3, <1>4, <1>5 DEF CallbacksAt, StreamIsFramed

(* Bytes read go to the buffer's end.                                      *)
LEMMA CallbacksRead ==
  ASSUME TypeOK, NEW c \in Conn, CallbacksAt(c), HandleRead(c)
  PROVE  CallbacksAt(c)'
<1>1. /\ at[c] = "reading" /\ at'[c] = "draining" /\ calls' = calls /\ lengths' = lengths
      /\ connections' = connections
  BY DEF HandleRead, TypeOK
<1>2. CallsMatchState(c)'
  BY <1>1 DEF CallbacksAt, CallsMatchState
<1>3. Stream(c)' = Stream(c)
  <2>1. PICK n \in 1..Chunk :
          /\ n <= Len(wire[c])
          /\ buffer' = [buffer EXCEPT ![c] = @ \o SubSeq(wire[c], 1, n)]
          /\ wire' = [wire EXCEPT ![c] = SubSeq(@, n + 1, Len(@))]
    BY DEF HandleRead
  <2>2. n \in Nat /\ wire[c] \in Seq(Unit) /\ buffer[c] \in Seq(Unit)
    BY DEF TypeOK
  <2>3. (buffer[c] \o SubSeq(wire[c], 1, n)) \o SubSeq(wire[c], n + 1, Len(wire[c]))
          = buffer[c] \o wire[c]
    BY <2>1, <2>2, StreamRead
  <2> QED BY <2>1, <2>3 DEF Stream, TypeOK
<1>4. Misread(c)' = Misread(c) /\ NextFrame(c)' = NextFrame(c)
  BY <1>1 DEF Misread, NextFrame
<1> QED BY <1>1, <1>2, <1>3, <1>4 DEF CallbacksAt, StreamIsFramed

(* A connection that goes on reading.                                      *)
LEMMA CallbacksReadOn ==
  ASSUME NEW c \in Conn, CallbacksAt(c), at[c] = "draining", at'[c] = "reading",
         UNCHANGED <<connections, client, reader>>
  PROVE  CallbacksAt(c)'
<1>1. calls' = calls /\ lengths' = lengths /\ Stream(c)' = Stream(c)
  BY DEF client, reader, Stream
<1>2. CallsMatchState(c)'
  BY <1>1 DEF CallbacksAt, CallsMatchState
<1>3. Misread(c)' = Misread(c) /\ NextFrame(c)' = NextFrame(c)
  BY <1>1 DEF Misread, NextFrame
<1> QED BY <1>1, <1>2, <1>3 DEF CallbacksAt, StreamIsFramed

(* The prefix at the front of the buffer, until one is misread.            *)
LEMMA FrontOfBuffer ==
  ASSUME TypeOK, NEW c \in Conn, CallbacksAt(c), at[c] = "draining", ~Misread(c),
         buffer[c] # <<>>, NEW total \in TotalLength(c)
  PROVE  LET k == Len(calls[c]) IN
           /\ k \in 1..Len(lengths[c]) /\ total = lengths[c][k] /\ total \in 1..Len(Stream(c))
           /\ \A j \in 1..total : Stream(c)[j] = PartOf(k, j)
           /\ FramesFrom(SubSeq(Stream(c), total + 1, Len(Stream(c))), lengths[c], k + 1)
<1> DEFINE k == Len(calls[c])
<1>1. /\ lengths[c] \in Seq(Length) /\ wire[c] \in Seq(Unit) /\ buffer[c] \in Seq(Unit)
      /\ k \in Nat
  BY DEF TypeOK
<1>2. /\ Stream(c) \in Seq(Unit) /\ Stream(c) # <<>> /\ Stream(c)[1] = Head(buffer[c])
  <2> DEFINE m == Len(buffer[c])
             n == Len(wire[c])
  <2>1. m \in Nat \ {0} /\ n \in Nat
    BY <1>1, EmptySeq
  <2>2. /\ Stream(c) \in Seq(Unit) /\ Len(Stream(c)) = Len(buffer[c]) + Len(wire[c])
        /\ \A i \in 1..Len(buffer[c]) + Len(wire[c]) :
             Stream(c)[i] = IF i <= Len(buffer[c]) THEN buffer[c][i] ELSE wire[c][i - Len(buffer[c])]
    BY <1>1, ConcatProperties DEF Stream
  <2> HIDE DEF m, n
  <2>3. 1 \in 1..m + n /\ 1 <= m /\ m + n # 0
    BY <2>1
  <2>4. Stream(c)[1] = buffer[c][1]
    BY <2>2, <2>3 DEF m, n
  <2>5. Stream(c) # <<>>
    BY <2>2, <2>3, EmptySeq DEF m, n
  <2> QED BY <2>2, <2>4, <2>5
<1>3. FramesFrom(Stream(c), lengths[c], k)
  BY DEF CallbacksAt, StreamIsFramed, NextFrame
<1>4. /\ k \in 1..Len(lengths[c]) /\ lengths[c][k] \in 1..Len(Stream(c))
      /\ \A j \in 1..lengths[c][k] : Stream(c)[j] = PartOf(k, j)
      /\ FramesFrom(SubSeq(Stream(c), lengths[c][k] + 1, Len(Stream(c))), lengths[c], k + 1)
  BY <1>1, <1>2, <1>3, FrameErased
<1>5. Head(buffer[c]) = PartOf(k, 1)
  BY <1>2, <1>3 DEF FramesFrom
<1>6. total = lengths[c][k]
  BY <1>5 DEF TotalLength, PartOf
<1> QED BY <1>4, <1>6

(* A frame handed over, or what came after a misread prefix.               *)
LEMMA CallbacksFrame ==
  ASSUME TypeOK, UnitsWereSent, NEW c \in Conn, CallbacksAt(c), at[c] = "draining",
         UNCHANGED <<at, connections, client>>,
         buffer[c] # <<>>, NEW total \in TotalLength(c), total <= Len(buffer[c]),
         Call(c, "frame", SubSeq(buffer[c], 1, total)),
         buffer' = [buffer EXCEPT ![c] = Erase(@, total)]
  PROVE  CallbacksAt(c)'
<1> DEFINE k == Len(calls[c])
           bytes == SubSeq(buffer[c], 1, total)
<1>1. /\ lengths' = lengths /\ wire' = wire /\ at' = at /\ connections' = connections
      /\ buffer'[c] = SubSeq(buffer[c], total + 1, Len(buffer[c]))
      /\ wire[c] \in Seq(Unit) /\ buffer[c] \in Seq(Unit) /\ total \in Nat
      /\ lengths[c] \in Seq(Length)
  BY TotalIsALength DEF client, TypeOK, Erase
<1>2. bytes \in Seq(Unit)
  BY <1>1, PrefixType
<1>3. /\ Len(calls'[c]) = k + 1 /\ k \in Nat
      /\ \A i \in 1..k : calls'[c][i] = calls[c][i]
      /\ calls'[c][k + 1].name = "frame" /\ calls'[c][k + 1].bytes = bytes
      /\ calls'[c] # <<>>
  BY <1>2, CalledAt
<1>4. k # 0 /\ calls[c] # <<>>
  <2>1. calls[c] # <<>> /\ calls[c] \in Seq(Calls)
    BY DEF CallbacksAt, CallsMatchState, TypeOK, Calls
  <2> QED BY <2>1, EmptySeq
<1>5. Misread(c) \/ (k \in 1..Len(lengths[c]) /\ bytes = Frame(k, lengths[c][k])
                      /\ FramesFrom(Stream(c)', lengths[c], k + 1))
  <2> SUFFICES ASSUME ~Misread(c)
               PROVE  /\ k \in 1..Len(lengths[c]) /\ bytes = Frame(k, lengths[c][k])
                      /\ FramesFrom(Stream(c)', lengths[c], k + 1)
    OBVIOUS
  <2>1. /\ k \in 1..Len(lengths[c]) /\ total = lengths[c][k]
        /\ \A j \in 1..total : Stream(c)[j] = PartOf(k, j)
        /\ FramesFrom(SubSeq(Stream(c), total + 1, Len(Stream(c))), lengths[c], k + 1)
    BY FrontOfBuffer
  <2>2. SubSeq(buffer[c], total + 1, Len(buffer[c])) \o wire[c]
          = SubSeq(Stream(c), total + 1, Len(Stream(c)))
    BY <1>1, StreamErased DEF Stream
  <2>3. Stream(c)' = SubSeq(Stream(c), total + 1, Len(Stream(c)))
    BY <1>1, <2>2 DEF Stream
  <2>4. \A j \in 1..total : bytes[j] = PartOf(k, j)
    <3> SUFFICES ASSUME NEW j \in 1..total PROVE bytes[j] = PartOf(k, j)
      OBVIOUS
    <3>1. j \in 1..Len(buffer[c]) /\ j \in 1..Len(buffer[c]) + Len(wire[c]) /\ j <= Len(buffer[c])
      <4>1. ASSUME NEW m \in Nat, NEW n \in Nat, total <= m PROVE j \in 1..m /\ j \in 1..m + n /\ j <= m
        BY <1>1, <4>1
      <4>2. Len(buffer[c]) \in Nat /\ Len(wire[c]) \in Nat
        BY <1>1
      <4> QED BY <4>1, <4>2
    <3>2. Stream(c)[j] = buffer[c][j]
      BY <1>1, <3>1, ConcatProperties DEF Stream
    <3>3. bytes[j] = buffer[c][j]
      BY <1>1
    <3> QED BY <2>1, <3>2, <3>3
  <2>5. bytes = Frame(k, total)
    <3>1. bytes = [j \in 1..total |-> bytes[j]]
      BY <1>1
    <3> QED BY <2>4, <3>1 DEF Frame, PartOf
  <2> QED BY <2>1, <2>3, <2>5
<1> HIDE DEF bytes
<1>6. CallsMatchState(c)'
  <2> SUFFICES ASSUME NEW i \in 1..k + 1
               PROVE  /\ calls'[c][i].name = "connected" <=> i = 1
                      /\ calls'[c][i].name # "disconnected"
                      /\ calls'[c][i].name = "frame" =>
                           \/ \E l \in 1..Len(lengths[c]) : l < i /\ lengths[c][l] < 2 * Prefix
                           \/ /\ i - 1 \in 1..Len(lengths[c])
                              /\ calls'[c][i].bytes = Frame(i - 1, lengths[c][i - 1])
    BY <1>1, <1>3, <1>4 DEF CallbacksAt, CallsMatchState
  <2>1. CASE i \in 1..k
    BY <1>3, <2>1 DEF CallbacksAt, CallsMatchState
  <2>2. CASE i = k + 1
    <3>1. k + 1 # 1 /\ k + 1 - 1 = k
      BY <1>3, <1>4
    <3>2. Misread(c) => \E l \in 1..Len(lengths[c]) : l < k + 1 /\ lengths[c][l] < 2 * Prefix
      <4> SUFFICES ASSUME NEW l \in 1..Len(lengths[c]), l <= k, lengths[c][l] < 2 * Prefix
                   PROVE  l < k + 1
        BY DEF Misread
      <4> QED BY <1>3
    <3> QED BY <1>3, <1>5, <2>2, <3>1, <3>2
  <2> QED BY <1>3, <2>1, <2>2
<1>7. StreamIsFramed(c)'
  <2>1. CASE Misread(c)
    <3>1. Misread(c)'
      BY <1>1, <1>3, <2>1 DEF Misread
    <3> QED BY <3>1 DEF StreamIsFramed
  <2>2. CASE FramesFrom(Stream(c)', lengths[c], k + 1)
    <3>1. NextFrame(c)' = k + 1
      BY <1>1, <1>3 DEF NextFrame
    <3> QED BY <1>1, <2>2, <3>1 DEF StreamIsFramed
  <2> QED BY <1>5, <2>1, <2>2
<1> QED BY <1>6, <1>7 DEF CallbacksAt

(* One round of draining.                                                  *)
LEMMA CallbacksDrain ==
  ASSUME TypeOK, UnitsWereSent, NEW c \in Conn, CallbacksAt(c), DrainFrame(c)
  PROVE  CallbacksAt(c)'
<1>1. /\ at[c] = "draining" /\ UNCHANGED <<connections, client>>
      /\ Len(buffer[c]) >= Prefix /\ buffer[c] \in Seq(Unit)
  BY DEF DrainFrame, Draining, TypeOK
<1>2. buffer[c] # <<>>
  BY <1>1, EmptySeq, ServerAssumption
<1>3. PICK total \in TotalLength(c) :
        \/ /\ total < 2 * Prefix
           /\ buffer' = [buffer EXCEPT ![c] = <<>>]
           /\ at' = [at EXCEPT ![c] = "reading"]
           /\ UNCHANGED calls
        \/ /\ at' = [at EXCEPT ![c] = "reading"]
           /\ UNCHANGED reader
        \/ /\ total <= Len(buffer[c])
           /\ Call(c, "frame", SubSeq(buffer[c], 1, total))
           /\ buffer' = [buffer EXCEPT ![c] = Erase(@, total)]
           /\ UNCHANGED at
  <2>1. PICK total \in TotalLength(c) :
          \/ /\ total < 2 * Prefix
             /\ buffer' = [buffer EXCEPT ![c] = <<>>]
             /\ at' = [at EXCEPT ![c] = "reading"]
             /\ UNCHANGED calls
          \/ /\ at' = [at EXCEPT ![c] = "reading"]
             /\ UNCHANGED reader
          \/ /\ Len(buffer[c]) >= total
             /\ Call(c, "frame", SubSeq(buffer[c], 1, total))
             /\ buffer' = [buffer EXCEPT ![c] = Erase(@, total)]
             /\ UNCHANGED at
    BY DEF DrainFrame
  <2>2. total \in Nat /\ Len(buffer[c]) \in Nat
    BY <1>1, <1>2, TotalIsALength
  <2> QED BY <2>1, <2>2
<1>4. CASE /\ total < 2 * Prefix
           /\ buffer' = [buffer EXCEPT ![c] = <<>>]
           /\ at' = [at EXCEPT ![c] = "reading"]
           /\ UNCHANGED calls
  <2>1. at'[c] = "reading" /\ lengths' = lengths /\ calls' = calls
    BY <1>1, <1>4 DEF client, TypeOK
  <2>2. CallsMatchState(c)'
    BY <1>1, <2>1 DEF CallbacksAt, CallsMatchState
  <2>3. Misread(c)
    <3> SUFFICES ASSUME ~Misread(c) PROVE Misread(c)
      OBVIOUS
    <3>1. /\ Len(calls[c]) \in 1..Len(lengths[c]) /\ total = lengths[c][Len(calls[c])]
      BY <1>1, <1>2, FrontOfBuffer
    <3>2. Len(calls[c]) <= Len(calls[c])
      BY <3>1
    <3> QED BY <1>4, <3>1, <3>2 DEF Misread
  <2> QED BY <2>1, <2>2, <2>3 DEF CallbacksAt, StreamIsFramed, Misread
<1>5. CASE at' = [at EXCEPT ![c] = "reading"] /\ UNCHANGED reader
  <2>1. at'[c] = "reading"
    BY <1>5 DEF TypeOK
  <2> QED BY <1>1, <1>5, <2>1, CallbacksReadOn
<1>6. CASE /\ total <= Len(buffer[c])
           /\ Call(c, "frame", SubSeq(buffer[c], 1, total))
           /\ buffer' = [buffer EXCEPT ![c] = Erase(@, total)]
           /\ UNCHANGED at
  BY <1>1, <1>2, <1>6, CallbacksFrame
<1> QED BY <1>3, <1>4, <1>5, <1>6

(* The callback a connection ends with.                                    *)
LEMMA CallbacksDisconnect ==
  ASSUME TypeOK, NEW c \in Conn, CallbacksAt(c), HandleDisconnect(c)
  PROVE  CallbacksAt(c)'
<1> DEFINE k == Len(calls[c])
<1>1. /\ at[c] = "reading" /\ at'[c] = "closed" /\ lengths' = lengths /\ c \notin connections'
      /\ Call(c, "disconnected", <<>>) /\ <<>> \in Seq(Unit)
  BY EmptySeq DEF HandleDisconnect, UnregisterConnection, TypeOK, client
<1>2. /\ Len(calls'[c]) = k + 1 /\ k \in Nat
      /\ \A i \in 1..k : calls'[c][i] = calls[c][i]
      /\ calls'[c][k + 1].name = "disconnected" /\ calls'[c] # <<>>
  BY <1>1, CalledAt
<1>3. k # 0
  <2>1. calls[c] # <<>> /\ calls[c] \in Seq(Calls)
    BY <1>1 DEF CallbacksAt, CallsMatchState, TypeOK, Calls
  <2> QED BY <2>1, EmptySeq
<1>4. CallsMatchState(c)'
  <2> SUFFICES ASSUME NEW i \in 1..k + 1
               PROVE  /\ calls'[c][i].name = "connected" <=> i = 1
                      /\ calls'[c][i].name = "disconnected" => i = k + 1
                      /\ calls'[c][i].name = "frame" =>
                           \/ \E l \in 1..Len(lengths[c]) : l < i /\ lengths[c][l] < 2 * Prefix
                           \/ /\ i - 1 \in 1..Len(lengths[c])
                              /\ calls'[c][i].bytes = Frame(i - 1, lengths[c][i - 1])
    BY <1>1, <1>2 DEF CallsMatchState
  <2>1. CASE i \in 1..k
    BY <1>1, <1>2, <2>1 DEF CallbacksAt, CallsMatchState
  <2>2. CASE i = k + 1
    BY <1>2, <1>3, <2>2
  <2> QED BY <1>2, <2>1, <2>2
<1> QED BY <1>1, <1>4 DEF CallbacksAt, StreamIsFramed

(* Nothing is sent or called at the start.                                 *)
LEMMA CallbacksInit == Init => CallbacksInv
<1> SUFFICES ASSUME Init, NEW c \in Conn PROVE CallbacksAt(c)
  BY DEF CallbacksInv
<1>1. /\ at[c] = "fresh" /\ calls[c] = <<>> /\ lengths[c] = <<>> /\ buffer[c] = <<>>
      /\ wire[c] = <<>> /\ connections = {}
  BY DEF Init
<1>2. Len(<<>>) = 0
  BY EmptySeq
<1>3. Stream(c) = <<>>
  BY <1>1, EmptySeq, ConcatEmptySeq DEF Stream
<1>4. CallsMatchState(c)
  BY <1>1, <1>2 DEF CallsMatchState
<1>5. FramesFrom(Stream(c), lengths[c], NextFrame(c))
  BY <1>1, <1>2, <1>3 DEF FramesFrom, NextFrame
<1> QED BY <1>4, <1>5 DEF CallbacksAt, StreamIsFramed

(* Every step keeps the frames whole and the callbacks in order.           *)
LEMMA CallbacksNext == ServerInv /\ CallbacksInv /\ [Next]_vars => CallbacksInv'
<1> SUFFICES ASSUME TypeOK, UnitsWereSent, CallbacksInv, [Next]_vars, NEW d \in Conn
             PROVE  CallbacksAt(d)'
  BY DEF ServerInv, CallbacksInv
<1>0. CallbacksAt(d)
  BY DEF CallbacksInv
<1> DEFINE Same == /\ at'[d] = at[d] /\ calls'[d] = calls[d] /\ lengths'[d] = lengths[d]
                   /\ buffer'[d] = buffer[d] /\ wire'[d] = wire[d]
                   /\ d \in connections' => d \in connections
<1>1. ASSUME Same PROVE CallbacksAt(d)'
  BY <1>0, <1>1, CallbacksSame DEF Stream
<1>2. ASSUME NEW c \in Conn, Client(c) PROVE CallbacksAt(d)'
  <2>1. ASSUME HangUp(c) PROVE Same
    BY <2>1 DEF HangUp, reader
  <2>2. ASSUME NEW length \in Length, ClientSends(c, length), c # d PROVE Same
    BY <2>2 DEF ClientSends, reader, TypeOK
  <2> QED BY <1>0, <1>1, <1>2, <2>1, <2>2, CallbacksClientSends DEF Client
<1>3. ASSUME NEW c \in Conn, RegisterConnection(c) \/ Start(c) PROVE CallbacksAt(d)'
  <2>1. ASSUME c # d PROVE Same
    BY <1>3, <2>1 DEF RegisterConnection, Start, client, reader, Call, TypeOK
  <2> QED BY <1>0, <1>1, <1>3, <2>1, CallbacksRegister, CallbacksStart
<1>4. ASSUME NEW c \in Conn, HandleRead(c) PROVE CallbacksAt(d)'
  <2>1. ASSUME c # d PROVE Same
    BY <1>4, <2>1 DEF HandleRead, TypeOK
  <2> QED BY <1>0, <1>1, <1>4, <2>1, CallbacksRead
<1>5. ASSUME NEW c \in Conn, DrainFrame(c) PROVE CallbacksAt(d)'
  <2>1. ASSUME c # d PROVE Same
    BY <1>5, <2>1 DEF DrainFrame, Draining, client, reader, Call, TypeOK
  <2> QED BY <1>0, <1>1, <1>5, <2>1, CallbacksDrain
<1>6. ASSUME NEW c \in Conn, ReadOn(c) PROVE CallbacksAt(d)'
  <2>1. ASSUME c # d PROVE Same
    BY <1>6, <2>1 DEF ReadOn, Draining, client, reader, TypeOK
  <2>2. at[c] = "draining" /\ at'[c] = "reading" /\ UNCHANGED <<connections, client, reader>>
    BY <1>6 DEF ReadOn, Draining, TypeOK
  <2> QED BY <1>0, <1>1, <2>1, <2>2, CallbacksReadOn
<1>7. ASSUME NEW c \in Conn, HandleDisconnect(c) PROVE CallbacksAt(d)'
  <2>1. ASSUME c # d PROVE Same
    BY <1>7, <2>1 DEF HandleDisconnect, UnregisterConnection, client, Call, TypeOK
  <2> QED BY <1>0, <1>1, <1>7, <2>1, CallbacksDisconnect
<1>8. ASSUME NEW c \in Conn, PushSend(c) \/ HandleWrite(c) \/ HandleWriteError(c) PROVE Same
  BY <1>8 DEF PushSend, HandleWrite, HandleWriteError, WriteCompletes, client, reader
<1>9. ASSUME NEW s \in Sender, Broadcast(s) \/ \E c \in Conn : SendTo(s, c) \/ Send(s, c)
      PROVE  Same
  BY <1>9 DEF Broadcast, SendTo, LookUp, Send, client, reader
<1>10. ASSUME UNCHANGED vars PROVE Same
  BY <1>10 DEF vars, client, reader
<1> HIDE DEF Same
<1> QED
  BY <1>1, <1>2, <1>3, <1>4, <1>5, <1>6, <1>7, <1>8, <1>9, <1>10 DEF Next, Reactor, Failure

(* A client's frames reach OnFrame whole, once and in order, between the   *)
(* callbacks of its connection's beginning and end, whatever the sizes of  *)
(* frames and of reads.                                                    *)
THEOREM CallbacksFollowCorrect == Spec => []CallbacksFollowTheClient
<1>1. Init => CallbacksInv
  BY CallbacksInit
<1>2. ServerInv /\ CallbacksInv /\ [Next]_vars => CallbacksInv'
  BY CallbacksNext
<1>3. ServerInv /\ CallbacksInv => CallbacksFollowTheClient
  <2> SUFFICES ASSUME ServerInv, CallbacksInv, NEW c \in Conn, NEW i \in DOMAIN calls[c]
               PROVE  /\ calls[c][i].name = "connected" <=> i = 1
                      /\ calls[c][i].name = "disconnected"
                           => i = Len(calls[c]) /\ c \notin connections
                      /\ calls[c][i].name = "frame" =>
                           \/ \E k \in DOMAIN lengths[c] : k < i /\ lengths[c][k] < 2 * Prefix
                           \/ calls[c][i].bytes = Frame(i - 1, lengths[c][i - 1])
    BY DEF CallbacksFollowTheClient
  <2>1. i \in 1..Len(calls[c]) /\ DOMAIN lengths[c] = 1..Len(lengths[c])
    BY DEF ServerInv, TypeOK
  <2>2. CallsMatchState(c)
    BY DEF CallbacksInv, CallbacksAt
  <2> QED BY <2>1, <2>2 DEF CallsMatchState
<1> QED BY <1>1, <1>2, <1>3, ServerInvariant, PTL DEF Spec
=====
