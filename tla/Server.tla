-------------------------------- MODULE Server --------------------------------
(***************************************************************************)
(* common/Server: connections, their strands, framing and write queues.    *)
(*                                                                         *)
(* A connection's handlers run one at a time on its strand, the handlers   *)
(* of different connections and the threads that send run side by side. A  *)
(* sender looks its targets up under the registry's lock and posts to      *)
(* their strands after it: the registry may have changed in between.       *)
(*                                                                         *)
(* Bytes come in units; Prefix units are a length prefix and as many the   *)
(* code. A client's frames may be cut anywhere, and one of them may have a *)
(* prefix smaller than the two.                                            *)
(***************************************************************************)
EXTENDS Integers, Sequences

CONSTANTS
  Conn,
  Sender,      \* threads that call SendTo and Broadcast
  Prefix,      \* units of the length prefix
  Length,      \* the prefixes clients send
  Chunk,       \* units a read delivers at most
  None,
  MaxFrames,   \* frames each client sends
  MaxSends     \* calls of SendTo and Broadcast

ASSUME ServerAssumption ==
  /\ {Prefix, Chunk, MaxFrames, MaxSends} \subseteq Nat \ {0}
  /\ Length \subseteq Nat /\ \A n \in Length : n >= Prefix

VARIABLES
  at,          \* the state of each connection
  connections, \* m_connections
  wire,        \* units on their way to each connection
  lengths,     \* history: the prefixes each client sent
  gone,        \* clients that hung up
  buffer,      \* m_recvBuffer
  calls,       \* history: the owner's callbacks of each connection
  sending,     \* what each sender has looked up and not posted yet, or None
  strand,      \* sends posted to each strand
  queue,       \* m_writeQueue
  writing,     \* the buffer of each outstanding async_write, or None
  written,     \* history: what was written to each socket
  sends        \* calls so far

client == <<wire, lengths, gone>>
reader == <<buffer, calls>>
writer == <<queue, writing, written>>
vars == <<at, connections, client, reader, sending, strand, writer, sends>>

\* A unit of a client's frame.
Unit == [frame : Nat, at : Nat]

Frame(n, length) == [i \in 1..length |-> [frame |-> n, at |-> i]]

\* OnClientConnected, OnFrame or OnClientDisconnected.
Callback(name, bytes) == [name |-> name, bytes |-> bytes]

Message == [by : Sender, n : Nat]

-----------------------------------------------------------------------------
(* The client's side                                                       *)

ClientSends(c, length) ==
  /\ at[c] # "fresh" /\ c \notin gone
  /\ Len(lengths[c]) < MaxFrames
  /\ lengths' = [lengths EXCEPT ![c] = Append(@, length)]
  /\ wire' = [wire EXCEPT ![c] = @ \o Frame(Len(lengths'[c]), length)]
  /\ UNCHANGED <<at, connections, gone, reader, sending, strand, writer, sends>>

HangUp(c) ==
  /\ at[c] # "fresh"
  /\ gone' = gone \cup {c}
  /\ UNCHANGED <<at, connections, wire, lengths, reader, sending, strand, writer, sends>>

-----------------------------------------------------------------------------
(* Accept and read                                                         *)

Call(c, name, bytes) == calls' = [calls EXCEPT ![c] = Append(@, Callback(name, bytes))]

\* DoAccept, up to RegisterConnection; the next accept waits for the Start.
RegisterConnection(c) ==
  /\ at[c] = "fresh"
  /\ \A d \in Conn : at[d] # "registered"
  /\ at' = [at EXCEPT ![c] = "registered"]
  /\ connections' = connections \cup {c}
  /\ UNCHANGED <<client, reader, sending, strand, writer, sends>>

\* Connection::Start: the callback, then the first read.
Start(c) ==
  /\ at[c] = "registered"
  /\ at' = [at EXCEPT ![c] = "reading"]
  /\ Call(c, "connected", <<>>)
  /\ UNCHANGED <<connections, client, buffer, sending, strand, writer, sends>>

\* HandleRead of some bytes: they are drained before the next read.
HandleRead(c) ==
  /\ at[c] = "reading"
  /\ \E n \in 1..Chunk :
       /\ n <= Len(wire[c])
       /\ buffer' = [buffer EXCEPT ![c] = @ \o SubSeq(wire[c], 1, n)]
       /\ wire' = [wire EXCEPT ![c] = SubSeq(@, n + 1, Len(@))]
  /\ at' = [at EXCEPT ![c] = "draining"]
  /\ UNCHANGED <<connections, lengths, gone, calls, sending, strand, writer, sends>>

\* What the prefix says: in the middle of a frame, anything.
TotalLength(c) ==
  LET first == Head(buffer[c]) IN
    IF first.at = 1 THEN {lengths[c][first.frame]} ELSE Length

\* Mutant: the rest of the buffer goes with the frame.
WholeBuffer(bytes, n) == <<>>

Erase(bytes, n) == SubSeq(bytes, n + 1, Len(bytes))

Draining(c) ==
  /\ at[c] = "draining"
  /\ UNCHANGED <<connections, client, sending, strand, writer, sends>>

\* One round of DrainFrames' loop; whatever OnFrame throws is caught.
DrainFrame(c) ==
  /\ Draining(c)
  /\ Len(buffer[c]) >= Prefix
  /\ \E total \in TotalLength(c) :
       \/ /\ total < 2 * Prefix
          /\ buffer' = [buffer EXCEPT ![c] = <<>>]
          /\ at' = [at EXCEPT ![c] = "reading"]
          /\ UNCHANGED calls
       \/ /\ total >= 2 * Prefix
          /\ Len(buffer[c]) < total
          /\ at' = [at EXCEPT ![c] = "reading"]
          /\ UNCHANGED reader
       \/ /\ total >= 2 * Prefix
          /\ Len(buffer[c]) >= total
          /\ Call(c, "frame", SubSeq(buffer[c], 1, total))
          /\ buffer' = [buffer EXCEPT ![c] = Erase(@, total)]
          /\ UNCHANGED at

ReadOn(c) ==
  /\ Draining(c)
  /\ Len(buffer[c]) < Prefix
  /\ at' = [at EXCEPT ![c] = "reading"]
  /\ UNCHANGED reader

\* Mutant: the connection stays registered.
StillRegistered(c) == connections

UnregisterConnection(c) == connections \ {c}

\* HandleRead of an error: HandleDisconnect, and no further read.
HandleDisconnect(c) ==
  /\ at[c] = "reading"
  /\ c \in gone
  /\ connections' = UnregisterConnection(c)
  /\ Call(c, "disconnected", <<>>)
  /\ at' = [at EXCEPT ![c] = "closed"]
  /\ UNCHANGED <<client, buffer, sending, strand, writer, sends>>

-----------------------------------------------------------------------------
(* Send                                                                    *)

\* Mutant: no return when nothing was found.
Unchecked(targets, n) == [to |-> targets, n |-> n]

Found(targets, n) == IF targets = {} THEN None ELSE [to |-> targets, n |-> n]

\* The targets, looked up under the lock.
LookUp(s, targets) ==
  /\ sends < MaxSends
  /\ sends' = sends + 1
  /\ sending[s] = None
  /\ sending' = [sending EXCEPT ![s] = Found(targets, sends')]
  /\ UNCHANGED <<at, connections, client, reader, strand, writer>>

SendTo(s, c) == LookUp(s, {c} \cap connections)

Broadcast(s) == LookUp(s, connections)

\* Connection::Send, outside the lock.
Send(s, c) ==
  /\ sending[s] # None
  /\ c \in sending[s].to
  /\ strand' = [strand EXCEPT ![c] = Append(@, [by |-> s, n |-> sending[s].n])]
  /\ sending' = [sending EXCEPT ![s] = Found(@.to \ {c}, @.n)]
  /\ UNCHANGED <<at, connections, client, reader, writer, sends>>

\* Mutant: the last message is written next.
Latest(messages) == messages[Len(messages)]

Front(messages) == Head(messages)

\* DoWrite: an async_write of the queue's front.
DoWrite(messages) == IF messages = <<>> THEN None ELSE Front(messages)

\* Mutant: every send starts a write.
StartAnother(c, messages) == messages[Len(messages)]

\* A write is started unless one is outstanding.
StartIfIdle(c, messages) == IF queue[c] # <<>> THEN writing[c] ELSE DoWrite(messages)

\* What Send posted, when the strand gets to it.
PushSend(c) ==
  /\ at[c] # "draining"
  /\ strand[c] # <<>>
  /\ strand' = [strand EXCEPT ![c] = Tail(@)]
  /\ queue' = [queue EXCEPT ![c] = Append(@, Head(strand[c]))]
  /\ writing' = [writing EXCEPT ![c] = StartIfIdle(c, queue'[c])]
  /\ UNCHANGED <<at, connections, client, reader, sending, written, sends>>

WriteCompletes(c) ==
  /\ at[c] # "draining"
  /\ writing[c] # None
  /\ UNCHANGED <<at, connections, client, reader, sending, strand, sends>>

\* Also on a closed socket, for a write that was done before the close.
HandleWrite(c) ==
  /\ WriteCompletes(c)
  /\ written' = [written EXCEPT ![c] = Append(@, writing[c])]
  /\ queue' = [queue EXCEPT ![c] = Tail(@)]
  /\ writing' = [writing EXCEPT ![c] = DoWrite(queue'[c])]

\* Mutant: the queue is kept.
KeptQueue(messages) == messages

Clear(messages) == <<>>

\* An error drops everything queued; the connection stays until a read fails.
HandleWriteError(c) ==
  /\ WriteCompletes(c)
  /\ c \in gone
  /\ queue' = [queue EXCEPT ![c] = Clear(@)]
  /\ writing' = [writing EXCEPT ![c] = None]
  /\ UNCHANGED written

-----------------------------------------------------------------------------
Init ==
  /\ at = [c \in Conn |-> "fresh"]
  /\ connections = {}
  /\ wire = [c \in Conn |-> <<>>] /\ lengths = [c \in Conn |-> <<>>]
  /\ gone = {}
  /\ buffer = [c \in Conn |-> <<>>] /\ calls = [c \in Conn |-> <<>>]
  /\ sending = [s \in Sender |-> None]
  /\ strand = [c \in Conn |-> <<>>]
  /\ queue = [c \in Conn |-> <<>>] /\ writing = [c \in Conn |-> None]
  /\ written = [c \in Conn |-> <<>>]
  /\ sends = 0

Client(c) == HangUp(c) \/ \E length \in Length : ClientSends(c, length)

\* What the io threads run.
Reactor(c) ==
  \/ RegisterConnection(c) \/ Start(c)
  \/ HandleRead(c) \/ DrainFrame(c) \/ ReadOn(c)
  \/ PushSend(c) \/ HandleWrite(c)

Failure(c) == HandleDisconnect(c) \/ HandleWriteError(c)

Next ==
  \/ \E c \in Conn : Client(c) \/ Reactor(c) \/ Failure(c)
  \/ \E s \in Sender :
       \/ Broadcast(s)
       \/ \E c \in Conn : SendTo(s, c) \/ Send(s, c)

\* The io_context runs what is ready, and every read and write of a socket ends:
\* clients read what is sent to them, or their connection is lost.
Fairness ==
  \A c \in Conn :
       /\ WF_vars(Start(c))
       /\ WF_vars(HandleRead(c)) /\ WF_vars(DrainFrame(c)) /\ WF_vars(ReadOn(c))
       /\ WF_vars(HandleDisconnect(c))
       /\ WF_vars(PushSend(c))
       /\ WF_vars(HandleWrite(c) \/ HandleWriteError(c))

Spec == Init /\ [][Next]_vars /\ Fairness
-----------------------------------------------------------------------------
(* Properties                                                              *)

TypeOK ==
  /\ at \in [Conn -> {"fresh", "registered", "reading", "draining", "closed"}]
  /\ connections \subseteq Conn /\ gone \subseteq Conn
  /\ wire \in [Conn -> Seq(Unit)] /\ buffer \in [Conn -> Seq(Unit)]
  /\ lengths \in [Conn -> Seq(Length)]
  /\ calls \in [Conn -> Seq([name : {"connected", "frame", "disconnected"}, bytes : Seq(Unit)])]
  /\ sending \in [Sender -> [to : (SUBSET Conn) \ {{}}, n : Nat] \cup {None}]
  /\ strand \in [Conn -> Seq(Message)] /\ queue \in [Conn -> Seq(Message)]
  /\ writing \in [Conn -> Message \cup {None}]
  /\ written \in [Conn -> Seq(Message)]
  /\ sends \in 0..MaxSends

\* async_write keeps a pointer into the queue's front (Server.cpp:122): at any
\* time one write at most is outstanding on a socket, and it is of the message at
\* the front, whatever sends, errors and a close come in between.
OneWriteOfTheFront ==
  \A c \in Conn :
    writing[c] = IF queue[c] = <<>> THEN None ELSE Head(queue[c])

\* The frames of a client are handed to OnFrame whole, once and in its order,
\* however the bytes are cut and glued (Server.cpp:76), up to its first impossible
\* prefix; before them comes OnClientConnected, after them OnClientDisconnected,
\* and nothing after that.
CallbacksFollowTheClient ==
  \A c \in Conn : \A i \in DOMAIN calls[c] :
    /\ calls[c][i].name = "connected" <=> i = 1
    /\ calls[c][i].name = "disconnected" => i = Len(calls[c]) /\ c \notin connections
    /\ calls[c][i].name = "frame" =>
         \/ \E k \in DOMAIN lengths[c] : k < i /\ lengths[c][k] < 2 * Prefix
         \/ calls[c][i].bytes = Frame(i - 1, lengths[c][i - 1])

\* SendTo may be called from any thread (Server.h:48): messages of one thread to
\* one client are written in its order, each once, whatever the others send.
WrittenInOrder ==
  \A c \in Conn : \A i, j \in DOMAIN written[c] :
    i < j /\ written[c][i].by = written[c][j].by => written[c][i].n < written[c][j].n

\* What is queued is written or dropped with an error, but never left behind by a
\* write nobody starts (Server.cpp:138).
QueuesDrain ==
  \A c \in Conn : (queue[c] # <<>> \/ strand[c] # <<>>) ~> (queue[c] = <<>> /\ strand[c] = <<>>)

\* A client that hangs up is deregistered, with whatever is queued or half read.
HangUpsAreNoticed == \A c \in Conn : c \in gone ~> c \notin connections
=============================================================================
