---------------------------- MODULE PeerHandlers ----------------------------
(***************************************************************************)
(* Nodes and their connections (src/node/node.go): how connections are     *)
(* made, kept in the handler map and taken out of it, and how messages     *)
(* pass through the readers, the message queue and the message loop.       *)
(*                                                                         *)
(* Every node runs the same goroutines.  Two locks order them: that of the *)
(* queue (Mu, olMessageMu), and that of the handler map (olHandlerMapMu).  *)
(* A section in which nothing blocks is one action; a goroutine that waits *)
(* in Write while it holds a lock is in "sending".  Messages are their     *)
(* types, and a connection is the pair of who dialed and who listened.     *)
(***************************************************************************)
EXTENDS Naturals, Sequences

CONSTANTS
  Nodes,
  Dials,      \* who dials whom
  Syncing,    \* the nodes that are in their initial block download
  Room,       \* messages a connection takes in one direction until one is read
  Breaks,     \* the nodes at whose end connections may break
  MaxBeats,   \* heartbeats each node sends over working connections
  MaxAsks     \* rounds of GET_DATA requests each node sends

ASSUME NetworkAssumption ==
  /\ Dials \subseteq {d \in Nodes \X Nodes : d[1] # d[2]}
  /\ Syncing \subseteq Nodes
  /\ Room \in Nat \ {0}
  /\ Breaks \subseteq Nodes
  /\ MaxBeats \in [Nodes -> Nat] /\ MaxAsks \in [Nodes -> Nat]

VARIABLES
  up,                 \* whether the node's process runs
  dead,               \* the ends at which a connection does not work any more
  wire,               \* what an end has written and the other has not read
  stage,              \* how far an end is in the goroutine that set it up
  reader,             \* Run: off, reading, stopped, or the message it has read
  olMessageHandlers, olMessages,
  mapLock, queueLock, \* which goroutine holds them
  loop,               \* where the message loop is
  sending,            \* the connection a goroutine waits to write to
  toBeat,             \* peers the heartbeat has yet to write to
  answers,            \* goroutines that answer a peer's GET_DATA
  toAsk,              \* connections left to ask in this round
  beats, asks

connVars == <<up, dead, wire>>
threadVars == <<loop, sending, toBeat, answers, toAsk, beats, asks>>
vars == <<connVars, stage, reader, olMessageHandlers, olMessages, mapLock, queueLock,
          threadVars>>

Types == {"BLOCK", "GET_BLOCK", "GET_DATA", "DATA"}
Threads == {"loop", "heartbeat", "answer", "asker"}
NoConn == <<>>

\* The zero handler is what Go's map gives for a peer that it does not have.
Handlers == [conn : Dials \cup {NoConn}, connected : BOOLEAN, known : BOOLEAN]
ZeroHandler == [conn |-> NoConn, connected |-> FALSE, known |-> FALSE]
NewHandler(c) == [conn |-> c, connected |-> TRUE, known |-> FALSE]
Registered(n, p) == olMessageHandlers[n][p].conn # NoConn

IsEnd(c, n) == n = c[1] \/ n = c[2]
Other(c, n) == IF n = c[1] THEN c[2] ELSE c[1]
Between(c, n, p) == IsEnd(c, n) /\ Other(c, n) = p

BugMapIsFree(n) == mapLock[n] # "heartbeat"
MapIsFree(n) == mapLock[n] = "free"

BugUnlockQueue(n) == UNCHANGED queueLock
UnlockQueue(n) == queueLock' = [queueLock EXCEPT ![n] = "free"]

-----------------------------------------------------------------------------
(* Connections *)

Close(c, n) == dead' = [dead EXCEPT ![c] = @ \cup {n}]

\* Write: it waits while there is no room.  The first write after the other end
\* is gone may seem to succeed, and only its answer, a reset, ends the connection.
Written(c, n, type) ==
  \/ /\ dead[c] = {} /\ Len(wire[c][n]) < Room
     /\ wire' = [wire EXCEPT ![c][n] = Append(@, type)]
     /\ UNCHANGED dead
  \/ /\ dead[c] # {} /\ n \notin dead[c]
     /\ Close(c, n)
     /\ UNCHANGED wire

\* Write returns an error; every caller then closes the connection.
BugWriteFails(c, n) == dead[c] # {} /\ UNCHANGED <<dead, wire>>
WriteFails(c, n) ==
  /\ dead[c] # {}
  /\ Close(c, n)
  /\ UNCHANGED wire

\* The process ends, and the kernel closes its connections.
Dies(n) ==
  /\ up' = [up EXCEPT ![n] = FALSE]
  /\ dead' = [c \in Dials |-> IF IsEnd(c, n) THEN dead[c] \cup {n} ELSE dead[c]]

Break(c, n) ==
  /\ n \in Breaks /\ IsEnd(c, n) /\ stage[c][n] # "none"
  /\ n \notin dead[c]
  /\ Close(c, n)
  /\ UNCHANGED <<up, wire, stage, reader, olMessageHandlers, olMessages, mapLock,
                 queueLock, threadVars>>

-----------------------------------------------------------------------------
(* The dialing goroutines, the listening one, and the readers they start *)

\* Initialize at both ends: handshake_peer sends the highest block at the start.
Connect(c) ==
  /\ up[c[1]] /\ up[c[2]] /\ stage[c][c[1]] = "none"
  /\ stage' = [stage EXCEPT ![c] = [n \in Nodes |-> IF IsEnd(c, n) THEN "shaken" ELSE @[n]]]
  /\ wire' = [wire EXCEPT ![c] = [n \in Nodes |-> IF IsEnd(c, n) THEN <<"BLOCK">> ELSE @[n]]]
  /\ UNCHANGED <<up, dead, reader, olMessageHandlers, olMessages, mapLock, queueLock,
                 threadVars>>

BugInsert(c, n) ==
  olMessageHandlers' =
    [olMessageHandlers EXCEPT ![n][Other(c, n)] =
       IF Registered(n, Other(c, n)) THEN NewHandler(c) ELSE @]

Insert(c, n) ==
  olMessageHandlers' =
    [olMessageHandlers EXCEPT ![n][Other(c, n)] =
       IF Registered(n, Other(c, n)) THEN @ ELSE NewHandler(c)]

\* The dialing goroutine starts the reader first, and then takes the lock.
StartDialedReader(c) ==
  /\ up[c[1]] /\ stage[c][c[1]] = "shaken"
  /\ stage' = [stage EXCEPT ![c][c[1]] = "running"]
  /\ reader' = [reader EXCEPT ![c][c[1]] = "reading"]
  /\ UNCHANGED <<connVars, olMessageHandlers, olMessages, mapLock, queueLock, threadVars>>

RegisterDialed(c) ==
  /\ up[c[1]] /\ stage[c][c[1]] = "running"
  /\ MapIsFree(c[1])
  /\ stage' = [stage EXCEPT ![c][c[1]] = "done"]
  /\ Insert(c, c[1])
  /\ UNCHANGED <<connVars, reader, olMessages, mapLock, queueLock, threadVars>>

\* The listening goroutine does both under the lock, and closes a connection to
\* a peer that is in the map.
AcceptConnection(c) ==
  LET n == c[2] IN
  /\ up[n] /\ stage[c][n] = "shaken"
  /\ MapIsFree(n)
  /\ stage' = [stage EXCEPT ![c][n] = "done"]
  /\ \/ /\ ~ Registered(n, c[1])
        /\ reader' = [reader EXCEPT ![c][n] = "reading"]
        /\ Insert(c, n)
        /\ UNCHANGED dead
     \/ /\ Registered(n, c[1])
        /\ Close(c, n)
        /\ UNCHANGED <<reader, olMessageHandlers>>
  /\ UNCHANGED <<up, wire, olMessages, mapLock, queueLock, threadVars>>

ReadMessage(c, n) ==
  LET incoming == wire[c][Other(c, n)] IN
  /\ up[n] /\ reader[c][n] = "reading"
  /\ n \notin dead[c] /\ incoming # <<>>
  /\ reader' = [reader EXCEPT ![c][n] = Head(incoming)]
  /\ wire' = [wire EXCEPT ![c][Other(c, n)] = Tail(incoming)]
  /\ UNCHANGED <<up, dead, stage, olMessageHandlers, olMessages, mapLock, queueLock,
                 threadVars>>

AppendMessage(c, n) ==
  /\ up[n] /\ reader[c][n] \in Types
  /\ queueLock[n] = "free"
  /\ olMessages' = [olMessages EXCEPT ![n] =
                      Append(@, [PeerID |-> Other(c, n), Type |-> reader[c][n]])]
  /\ reader' = [reader EXCEPT ![c][n] = "reading"]
  /\ UNCHANGED <<connVars, stage, olMessageHandlers, mapLock, queueLock, threadVars>>

\* Read returns an error.  Connected is set to false in the reader's own handler,
\* of which the map has a copy.
StopReading(c, n) ==
  /\ up[n] /\ reader[c][n] = "reading"
  /\ dead[c] # {}
  /\ reader' = [reader EXCEPT ![c][n] = "stopped"]
  /\ wire' = [wire EXCEPT ![c][Other(c, n)] = <<>>]
  /\ UNCHANGED <<up, dead, stage, olMessageHandlers, olMessages, mapLock, queueLock,
                 threadVars>>

-----------------------------------------------------------------------------
(* The expunging goroutine and the heartbeat *)

Expunge(n) ==
  /\ up[n] /\ MapIsFree(n)
  /\ \E p \in Nodes : Registered(n, p) /\ ~ olMessageHandlers[n][p].connected
  /\ olMessageHandlers' =
       [olMessageHandlers EXCEPT ![n] =
          [p \in Nodes |-> IF @[p].connected THEN @[p] ELSE ZeroHandler]]
  /\ UNCHANGED <<connVars, stage, reader, olMessages, mapLock, queueLock, threadVars>>

ConnectedPeers(n) == {p \in Nodes : olMessageHandlers[n][p].connected}

\* The bound is on heartbeats over connections that work.
StartHeartbeat(n) ==
  /\ up[n] /\ MapIsFree(n)
  /\ ConnectedPeers(n) # {}
  /\ \/ beats[n] < MaxBeats[n]
     \/ \E p \in ConnectedPeers(n) : dead[olMessageHandlers[n][p].conn] # {}
  /\ mapLock' = [mapLock EXCEPT ![n] = "heartbeat"]
  /\ toBeat' = [toBeat EXCEPT ![n] = ConnectedPeers(n)]
  /\ beats' = [beats EXCEPT ![n] = IF @ < MaxBeats[n] THEN @ + 1 ELSE @]
  /\ UNCHANGED <<connVars, stage, reader, olMessageHandlers, olMessages, queueLock,
                 loop, sending, answers, toAsk, asks>>

NextBeat(n, p) ==
  /\ up[n] /\ mapLock[n] = "heartbeat" /\ sending[n]["heartbeat"] = NoConn
  /\ p \in toBeat[n]
  /\ sending' = [sending EXCEPT ![n]["heartbeat"] = olMessageHandlers[n][p].conn]
  /\ UNCHANGED <<connVars, stage, reader, olMessageHandlers, olMessages, mapLock,
                 queueLock, loop, toBeat, answers, toAsk, beats, asks>>

BugForget(n, p) ==
  olMessageHandlers' = [olMessageHandlers EXCEPT ![n][p] = NoConn]
BugNoMark(n, p) == UNCHANGED olMessageHandlers

MarkClosed(n, p) ==
  olMessageHandlers' = [olMessageHandlers EXCEPT ![n][p].connected = FALSE]

SendHeartbeat(n) ==
  LET c == sending[n]["heartbeat"]
      p == Other(c, n)
  IN
  /\ up[n] /\ c # NoConn
  /\ \/ Written(c, n, "GET_BLOCK") /\ UNCHANGED olMessageHandlers
     \/ WriteFails(c, n) /\ MarkClosed(n, p)
  /\ sending' = [sending EXCEPT ![n]["heartbeat"] = NoConn]
  /\ toBeat' = [toBeat EXCEPT ![n] = @ \ {p}]
  /\ UNCHANGED <<up, stage, reader, olMessages, mapLock, queueLock, loop, answers,
                 toAsk, beats, asks>>

EndHeartbeat(n) ==
  /\ up[n] /\ mapLock[n] = "heartbeat" /\ toBeat[n] = {}
  /\ mapLock' = [mapLock EXCEPT ![n] = "free"]
  /\ UNCHANGED <<connVars, stage, reader, olMessageHandlers, olMessages, queueLock,
                 threadVars>>

-----------------------------------------------------------------------------
(* The message loop *)

\* The peers' heights are copied, then the queue is locked for the whole pass.
\* (A pass over an empty queue changes nothing and is left out.)
LookAtHeights(n) ==
  /\ up[n] /\ loop[n] = "top" /\ MapIsFree(n)
  /\ loop' = [loop EXCEPT ![n] = "looked"]
  /\ UNCHANGED <<connVars, stage, reader, olMessageHandlers, olMessages, mapLock,
                 queueLock, sending, toBeat, answers, toAsk, beats, asks>>

BeginPass(n) ==
  /\ up[n] /\ loop[n] = "looked" /\ queueLock[n] = "free"
  /\ olMessages[n] # <<>>
  /\ queueLock' = [queueLock EXCEPT ![n] = "loop"]
  /\ loop' = [loop EXCEPT ![n] = "pass"]
  /\ UNCHANGED <<connVars, stage, reader, olMessageHandlers, olMessages, mapLock,
                 sending, toBeat, answers, toAsk, beats, asks>>

EndPass(n) ==
  /\ up[n] /\ loop[n] = "pass" /\ sending[n]["loop"] = NoConn
  /\ olMessages[n] = <<>>
  /\ UnlockQueue(n)
  /\ loop' = [loop EXCEPT ![n] = "top"]
  /\ UNCHANGED <<connVars, stage, reader, olMessageHandlers, olMessages, mapLock,
                 sending, toBeat, answers, toAsk, beats, asks>>

\* The next message is of the type and comes from the peer.
Pop(n, type, p) ==
  /\ up[n] /\ loop[n] = "pass" /\ sending[n]["loop"] = NoConn
  /\ olMessages[n] # <<>>
  /\ Head(olMessages[n]) = [PeerID |-> p, Type |-> type]
  /\ olMessages' = [olMessages EXCEPT ![n] = Tail(@)]

BugSetHeight(n, p) ==
  olMessageHandlers' =
    [olMessageHandlers EXCEPT ![n][p] = [@ EXCEPT !.connected = TRUE, !.known = TRUE]]

SetHeight(n, p) ==
  olMessageHandlers' = [olMessageHandlers EXCEPT ![n][p].known = TRUE]

\* BLOCK: the height goes into the map.  The handler of a peer that is not in the
\* map has no connection, and asking it for its address is a panic.
HandleBlock(n, p) ==
  /\ Pop(n, "BLOCK", p)
  /\ MapIsFree(n)
  /\ \/ /\ Registered(n, p)
        /\ SetHeight(n, p)
        /\ UNCHANGED <<up, dead>>
     \/ ~ Registered(n, p) /\ Dies(n) /\ UNCHANGED olMessageHandlers
  /\ UNCHANGED <<wire, stage, reader, mapLock, queueLock, threadVars>>

\* GET_BLOCK: the answer is written under both locks.
HandleGetBlock(n, p) ==
  /\ Pop(n, "GET_BLOCK", p)
  /\ MapIsFree(n)
  /\ IF olMessageHandlers[n][p].connected
     THEN /\ mapLock' = [mapLock EXCEPT ![n] = "loop"]
          /\ sending' = [sending EXCEPT ![n]["loop"] = olMessageHandlers[n][p].conn]
     ELSE UNCHANGED <<mapLock, sending>>
  /\ UNCHANGED <<connVars, stage, reader, olMessageHandlers, queueLock, loop, toBeat,
                 answers, toAsk, beats, asks>>

SendHighestBlock(n) ==
  LET c == sending[n]["loop"] IN
  /\ up[n] /\ c # NoConn
  /\ Written(c, n, "BLOCK") \/ WriteFails(c, n)
  /\ sending' = [sending EXCEPT ![n]["loop"] = NoConn]
  /\ mapLock' = [mapLock EXCEPT ![n] = "free"]
  /\ UNCHANGED <<up, stage, reader, olMessageHandlers, olMessages, queueLock, loop,
                 toBeat, answers, toAsk, beats, asks>>

\* GET_DATA: a goroutine of its own answers.
HandleGetData(n, p) ==
  /\ Pop(n, "GET_DATA", p)
  /\ MapIsFree(n)
  /\ \/ /\ Registered(n, p)
        /\ answers' = [answers EXCEPT ![n][p] = @ + 1]
        /\ UNCHANGED <<up, dead>>
     \/ ~ Registered(n, p) /\ Dies(n) /\ UNCHANGED answers
  /\ UNCHANGED <<wire, stage, reader, olMessageHandlers, mapLock, queueLock, loop,
                 sending, toBeat, toAsk, beats, asks>>

\* DATA: the blocks go to the store or the tree.
HandleData(n, p) ==
  /\ Pop(n, "DATA", p)
  /\ UNCHANGED <<connVars, stage, reader, olMessageHandlers, mapLock, queueLock,
                 threadVars>>

\* The goroutine ends without an answer if a block cannot be found, or the peer
\* is not connected any more.
StartAnswer(n, p) ==
  /\ up[n] /\ answers[n][p] > 0
  /\ answers' = [answers EXCEPT ![n][p] = @ - 1]
  /\ \/ /\ MapIsFree(n) /\ olMessageHandlers[n][p].connected
        /\ mapLock' = [mapLock EXCEPT ![n] = "answer"]
        /\ sending' = [sending EXCEPT ![n]["answer"] = olMessageHandlers[n][p].conn]
     \/ UNCHANGED <<mapLock, sending>>
  /\ UNCHANGED <<connVars, stage, reader, olMessageHandlers, olMessages, queueLock, loop,
                 toBeat, toAsk, beats, asks>>

SendAnswer(n) ==
  LET c == sending[n]["answer"] IN
  /\ up[n] /\ c # NoConn
  /\ \/ Written(c, n, "DATA") /\ UNCHANGED olMessageHandlers
     \/ WriteFails(c, n) /\ MarkClosed(n, Other(c, n))
  /\ sending' = [sending EXCEPT ![n]["answer"] = NoConn]
  /\ mapLock' = [mapLock EXCEPT ![n] = "free"]
  /\ UNCHANGED <<up, stage, reader, olMessages, queueLock, loop, toBeat, answers, toAsk,
                 beats, asks>>

-----------------------------------------------------------------------------
(* The download thread, and its loop after the download *)

\* The handlers are copied under the map's lock; the copies are asked later.
StartRound(n) ==
  LET known == {p \in ConnectedPeers(n) : olMessageHandlers[n][p].known} IN
  /\ up[n] /\ toAsk[n] = {} /\ sending[n]["asker"] = NoConn
  /\ MapIsFree(n) /\ known # {}
  /\ asks[n] < MaxAsks[n]
  /\ asks' = [asks EXCEPT ![n] = @ + 1]
  /\ toAsk' = [toAsk EXCEPT ![n] = {olMessageHandlers[n][p].conn : p \in known}]
  /\ UNCHANGED <<connVars, stage, reader, olMessageHandlers, olMessages, mapLock,
                 queueLock, loop, sending, toBeat, answers, beats>>

StartAsking(n, c) ==
  /\ up[n] /\ c \in toAsk[n] /\ queueLock[n] = "free"
  /\ queueLock' = [queueLock EXCEPT ![n] = "asker"]
  /\ toAsk' = [toAsk EXCEPT ![n] = @ \ {c}]
  /\ sending' = [sending EXCEPT ![n]["asker"] = c]
  /\ UNCHANGED <<connVars, stage, reader, olMessageHandlers, olMessages, mapLock, loop,
                 toBeat, answers, beats, asks>>

\* During the download a request that fails is skipped; after it, it is fatal.
SendRequest(n) ==
  LET c == sending[n]["asker"] IN
  /\ up[n] /\ c # NoConn
  /\ \/ Written(c, n, "GET_DATA") /\ UNCHANGED up
     \/ n \in Syncing /\ WriteFails(c, n) /\ UNCHANGED up
     \/ n \notin Syncing /\ dead[c] # {} /\ Dies(n) /\ UNCHANGED wire
  /\ sending' = [sending EXCEPT ![n]["asker"] = NoConn]
  /\ UnlockQueue(n)
  /\ UNCHANGED <<stage, reader, olMessageHandlers, olMessages, mapLock, loop, toBeat,
                 answers, toAsk, beats, asks>>

-----------------------------------------------------------------------------
\* No goroutine is under way.
Idle ==
  /\ up = [n \in Nodes |-> TRUE]
  /\ dead = [c \in Dials |-> {}]
  /\ wire = [c \in Dials |-> [n \in Nodes |-> <<>>]]
  /\ olMessages = [n \in Nodes |-> <<>>]
  /\ mapLock = [n \in Nodes |-> "free"]
  /\ queueLock = [n \in Nodes |-> "free"]
  /\ loop = [n \in Nodes |-> "top"]
  /\ sending = [n \in Nodes |-> [t \in Threads |-> NoConn]]
  /\ toBeat = [n \in Nodes |-> {}]
  /\ answers = [n \in Nodes |-> [p \in Nodes |-> 0]]
  /\ toAsk = [n \in Nodes |-> {}]
  /\ beats = [n \in Nodes |-> 0]
  /\ asks = [n \in Nodes |-> 0]

Init ==
  /\ Idle
  /\ stage = [c \in Dials |-> [n \in Nodes |-> "none"]]
  /\ reader = [c \in Dials |-> [n \in Nodes |-> "off"]]
  /\ olMessageHandlers = [n \in Nodes |-> [p \in Nodes |-> ZeroHandler]]

\* Later: all connections are made, and the first BLOCK on each is handled.
Settled ==
  /\ Idle
  /\ stage = [c \in Dials |-> [n \in Nodes |-> IF IsEnd(c, n) THEN "done" ELSE "none"]]
  /\ reader = [c \in Dials |-> [n \in Nodes |-> IF IsEnd(c, n) THEN "reading" ELSE "off"]]
  /\ olMessageHandlers =
       [n \in Nodes |-> [p \in Nodes |->
          IF \E c \in Dials : Between(c, n, p)
          THEN [conn |-> CHOOSE c \in Dials : Between(c, n, p),
                connected |-> TRUE, known |-> TRUE]
          ELSE ZeroHandler]]

SetUp(c) == StartDialedReader(c) \/ RegisterDialed(c) \/ AcceptConnection(c)

Reader(c, n) ==
  /\ IsEnd(c, n)
  /\ ReadMessage(c, n) \/ AppendMessage(c, n) \/ StopReading(c, n)

Heartbeat(n) ==
  \/ StartHeartbeat(n) \/ SendHeartbeat(n) \/ EndHeartbeat(n)
  \/ \E p \in Nodes : NextBeat(n, p)

Handle(n, p) ==
  HandleBlock(n, p) \/ HandleGetBlock(n, p) \/ HandleGetData(n, p) \/ HandleData(n, p)

MessageLoop(n) ==
  \/ LookAtHeights(n) \/ BeginPass(n) \/ EndPass(n) \/ SendHighestBlock(n)
  \/ \E p \in Nodes : Handle(n, p)

Answer(n) == SendAnswer(n) \/ \E p \in Nodes : StartAnswer(n, p)

Ask(n) == SendRequest(n) \/ \E c \in Dials : StartAsking(n, c)

Next ==
  \/ \E c \in Dials : \/ Connect(c) \/ SetUp(c)
                      \/ \E n \in Nodes : Break(c, n) \/ Reader(c, n)
  \/ \E n \in Nodes : \/ Expunge(n) \/ Heartbeat(n) \/ MessageLoop(n)
                      \/ Answer(n) \/ StartRound(n) \/ Ask(n)

Spec == Init /\ [][Next]_vars

\* No goroutine is ever stopped.  Whether there is anything to ask a peer for is
\* not the node's choice, so rounds need not start.
Fairness ==
  /\ \A c \in Dials : WF_vars(SetUp(c)) /\ \A n \in Nodes : WF_vars(Reader(c, n))
  /\ \A n \in Nodes : /\ WF_vars(Expunge(n)) /\ WF_vars(Heartbeat(n))
                      /\ WF_vars(MessageLoop(n)) /\ WF_vars(Answer(n)) /\ WF_vars(Ask(n))

FairSpec == Spec /\ Fairness

SettledSpec == Settled /\ [][Next]_vars /\ Fairness

-----------------------------------------------------------------------------
ConnectionsOK ==
  /\ up \in [Nodes -> BOOLEAN]
  /\ dead \in [Dials -> SUBSET Nodes]
  /\ wire \in [Dials -> [Nodes -> Seq(Types)]]

ReadersOK ==
  /\ stage \in [Dials -> [Nodes -> {"none", "shaken", "running", "done"}]]
  /\ reader \in [Dials -> [Nodes -> {"off", "reading", "stopped"} \cup Types]]

HandlersOK == olMessageHandlers \in [Nodes -> [Nodes -> Handlers]]

QueueOK == olMessages \in [Nodes -> Seq([PeerID : Nodes, Type : Types])]

LocksOK ==
  /\ mapLock \in [Nodes -> {"free", "loop", "heartbeat", "answer"}]
  /\ queueLock \in [Nodes -> {"free", "loop", "asker"}]
  /\ loop \in [Nodes -> {"top", "looked", "pass"}]

SendingOK == sending \in [Nodes -> [Threads -> Dials \cup {NoConn}]]

AnswersOK == answers \in [Nodes -> [Nodes -> Nat]]

PeersLeftOK ==
  /\ toBeat \in [Nodes -> SUBSET Nodes]
  /\ toAsk \in [Nodes -> SUBSET Dials]
  /\ beats \in [Nodes -> Nat] /\ asks \in [Nodes -> Nat]

TypeOK ==
  /\ ConnectionsOK /\ ReadersOK /\ HandlersOK /\ QueueOK
  /\ LocksOK /\ SendingOK /\ AnswersOK /\ PeersLeftOK

\* Who waits in Write has the lock it needs and nobody else has it, and what a
\* goroutine under the map's lock writes to is still the handler in the map: it
\* marks the handler of the connection that failed, and no newer one.  (The
\* heartbeat, the message loop, the answering goroutines, the download thread.)
WritersHoldTheirLock ==
  \A n \in Nodes :
    /\ \A t \in {"loop", "heartbeat", "answer"} :
         LET c == sending[n][t] IN
         c # NoConn => /\ mapLock[n] = t
                       /\ olMessageHandlers[n][Other(c, n)].conn = c
                       /\ olMessageHandlers[n][Other(c, n)].connected
    /\ sending[n]["asker"] # NoConn => queueLock[n] = "asker"
    /\ sending[n]["loop"] # NoConn => queueLock[n] = "loop"

\* What is not connected is closed: no connection that still works drops out of
\* the map.  (The callers of Write, the expunging goroutine.)
UnconnectedIsClosed ==
  \A n, p \in Nodes :
    LET h == olMessageHandlers[n][p] IN
    Registered(n, p) /\ ~ h.connected => n \in dead[h.conn]

\* The messages of peer p that node n has read and not yet handled.
Pending(n, p) ==
  \/ \E i \in DOMAIN olMessages[n] : olMessages[n][i].PeerID = p
  \/ \E c \in Dials : Between(c, n, p) /\ reader[c][n] \in Types

Known(n, p) ==
  \/ Registered(n, p)
  \/ \E c \in Dials : Between(c, n, p) /\ (stage[c][n] = "running" \/ n \in dead[c])

\* A message is from a peer that is in the map, unless the dialing goroutine has
\* not put it there yet or the connection was closed on this side: these are the
\* only ways to the message loop's panic.  (Accept and dial, Run, expunging.)
SendersAreKnown == \A n, p \in Nodes : Pending(n, p) => Known(n, p)

-----------------------------------------------------------------------------
(* The inductive strengthening, for the proofs *)

\* A handler is that of a connection with its peer.
HandlersFit ==
  \A n, p \in Nodes :
    /\ Registered(n, p) => Between(olMessageHandlers[n][p].conn, n, p)
    /\ olMessageHandlers[n][p].connected => Registered(n, p)

\* What the heartbeat and the message loop have begun they do under their lock.
LocksAreHeld ==
  \A n \in Nodes :
    /\ toBeat[n] # {} => mapLock[n] = "heartbeat"
    /\ toBeat[n] \subseteq ConnectedPeers(n)
    /\ sending[n]["heartbeat"] # NoConn => Other(sending[n]["heartbeat"], n) \in toBeat[n]
    /\ loop[n] = "pass" => queueLock[n] = "loop"

\* Whoever was read from once stays known, and so do the senders in the queue.
ReadersAreKnown ==
  /\ \A c \in Dials : stage[c][c[2]] # "running"
  /\ \A c \in Dials, n \in Nodes :
       IsEnd(c, n) /\ reader[c][n] # "off" => Known(n, Other(c, n))
  /\ \A n \in Nodes : \A i \in DOMAIN olMessages[n] : Known(n, olMessages[n][i].PeerID)

HandlersInv ==
  /\ TypeOK
  /\ HandlersFit /\ UnconnectedIsClosed
  /\ WritersHoldTheirLock /\ LocksAreHeld
  /\ ReadersAreKnown

-----------------------------------------------------------------------------
(* Action properties and liveness *)

\* A handler that was marked as closed stays so until it is expunged, and one
\* that works is never taken out, whatever copies of it are written back.
NeverRevived ==
  [][\A n, p \in Nodes :
       LET h == olMessageHandlers[n][p] IN
       /\ Registered(n, p) /\ olMessageHandlers'[n][p].conn = h.conn =>
            (olMessageHandlers'[n][p].connected => h.connected)
       /\ h.connected => olMessageHandlers'[n][p].conn = h.conn]_vars

\* "setup a loop to remove disconnected peers": handlers of dead connections do
\* not stay in the maps, whichever end and whichever goroutine closed them.
\* (Heartbeat, expunging.)
DeadAreExpunged ==
  []<>(\A n, p \in Nodes :
         up[n] /\ Registered(n, p) => dead[olMessageHandlers[n][p].conn] = {})

\* "put the message into the queue": no message waits for ever between its reader
\* and the queue.  (Run, and all that happens under the queue's lock.)
ReadersGetOn ==
  []<>(\A c \in Dials, n \in Nodes : up[n] => reader[c][n] \notin Types)

=============================================================================
