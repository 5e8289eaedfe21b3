------------------------- MODULE PeerHandlersProofs -------------------------
(***************************************************************************)
(* Proofs about PeerHandlers, for any set of nodes and of connections:     *)
(* types, the discipline of the two locks, and that the handler map keeps  *)
(* what the readers, the queue and the writing goroutines rely on.         *)
(*                                                                         *)
(* The inductive invariant is HandlersInv.  UnconnectedIsClosed needs      *)
(* WritersHoldTheirLock (a goroutine marks the handler of the connection   *)
(* that failed, and no newer one); that needs LocksAreHeld; and            *)
(* ReadersAreKnown needs UnconnectedIsClosed (what is expunged is closed). *)
(***************************************************************************)
EXTENDS PeerHandlers, TLAPS

-----------------------------------------------------------------------------
(* Lemmas on connections and on what the helpers return *)

\* A connection has two ends, both nodes, and is not the zero handler's.
LEMMA Ends ==
  ASSUME NEW c \in Dials
  PROVE  /\ c[1] \in Nodes /\ c[2] \in Nodes /\ c[1] # c[2] /\ c # NoConn
         /\ \A n \in Nodes : Other(c, n) \in Nodes
BY NetworkAssumption DEF NoConn, Other

\* Changing one entry of a map of maps.
LEMMA Entry ==
  ASSUME NEW A, NEW B, NEW V, NEW f \in [A -> [B -> V]],
         NEW a \in A, NEW b \in B, NEW v \in V
  PROVE  [f EXCEPT ![a][b] = v] \in [A -> [B -> V]]
OBVIOUS

LEMMA MarkTypes ==
  ASSUME HandlersOK, NEW n \in Nodes, NEW p \in Nodes,
         MarkClosed(n, p) \/ SetHeight(n, p)
  PROVE  HandlersOK'
<1>1. olMessageHandlers[n][p] \in Handlers
  BY DEF HandlersOK
<1>2. /\ [olMessageHandlers[n][p] EXCEPT !.connected = FALSE] \in Handlers
      /\ [olMessageHandlers[n][p] EXCEPT !.known = TRUE] \in Handlers
  BY <1>1 DEF Handlers
<1>3. CASE MarkClosed(n, p)
  BY <1>2, <1>3, Entry DEF HandlersOK, MarkClosed
<1>4. CASE SetHeight(n, p)
  BY <1>2, <1>4, Entry DEF HandlersOK, SetHeight
<1>5. QED
  BY <1>3, <1>4

LEMMA InsertTypes ==
  ASSUME HandlersOK, NEW c \in Dials, NEW n \in Nodes, Insert(c, n)
  PROVE  HandlersOK'
<1>1. Other(c, n) \in Nodes
  BY Ends
<1>2. NewHandler(c) \in Handlers /\ olMessageHandlers[n][Other(c, n)] \in Handlers
  BY <1>1 DEF HandlersOK, Handlers, NewHandler
<1>3. QED
  BY <1>1, <1>2, Entry DEF HandlersOK, Insert

LEMMA CloseTypes ==
  ASSUME ConnectionsOK, NEW c \in Dials, NEW n \in Nodes, Close(c, n)
  PROVE  dead' \in [Dials -> SUBSET Nodes]
BY DEF ConnectionsOK, Close

LEMMA WriteTypes ==
  ASSUME ConnectionsOK, NEW c \in Dials, NEW n \in Nodes, NEW type \in Types,
         Written(c, n, type) \/ WriteFails(c, n)
  PROVE  /\ wire' \in [Dials -> [Nodes -> Seq(Types)]]
         /\ dead' \in [Dials -> SUBSET Nodes]
<1>1. wire[c][n] \in Seq(Types)
  BY DEF ConnectionsOK
<1>2. Append(wire[c][n], type) \in Seq(Types)
  BY <1>1
<1>3. CASE wire' = [wire EXCEPT ![c][n] = Append(@, type)] /\ UNCHANGED dead
  BY <1>2, <1>3, Entry DEF ConnectionsOK
<1>4. CASE UNCHANGED wire /\ Close(c, n)
  BY <1>4, CloseTypes DEF ConnectionsOK
<1>5. QED
  BY <1>3, <1>4 DEF Written, WriteFails

LEMMA DieTypes ==
  ASSUME ConnectionsOK, NEW n \in Nodes, Dies(n)
  PROVE  up' \in [Nodes -> BOOLEAN] /\ dead' \in [Dials -> SUBSET Nodes]
BY DEF ConnectionsOK, Dies

\* The next message is taken from the queue.
LEMMA PopTypes ==
  ASSUME QueueOK, NEW n \in Nodes, NEW p \in Nodes, NEW type, Pop(n, type, p)
  PROVE  QueueOK'
<1>1. olMessages[n] \in Seq([PeerID : Nodes, Type : Types]) /\ olMessages[n] # <<>>
  BY DEF QueueOK, Pop
<1>2. Tail(olMessages[n]) \in Seq([PeerID : Nodes, Type : Types])
  BY <1>1
<1>3. QED
  BY <1>2 DEF QueueOK, Pop

-----------------------------------------------------------------------------
(* Type correctness, one step per action *)

LEMMA TypeStep ==
  ASSUME TypeOK, HandlersFit, [Next]_vars
  PROVE  TypeOK'
<1> USE DEF TypeOK, connVars, threadVars
<1>1. CASE UNCHANGED vars
  BY <1>1 DEF vars, ConnectionsOK, ReadersOK, HandlersOK, QueueOK, LocksOK, SendingOK,
     AnswersOK, PeersLeftOK
<1>2. ASSUME NEW c \in Dials, Connect(c)
      PROVE  TypeOK'
  <2>1. <<"BLOCK">> \in Seq(Types)
    BY <1>2 DEF Connect, Types
  <2>2. ConnectionsOK'
    BY <1>2, <2>1 DEF Connect, ConnectionsOK
  <2>3. ReadersOK'
    BY <1>2 DEF Connect, ReadersOK
  <2>4. QED
    BY <1>2, <2>2, <2>3 DEF Connect, HandlersOK, QueueOK, LocksOK, SendingOK,
       AnswersOK, PeersLeftOK
<1>3. ASSUME NEW c \in Dials, StartDialedReader(c)
      PROVE  TypeOK'
  <2>1. c[1] \in Nodes
    BY <1>3, Ends DEF StartDialedReader
  <2>2. ReadersOK'
    BY <1>3, <2>1, Entry DEF StartDialedReader, ReadersOK
  <2>3. QED
    BY <1>3, <2>2 DEF StartDialedReader, ConnectionsOK, HandlersOK, QueueOK, LocksOK,
       SendingOK, AnswersOK, PeersLeftOK
<1>4. ASSUME NEW c \in Dials, RegisterDialed(c)
      PROVE  TypeOK'
  <2>1. c[1] \in Nodes
    BY <1>4, Ends DEF RegisterDialed
  <2>2. HandlersOK'
    BY <1>4, <2>1, InsertTypes DEF RegisterDialed, HandlersOK
  <2>3. ReadersOK'
    BY <1>4, <2>1, Entry DEF RegisterDialed, ReadersOK
  <2>4. QED
    BY <1>4, <2>2, <2>3 DEF RegisterDialed, ConnectionsOK, QueueOK, LocksOK,
       SendingOK, AnswersOK, PeersLeftOK
<1>5. ASSUME NEW c \in Dials, AcceptConnection(c)
      PROVE  TypeOK'
  <2>1. c[2] \in Nodes
    BY <1>5, Ends DEF AcceptConnection
  <2>2. ConnectionsOK'
    BY <1>5, <2>1, CloseTypes DEF AcceptConnection, ConnectionsOK
  <2>3. HandlersOK'
    BY <1>5, <2>1, InsertTypes DEF AcceptConnection, HandlersOK
  <2>4. stage' \in [Dials -> [Nodes -> {"none", "shaken", "running", "done"}]]
    BY <1>5, <2>1, Entry DEF AcceptConnection, ReadersOK
  <2>5. [reader EXCEPT ![c][c[2]] = "reading"]
        \in [Dials -> [Nodes -> {"off", "reading", "stopped"} \cup Types]]
    BY <2>1, Entry DEF ReadersOK
  <2>6. reader' = [reader EXCEPT ![c][c[2]] = "reading"] \/ reader' = reader
    BY <1>5 DEF AcceptConnection
  <2>7. ReadersOK'
    BY <2>4, <2>5, <2>6 DEF ReadersOK
  <2>8. QED
    BY <1>5, <2>2, <2>3, <2>7 DEF AcceptConnection, QueueOK, LocksOK, SendingOK,
       AnswersOK, PeersLeftOK
<1>6. ASSUME NEW c \in Dials, NEW n \in Nodes, Break(c, n)
      PROVE  TypeOK'
  <2>1. ConnectionsOK'
    BY <1>6, CloseTypes DEF Break, ConnectionsOK
  <2>2. QED
    BY <1>6, <2>1 DEF Break, ReadersOK, HandlersOK, QueueOK, LocksOK, SendingOK,
       AnswersOK, PeersLeftOK
<1>7. ASSUME NEW c \in Dials, NEW n \in Nodes, ReadMessage(c, n)
      PROVE  TypeOK'
  <2>1. /\ Other(c, n) \in Nodes
        /\ wire[c][Other(c, n)] \in Seq(Types) /\ wire[c][Other(c, n)] # <<>>
    BY <1>7, Ends DEF ReadMessage, ConnectionsOK
  <2>2. Head(wire[c][Other(c, n)]) \in Types /\ Tail(wire[c][Other(c, n)]) \in Seq(Types)
    BY <1>7, <2>1 DEF ReadMessage
  <2>3. ConnectionsOK'
    BY <1>7, <2>1, <2>2, Entry DEF ReadMessage, ConnectionsOK
  <2>4. ReadersOK'
    BY <1>7, <2>1, <2>2, Entry DEF ReadMessage, ReadersOK
  <2>5. QED
    BY <1>7, <2>3, <2>4 DEF ReadMessage, HandlersOK, QueueOK, LocksOK, SendingOK,
       AnswersOK, PeersLeftOK
<1>8. ASSUME NEW c \in Dials, NEW n \in Nodes, AppendMessage(c, n)
      PROVE  TypeOK'
  <2>1. olMessages[n] \in Seq([PeerID : Nodes, Type : Types])
    BY <1>8 DEF AppendMessage, QueueOK
  <2>2. [PeerID |-> Other(c, n), Type |-> reader[c][n]] \in [PeerID : Nodes, Type : Types]
    BY <1>8, Ends DEF AppendMessage
  <2>3. Append(olMessages[n], [PeerID |-> Other(c, n), Type |-> reader[c][n]])
        \in Seq([PeerID : Nodes, Type : Types])
    BY <1>8, <2>1, <2>2 DEF AppendMessage
  <2>4. QueueOK'
    BY <1>8, <2>1, <2>2, <2>3 DEF AppendMessage, QueueOK
  <2>5. ReadersOK'
    BY <1>8, Entry DEF AppendMessage, ReadersOK
  <2>6. QED
    BY <1>8, <2>4, <2>5 DEF AppendMessage, ConnectionsOK, HandlersOK, LocksOK,
       SendingOK, AnswersOK, PeersLeftOK
<1>9. ASSUME NEW c \in Dials, NEW n \in Nodes, StopReading(c, n)
      PROVE  TypeOK'
  <2>1. Other(c, n) \in Nodes /\ <<>> \in Seq(Types)
    BY <1>9, Ends DEF StopReading
  <2>2. ConnectionsOK'
    BY <1>9, <2>1, Entry DEF StopReading, ConnectionsOK
  <2>3. ReadersOK'
    BY <1>9, Entry DEF StopReading, ReadersOK
  <2>4. QED
    BY <1>9, <2>2, <2>3 DEF StopReading, HandlersOK, QueueOK, LocksOK, SendingOK,
       AnswersOK, PeersLeftOK
<1>10. ASSUME NEW n \in Nodes, Expunge(n)
      PROVE  TypeOK'
  <2>1. ZeroHandler \in Handlers
    BY <1>10 DEF Expunge, ZeroHandler, Handlers, NoConn
  <2>2. HandlersOK'
    BY <1>10, <2>1 DEF Expunge, HandlersOK
  <2>3. QED
    BY <1>10, <2>2 DEF Expunge, ConnectionsOK, ReadersOK, QueueOK, LocksOK, SendingOK,
       AnswersOK, PeersLeftOK
<1>11. ASSUME NEW n \in Nodes, StartHeartbeat(n)
      PROVE  TypeOK'
  <2>1. LocksOK'
    BY <1>11 DEF StartHeartbeat, LocksOK
  <2>2. PeersLeftOK'
    BY <1>11 DEF StartHeartbeat, PeersLeftOK, ConnectedPeers
  <2>3. QED
    BY <1>11, <2>1, <2>2 DEF StartHeartbeat, ConnectionsOK, ReadersOK, HandlersOK,
       QueueOK, SendingOK, AnswersOK
<1>12. ASSUME NEW n \in Nodes, NEW p \in Nodes, NextBeat(n, p)
      PROVE  TypeOK'
  <2>1. "heartbeat" \in Threads /\ olMessageHandlers[n][p].conn \in Dials \cup {NoConn}
    BY <1>12 DEF NextBeat, Threads, HandlersOK, Handlers
  <2>2. SendingOK'
    BY <1>12, <2>1, Entry DEF NextBeat, SendingOK
  <2>3. QED
    BY <1>12, <2>2 DEF NextBeat, ConnectionsOK, ReadersOK, HandlersOK, QueueOK,
       LocksOK, AnswersOK, PeersLeftOK
<1>13. ASSUME NEW n \in Nodes, SendHeartbeat(n)
      PROVE  TypeOK'
  <2>1. /\ sending[n]["heartbeat"] \in Dials /\ NoConn \in Dials \cup {NoConn}
        /\ "heartbeat" \in Threads /\ "GET_BLOCK" \in Types
        /\ Other(sending[n]["heartbeat"], n) \in Nodes
    BY <1>13, Ends DEF SendHeartbeat, SendingOK, Threads, Types
  <2>2. ConnectionsOK'
    BY <1>13, <2>1, WriteTypes DEF SendHeartbeat, ConnectionsOK
  <2>3. HandlersOK'
    BY <1>13, <2>1, MarkTypes DEF SendHeartbeat, HandlersOK
  <2>4. SendingOK'
    BY <1>13, <2>1, Entry DEF SendHeartbeat, SendingOK
  <2>5. PeersLeftOK'
    BY <1>13, <2>1 DEF SendHeartbeat, PeersLeftOK
  <2>6. QED
    BY <1>13, <2>2, <2>3, <2>4, <2>5 DEF SendHeartbeat, ReadersOK, QueueOK, LocksOK,
       AnswersOK
<1>14. ASSUME NEW n \in Nodes, EndHeartbeat(n)
      PROVE  TypeOK'
  <2>1. LocksOK'
    BY <1>14 DEF EndHeartbeat, LocksOK
  <2>2. QED
    BY <1>14, <2>1 DEF EndHeartbeat, ConnectionsOK, ReadersOK, HandlersOK, QueueOK,
       SendingOK, AnswersOK, PeersLeftOK
<1>15. ASSUME NEW n \in Nodes, LookAtHeights(n)
      PROVE  TypeOK'
  <2>1. LocksOK'
    BY <1>15 DEF LookAtHeights, LocksOK
  <2>2. QED
    BY <1>15, <2>1 DEF LookAtHeights, ConnectionsOK, ReadersOK, HandlersOK, QueueOK,
       SendingOK, AnswersOK, PeersLeftOK
<1>16. ASSUME NEW n \in Nodes, BeginPass(n)
      PROVE  TypeOK'
  <2>1. LocksOK'
    BY <1>16 DEF BeginPass, LocksOK
  <2>2. QED
    BY <1>16, <2>1 DEF BeginPass, ConnectionsOK, ReadersOK, HandlersOK, QueueOK,
       SendingOK, AnswersOK, PeersLeftOK
<1>17. ASSUME NEW n \in Nodes, EndPass(n)
      PROVE  TypeOK'
  <2>1. LocksOK'
    BY <1>17 DEF EndPass, LocksOK, UnlockQueue
  <2>2. QED
    BY <1>17, <2>1 DEF EndPass, ConnectionsOK, ReadersOK, HandlersOK, QueueOK,
       SendingOK, AnswersOK, PeersLeftOK
<1>18. ASSUME NEW n \in Nodes, NEW p \in Nodes, HandleBlock(n, p)
      PROVE  TypeOK'
  <2>1. ConnectionsOK'
    BY <1>18, DieTypes DEF HandleBlock, ConnectionsOK
  <2>2. HandlersOK'
    BY <1>18, MarkTypes DEF HandleBlock, HandlersOK
  <2>3. QueueOK'
    BY <1>18, PopTypes DEF HandleBlock, QueueOK
  <2>4. QED
    BY <1>18, <2>1, <2>2, <2>3 DEF HandleBlock, Pop, ReadersOK, LocksOK, SendingOK,
       AnswersOK, PeersLeftOK
<1>19. ASSUME NEW n \in Nodes, NEW p \in Nodes, HandleGetBlock(n, p)
      PROVE  TypeOK'
  <2>1. "loop" \in Threads /\ olMessageHandlers[n][p].conn \in Dials \cup {NoConn}
    BY <1>19 DEF HandleGetBlock, Threads, HandlersOK, Handlers
  <2>2. QueueOK'
    BY <1>19, PopTypes DEF HandleGetBlock, QueueOK
  <2>3. LocksOK'
    BY <1>19 DEF HandleGetBlock, LocksOK
  <2>4. [sending EXCEPT ![n]["loop"] = olMessageHandlers[n][p].conn]
        \in [Nodes -> [Threads -> Dials \cup {NoConn}]]
    BY <2>1, Entry DEF SendingOK
  <2>5. \/ sending' = sending
        \/ sending' = [sending EXCEPT ![n]["loop"] = olMessageHandlers[n][p].conn]
    BY <1>19 DEF HandleGetBlock
  <2>6. SendingOK'
    BY <2>4, <2>5 DEF SendingOK
  <2>7. QED
    BY <1>19, <2>2, <2>3, <2>6 DEF HandleGetBlock, Pop, ConnectionsOK, ReadersOK,
       HandlersOK, AnswersOK, PeersLeftOK
<1>20. ASSUME NEW n \in Nodes, NEW p \in Nodes, HandleGetData(n, p)
      PROVE  TypeOK'
  <2>1. answers[n][p] + 1 \in Nat
    BY <1>20 DEF HandleGetData, AnswersOK
  <2>2. ConnectionsOK'
    BY <1>20, DieTypes DEF HandleGetData, ConnectionsOK
  <2>3. QueueOK'
    BY <1>20, PopTypes DEF HandleGetData, QueueOK
  <2>4. [answers EXCEPT ![n][p] = answers[n][p] + 1] \in [Nodes -> [Nodes -> Nat]]
    BY <2>1, Entry DEF AnswersOK
  <2>5. \/ answers' = answers
        \/ answers' = [answers EXCEPT ![n][p] = answers[n][p] + 1]
    BY <1>20 DEF HandleGetData
  <2>6. AnswersOK'
    BY <2>4, <2>5 DEF AnswersOK
  <2>7. QED
    BY <1>20, <2>2, <2>3, <2>6 DEF HandleGetData, Pop, ReadersOK, HandlersOK, LocksOK,
       SendingOK, PeersLeftOK
<1>21. ASSUME NEW n \in Nodes, NEW p \in Nodes, HandleData(n, p)
      PROVE  TypeOK'
  <2>1. QueueOK'
    BY <1>21, PopTypes DEF HandleData, QueueOK
  <2>2. QED
    BY <1>21, <2>1 DEF HandleData, Pop, ConnectionsOK, ReadersOK, HandlersOK, LocksOK,
       SendingOK, AnswersOK, PeersLeftOK
<1>22. ASSUME NEW n \in Nodes, SendHighestBlock(n)
      PROVE  TypeOK'
  <2>1. /\ sending[n]["loop"] \in Dials /\ NoConn \in Dials \cup {NoConn}
        /\ "loop" \in Threads /\ "BLOCK" \in Types
        /\ Other(sending[n]["loop"], n) \in Nodes
    BY <1>22, Ends DEF SendHighestBlock, SendingOK, Threads, Types
  <2>2. ConnectionsOK'
    BY <1>22, <2>1, WriteTypes DEF SendHighestBlock, ConnectionsOK
  <2>3. LocksOK'
    BY <1>22 DEF SendHighestBlock, LocksOK
  <2>4. SendingOK'
    BY <1>22, <2>1, Entry DEF SendHighestBlock, SendingOK
  <2>5. QED
    BY <1>22, <2>2, <2>3, <2>4 DEF SendHighestBlock, ReadersOK, HandlersOK, QueueOK,
       AnswersOK, PeersLeftOK
<1>23. ASSUME NEW n \in Nodes, NEW p \in Nodes, StartAnswer(n, p)
      PROVE  TypeOK'
  <2>1. "answer" \in Threads /\ olMessageHandlers[n][p].conn \in Dials \cup {NoConn}
    BY <1>23 DEF StartAnswer, Threads, HandlersOK, Handlers
  <2>2. answers[n][p] - 1 \in Nat
    BY <1>23 DEF StartAnswer, AnswersOK
  <2>3. LocksOK'
    BY <1>23 DEF StartAnswer, LocksOK
  <2>4. [sending EXCEPT ![n]["answer"] = olMessageHandlers[n][p].conn]
        \in [Nodes -> [Threads -> Dials \cup {NoConn}]]
    BY <2>1, Entry DEF SendingOK
  <2>5. \/ sending' = sending
        \/ sending' = [sending EXCEPT ![n]["answer"] = olMessageHandlers[n][p].conn]
    BY <1>23 DEF StartAnswer
  <2>6. SendingOK'
    BY <2>4, <2>5 DEF SendingOK
  <2>7. AnswersOK'
    BY <1>23, <2>1, <2>2, Entry DEF StartAnswer, AnswersOK
  <2>8. QED
    BY <1>23, <2>3, <2>6, <2>7 DEF StartAnswer, ConnectionsOK, ReadersOK, HandlersOK,
       QueueOK, PeersLeftOK
<1>24. ASSUME NEW n \in Nodes, SendAnswer(n)
      PROVE  TypeOK'
  <2>1. /\ sending[n]["answer"] \in Dials /\ NoConn \in Dials \cup {NoConn}
        /\ "answer" \in Threads /\ "DATA" \in Types
        /\ Other(sending[n]["answer"], n) \in Nodes
    BY <1>24, Ends DEF SendAnswer, SendingOK, Threads, Types
  <2>2. ConnectionsOK'
    BY <1>24, <2>1, WriteTypes DEF SendAnswer, ConnectionsOK
  <2>3. HandlersOK'
    BY <1>24, <2>1, MarkTypes DEF SendAnswer, HandlersOK
  <2>4. LocksOK'
    BY <1>24 DEF SendAnswer, LocksOK
  <2>5. SendingOK'
    BY <1>24, <2>1, Entry DEF SendAnswer, SendingOK
  <2>6. QED
    BY <1>24, <2>2, <2>3, <2>4, <2>5 DEF SendAnswer, ReadersOK, QueueOK, AnswersOK,
       PeersLeftOK
<1>25. ASSUME NEW n \in Nodes, StartRound(n)
      PROVE  TypeOK'
  <2>1. \A p \in ConnectedPeers(n) :
          olMessageHandlers[n][p].known => olMessageHandlers[n][p].conn \in Dials
    BY <1>25 DEF StartRound, ConnectedPeers, HandlersFit, Registered, HandlersOK,
       Handlers
  <2>2. PeersLeftOK'
    BY <1>25, <2>1 DEF StartRound, PeersLeftOK
  <2>3. QED
    BY <1>25, <2>2 DEF StartRound, ConnectionsOK, ReadersOK, HandlersOK, QueueOK,
       LocksOK, SendingOK, AnswersOK
<1>26. ASSUME NEW n \in Nodes, NEW c \in Dials, StartAsking(n, c)
      PROVE  TypeOK'
  <2>1. "asker" \in Threads
    BY <1>26 DEF StartAsking, Threads
  <2>2. LocksOK'
    BY <1>26 DEF StartAsking, LocksOK
  <2>3. SendingOK'
    BY <1>26, <2>1, Entry DEF StartAsking, SendingOK
  <2>4. PeersLeftOK'
    BY <1>26 DEF StartAsking, PeersLeftOK
  <2>5. QED
    BY <1>26, <2>2, <2>3, <2>4 DEF StartAsking, ConnectionsOK, ReadersOK, HandlersOK,
       QueueOK, AnswersOK
<1>27. ASSUME NEW n \in Nodes, SendRequest(n)
      PROVE  TypeOK'
  <2>1. /\ sending[n]["asker"] \in Dials /\ NoConn \in Dials \cup {NoConn}
        /\ "asker" \in Threads /\ "GET_DATA" \in Types
        /\ Other(sending[n]["asker"], n) \in Nodes
    BY <1>27, Ends DEF SendRequest, SendingOK, Threads, Types
  <2>2. ConnectionsOK'
    BY <1>27, <2>1, WriteTypes, DieTypes DEF SendRequest, ConnectionsOK
  <2>3. LocksOK'
    BY <1>27 DEF SendRequest, LocksOK, UnlockQueue
  <2>4. SendingOK'
    BY <1>27, <2>1, Entry DEF SendRequest, SendingOK
  <2>5. QED
    BY <1>27, <2>2, <2>3, <2>4 DEF SendRequest, ReadersOK, HandlersOK, QueueOK,
       AnswersOK, PeersLeftOK
<1>28. QED
  BY <1>1, <1>2, <1>3, <1>4, <1>5, <1>6, <1>7, <1>8, <1>9, <1>10, <1>11, <1>12, <1>13,
     <1>14, <1>15, <1>16, <1>17, <1>18, <1>19, <1>20, <1>21, <1>22, <1>23, <1>24, <1>25,
     <1>26, <1>27 DEF Next, SetUp, Reader, Heartbeat, Handle, MessageLoop, Answer, Ask

-----------------------------------------------------------------------------
(* What a step may do to a handler and to a connection *)

\* The five things that may become of a handler in one step.
HandlerChange(n, p) ==
  LET h == olMessageHandlers[n][p]
      h2 == olMessageHandlers'[n][p]
  IN
  \/ h2 = h
  \/ ~ Registered(n, p) /\ \E c \in Dials : Between(c, n, p) /\ h2 = NewHandler(c)
  \/ ~ h.connected /\ h2 = ZeroHandler
  \/ /\ Registered(n, p) /\ n \in dead'[h.conn]
     /\ h2 = [h EXCEPT !.connected = FALSE]
  \/ Registered(n, p) /\ h2 = [h EXCEPT !.known = TRUE]

LEMMA InsertChanges ==
  ASSUME HandlersOK, NEW c \in Dials, NEW m \in Nodes, IsEnd(c, m), Insert(c, m),
         NEW n \in Nodes, NEW p \in Nodes
  PROVE  HandlerChange(n, p)
<1>1. Other(c, m) \in Nodes
  BY Ends
<1>2. CASE n = m /\ p = Other(c, m) /\ ~ Registered(n, p)
  <2>1. olMessageHandlers'[n][p] = NewHandler(c)
    BY <1>1, <1>2 DEF Insert, HandlersOK
  <2>2. QED
    BY <1>2, <2>1 DEF HandlerChange, Between
<1>3. CASE ~ (n = m /\ p = Other(c, m) /\ ~ Registered(n, p))
  <2>1. olMessageHandlers'[n][p] = olMessageHandlers[n][p]
    BY <1>1, <1>3 DEF Insert, HandlersOK
  <2>2. QED
    BY <2>1 DEF HandlerChange
<1>4. QED
  BY <1>2, <1>3

\* A goroutine whose Write failed marks the handler of just that connection.
LEMMA MarkChanges ==
  ASSUME HandlersOK, ConnectionsOK, NEW c \in Dials, NEW m \in Nodes,
         WriteFails(c, m), MarkClosed(m, Other(c, m)),
         olMessageHandlers[m][Other(c, m)].conn = c,
         NEW n \in Nodes, NEW p \in Nodes
  PROVE  HandlerChange(n, p)
<1>1. Other(c, m) \in Nodes /\ c # NoConn
  BY Ends
<1>2. CASE n = m /\ p = Other(c, m)
  <2>1. olMessageHandlers'[n][p] = [olMessageHandlers[n][p] EXCEPT !.connected = FALSE]
    BY <1>1, <1>2 DEF MarkClosed, HandlersOK
  <2>2. n \in dead'[c]
    BY <1>2 DEF WriteFails, Close, ConnectionsOK
  <2>3. QED
    BY <1>1, <1>2, <2>1, <2>2 DEF HandlerChange, Registered
<1>3. CASE ~ (n = m /\ p = Other(c, m))
  <2>1. olMessageHandlers'[n][p] = olMessageHandlers[n][p]
    BY <1>1, <1>3 DEF MarkClosed, HandlersOK
  <2>2. QED
    BY <2>1 DEF HandlerChange
<1>4. QED
  BY <1>2, <1>3

LEMMA HandlerChanges ==
  ASSUME TypeOK, WritersHoldTheirLock, [Next]_vars, NEW n \in Nodes, NEW p \in Nodes
  PROVE  HandlerChange(n, p)
<1> USE DEF TypeOK
<1>1. CASE UNCHANGED olMessageHandlers
  BY <1>1 DEF HandlerChange
<1>2. ASSUME NEW c \in Dials, RegisterDialed(c)
      PROVE  HandlerChange(n, p)
  BY <1>2, Ends, InsertChanges DEF RegisterDialed, IsEnd
<1>3. ASSUME NEW c \in Dials, AcceptConnection(c)
      PROVE  HandlerChange(n, p)
  <2>1. Insert(c, c[2]) \/ UNCHANGED olMessageHandlers
    BY <1>3 DEF AcceptConnection
  <2>2. QED
    BY <1>1, <2>1, Ends, InsertChanges DEF IsEnd
<1>4. ASSUME NEW m \in Nodes, Expunge(m)
      PROVE  HandlerChange(n, p)
  <2>1. \/ olMessageHandlers'[n][p] = olMessageHandlers[n][p]
        \/ /\ ~ olMessageHandlers[n][p].connected
           /\ olMessageHandlers'[n][p] = ZeroHandler
    BY <1>4 DEF Expunge, HandlersOK
  <2>2. QED
    BY <2>1 DEF HandlerChange
<1>5. ASSUME NEW m \in Nodes, SendHeartbeat(m) \/ SendAnswer(m)
      PROVE  HandlerChange(n, p)
  <2>1. PICK t \in {"heartbeat", "answer"} :
           /\ sending[m][t] # NoConn
           /\ \/ UNCHANGED olMessageHandlers
              \/ WriteFails(sending[m][t], m) /\ MarkClosed(m, Other(sending[m][t], m))
    BY <1>5 DEF SendHeartbeat, SendAnswer
  <2>2. sending[m][t] \in Dials
    BY <2>1 DEF SendingOK, Threads
  <2>3. olMessageHandlers[m][Other(sending[m][t], m)].conn = sending[m][t]
    BY <2>1 DEF WritersHoldTheirLock
  <2>4. QED
    BY <1>1, <2>1, <2>2, <2>3, MarkChanges
<1>6. ASSUME NEW m \in Nodes, NEW q \in Nodes, HandleBlock(m, q)
      PROVE  HandlerChange(n, p)
  <2>1. CASE UNCHANGED olMessageHandlers
    BY <1>1, <2>1
  <2>2. CASE Registered(m, q) /\ SetHeight(m, q)
    <3>1. \/ olMessageHandlers'[n][p] = olMessageHandlers[n][p]
          \/ /\ n = m /\ p = q
             /\ olMessageHandlers'[n][p] = [olMessageHandlers[n][p] EXCEPT !.known = TRUE]
      BY <2>2 DEF SetHeight, HandlersOK
    <3>2. QED
      BY <2>2, <3>1 DEF HandlerChange
  <2>3. QED
    BY <1>6, <2>1, <2>2 DEF HandleBlock
<1>7. CASE UNCHANGED vars
  BY <1>1, <1>7 DEF vars
<1>8. ASSUME NEW c \in Dials, Connect(c) \/ StartDialedReader(c)
      PROVE  HandlerChange(n, p)
  BY <1>1, <1>8 DEF Connect, StartDialedReader
<1>9. ASSUME NEW c \in Dials, NEW m \in Nodes, Break(c, m) \/ Reader(c, m)
      PROVE  HandlerChange(n, p)
  BY <1>1, <1>9 DEF Break, Reader, ReadMessage, AppendMessage, StopReading
<1>10. ASSUME NEW m \in Nodes, NEW q \in Nodes,
              HandleGetBlock(m, q) \/ HandleGetData(m, q) \/ HandleData(m, q)
              \/ NextBeat(m, q) \/ StartAnswer(m, q)
       PROVE  HandlerChange(n, p)
  BY <1>1, <1>10 DEF HandleGetBlock, HandleGetData, HandleData, NextBeat, StartAnswer
<1>11. ASSUME NEW m \in Nodes,
              \/ StartHeartbeat(m) \/ EndHeartbeat(m)
              \/ LookAtHeights(m) \/ BeginPass(m) \/ EndPass(m) \/ SendHighestBlock(m)
              \/ StartRound(m) \/ Ask(m)
       PROVE  HandlerChange(n, p)
  BY <1>1, <1>11 DEF StartHeartbeat, EndHeartbeat, LookAtHeights, BeginPass, EndPass,
     SendHighestBlock, StartRound, Ask, SendRequest, StartAsking
<1>12. QED
  BY <1>2, <1>3, <1>4, <1>5, <1>6, <1>7, <1>8, <1>9, <1>10, <1>11
     DEF Next, SetUp, Heartbeat, MessageLoop, Handle, Answer

\* The same, in the fields that the invariants look at.
LEMMA FieldChanges ==
  ASSUME TypeOK, WritersHoldTheirLock, [Next]_vars, NEW n \in Nodes, NEW p \in Nodes
  PROVE  LET h == olMessageHandlers[n][p]
             h2 == olMessageHandlers'[n][p]
         IN
         \/ h2.conn = h.conn /\ h2.connected = h.connected
         \/ h.conn = NoConn /\ h2.connected /\ h2.conn \in Dials /\ Between(h2.conn, n, p)
         \/ ~ h.connected /\ h2.conn = NoConn /\ ~ h2.connected
         \/ h.conn # NoConn /\ h2.conn = h.conn /\ ~ h2.connected /\ n \in dead'[h.conn]
<1> DEFINE h == olMessageHandlers[n][p]
           h2 == olMessageHandlers'[n][p]
<1>1. h \in Handlers
  BY DEF TypeOK, HandlersOK
<1>2. HandlerChange(n, p)
  BY HandlerChanges
<1>3. CASE h2 = [h EXCEPT !.known = TRUE]
  BY <1>1, <1>3 DEF Handlers
<1>4. CASE Registered(n, p) /\ n \in dead'[h.conn] /\ h2 = [h EXCEPT !.connected = FALSE]
  BY <1>1, <1>4 DEF Handlers, Registered
<1>5. CASE ~ Registered(n, p) /\ \E c \in Dials : Between(c, n, p) /\ h2 = NewHandler(c)
  <2>1. PICK c \in Dials : Between(c, n, p) /\ h2 = NewHandler(c)
    BY <1>5
  <2>2. h2.conn = c /\ h2.connected
    BY <2>1 DEF NewHandler
  <2>3. h.conn = NoConn
    BY <1>5 DEF Registered
  <2>4. QED
    BY <2>1, <2>2, <2>3
<1>6. CASE ~ h.connected /\ h2 = ZeroHandler
  <2>1. h2.conn = NoConn /\ ~ h2.connected
    BY <1>6 DEF ZeroHandler
  <2>2. QED
    BY <1>6, <2>1
<1>7. QED
  BY <1>2, <1>3, <1>4, <1>5, <1>6 DEF HandlerChange

\* An end that is closed stays closed.
LEMMA DeadGrows ==
  ASSUME TypeOK, [Next]_vars, NEW d \in Dials
  PROVE  dead[d] \subseteq dead'[d]
<1> USE DEF TypeOK
<1>1. CASE UNCHANGED dead
  BY <1>1
<1>2. ASSUME NEW c \in Dials, NEW m \in Nodes, Close(c, m)
      PROVE  dead[d] \subseteq dead'[d]
  BY <1>2 DEF Close, ConnectionsOK
<1>3. ASSUME NEW m \in Nodes, Dies(m)
      PROVE  dead[d] \subseteq dead'[d]
  BY <1>3 DEF Dies
<1>4. ASSUME NEW c \in Dials, Connect(c) \/ SetUp(c)
      PROVE  dead[d] \subseteq dead'[d]
  <2>1. UNCHANGED dead \/ Close(c, c[2])
    BY <1>4 DEF Connect, SetUp, StartDialedReader, RegisterDialed, AcceptConnection,
       connVars
  <2>2. QED
    BY <1>1, <1>2, <2>1, Ends
<1>5. ASSUME NEW c \in Dials, NEW m \in Nodes, Break(c, m) \/ Reader(c, m)
      PROVE  dead[d] \subseteq dead'[d]
  BY <1>1, <1>2, <1>5 DEF Break, Reader, ReadMessage, AppendMessage, StopReading,
     connVars
<1>6. ASSUME NEW m \in Nodes, NEW t \in Threads, NEW type,
             sending[m][t] # NoConn,
             \/ Written(sending[m][t], m, type)
             \/ WriteFails(sending[m][t], m)
             \/ Dies(m)
      PROVE  dead[d] \subseteq dead'[d]
  <2>1. sending[m][t] \in Dials
    BY <1>6 DEF SendingOK
  <2>2. QED
    BY <1>1, <1>2, <1>3, <1>6, <2>1 DEF Written, WriteFails
<1>7. ASSUME NEW m \in Nodes,
             SendHeartbeat(m) \/ SendHighestBlock(m) \/ SendAnswer(m) \/ SendRequest(m)
      PROVE  dead[d] \subseteq dead'[d]
  BY <1>6, <1>7 DEF SendHeartbeat, SendHighestBlock, SendAnswer, SendRequest, Threads
<1>8. ASSUME NEW m \in Nodes, NEW q \in Nodes, Handle(m, q)
      PROVE  dead[d] \subseteq dead'[d]
  BY <1>1, <1>3, <1>8 DEF Handle, HandleBlock, HandleGetBlock, HandleGetData,
     HandleData,
     connVars
<1>9. ASSUME NEW m \in Nodes, NEW q \in Nodes, NextBeat(m, q) \/ StartAnswer(m, q)
      PROVE  dead[d] \subseteq dead'[d]
  BY <1>1, <1>9 DEF NextBeat, StartAnswer, connVars
<1>10. ASSUME NEW m \in Nodes,
              \/ Expunge(m) \/ StartHeartbeat(m) \/ EndHeartbeat(m)
              \/ LookAtHeights(m) \/ BeginPass(m) \/ EndPass(m) \/ StartRound(m)
              \/ \E c \in Dials : StartAsking(m, c)
       PROVE  dead[d] \subseteq dead'[d]
  BY <1>1, <1>10 DEF Expunge, StartHeartbeat, EndHeartbeat, LookAtHeights, BeginPass,
     EndPass, StartRound, StartAsking, connVars
<1>11. CASE UNCHANGED vars
  BY <1>1, <1>11 DEF vars, connVars
<1>12. QED
  BY <1>4, <1>5, <1>7, <1>8, <1>9, <1>10, <1>11 DEF Next, Heartbeat, MessageLoop,
     Answer, Ask

-----------------------------------------------------------------------------
(* The parts of the invariant that are about the handler map *)

LEMMA FitStep ==
  ASSUME TypeOK, HandlersFit, WritersHoldTheirLock, [Next]_vars
  PROVE  HandlersFit'
<1> SUFFICES ASSUME NEW n \in Nodes, NEW p \in Nodes
             PROVE  LET h2 == olMessageHandlers'[n][p] IN
                    /\ h2.conn # NoConn => Between(h2.conn, n, p)
                    /\ h2.connected => h2.conn # NoConn
  BY DEF HandlersFit, Registered
<1> DEFINE h == olMessageHandlers[n][p]
           h2 == olMessageHandlers'[n][p]
<1>1. /\ h.conn # NoConn => Between(h.conn, n, p)
      /\ h.connected => h.conn # NoConn
  BY DEF HandlersFit, Registered
<1>2. \A d \in Dials : d # NoConn
  BY Ends
<1>3. QED
  BY <1>1, <1>2, FieldChanges

LEMMA ClosedStep ==
  ASSUME TypeOK, HandlersFit, WritersHoldTheirLock, UnconnectedIsClosed, [Next]_vars
  PROVE  UnconnectedIsClosed'
<1> SUFFICES ASSUME NEW n \in Nodes, NEW p \in Nodes,
                    olMessageHandlers'[n][p].conn # NoConn,
                    ~ olMessageHandlers'[n][p].connected
             PROVE  n \in dead'[olMessageHandlers'[n][p].conn]
  BY DEF UnconnectedIsClosed, Registered
<1>1. olMessageHandlers[n][p] \in Handlers
  BY DEF TypeOK, HandlersOK
<1>2. \A d \in Dials : dead[d] \subseteq dead'[d]
  BY DeadGrows
<1>3. QED
  BY <1>1, <1>2, FieldChanges DEF UnconnectedIsClosed, Registered, Handlers


-----------------------------------------------------------------------------
(* The locks: what a node's goroutines hold is the node's own business *)

\* WritersHoldTheirLock and LocksAreHeld, of one node.
LocksOf(n) ==
  /\ \A t \in {"loop", "heartbeat", "answer"} :
       sending[n][t] # NoConn =>
         /\ mapLock[n] = t
         /\ olMessageHandlers[n][Other(sending[n][t], n)].conn = sending[n][t]
         /\ olMessageHandlers[n][Other(sending[n][t], n)].connected
  /\ sending[n]["asker"] # NoConn => queueLock[n] = "asker"
  /\ sending[n]["loop"] # NoConn => queueLock[n] = "loop"
  /\ toBeat[n] # {} => mapLock[n] = "heartbeat"
  /\ \A p \in toBeat[n] : olMessageHandlers[n][p].connected
  /\ sending[n]["heartbeat"] # NoConn => Other(sending[n]["heartbeat"], n) \in toBeat[n]
  /\ loop[n] = "pass" => queueLock[n] = "loop"

\* Whether the goroutines of another node leave those of n alone.
Untouched(n) ==
  /\ sending'[n] = sending[n] /\ mapLock'[n] = mapLock[n] /\ queueLock'[n] = queueLock[n]
  /\ loop'[n] = loop[n] /\ toBeat'[n] = toBeat[n]
  /\ olMessageHandlers'[n] = olMessageHandlers[n]

LEMMA LocksParts ==
  ASSUME TypeOK
  PROVE  WritersHoldTheirLock /\ LocksAreHeld <=> \A n \in Nodes : LocksOf(n)
BY DEF TypeOK, PeersLeftOK, WritersHoldTheirLock, LocksAreHeld, LocksOf, ConnectedPeers

LEMMA UntouchedLocks ==
  ASSUME NEW n \in Nodes, LocksOf(n), Untouched(n)
  PROVE  LocksOf(n)'
BY DEF LocksOf, Untouched

\* Setting the connection that a goroutine writes to.
LEMMA SetSending ==
  ASSUME SendingOK, NEW m \in Nodes, NEW s \in Threads, NEW d,
         sending' = [sending EXCEPT ![m][s] = d]
  PROVE  /\ sending'[m][s] = d
         /\ \A t \in Threads : t # s => sending'[m][t] = sending[m][t]
         /\ \A n \in Nodes : n # m => sending'[n] = sending[n]
BY DEF SendingOK

\* Marking or inserting a handler leaves the maps of the other nodes alone.
LEMMA OtherMaps ==
  ASSUME HandlersOK, NEW m \in Nodes, NEW q, MarkClosed(m, q) \/ SetHeight(m, q)
  PROVE  \A n \in Nodes : n # m => olMessageHandlers'[n] = olMessageHandlers[n]
BY DEF HandlersOK, MarkClosed, SetHeight

\* Whoever takes the map's lock finds no goroutine of its node writing under it.
LEMMA FreeMap ==
  ASSUME NEW m \in Nodes, LocksOf(m), MapIsFree(m)
  PROVE  /\ \A t \in {"loop", "heartbeat", "answer"} : sending[m][t] = NoConn
         /\ toBeat[m] = {}
BY DEF LocksOf, MapIsFree

\* Under the free lock the handlers may change in any way.
LEMMA ChangeUnderLock ==
  ASSUME NEW m \in Nodes, LocksOf(m), MapIsFree(m),
         UNCHANGED <<sending, mapLock, queueLock, loop, toBeat>>,
         \A n \in Nodes : n # m => olMessageHandlers'[n] = olMessageHandlers[n],
         NEW n \in Nodes, LocksOf(n)
  PROVE  LocksOf(n)'
<1>1. CASE n # m
  BY <1>1 DEF LocksOf
<1>2. CASE n = m
  BY <1>2, FreeMap DEF LocksOf
<1>3. QED
  BY <1>1, <1>2

LEMMA LocksStep ==
  ASSUME TypeOK, HandlersFit, WritersHoldTheirLock, LocksAreHeld, [Next]_vars
  PROVE  WritersHoldTheirLock' /\ LocksAreHeld'
<1> SUFFICES ASSUME NEW n \in Nodes
             PROVE  LocksOf(n)'
  <2>1. TypeOK'
    BY TypeStep
  <2>2. \A n \in Nodes : LocksOf(n)'
    OBVIOUS
  <2>3. QED
    BY <2>1, <2>2 DEF TypeOK, PeersLeftOK, WritersHoldTheirLock, LocksAreHeld, LocksOf,
       ConnectedPeers
<1>0. \A m \in Nodes : LocksOf(m)
  BY LocksParts
<1> USE DEF TypeOK
<1>1. CASE UNCHANGED <<sending, mapLock, queueLock, loop, toBeat, olMessageHandlers>>
  BY <1>0, <1>1 DEF LocksOf
<1>2. ASSUME NEW c \in Dials, RegisterDialed(c)
      PROVE  LocksOf(n)'
  <2>1. \A k \in Nodes : k # c[1] => olMessageHandlers'[k] = olMessageHandlers[k]
    BY <1>2 DEF RegisterDialed, Insert, HandlersOK
  <2>2. QED
    BY <1>0, <1>2, <2>1, Ends, ChangeUnderLock DEF RegisterDialed, threadVars
<1>3. ASSUME NEW c \in Dials, AcceptConnection(c)
      PROVE  LocksOf(n)'
  <2>1. \A k \in Nodes : k # c[2] => olMessageHandlers'[k] = olMessageHandlers[k]
    BY <1>3 DEF AcceptConnection, Insert, HandlersOK
  <2>2. QED
    BY <1>0, <1>3, <2>1, Ends, ChangeUnderLock DEF AcceptConnection, threadVars
<1>4. ASSUME NEW m \in Nodes, Expunge(m)
      PROVE  LocksOf(n)'
  <2>1. \A k \in Nodes : k # m => olMessageHandlers'[k] = olMessageHandlers[k]
    BY <1>4 DEF Expunge, HandlersOK
  <2>2. QED
    BY <1>0, <1>4, <2>1, ChangeUnderLock DEF Expunge, threadVars
<1>5. ASSUME NEW m \in Nodes, NEW q \in Nodes, HandleBlock(m, q)
      PROVE  LocksOf(n)'
  <2>1. \A k \in Nodes : k # m => olMessageHandlers'[k] = olMessageHandlers[k]
    BY <1>5, OtherMaps DEF HandleBlock
  <2>2. QED
    BY <1>0, <1>5, <2>1, ChangeUnderLock DEF HandleBlock, threadVars
<1>6. ASSUME NEW m \in Nodes, n # m => Untouched(n), n = m => LocksOf(m)'
      PROVE  LocksOf(n)'
  BY <1>0, <1>6, UntouchedLocks
<1>7. ASSUME NEW m \in Nodes, StartHeartbeat(m)
      PROVE  LocksOf(n)'
  <2>1. n # m => Untouched(n)
    BY <1>7 DEF StartHeartbeat, Untouched, LocksOK, PeersLeftOK
  <2>2. \A t \in {"loop", "heartbeat", "answer"} : sending[m][t] = NoConn
    BY <1>0, <1>7, FreeMap DEF StartHeartbeat
  <2>3. toBeat'[m] = ConnectedPeers(m) /\ mapLock'[m] = "heartbeat"
    BY <1>7 DEF StartHeartbeat, LocksOK, PeersLeftOK
  <2>4. LocksOf(m)'
    BY <1>0, <1>7, <2>2, <2>3 DEF StartHeartbeat, LocksOf, ConnectedPeers
  <2>5. QED
    BY <1>6, <2>1, <2>4
<1>8. ASSUME NEW m \in Nodes, NEW q \in Nodes, NextBeat(m, q)
      PROVE  LocksOf(n)'
  <2> DEFINE c == olMessageHandlers[m][q].conn
  <2>1. /\ sending'[m]["heartbeat"] = c
        /\ \A t \in Threads : t # "heartbeat" => sending'[m][t] = sending[m][t]
        /\ n # m => sending'[n] = sending[n]
    <3>1. "heartbeat" \in Threads
      BY DEF Threads
    <3>2. sending' = [sending EXCEPT ![m]["heartbeat"] = c]
      BY <1>8 DEF NextBeat
    <3>3. QED
      BY <3>1, <3>2 DEF SendingOK
  <2>2. n # m => Untouched(n)
    BY <1>8, <2>1 DEF NextBeat, Untouched
  <2>3. olMessageHandlers[m][q].connected
    BY <1>0, <1>8 DEF NextBeat, LocksOf
  <2>4. c \in Dials /\ Other(c, m) = q
    BY <2>3 DEF HandlersFit, Registered, Between, HandlersOK, Handlers
  <2>5. LocksOf(m)'
    BY <1>0, <1>8, <2>1, <2>3, <2>4 DEF NextBeat, LocksOf, Threads
  <2>6. QED
    BY <1>6, <2>2, <2>5
<1>9. ASSUME NEW m \in Nodes, SendHeartbeat(m)
      PROVE  LocksOf(n)'
  <2> DEFINE c == sending[m]["heartbeat"]
  <2>1. /\ sending'[m]["heartbeat"] = NoConn
        /\ \A t \in Threads : t # "heartbeat" => sending'[m][t] = sending[m][t]
        /\ n # m => sending'[n] = sending[n]
    BY <1>9, SetSending DEF SendHeartbeat, Threads
  <2>2. n # m => olMessageHandlers'[n] = olMessageHandlers[n]
    BY <1>9, OtherMaps DEF SendHeartbeat
  <2>3. n # m => Untouched(n)
    BY <1>9, <2>1, <2>2 DEF SendHeartbeat, Untouched, PeersLeftOK
  <2>4. \A t \in {"loop", "answer"} : sending[m][t] = NoConn
    BY <1>0, <1>9 DEF SendHeartbeat, LocksOf
  <2>5. toBeat'[m] = toBeat[m] \ {Other(c, m)}
    BY <1>9 DEF SendHeartbeat, PeersLeftOK
  <2>6. \A p \in Nodes : p # Other(c, m) =>
          olMessageHandlers'[m][p] = olMessageHandlers[m][p]
    BY <1>9 DEF SendHeartbeat, MarkClosed, HandlersOK
  <2>7. \A p \in toBeat'[m] : olMessageHandlers'[m][p].connected
    BY <1>0, <2>5, <2>6 DEF LocksOf, PeersLeftOK
  <2>8. LocksOf(m)'
    BY <1>0, <1>9, <2>1, <2>4, <2>5, <2>7 DEF SendHeartbeat, LocksOf, Threads
  <2>9. QED
    BY <1>6, <2>3, <2>8
<1>10. ASSUME NEW m \in Nodes, EndHeartbeat(m)
       PROVE  LocksOf(n)'
  <2>1. n # m => Untouched(n)
    BY <1>10 DEF EndHeartbeat, Untouched, threadVars, LocksOK
  <2>2. \A t \in {"loop", "heartbeat", "answer"} : sending[m][t] = NoConn
    BY <1>0, <1>10 DEF EndHeartbeat, LocksOf
  <2>3. LocksOf(m)'
    BY <1>0, <1>10, <2>2 DEF EndHeartbeat, LocksOf, threadVars
  <2>4. QED
    BY <1>6, <2>1, <2>3
<1>11. ASSUME NEW m \in Nodes, BeginPass(m) \/ EndPass(m)
       PROVE  LocksOf(n)'
  <2>1. n # m => Untouched(n)
    BY <1>11 DEF BeginPass, EndPass, UnlockQueue, Untouched, LocksOK
  <2>2. sending[m]["asker"] = NoConn
    BY <1>0, <1>11 DEF BeginPass, EndPass, LocksOf
  <2>3. \/ queueLock'[m] = "loop"
        \/ sending[m]["loop"] = NoConn /\ loop'[m] = "top"
    BY <1>11 DEF BeginPass, EndPass, LocksOK
  <2>4. LocksOf(m)'
    BY <1>0, <1>11, <2>2, <2>3 DEF BeginPass, EndPass, LocksOf
  <2>5. QED
    BY <1>6, <2>1, <2>4
<1>12. ASSUME NEW m \in Nodes, LookAtHeights(m)
       PROVE  LocksOf(n)'
  <2>1. n # m => Untouched(n)
    BY <1>12 DEF LookAtHeights, Untouched, LocksOK
  <2>2. loop'[m] = "looked"
    BY <1>12 DEF LookAtHeights, LocksOK
  <2>3. LocksOf(m)'
    BY <1>0, <1>12, <2>2 DEF LookAtHeights, LocksOf
  <2>4. QED
    BY <1>6, <2>1, <2>3
<1>13. ASSUME NEW m \in Nodes, NEW q \in Nodes, NEW t \in {"loop", "answer"},
              MapIsFree(m), olMessageHandlers[m][q].connected,
              t = "loop" => queueLock[m] = "loop",
              mapLock' = [mapLock EXCEPT ![m] = t],
              sending' = [sending EXCEPT ![m][t] = olMessageHandlers[m][q].conn],
              UNCHANGED <<queueLock, loop, toBeat, olMessageHandlers>>
       PROVE  LocksOf(n)'
  <2> DEFINE c == olMessageHandlers[m][q].conn
  <2>1. /\ sending'[m][t] = c
        /\ \A s \in Threads : s # t => sending'[m][s] = sending[m][s]
        /\ n # m => sending'[n] = sending[n]
    <3>1. t \in Threads
      BY <1>13 DEF Threads
    <3>2. QED
      BY <1>13, <3>1 DEF SendingOK
  <2>2. mapLock'[m] = t /\ (n # m => mapLock'[n] = mapLock[n])
    BY <1>13 DEF LocksOK
  <2>3. n # m => Untouched(n)
    BY <1>13, <2>1, <2>2 DEF Untouched
  <2>4. \A s \in {"loop", "heartbeat", "answer"} : sending[m][s] = NoConn
    BY <1>0, <1>13, FreeMap
  <2>5. toBeat[m] = {}
    BY <1>0, <1>13, FreeMap
  <2>6. c \in Dials /\ Other(c, m) = q
    BY <1>13 DEF HandlersFit, Registered, Between, HandlersOK, Handlers
  <2>7. LocksOf(m)'
    BY <1>0, <1>13, <2>1, <2>2, <2>4, <2>5, <2>6 DEF LocksOf, Threads
  <2>8. QED
    BY <1>6, <2>3, <2>7
<1>14. ASSUME NEW m \in Nodes, NEW q \in Nodes, HandleGetBlock(m, q)
       PROVE  LocksOf(n)'
  <2>1. queueLock[m] = "loop"
    BY <1>0, <1>14 DEF HandleGetBlock, Pop, LocksOf
  <2>2. CASE olMessageHandlers[m][q].connected
    BY <1>13, <1>14, <2>1, <2>2 DEF HandleGetBlock
  <2>3. CASE ~ olMessageHandlers[m][q].connected
    BY <1>1, <1>14, <2>3 DEF HandleGetBlock
  <2>4. QED
    BY <2>2, <2>3
<1>15. ASSUME NEW m \in Nodes, NEW q \in Nodes, StartAnswer(m, q)
       PROVE  LocksOf(n)'
  <2>1. \/ /\ MapIsFree(m) /\ olMessageHandlers[m][q].connected
           /\ mapLock' = [mapLock EXCEPT ![m] = "answer"]
           /\ sending' = [sending EXCEPT ![m]["answer"] = olMessageHandlers[m][q].conn]
        \/ UNCHANGED <<mapLock, sending>>
    BY <1>15 DEF StartAnswer
  <2>2. UNCHANGED <<queueLock, loop, toBeat, olMessageHandlers>>
    BY <1>15 DEF StartAnswer
  <2>3. QED
    BY <1>1, <1>13, <2>1, <2>2
<1>16. ASSUME NEW m \in Nodes, NEW t \in {"loop", "answer"}, sending[m][t] # NoConn,
              mapLock' = [mapLock EXCEPT ![m] = "free"],
              sending' = [sending EXCEPT ![m][t] = NoConn],
              \A k \in Nodes : k # m => olMessageHandlers'[k] = olMessageHandlers[k],
              UNCHANGED <<queueLock, loop, toBeat>>
       PROVE  LocksOf(n)'
  <2>1. /\ sending'[m][t] = NoConn
        /\ \A s \in Threads : s # t => sending'[m][s] = sending[m][s]
        /\ n # m => sending'[n] = sending[n]
    <3>1. t \in Threads
      BY <1>16 DEF Threads
    <3>2. QED
      BY <1>16, <3>1 DEF SendingOK
  <2>2. n # m => Untouched(n)
    BY <1>16, <2>1 DEF Untouched, LocksOK
  <2>3. mapLock[m] = t
    BY <1>0, <1>16 DEF LocksOf
  <2>4. \A s \in {"loop", "heartbeat", "answer"} : s # t => sending[m][s] = NoConn
    BY <1>0, <2>3 DEF LocksOf
  <2>5. toBeat[m] = {}
    BY <1>0, <2>3 DEF LocksOf
  <2>6. LocksOf(m)'
    BY <1>0, <1>16, <2>1, <2>4, <2>5 DEF LocksOf, Threads
  <2>7. QED
    BY <1>6, <2>2, <2>6
<1>17. ASSUME NEW m \in Nodes, SendHighestBlock(m)
       PROVE  LocksOf(n)'
  BY <1>16, <1>17 DEF SendHighestBlock
<1>18. ASSUME NEW m \in Nodes, SendAnswer(m)
       PROVE  LocksOf(n)'
  <2>1. \A k \in Nodes : k # m => olMessageHandlers'[k] = olMessageHandlers[k]
    BY <1>18, OtherMaps DEF SendAnswer
  <2>2. QED
    BY <1>16, <1>18, <2>1 DEF SendAnswer
<1>19. ASSUME NEW m \in Nodes, NEW c \in Dials, StartAsking(m, c)
       PROVE  LocksOf(n)'
  <2>1. /\ sending'[m]["asker"] = c
        /\ \A s \in Threads : s # "asker" => sending'[m][s] = sending[m][s]
        /\ n # m => sending'[n] = sending[n]
    BY <1>19, SetSending DEF StartAsking, Threads
  <2>2. queueLock'[m] = "asker" /\ (n # m => queueLock'[n] = queueLock[n])
    BY <1>19 DEF StartAsking, LocksOK
  <2>3. n # m => Untouched(n)
    BY <1>19, <2>1, <2>2 DEF StartAsking, Untouched
  <2>4. sending[m]["loop"] = NoConn /\ loop[m] # "pass"
    BY <1>0, <1>19 DEF StartAsking, LocksOf
  <2>5. LocksOf(m)'
    BY <1>0, <1>19, <2>1, <2>2, <2>4 DEF StartAsking, LocksOf, Threads
  <2>6. QED
    BY <1>6, <2>3, <2>5
<1>20. ASSUME NEW m \in Nodes, SendRequest(m)
       PROVE  LocksOf(n)'
  <2>1. /\ sending'[m]["asker"] = NoConn
        /\ \A s \in Threads : s # "asker" => sending'[m][s] = sending[m][s]
        /\ n # m => sending'[n] = sending[n]
    BY <1>20, SetSending DEF SendRequest, Threads
  <2>2. n # m => Untouched(n)
    BY <1>20, <2>1 DEF SendRequest, UnlockQueue, Untouched, LocksOK
  <2>3. sending[m]["loop"] = NoConn /\ loop[m] # "pass"
    BY <1>0, <1>20 DEF SendRequest, LocksOf
  <2>4. LocksOf(m)'
    BY <1>0, <1>20, <2>1, <2>3 DEF SendRequest, LocksOf, Threads
  <2>5. QED
    BY <1>6, <2>2, <2>4
<1>21. CASE UNCHANGED vars
  BY <1>1, <1>21 DEF vars, threadVars
<1>22. ASSUME NEW c \in Dials, Connect(c) \/ StartDialedReader(c)
       PROVE  LocksOf(n)'
  BY <1>1, <1>22 DEF Connect, StartDialedReader, threadVars
<1>23. ASSUME NEW c \in Dials, NEW m \in Nodes, Break(c, m) \/ Reader(c, m)
       PROVE  LocksOf(n)'
  BY <1>1, <1>23 DEF Break, Reader, ReadMessage, AppendMessage, StopReading, threadVars
<1>24. ASSUME NEW m \in Nodes, NEW q \in Nodes, HandleGetData(m, q) \/ HandleData(m, q)
       PROVE  LocksOf(n)'
  BY <1>1, <1>24 DEF HandleGetData, HandleData, threadVars
<1>25. ASSUME NEW m \in Nodes, StartRound(m)
       PROVE  LocksOf(n)'
  BY <1>1, <1>25 DEF StartRound
<1>26. QED
  BY <1>2, <1>3, <1>4, <1>5, <1>7, <1>8, <1>9, <1>10, <1>11, <1>12, <1>14, <1>15, <1>17,
     <1>18, <1>19, <1>20, <1>21, <1>22, <1>23, <1>24, <1>25
     DEF Next, SetUp, Heartbeat, MessageLoop, Handle, Answer, Ask

-----------------------------------------------------------------------------
(* The senders: whoever was read from once is in the map, or was closed *)

\* A dialing goroutine leaves "running" only by putting its peer into the map.
LEMMA RunningEnds ==
  ASSUME TypeOK, [Next]_vars, NEW d \in Dials, NEW n \in Nodes,
         IsEnd(d, n), stage[d][n] = "running"
  PROVE  \/ stage'[d][n] = "running"
         \/ n = d[1] /\ RegisterDialed(d)
         \/ n = d[2]
<1> DEFINE Goal == stage'[d][n] = "running" \/ (n = d[1] /\ RegisterDialed(d)) \/ n = d[2]
<1> SUFFICES Goal
  OBVIOUS
<1> USE DEF TypeOK
<1>1. CASE UNCHANGED stage
  BY <1>1
<1>2. ASSUME NEW c \in Dials, Connect(c)
      PROVE  Goal
  BY <1>2 DEF Connect, ReadersOK, IsEnd
<1>3. ASSUME NEW c \in Dials, StartDialedReader(c)
      PROVE  Goal
  BY <1>3, Ends DEF StartDialedReader, ReadersOK
<1>4. ASSUME NEW c \in Dials, RegisterDialed(c)
      PROVE  Goal
  <2>1. CASE c = d /\ n = d[1]
    BY <1>4, <2>1
  <2>2. CASE ~ (c = d /\ n = d[1])
    BY <1>4, <2>2, Ends DEF RegisterDialed, ReadersOK
  <2>3. QED
    BY <2>1, <2>2
<1>5. ASSUME NEW c \in Dials, AcceptConnection(c)
      PROVE  Goal
  <2>1. stage' = [stage EXCEPT ![c][c[2]] = "done"]
    BY <1>5 DEF AcceptConnection
  <2>2. QED
    BY <2>1, Ends DEF ReadersOK
<1>6. ASSUME NEW c \in Dials, NEW m \in Nodes, Break(c, m) \/ Reader(c, m)
      PROVE  Goal
  BY <1>1, <1>6 DEF Break, Reader, ReadMessage, AppendMessage, StopReading
<1>7. ASSUME NEW m \in Nodes,
             \/ Expunge(m) \/ Heartbeat(m) \/ MessageLoop(m)
             \/ Answer(m) \/ StartRound(m) \/ Ask(m)
      PROVE  Goal
  <2>1. UNCHANGED stage
    BY <1>7 DEF Expunge, Heartbeat, StartHeartbeat, NextBeat, SendHeartbeat,
       EndHeartbeat,
       MessageLoop, LookAtHeights, BeginPass, EndPass, SendHighestBlock, Handle,
       HandleBlock, HandleGetBlock, HandleGetData, HandleData, Answer, StartAnswer, SendAnswer,
       StartRound, Ask, StartAsking, SendRequest
  <2>2. QED
    BY <1>1, <2>1
<1>8. CASE UNCHANGED vars
  BY <1>1, <1>8 DEF vars
<1>9. QED
  BY <1>2, <1>3, <1>4, <1>5, <1>6, <1>7, <1>8 DEF Next, SetUp

\* The listening end is never "running".
LEMMA ListenersStep ==
  ASSUME TypeOK, [Next]_vars, NEW d \in Dials, stage[d][d[2]] # "running"
  PROVE  stage'[d][d[2]] # "running"
<1> DEFINE Goal == stage'[d][d[2]] # "running"
<1> SUFFICES Goal
  OBVIOUS
<1> USE DEF TypeOK
<1>1. CASE UNCHANGED stage
  BY <1>1
<1>2. ASSUME NEW c \in Dials, Connect(c)
      PROVE  Goal
  BY <1>2, Ends DEF Connect, ReadersOK
<1>3. ASSUME NEW c \in Dials, StartDialedReader(c)
      PROVE  Goal
  BY <1>3, Ends DEF StartDialedReader, ReadersOK
<1>4. ASSUME NEW c \in Dials, RegisterDialed(c)
      PROVE  Goal
  BY <1>4, Ends DEF RegisterDialed, ReadersOK
<1>5. ASSUME NEW c \in Dials, AcceptConnection(c)
      PROVE  Goal
  <2>1. stage' = [stage EXCEPT ![c][c[2]] = "done"]
    BY <1>5 DEF AcceptConnection
  <2>2. QED
    BY <2>1, Ends DEF ReadersOK
<1>6. ASSUME NEW c \in Dials, NEW m \in Nodes, Break(c, m) \/ Reader(c, m)
      PROVE  Goal
  BY <1>1, <1>6 DEF Break, Reader, ReadMessage, AppendMessage, StopReading
<1>7. ASSUME NEW m \in Nodes,
             \/ Expunge(m) \/ Heartbeat(m) \/ MessageLoop(m)
             \/ Answer(m) \/ StartRound(m) \/ Ask(m)
      PROVE  Goal
  <2>1. UNCHANGED stage
    BY <1>7 DEF Expunge, Heartbeat, StartHeartbeat, NextBeat, SendHeartbeat,
       EndHeartbeat,
       MessageLoop, LookAtHeights, BeginPass, EndPass, SendHighestBlock, Handle,
       HandleBlock, HandleGetBlock, HandleGetData, HandleData, Answer, StartAnswer, SendAnswer,
       StartRound, Ask, StartAsking, SendRequest
  <2>2. QED
    BY <1>1, <2>1
<1>8. CASE UNCHANGED vars
  BY <1>1, <1>8 DEF vars
<1>9. QED
  BY <1>2, <1>3, <1>4, <1>5, <1>6, <1>7, <1>8 DEF Next, SetUp

\* A reader is started by the dialing goroutine, or when its peer enters the map.
LEMMA ReaderStarts ==
  ASSUME TypeOK, [Next]_vars, NEW d \in Dials, NEW n \in Nodes,
         IsEnd(d, n), reader[d][n] = "off"
  PROVE  \/ reader'[d][n] = "off"
         \/ n = d[1] /\ StartDialedReader(d)
         \/ n = d[2] /\ Insert(d, n)
<1> DEFINE Goal == \/ reader'[d][n] = "off"
                   \/ n = d[1] /\ StartDialedReader(d)
                   \/ n = d[2] /\ Insert(d, n)
<1> SUFFICES Goal
  OBVIOUS
<1> USE DEF TypeOK
<1>1. CASE UNCHANGED reader
  BY <1>1
<1>2. ASSUME NEW c \in Dials, StartDialedReader(c)
      PROVE  Goal
  <2>1. CASE c = d /\ n = d[1]
    BY <1>2, <2>1
  <2>2. CASE ~ (c = d /\ n = d[1])
    BY <1>2, <2>2, Ends DEF StartDialedReader, ReadersOK
  <2>3. QED
    BY <2>1, <2>2
<1>3. ASSUME NEW c \in Dials, AcceptConnection(c)
      PROVE  Goal
  <2>1. \/ UNCHANGED reader
        \/ reader' = [reader EXCEPT ![c][c[2]] = "reading"] /\ Insert(c, c[2])
    BY <1>3 DEF AcceptConnection
  <2>2. CASE c = d /\ n = d[2]
    BY <1>1, <2>1, <2>2
  <2>3. CASE ~ (c = d /\ n = d[2])
    BY <2>1, <2>3, Ends DEF ReadersOK
  <2>4. QED
    BY <2>2, <2>3
<1>4. ASSUME NEW c \in Dials, NEW m \in Nodes, Reader(c, m)
      PROVE  Goal
  <2>1. reader[c][m] # "off" /\ \E r : reader' = [reader EXCEPT ![c][m] = r]
    BY <1>4 DEF Reader, ReadMessage, AppendMessage, StopReading, Types
  <2>2. QED
    BY <2>1 DEF ReadersOK
<1>5. ASSUME NEW c \in Dials, Connect(c) \/ RegisterDialed(c)
      PROVE  Goal
  BY <1>1, <1>5 DEF Connect, RegisterDialed
<1>6. ASSUME NEW c \in Dials, NEW m \in Nodes, Break(c, m)
      PROVE  Goal
  BY <1>1, <1>6 DEF Break
<1>7. ASSUME NEW m \in Nodes,
             \/ Expunge(m) \/ Heartbeat(m) \/ MessageLoop(m)
             \/ Answer(m) \/ StartRound(m) \/ Ask(m)
      PROVE  Goal
  <2>1. UNCHANGED reader
    BY <1>7 DEF Expunge, Heartbeat, StartHeartbeat, NextBeat, SendHeartbeat,
       EndHeartbeat,
       MessageLoop, LookAtHeights, BeginPass, EndPass, SendHighestBlock, Handle,
       HandleBlock, HandleGetBlock, HandleGetData, HandleData, Answer, StartAnswer, SendAnswer,
       StartRound, Ask, StartAsking, SendRequest
  <2>2. QED
    BY <1>1, <2>1
<1>8. CASE UNCHANGED vars
  BY <1>1, <1>8 DEF vars
<1>9. QED
  BY <1>2, <1>3, <1>4, <1>5, <1>6, <1>7, <1>8 DEF Next, SetUp

\* The queue grows at its end by what a reader has read, and shrinks at its head.
LEMMA QueueChanges ==
  ASSUME TypeOK, [Next]_vars, NEW n \in Nodes
  PROVE  \/ olMessages'[n] = olMessages[n]
         \/ olMessages[n] # <<>> /\ olMessages'[n] = Tail(olMessages[n])
         \/ \E c \in Dials :
              /\ IsEnd(c, n) /\ reader[c][n] \in Types
              /\ olMessages'[n] =
                   Append(olMessages[n], [PeerID |-> Other(c, n), Type |-> reader[c][n]])
<1> DEFINE Goal ==
      \/ olMessages'[n] = olMessages[n]
      \/ olMessages[n] # <<>> /\ olMessages'[n] = Tail(olMessages[n])
      \/ \E c \in Dials :
           /\ IsEnd(c, n) /\ reader[c][n] \in Types
           /\ olMessages'[n] =
                Append(olMessages[n], [PeerID |-> Other(c, n), Type |-> reader[c][n]])
<1> SUFFICES Goal
  OBVIOUS
<1> USE DEF TypeOK
<1>1. CASE UNCHANGED olMessages
  BY <1>1
<1>2. ASSUME NEW c \in Dials, NEW m \in Nodes, Reader(c, m)
      PROVE  Goal
  <2>1. CASE ReadMessage(c, m) \/ StopReading(c, m)
    BY <1>1, <2>1 DEF ReadMessage, StopReading
  <2>2. CASE AppendMessage(c, m) /\ m = n
    <3>1. olMessages'[n] =
            Append(olMessages[n], [PeerID |-> Other(c, n), Type |-> reader[c][n]])
      BY <2>2 DEF AppendMessage, QueueOK
    <3>2. IsEnd(c, n) /\ reader[c][n] \in Types
      BY <1>2, <2>2 DEF Reader, AppendMessage
    <3>3. QED
      BY <3>1, <3>2
  <2>3. CASE AppendMessage(c, m) /\ m # n
    <3>1. olMessages'[n] = olMessages[n]
      BY <2>3 DEF AppendMessage, QueueOK
    <3>2. QED
      BY <3>1
  <2>4. QED
    BY <1>2, <2>1, <2>2, <2>3 DEF Reader
<1>3. ASSUME NEW m \in Nodes, NEW q \in Nodes, Handle(m, q)
      PROVE  Goal
  <2>1. \E type : Pop(m, type, q)
    BY <1>3 DEF Handle, HandleBlock, HandleGetBlock, HandleGetData, HandleData
  <2>2. QED
    BY <2>1 DEF Pop, QueueOK
<1>4. ASSUME NEW c \in Dials, Connect(c) \/ SetUp(c)
      PROVE  Goal
  BY <1>1, <1>4 DEF Connect, SetUp, StartDialedReader, RegisterDialed, AcceptConnection
<1>5. ASSUME NEW c \in Dials, NEW m \in Nodes, Break(c, m)
      PROVE  Goal
  BY <1>1, <1>5 DEF Break
<1>6. ASSUME NEW m \in Nodes,
             \/ Expunge(m) \/ Heartbeat(m) \/ Answer(m) \/ StartRound(m) \/ Ask(m)
             \/ LookAtHeights(m) \/ BeginPass(m) \/ EndPass(m) \/ SendHighestBlock(m)
      PROVE  Goal
  <2>1. UNCHANGED olMessages
    BY <1>6 DEF Expunge, Heartbeat, StartHeartbeat, NextBeat, SendHeartbeat,
       EndHeartbeat,
       LookAtHeights, BeginPass, EndPass, SendHighestBlock, Answer, StartAnswer, SendAnswer,
       StartRound, Ask, StartAsking, SendRequest
  <2>2. QED
    BY <1>1, <2>1
<1>7. CASE UNCHANGED vars
  BY <1>1, <1>7 DEF vars
<1>8. QED
  BY <1>2, <1>3, <1>4, <1>5, <1>6, <1>7 DEF Next, MessageLoop

LEMMA InsertRegisters ==
  ASSUME HandlersOK, NEW c \in Dials, NEW n \in Nodes, Insert(c, n)
  PROVE  Registered(n, Other(c, n))'
<1>1. Other(c, n) \in Nodes /\ c # NoConn
  BY Ends
<1>2. QED
  BY <1>1 DEF Insert, HandlersOK, Registered, NewHandler

LEMMA KnownStays ==
  ASSUME TypeOK, HandlersFit, UnconnectedIsClosed, WritersHoldTheirLock, ReadersAreKnown,
         [Next]_vars, NEW n \in Nodes, NEW p \in Nodes, Known(n, p)
  PROVE  Known(n, p)'
<1>1. CASE Registered(n, p)
  <2> DEFINE c == olMessageHandlers[n][p].conn
  <2>1. c \in Dials /\ c # NoConn /\ Between(c, n, p)
    BY <1>1 DEF HandlersFit, Registered, TypeOK, HandlersOK, Handlers
  <2>2. CASE olMessageHandlers'[n][p].conn # NoConn
    BY <2>2 DEF Known, Registered
  <2>3. CASE olMessageHandlers'[n][p].conn = NoConn
    <3>1. ~ olMessageHandlers[n][p].connected
      BY <2>1, <2>3, FieldChanges, Ends
    <3>2. n \in dead[c]
      BY <1>1, <3>1 DEF UnconnectedIsClosed
    <3>3. n \in dead'[c]
      BY <2>1, <3>2, DeadGrows
    <3>4. QED
      BY <2>1, <3>3 DEF Known, Between, IsEnd
  <2>4. QED
    BY <2>2, <2>3
<1>2. ASSUME NEW c \in Dials, Between(c, n, p), n \in dead[c]
      PROVE  Known(n, p)'
  <2>1. n \in dead'[c]
    BY <1>2, DeadGrows
  <2>2. QED
    BY <1>2, <2>1 DEF Known
<1>3. ASSUME NEW c \in Dials, Between(c, n, p), stage[c][n] = "running"
      PROVE  Known(n, p)'
  <2>1. IsEnd(c, n) /\ Other(c, n) = p /\ n # c[2]
    BY <1>3 DEF Between, ReadersAreKnown
  <2>2. CASE stage'[c][n] = "running"
    BY <1>3, <2>2 DEF Known
  <2>3. CASE n = c[1] /\ RegisterDialed(c)
    <3>1. Insert(c, n)
      BY <2>3 DEF RegisterDialed
    <3>2. Registered(n, p)'
      BY <2>1, <3>1, InsertRegisters DEF TypeOK
    <3>3. QED
      BY <3>2 DEF Known
  <2>4. QED
    BY <1>3, <2>1, <2>2, <2>3, RunningEnds
<1>4. QED
  BY <1>1, <1>2, <1>3 DEF Known

LEMMA ReadersStep ==
  ASSUME TypeOK, HandlersFit, UnconnectedIsClosed, WritersHoldTheirLock, ReadersAreKnown,
         [Next]_vars
  PROVE  ReadersAreKnown'
<1>1. ASSUME NEW c \in Dials
      PROVE  stage'[c][c[2]] # "running"
  BY ListenersStep DEF ReadersAreKnown
<1>2. ASSUME NEW c \in Dials, NEW n \in Nodes, IsEnd(c, n), reader'[c][n] # "off"
      PROVE  Known(n, Other(c, n))'
  <2>0. Other(c, n) \in Nodes /\ Between(c, n, Other(c, n))
    BY <1>2, Ends DEF Between
  <2>1. CASE reader[c][n] # "off"
    <3>1. Known(n, Other(c, n))
      BY <1>2, <2>1 DEF ReadersAreKnown
    <3>2. QED
      BY <2>0, <3>1, KnownStays
  <2>2. CASE n = c[1] /\ StartDialedReader(c)
    <3>1. stage'[c][n] = "running"
      BY <2>2 DEF StartDialedReader, TypeOK, ReadersOK
    <3>2. QED
      BY <2>0, <3>1 DEF Known
  <2>3. CASE Insert(c, n)
    <3>1. Registered(n, Other(c, n))'
      BY <2>3, InsertRegisters DEF TypeOK
    <3>2. QED
      BY <3>1 DEF Known
  <2>4. QED
    BY <1>2, <2>1, <2>2, <2>3, ReaderStarts
<1>3. ASSUME NEW n \in Nodes, NEW i \in DOMAIN olMessages'[n],
             NEW p \in Nodes, p = olMessages'[n][i].PeerID
      PROVE  Known(n, p)'
  <2> DEFINE q == olMessages[n]
  <2>1. q \in Seq([PeerID : Nodes, Type : Types])
    BY DEF TypeOK, QueueOK
  <2>2. ASSUME NEW j \in DOMAIN q, q[j].PeerID = p
        PROVE  Known(n, p)'
    <3>1. Known(n, p)
      BY <2>2 DEF ReadersAreKnown
    <3>2. QED
      BY <3>1, KnownStays
  <2>3. CASE olMessages'[n] = q
    BY <1>3, <2>2, <2>3
  <2>4. CASE q # <<>> /\ olMessages'[n] = Tail(q)
    <3>1. i + 1 \in DOMAIN q /\ olMessages'[n][i] = q[i + 1]
      BY <1>3, <2>1, <2>4
    <3>2. QED
      BY <1>3, <2>2, <3>1
  <2>5. ASSUME NEW c \in Dials, IsEnd(c, n), reader[c][n] \in Types,
               olMessages'[n] = Append(q, [PeerID |-> Other(c, n), Type |-> reader[c][n]])
        PROVE  Known(n, p)'
    <3>1. \/ i \in DOMAIN q /\ olMessages'[n][i] = q[i]
          \/ olMessages'[n][i] = [PeerID |-> Other(c, n), Type |-> reader[c][n]]
      BY <1>3, <2>1, <2>5
    <3>2. CASE i \in DOMAIN q /\ olMessages'[n][i] = q[i]
      BY <1>3, <2>2, <3>2
    <3>3. CASE olMessages'[n][i] = [PeerID |-> Other(c, n), Type |-> reader[c][n]]
      <4>1. p = Other(c, n)
        BY <1>3, <3>3
      <4>2. Known(n, p)
        BY <2>5, <4>1 DEF ReadersAreKnown, Types
      <4>3. QED
        BY <4>2, KnownStays
    <3>4. QED
      BY <3>1, <3>2, <3>3
  <2>6. QED
    BY <2>3, <2>4, <2>5, QueueChanges
<1>4. \A n \in Nodes : \A i \in DOMAIN olMessages'[n] : olMessages'[n][i].PeerID \in Nodes
  <2>1. \A n \in Nodes : olMessages'[n] \in Seq([PeerID : Nodes, Type : Types])
    BY TypeStep DEF TypeOK, QueueOK
  <2>2. \A n \in Nodes : \A i \in DOMAIN olMessages'[n] :
          olMessages'[n][i] \in [PeerID : Nodes, Type : Types]
    <3>1. ASSUME NEW M, NEW s \in Seq(M), NEW i \in DOMAIN s
          PROVE  s[i] \in M
      BY <3>1
    <3>2. QED
      BY <2>1, <3>1
  <2>3. QED
    BY <2>2
<1>5. (\A n \in Nodes : \A i \in DOMAIN olMessages[n] : Known(n, olMessages[n][i].PeerID))'
  BY <1>3, <1>4 DEF Known, Registered
<1>6. (\A c \in Dials, n \in Nodes :
         IsEnd(c, n) /\ reader[c][n] # "off" => Known(n, Other(c, n)))'
  BY <1>2
<1>7. QED
  BY <1>1, <1>5, <1>6 DEF ReadersAreKnown

LEMMA SendersFollow ==
  ASSUME ReadersAreKnown
  PROVE  SendersAreKnown
<1> SUFFICES ASSUME NEW n \in Nodes, NEW p \in Nodes, Pending(n, p)
             PROVE  Known(n, p)
  BY DEF SendersAreKnown
<1>1. CASE \E i \in DOMAIN olMessages[n] : olMessages[n][i].PeerID = p
  BY <1>1 DEF ReadersAreKnown
<1>2. CASE \E c \in Dials : Between(c, n, p) /\ reader[c][n] \in Types
  <2>1. PICK c \in Dials : Between(c, n, p) /\ reader[c][n] \in Types
    BY <1>2
  <2>2. reader[c][n] # "off"
    BY <2>1 DEF Types
  <2>3. QED
    BY <2>1, <2>2 DEF ReadersAreKnown, Between
<1>3. QED
  BY <1>1, <1>2 DEF Pending

-----------------------------------------------------------------------------
(* The theorems, of a network that starts up and of one that is set up *)

LEMMA InitInv ==
  Init => HandlersInv
<1> SUFFICES ASSUME Init
             PROVE  HandlersInv
  OBVIOUS
<1> USE DEF Init, Idle
<1>1. \A n, p \in Nodes : /\ olMessageHandlers[n][p].conn = NoConn
                          /\ ~ olMessageHandlers[n][p].connected
  BY DEF ZeroHandler
<1>2. ConnectionsOK /\ ReadersOK /\ QueueOK /\ LocksOK
  BY DEF ConnectionsOK, ReadersOK, QueueOK, LocksOK
<1>3. HandlersOK /\ SendingOK /\ AnswersOK /\ PeersLeftOK
  BY DEF HandlersOK, Handlers, ZeroHandler, NoConn, SendingOK, AnswersOK, PeersLeftOK
<1>4. HandlersFit /\ UnconnectedIsClosed
  BY <1>1 DEF HandlersFit, UnconnectedIsClosed, Registered
<1>5. WritersHoldTheirLock
  BY DEF WritersHoldTheirLock, Threads
<1>6. LocksAreHeld
  BY DEF LocksAreHeld, Threads
<1>7. ReadersAreKnown
  BY Ends DEF ReadersAreKnown
<1>8. QED
  BY <1>2, <1>3, <1>4, <1>5, <1>6, <1>7 DEF HandlersInv, TypeOK

LEMMA SettledInv ==
  Settled => HandlersInv
<1> SUFFICES ASSUME Settled
             PROVE  HandlersInv
  OBVIOUS
<1> USE DEF Settled, Idle
<1>1. ASSUME NEW n \in Nodes, NEW p \in Nodes
      PROVE  \/ /\ olMessageHandlers[n][p] = ZeroHandler
                /\ ~ \E c \in Dials : Between(c, n, p)
             \/ \E c \in Dials :
                  /\ Between(c, n, p)
                  /\ olMessageHandlers[n][p] =
                       [conn |-> c, connected |-> TRUE, known |-> TRUE]
  <2>1. CASE \E c \in Dials : Between(c, n, p)
    <3> DEFINE d == CHOOSE c \in Dials : Between(c, n, p)
    <3>1. d \in Dials /\ Between(d, n, p)
      BY <2>1
    <3>2. olMessageHandlers[n][p] = [conn |-> d, connected |-> TRUE, known |-> TRUE]
      BY <2>1
    <3>3. QED
      BY <3>1, <3>2
  <2>2. CASE ~ \E c \in Dials : Between(c, n, p)
    BY <2>2
  <2>3. QED
    BY <2>1, <2>2
<1>2. ConnectionsOK /\ ReadersOK /\ QueueOK /\ LocksOK
  BY DEF ConnectionsOK, ReadersOK, QueueOK, LocksOK
<1>3. SendingOK /\ AnswersOK /\ PeersLeftOK
  BY DEF SendingOK, AnswersOK, PeersLeftOK
<1>4. HandlersOK
  <2>1. \A n, p \in Nodes : olMessageHandlers[n][p] \in Handlers
    BY <1>1 DEF Handlers, ZeroHandler, NoConn
  <2>2. olMessageHandlers = [n \in Nodes |-> [p \in Nodes |-> olMessageHandlers[n][p]]]
    OBVIOUS
  <2>3. QED
    BY <2>1, <2>2 DEF HandlersOK
<1>5. HandlersFit /\ UnconnectedIsClosed
  <2>1. ASSUME NEW n \in Nodes, NEW p \in Nodes
        PROVE  LET h == olMessageHandlers[n][p] IN
               \/ h.conn = NoConn /\ ~ h.connected
               \/ h.conn \in Dials /\ Between(h.conn, n, p) /\ h.connected
    <3>1. CASE olMessageHandlers[n][p] = ZeroHandler
      BY <3>1 DEF ZeroHandler
    <3>2. ASSUME NEW c \in Dials, Between(c, n, p),
                 olMessageHandlers[n][p] = [conn |-> c, connected |-> TRUE, known |-> TRUE]
          PROVE  /\ olMessageHandlers[n][p].conn = c
                 /\ olMessageHandlers[n][p].connected
      BY <3>2
    <3>3. QED
      BY <1>1, <3>1, <3>2
  <2>2. QED
    BY <2>1, Ends DEF HandlersFit, UnconnectedIsClosed, Registered
<1>6. WritersHoldTheirLock
  BY DEF WritersHoldTheirLock, Threads
<1>7. LocksAreHeld
  BY DEF LocksAreHeld, Threads
<1>8. ReadersAreKnown
  <2>1. ASSUME NEW c \in Dials, NEW n \in Nodes, IsEnd(c, n)
        PROVE  Known(n, Other(c, n))
    <3>1. Other(c, n) \in Nodes /\ Between(c, n, Other(c, n))
      BY <2>1, Ends DEF Between
    <3>2. PICK d \in Dials : olMessageHandlers[n][Other(c, n)] =
                               [conn |-> d, connected |-> TRUE, known |-> TRUE]
      BY <1>1, <3>1
    <3>3. olMessageHandlers[n][Other(c, n)].conn = d
      BY <3>2
    <3>4. QED
      BY <3>3, Ends DEF Known, Registered
  <2>2. \A c \in Dials : stage[c][c[2]] # "running"
    BY Ends
  <2>3. \A n \in Nodes : DOMAIN olMessages[n] = {}
    <3>1. \A n \in Nodes : olMessages[n] = <<>>
      OBVIOUS
    <3>2. DOMAIN <<>> = {}
      OBVIOUS
    <3>3. QED
      BY <3>1, <3>2
  <2>4. QED
    BY <2>1, <2>2, <2>3 DEF ReadersAreKnown
<1>9. QED
  BY <1>2, <1>3, <1>4, <1>5, <1>6, <1>7, <1>8 DEF HandlersInv, TypeOK

LEMMA InvStep ==
  HandlersInv /\ [Next]_vars => HandlersInv'
BY TypeStep, FitStep, ClosedStep, LocksStep, ReadersStep DEF HandlersInv

\* The inductive invariant: what the handler map, the locks, the readers and the
\* queue of every node have to do with each other.
THEOREM HandlersInvariant ==
  Spec \/ SettledSpec => []HandlersInv
BY InitInv, SettledInv, InvStep, PTL DEF Spec, SettledSpec

\* The variables have their types, in a network that starts up.
THEOREM TypeCorrect ==
  Spec => []TypeOK
<1>1. HandlersInv => TypeOK
  BY DEF HandlersInv
<1>2. QED
  BY <1>1, HandlersInvariant, PTL

\* Two goroutines never write under one lock, and what one writes to under the
\* map's lock is the connection in the map.
THEOREM WritersAreAlone ==
  Spec \/ SettledSpec => []WritersHoldTheirLock
<1>1. HandlersInv => WritersHoldTheirLock
  BY DEF HandlersInv
<1>2. QED
  BY <1>1, HandlersInvariant, PTL

\* No connection that still works is taken for closed.
THEOREM OnlyClosedAreUnconnected ==
  Spec \/ SettledSpec => []UnconnectedIsClosed
<1>1. HandlersInv => UnconnectedIsClosed
  BY DEF HandlersInv
<1>2. QED
  BY <1>1, HandlersInvariant, PTL

\* The message loop finds the sender of a message in the map, except while the
\* dialing goroutine is late and after the connection was closed on this side.
THEOREM SendersHaveHandlers ==
  Spec \/ SettledSpec => []SendersAreKnown
<1>1. HandlersInv => SendersAreKnown
  BY SendersFollow DEF HandlersInv
<1>2. QED
  BY <1>1, HandlersInvariant, PTL

\* The copies that goroutines write back never revive a handler that was closed,
\* nor remove one that works.
THEOREM HandlersAreNotRevived ==
  Spec \/ SettledSpec => NeverRevived
<1>1. ASSUME HandlersInv, [Next]_vars, NEW n \in Nodes, NEW p \in Nodes
      PROVE  LET h == olMessageHandlers[n][p] IN
             /\ Registered(n, p) /\ olMessageHandlers'[n][p].conn = h.conn =>
                  (olMessageHandlers'[n][p].connected => h.connected)
             /\ h.connected => olMessageHandlers'[n][p].conn = h.conn
  <2>1. olMessageHandlers[n][p].connected => olMessageHandlers[n][p].conn # NoConn
    BY <1>1 DEF HandlersInv, HandlersFit, Registered
  <2>2. QED
    BY <1>1, <2>1, FieldChanges DEF HandlersInv, Registered
<1>2. HandlersInv /\ [Next]_vars =>
        [\A n, p \in Nodes :
           LET h == olMessageHandlers[n][p] IN
           /\ Registered(n, p) /\ olMessageHandlers'[n][p].conn = h.conn =>
                (olMessageHandlers'[n][p].connected => h.connected)
           /\ h.connected => olMessageHandlers'[n][p].conn = h.conn]_vars
  BY <1>1
<1>3. QED
  BY <1>2, HandlersInvariant, PTL DEF Spec, SettledSpec, NeverRevived

=============================================================================
