--------------------------- MODULE MessageFraming ---------------------------
(***************************************************************************)
(* How one side of a connection cuts the byte stream from its peer into    *)
(* messages (handshake_peer and OverlineMessageHandler.Run,                *)
(* src/node/node.go).                                                      *)
(*                                                                         *)
(* The stream is the peer's greeting (a length and its id) and then its    *)
(* messages, each behind a length in four bytes.  A read returns some of   *)
(* the bytes that are left, wherever that cuts the stream.  A byte is the  *)
(* pair of its message, 0 for the greeting, and its place in it.           *)
(***************************************************************************)
EXTENDS Integers, SequencesExt

CONSTANTS
  IdLen,        \* the length of the peer's id
  BodyLens,     \* the lengths of its messages, in order
  Zeros,        \* the bytes of message bodies that are zero
  BufferSize    \* the size of buf

ASSUME StreamAssumption ==
  /\ IdLen \in Nat \ {0}
  /\ BodyLens \in Seq(Nat \ {0, 1})
  /\ \A z \in Zeros : z \in (DOMAIN BodyLens) \X Nat /\ z[2] > 4
  /\ BufferSize \in Nat /\ BufferSize > IdLen + 4

Prefix(m) == [i \in 1..4 |-> <<m, i>>]
Body(m) == [i \in 1..BodyLens[m] |-> <<m, i + 4>>]
Greeting == [i \in 1..(IdLen + 1) |-> <<0, i>>]
Messages == [m \in DOMAIN BodyLens |-> Body(m)]
Stream == Greeting \o FlattenSeq([m \in DOMAIN BodyLens |-> Prefix(m) \o Body(m)])

VARIABLES
  pos,              \* bytes read so far
  buf,              \* buf[:buflen]
  currentMessage,   \* what is there of a message that no read has completed
  msgLen,           \* its length
  queued,           \* the messages put into the queue
  pc,               \* the place in the code: greeting, greetingRest, top, messageRest, lost
  calm              \* history: no read has cut the stream at a delicate place

vars == <<pos, buf, currentMessage, msgLen, queued, pc, calm>>

\* A message that ends in a zero, or has one before its last byte.
ZeroTail(m) == {<<m, BodyLens[m] + 3>>, <<m, BodyLens[m] + 4>>} \cap Zeros # {}

\* Before its nth byte the stream should not be cut: inside a length, inside a
\* message with a zero at its end, and twice inside the greeting.
Delicate(n) ==
  LET m == Stream[n][1] IN
  /\ n <= Len(Stream)
  /\ IF m = 0 THEN pc # "greeting"
              ELSE Stream[n][2] \in 2..4 \/ (Stream[n][2] > 4 /\ ZeroTail(m))

\* A read of n bytes into the buffer behind the first k.
Read(n, k) ==
  /\ n <= BufferSize - k /\ pos + n <= Len(Stream)
  /\ pos' = pos + n
  /\ calm' = (calm /\ ~ Delicate(pos + n + 1))
Received(n) == SubSeq(Stream, pos + 1, pos + n)

\* The process ends, or the reader takes other bytes for a length: it waits for a
\* message that never comes, or ends the process over one that is none.
Lost == pc' = "lost" /\ UNCHANGED <<buf, currentMessage, msgLen, queued>>

-----------------------------------------------------------------------------
(* handshake_peer *)

\* The greeting is cut off; a length behind nothing is a slice out of range.
EndGreeting(bytes) ==
  \/ /\ Len(bytes) > IdLen
     /\ buf' = SubSeq(bytes, IdLen + 2, Len(bytes))
     /\ pc' = "top"
     /\ UNCHANGED <<currentMessage, msgLen, queued>>
  \/ Len(bytes) <= IdLen /\ Lost

\* A first read that is too short is followed by one more.
ReadGreeting ==
  /\ pc = "greeting"
  /\ \E n \in 1..BufferSize :
       /\ Read(n, 0)
       /\ \/ n > IdLen /\ EndGreeting(Received(n))
          \/ /\ n <= IdLen
             /\ buf' = Received(n)
             /\ pc' = "greetingRest"
             /\ UNCHANGED <<currentMessage, msgLen, queued>>

ReadRestOfGreeting ==
  /\ pc = "greetingRest"
  /\ \E n \in 1..BufferSize :
       /\ Read(n, Len(buf))
       /\ EndGreeting(buf \o Received(n))

-----------------------------------------------------------------------------
(* Run *)

\* The buffer keeps what comes behind a message.
BugAdvance(bytes, cursor) == buf' = <<>>
Advance(bytes, cursor) == buf' = SubSeq(bytes, cursor + 1, Len(bytes))

BugIncomplete(n, L) == n - 4 <= L
Incomplete(n, L) == n - 4 < L

\* What the loop makes of the buffer; n is what the last read returned, or all
\* that is there when nothing was read.
Cut(bytes, n) ==
  LET m == bytes[1][1]
      L == BodyLens[m]
  IN
  \/ (n < 4 \/ ~ IsPrefix(Prefix(m), bytes)) /\ Lost
  \/ /\ n >= 4 /\ IsPrefix(Prefix(m), bytes)
     /\ IF Incomplete(n, L)
        THEN /\ currentMessage' = SubSeq(bytes, 5, n)
             /\ msgLen' = L
             /\ pc' = "messageRest"
             /\ buf' = <<>>
             /\ UNCHANGED queued
        ELSE /\ queued' = Append(queued, SubSeq(bytes, 5, 4 + L))
             /\ Advance(bytes, 4 + L)
             /\ UNCHANGED <<currentMessage, msgLen, pc>>

ReadTop ==
  /\ pc = "top" /\ Len(buf) < 4
  /\ \E n \in 1..BufferSize :
       /\ Read(n, Len(buf))
       /\ Cut(buf \o Received(n), n)

CutBuffered ==
  /\ pc = "top" /\ Len(buf) >= 4
  /\ Cut(buf, Len(buf))
  /\ UNCHANGED <<pos, calm>>

\* How many bytes are stripped from a message that came in several reads: as many
\* as leave no zero in its last two places, if any two do.  (A length begins with
\* zeros.)
IsZero(byte) == byte \in Zeros \/ byte[2] \in 1..2
BugBackups(w) == {1}
Backups(w) ==
  LET leaves == {k \in 0..(Len(w) - 2) :
                   ~ IsZero(w[Len(w) - k]) /\ ~ IsZero(w[Len(w) - k - 1])}
  IN  {k \in leaves : \A j \in leaves : k <= j}

ReadRest ==
  /\ pc = "messageRest"
  /\ \E n \in 1..BufferSize :
       LET bytes == Received(n)
           missing == msgLen - Len(currentMessage)
           whole == currentMessage \o SubSeq(bytes, 1, missing)
       IN
       /\ Read(n, 0)
       /\ \/ /\ n < missing
             /\ currentMessage' = currentMessage \o bytes
             /\ UNCHANGED <<buf, msgLen, queued, pc>>
          \/ /\ n >= missing
             /\ \E backup \in Backups(whole) :
                  /\ backup <= missing
                  /\ queued' = Append(queued, SubSeq(whole, 1, msgLen - backup))
                  /\ Advance(bytes, missing - backup)
             /\ currentMessage' = <<>>
             /\ pc' = "top"
             /\ UNCHANGED msgLen
          \/ /\ n >= missing
             /\ \A backup \in Backups(whole) : backup > missing
             /\ Lost

Init ==
  /\ pos = 0 /\ buf = <<>> /\ currentMessage = <<>> /\ msgLen = 0
  /\ queued = <<>> /\ pc = "greeting" /\ calm = TRUE

Next == ReadGreeting \/ ReadRestOfGreeting \/ ReadTop \/ CutBuffered \/ ReadRest

\* The connection stays, and the reader goes on reading.
Spec == Init /\ [][Next]_vars /\ WF_vars(Next)

-----------------------------------------------------------------------------
TypeOK ==
  /\ pos \in 0..Len(Stream)
  /\ buf \in Seq(Range(Stream)) /\ Len(buf) <= BufferSize
  /\ currentMessage \in Seq(Range(Stream))
  /\ msgLen \in Nat
  /\ queued \in Seq(Seq(Range(Stream)))
  /\ pc \in {"greeting", "greetingRest", "top", "messageRest", "lost"}
  /\ pc = "messageRest" /\ calm => Len(currentMessage) < msgLen
  /\ calm \in BOOLEAN

\* However the reads cut the stream at other places, every byte that was read is
\* in a queued message, in the one being put together or in the buffer, once and
\* in its order: so the queue has what was sent, and the reader does not end the
\* process.  (handshake_peer, Run: cursor, n, ntot and buflen.)
NoByteIsLost ==
  LET done == FlattenSeq([m \in DOMAIN queued |-> Prefix(m) \o queued[m]])
      begun == Prefix(Len(queued) + 1) \o currentMessage
      read == SubSeq(Stream, 1, pos)
  IN
  calm =>
    /\ pc # "lost"
    /\ IsPrefix(queued, Messages)
    /\ pc = "top" => read = Greeting \o done \o buf
    /\ pc = "messageRest" => read = Greeting \o done \o begun

\* Then every message that was sent gets to the queue.  (Run.)
AllAreQueued == <>(calm => queued = Messages)

-----------------------------------------------------------------------------
(* Inductive strengthenings, for the proofs *)

\* The stream up to the end of the qth message.
UpTo(q) == Greeting \o FlattenSeq([m \in 1..q |-> Prefix(m) \o Body(m)])
End(q) == Len(UpTo(q))

\* The bytes of the stream behind the first a, up to the bth.
From(a, b) == SubSeq(Stream, a + 1, b)

\* What comes behind the greeting.
Sent == {Stream[j] : j \in (IdLen + 2)..Len(Stream)}

\* Whatever the cuts, the greeting is taken off before a length is looked for, so
\* what is taken for one is a byte of a message.
GreetingInv ==
  /\ pc = "greeting" => pos = 0
  /\ pc = "greetingRest" => pos <= IdLen /\ buf = SubSeq(Stream, 1, pos)
  /\ pc \in {"greeting", "greetingRest"} => queued = <<>>
  /\ pc \in {"top", "messageRest"} => pos > IdLen /\ buf \in Seq(Sent)
  /\ pc = "messageRest" => Len(currentMessage) < msgLen

\* Before this byte a message should not be cut: see Delicate.
Inner(n) ==
  /\ n <= Len(Stream)
  /\ Stream[n][2] \in 2..4 \/ (Stream[n][2] > 4 /\ ZeroTail(Stream[n][1]))

\* Where the reader is in the stream, as long as no cut was delicate.
PlaceInv ==
  LET q == Len(queued) IN
  calm =>
    /\ pc # "lost"
    /\ IsPrefix(queued, Messages)
    /\ pc \in {"top", "messageRest"} => ~ Inner(pos + 1)
    /\ pc = "top" => End(q) <= pos /\ buf = From(End(q), pos)
    /\ pc = "messageRest" =>
         /\ q < Len(BodyLens)
         /\ End(q) + 4 <= pos /\ pos < End(q + 1)
         /\ msgLen = BodyLens[q + 1]
         /\ currentMessage = From(End(q) + 4, pos)
         /\ ~ ZeroTail(q + 1)

=============================================================================
