---------------------------- MODULE FrameStream -----------------------------
(***************************************************************************)
(* How messages cross a QUIC stream (SendMessage, int2byte, bytes2int and  *)
(* the reading loops of Server/main.go and AppBind/Client/Client.go).  A   *)
(* message is compressed to a body; its length is written first, the least *)
(* significant digit first and every digit but the last with a mark, and   *)
(* the body in a second Write.  Any goroutine may send, and nothing keeps  *)
(* the two Writes of one together.  The reader takes the length byte by    *)
(* byte and the body in pieces.  The two ends read differently when the    *)
(* stream fails them: the server serves what it has, the client gives up.  *)
(*                                                                         *)
(* Abstractions.  One direction of one stream; a digit has Base values     *)
(* (128 in the code).  A body is a sequence of byte values that does not   *)
(* start with 0 (gzip's first is 0x1f), and decompresses exactly when it   *)
(* is one of Bodies.  The stream (external) keeps order, serialises Writes,*)
(* and its Read may return the last bytes together with the end of the     *)
(* stream or before it.                                                    *)
(***************************************************************************)
EXTENDS Naturals, Sequences, SequencesExt

CONSTANTS
  Writers,      \* the goroutines that send at one end
  Bodies,       \* the bodies that messages compress to
  Nothing,      \* a writer that is not sending
  Base,         \* the values of a length digit
  MaxSent       \* bound: the messages sent over the stream

VARIABLES
  reader,       \* which end reads: "server" or "client"
  writing,      \* the body each writer has announced and not yet written
  stream,       \* the bytes written and not read
  shut,         \* the sender has closed the stream
  lost,         \* the connection has failed
  at,           \* where the reading loop is
  lenData,      \* the bytes of the length read so far
  data,         \* the bytes of the body read so far
  received,     \* the bodies that were decompressed and handed on
  begun,        \* history: how many messages were begun
  sent,         \* history: the messages written in full
  overlap       \* history: a message was begun in the middle of another one

readVars == <<at, lenData, data, received>>
sendVars == <<writing, shut, begun, sent, overlap>>
vars == <<reader, stream, lost, readVars, sendVars>>

Byte == 0..(2 * Base - 1)
Marked(b) == b >= Base

int2byte[n \in Nat] ==
  IF n >= Base THEN <<(n % Base) + Base>> \o int2byte[n \div Base] ELSE <<n>>

(* What a digit counts for in its place: the shift by i * 7.               *)
Place[k \in Nat] == IF k = 0 THEN 1 ELSE Base * Place[k - 1]

(* Mutant: the digits are read the other way round. *)
BigEndian(d) ==
  LET upTo[i \in 0..Len(d)] == IF i = 0 THEN 0 ELSE upTo[i-1] * Base + (d[i] % Base)
  IN upTo[Len(d)]

bytes2int(d) ==
  LET upTo[i \in 0..Len(d)] ==
        IF i = 0 THEN 0 ELSE upTo[i-1] + (d[i] % Base) * Place[i-1]
  IN upTo[Len(d)]

(* The type invariant: among others, a body never outgrows its length.     *)
TypeOK ==
  /\ reader \in {"server", "client"}
  /\ writing \in [Writers -> Bodies \cup {Nothing}]
  /\ stream \in Seq(Byte)
  /\ shut \in BOOLEAN /\ lost \in BOOLEAN /\ overlap \in BOOLEAN
  /\ at \in {"start", "length", "body", "closed"}
  /\ lenData \in Seq(Byte) /\ data \in Seq(Byte)
  /\ at = "body" => Len(data) < bytes2int(lenData)
  /\ received \in Seq(Bodies) /\ sent \in Seq(Bodies)
  /\ begun \in 0..MaxSent

Init ==
  /\ reader \in {"server", "client"}
  /\ writing = [w \in Writers |-> Nothing]
  /\ stream = <<>>
  /\ shut = FALSE /\ lost = FALSE /\ overlap = FALSE
  /\ at = "start"
  /\ lenData = <<>> /\ data = <<>>
  /\ received = <<>> /\ sent = <<>>
  /\ begun = 0

-----------------------------------------------------------------------------
(* Sending.  A Write to a stream that is closed fails, and nobody looks.   *)

Put(bytes) == stream' = IF shut \/ lost THEN stream ELSE stream \o bytes

WriteLength(w, m) ==
  /\ writing[w] = Nothing
  /\ begun < MaxSent
  /\ Put(int2byte[Len(m)])
  /\ writing' = [writing EXCEPT ![w] = m]
  /\ begun' = begun + 1
  /\ overlap' = (overlap \/ \E v \in Writers : writing[v] # Nothing)
  /\ UNCHANGED <<reader, shut, lost, sent, readVars>>

WriteBody(w) ==
  /\ writing[w] # Nothing
  /\ Put(writing[w])
  /\ sent' = IF shut \/ lost THEN sent ELSE Append(sent, writing[w])
  /\ writing' = [writing EXCEPT ![w] = Nothing]
  /\ UNCHANGED <<reader, shut, lost, begun, overlap, readVars>>

(* Any goroutine may close the sending side at any time.                   *)
CloseStream ==
  /\ ~shut /\ shut' = TRUE
  /\ UNCHANGED <<reader, stream, lost, writing, begun, sent, overlap, readVars>>

(* The connection times out: what was not read never will be.              *)
Lose ==
  /\ ~lost /\ lost' = TRUE /\ stream' = <<>>
  /\ UNCHANGED <<reader, sendVars, readVars>>

-----------------------------------------------------------------------------
(* Reading. *)

Take(k) == stream' = SubSeq(stream, k + 1, Len(stream))
Ended == stream = <<>> /\ (shut \/ lost)

(* Mutant: the loop is left after the first message. *)
ServeOnce(body) ==
  /\ received' = IF body \in Bodies THEN Append(received, body) ELSE received
  /\ at' = "closed"
  /\ lenData' = <<>> /\ data' = <<>>

(* A whole body is there: the server logs one that does not decompress and *)
(* goes on, the client closes.                                             *)
Serve(body) ==
  /\ received' = IF body \in Bodies THEN Append(received, body) ELSE received
  /\ at' = IF body \in Bodies \/ reader = "server" THEN "start" ELSE "closed"
  /\ lenData' = <<>> /\ data' = <<>>

GiveUp == at' = "closed" /\ lenData' = <<>> /\ data' = <<>> /\ UNCHANGED received

(* The length is complete; a zero one leaves nothing to read.              *)
LengthByte(b) ==
  LET got == Append(lenData, b) IN
  IF ~Marked(b) /\ bytes2int(got) = 0 THEN Serve(<<>>)
  ELSE /\ lenData' = got
       /\ at' = IF Marked(b) THEN "length" ELSE "body"
       /\ UNCHANGED <<data, received>>

ReadFirstByte ==
  /\ at = "start" /\ stream # <<>>
  /\ Take(1)
  /\ LengthByte(Head(stream))
  /\ UNCHANGED <<reader, lost, sendVars>>

(* Mutant: only the end of the stream breaks the loop, not an error. *)
StreamEndsOnEOF ==
  /\ at = "start"
  /\ stream = <<>> /\ shut /\ ~lost
  /\ GiveUp
  /\ UNCHANGED <<reader, stream, lost, sendVars>>

(* The first byte comes with the end of the stream, or the end alone does. *)
StreamEnds ==
  /\ at = "start"
  /\ \/ Ended /\ UNCHANGED stream
     \/ shut /\ Len(stream) = 1 /\ Take(1)
  /\ GiveUp
  /\ UNCHANGED <<reader, lost, sendVars>>

(* The other bytes of a length are read without a look at the error: when  *)
(* the stream has ended the byte before is taken again, for ever.          *)
ReadLength ==
  /\ at = "length" /\ stream # <<>>
  /\ Take(1)
  /\ LengthByte(Head(stream))
  /\ UNCHANGED <<reader, lost, sendVars>>

Missing == bytes2int(lenData) - Len(data)

Zeros(n) == [i \in 1..n |-> 0]

(* Some bytes of the body, up to all that are missing.                     *)
ReadBody ==
  /\ at = "body"
  /\ \E k \in 1..Len(stream) :
       /\ k <= Missing
       /\ Take(k)
       /\ LET got == data \o SubSeq(stream, 1, k) IN
            IF k = Missing THEN Serve(got)
            ELSE data' = got /\ UNCHANGED <<at, lenData, received>>
  /\ UNCHANGED <<reader, lost, sendVars>>

(* Mutant: the server gives up as the client does. *)
BodyLost ==
  /\ at = "body"
  /\ \/ Ended
     \/ shut /\ stream # <<>> /\ Len(stream) <= Missing
  /\ stream' = <<>>
  /\ GiveUp
  /\ UNCHANGED <<reader, lost, sendVars>>

(* The stream ends in the body, perhaps with the last bytes of it: the     *)
(* server serves what is in the buffer, the client returns.                *)
BodyEnds ==
  /\ at = "body"
  /\ \/ Ended
     \/ shut /\ stream # <<>> /\ Len(stream) <= Missing
  /\ stream' = <<>>
  /\ IF reader = "server"
     THEN Serve(data \o stream \o Zeros(Missing - Len(stream)))
     ELSE GiveUp
  /\ UNCHANGED <<reader, lost, sendVars>>

ReadStep == ReadFirstByte \/ StreamEnds \/ ReadLength \/ ReadBody \/ BodyEnds

Next ==
  \/ \E w \in Writers : WriteBody(w) \/ \E m \in Bodies : WriteLength(w, m)
  \/ CloseStream \/ Lose \/ ReadStep

Spec == Init /\ [][Next]_vars

(* Goroutines are scheduled; a message that is begun is written to its end.*)
Fairness == WF_vars(ReadStep) /\ \A w \in Writers : WF_vars(WriteBody(w))
FairSpec == Spec /\ Fairness

-----------------------------------------------------------------------------
(* Properties. *)

(* A reader and its senders are a message channel, broken at the earliest  *)
(* when a message is begun in the middle of another one.                   *)
Channel == INSTANCE MessageChannel WITH Messages <- Bodies, broken <- overlap
WholeAndInOrder == Channel!Spec

(* A close loses at most the message it catches the client at the end of,  *)
(* and the server none.                                                    *)
CloseLosesAtMostOne ==
  at = "closed" /\ ~lost /\ ~overlap =>
    \/ received = sent
    \/ reader = "client" /\ sent # <<>> /\ received = Front(sent)

(* What holds at every byte that is read, with what is left at the end.    *)
Inv == TypeOK /\ CloseLosesAtMostOne

(* When the stream has ended the loop does, unless the connection failed or *)
(* messages overlapped in the middle of a length: then it spins.           *)
LoopEnds ==
  (shut \/ lost) ~> (at = "closed" \/ (at = "length" /\ (lost \/ overlap)))

(* While the stream is open, messages sent alone arrive, all of them once  *)
(* no more are sent.                                                       *)
SentArrives == []<>(Len(received) >= Len(sent) \/ shut \/ lost \/ overlap)

=============================================================================
