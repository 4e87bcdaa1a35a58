------------------------------- MODULE MCServer ------------------------------
(***************************************************************************)
(* The server's connections, in one run: the sessions, the console and     *)
(* those that serve them (ServerSessions), and the frames a connection     *)
(* carries either way (FrameStream).  The two share no state; part names   *)
(* the one that moves, while the other stays where it starts.              *)
(*   Frames: lengths of one and of two digits, bodies whose bytes read as  *)
(* lengths of either kind when the framing slips.                          *)
(***************************************************************************)
EXTENDS ServerSessions, Sequences

CONSTANTS Writers, Bodies, Nothing, Base, MaxSent

(* gzip's checksum: a body whose end is lost, filled up with zeros, does   *)
(* not decompress to another message.                                      *)
ASSUME FrameAssumptions ==
  /\ Base \in Nat /\ Base > 1
  /\ \A b \in Bodies : b \in Seq(0..(2 * Base - 1)) /\ b # <<>> /\ b[1] # 0
  /\ Nothing \notin Bodies
  /\ MaxSent \in Nat
  /\ \A m, b \in Bodies : \A k \in 0..Len(m) :
       Len(b) = Len(m) /\ (\A i \in 1..Len(m) : b[i] = IF i <= k THEN m[i] ELSE 0) => b = m

VARIABLES
  reader, writing, stream, shut, lost, at, lenData, data, received, begun, sent, overlap,
  part          \* which of the two moves

frameVars == <<reader, writing, stream, shut, lost, at, lenData, data, received, begun, sent,
               overlap>>

Frames == INSTANCE FrameStream

SomeBodies == {<<1>>, <<1, 2>>, <<3, 1, 0>>}

MCInit ==
  /\ Init /\ Frames!Init
  /\ part \in {"sessions", "frames"}
  /\ part = "frames" \/ reader = "server"

MCNext ==
  \/ part = "sessions" /\ Next /\ UNCHANGED <<frameVars, part>>
  \/ part = "frames" /\ Frames!Next /\ UNCHANGED <<vars, part>>

(* The fairness of each, while it is the one that moves.                   *)
MCFairness ==
  /\ \A c \in Conns : WF_vars(part = "sessions" /\ HandlerStep(c))
  /\ \A a \in Accounts : WF_vars(part = "sessions" /\ NoticeStep(a))
  /\ WF_vars(part = "sessions" /\ ConsoleStep)
  /\ WF_frameVars(part = "frames" /\ Frames!ReadStep)
  /\ \A m \in Writers : WF_frameVars(part = "frames" /\ Frames!WriteBody(m))

MCSpec == MCInit /\ [][MCNext]_<<vars, frameVars, part>> /\ MCFairness

-----------------------------------------------------------------------------
(* A notice closes the stream of its user, and a command of the console    *)
(* comes to its end, unless the process is gone first (main.go).           *)
NoticesAndCommandsEnd == NoticeCloses /\ ConsoleFinishes

(* A close loses no message but the one it catches the client at the end   *)
(* of (main.go, Client.go).                                                *)
FramesInv == part = "frames" => Frames!Inv

(* A reader and its senders are a message channel (main.go, Client.go).    *)
WholeAndInOrder == Frames!WholeAndInOrder

(* The loop ends when the stream has, and a message sent alone arrives     *)
(* (main.go, Client.go).                                                   *)
FramesEnd == Frames!LoopEnds /\ Frames!SentArrives
=============================================================================
