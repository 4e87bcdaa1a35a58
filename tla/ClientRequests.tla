--------------------------- MODULE ClientRequests ----------------------------
(***************************************************************************)
(* What the app asks of the server, and who hears the answers              *)
(* (AppBind/Client/Client.go, tools/StaticTools.java, Main.java,           *)
(* Online.java, OnlineBank.java and the adapter of the online banks).      *)
(*                                                                         *)
(* One connection object, from the tap that makes it to the destruction of *)
(* an Online screen, which closes it and clears the global `client`.  Its  *)
(* listeners are kept per message type, so a request takes over those of   *)
(* the request before it.  The UI thread sends, dials, and for a song also *)
(* waits; each successful dial starts a goroutine that reads c.stream,     *)
(* whatever that is by then, and calls the listeners.                      *)
(*                                                                         *)
(* Abstractions.  BANK requests stand for every request whose callback is  *)
(* posted to the UI thread, SONG requests for those it waits for, LOGOUT   *)
(* for those nobody answers.  The handler queue keeps order, so a callback *)
(* counts as run when it is posted, except Main's own, which dials again.  *)
(* Activities are destroyed in the order they are left.  A loop that mixes *)
(* two streams, or shares one, may lose a message or fail.                 *)
(***************************************************************************)
EXTENDS Naturals, Sequences, FiniteSets, SequencesExt

CONSTANTS
  Banks,        \* the BANK requests that may be made
  Songs,        \* the SONG requests that may be made
  Logouts,      \* the LOGOUT messages that may be sent
  NoCall,
  Hello,        \* the MSG request, and the answer of an open server
  Closed,       \* the answer of a closed server to it
  Refusal,      \* the answer of a closed server to any other request
  Notice,       \* the notice of a shutdown
  Empty,        \* what a wait returns when the connection has ended
  MaxDials,     \* bound: the calls of Connect
  MaxAsks       \* bound: the requests the user makes

Calls == Banks \cup Songs
Marks == {NoCall, Hello, Closed, Refusal, Notice, Empty}

ASSUME RequestAssumptions ==
  /\ Cardinality(Marks) = 6
  /\ Marks \cap (Calls \cup Logouts) = {}
  /\ Banks \cap Songs = {} /\ Logouts \cap Calls = {}
  /\ MaxDials \in Nat \ {0} /\ MaxAsks \in Nat

VARIABLES
  ui,           \* what the UI thread is doing, and for which request
  stream,       \* c.stream, named by the dial that opened it; 0 is nil
  dials,        \* the dials so far
  listeners,    \* c.listeners for BANK and SONG; Main's for MSG is constant
  loop,         \* the listen goroutine of each dial
  net,          \* the two directions of each stream, and its two ends
  posted,       \* messages for Main's handler
  screens,      \* Online screens that are there, counted to 2
  entered,      \* one of them lets the user log in
  left,         \* an Online screen was destroyed: client is null
  crash,        \* how the app has died
  shown,        \* what each request's listener was called with last
  asked,        \* history: the requests, in order
  refused,      \* history: those the closed server refused
  stale,        \* history: a listener got an older answer after a newer one
  moved,        \* history: Main's handler has dialled
  failed,       \* history: a dial failed or a connection in use was lost
  late,         \* history: a listener was added between the OnEnd calls of a
                \*          loop's Close and its clearing of the stream
  hasty         \* history: Online was left with a message under way, or
                \*          the server announced a shutdown after that

netVars  == <<stream, dials, net>>
appVars  == <<listeners, posted, screens, entered, left, shown>>
pastVars == <<asked, refused, stale, moved, failed, late, hasty>>
vars == <<ui, loop, crash, netVars, appVars, pastVars>>

Dials == 1..MaxDials
Requests == Calls \cup Logouts \cup {Hello}
Messages == Calls \cup {Hello, Closed, Refusal, Notice}
UiStates == {"idle", "connect", "register", "send", "check", "put", "wait"}
LoopStates == {"off", "read", "blocked", "call", "ending", "niling", "done"}

(* The type invariant: among others, every stream named by c.stream was    *)
(* opened, and only a song's request is waited for.                        *)
TypeOK ==
  /\ ui \in [at: UiStates, call: Requests \cup {NoCall}]
  /\ (ui.at = "idle") = (ui.call = NoCall)
  /\ ui.at = "wait" => ui.call \in Songs
  /\ dials \in 0..MaxDials
  /\ stream \in 0..dials
  /\ listeners \in [bank: Banks \cup {NoCall}, song: Songs \cup {NoCall}]
  /\ loop \in [Dials -> [at: LoopStates, on: 0..MaxDials, msg: Messages \cup {NoCall}]]
  /\ \A d \in Dials : d > dials => loop[d].at = "off"
  /\ stream # 0 => loop[stream].at # "off"
  /\ net \in [Dials -> [up: Seq(Requests), down: Seq(Messages), shut: BOOLEAN, over: BOOLEAN]]
  /\ posted \in 0..(2 * MaxDials + 1)
  /\ screens \in 0..2
  /\ {entered, left, stale, moved, failed, late, hasty} \subseteq BOOLEAN
  /\ crash \in {"none", "nil", "null", "map"}
  /\ shown \in [Calls -> Calls \cup {NoCall, Empty}]
  /\ asked \in Seq(Calls \cup Logouts)
  /\ refused \in SUBSET (Calls \cup Logouts)

Init ==
  /\ ui = [at |-> "connect", call |-> Hello]
  /\ stream = 0 /\ dials = 0
  /\ listeners = [bank |-> NoCall, song |-> NoCall]
  /\ loop = [d \in Dials |-> [at |-> "off", on |-> 0, msg |-> NoCall]]
  /\ net = [d \in Dials |-> [up |-> <<>>, down |-> <<>>, shut |-> FALSE, over |-> FALSE]]
  /\ posted = 0 /\ screens = 0 /\ entered = FALSE /\ left = FALSE
  /\ crash = "none"
  /\ shown = [c \in Calls |-> NoCall]
  /\ asked = <<>> /\ refused = {}
  /\ stale = FALSE /\ moved = FALSE /\ failed = FALSE /\ late = FALSE /\ hasty = FALSE

-----------------------------------------------------------------------------
(* Steps the definitions below share. *)

At(place) == ui' = [ui EXCEPT !.at = place]
Idle == ui' = [at |-> "idle", call |-> NoCall]
Dies(how) ==
  /\ crash' = how
  /\ UNCHANGED <<ui, loop, netVars, appVars, pastVars>>

Live(d) == loop[d].at \notin {"off", "done"}

(* A message is between the app and the server, or between two threads, or *)
(* a loop is about to read the next one.                                   *)
UnderWay ==
  \/ \E d \in Dials : net[d].up # <<>> \/ net[d].down # <<>>
  \/ \E d \in Dials : loop[d].at \in {"call", "read"}
  \/ posted > 0

(* Every listener's OnEnd: a wait gets an empty answer, callbacks ignore   *)
(* it, and Main posts itself a message when it finds no stream.            *)
EndAll ==
  /\ shown' = [c \in Calls |-> IF c = listeners.song THEN Empty ELSE shown[c]]
  /\ posted' = IF ~left /\ stream = 0 THEN posted + 1 ELSE posted

(* The rest of Close; closing the stream tells the server.                 *)
DropStream ==
  /\ net' = IF stream = 0 THEN net ELSE [net EXCEPT ![stream].shut = TRUE]
  /\ stream' = 0

-----------------------------------------------------------------------------
(* The UI thread. *)

(* Mutant: the goroutine is started before the stream is assigned. *)
LoopFirst(next) ==
  /\ dials < MaxDials /\ dials' = dials + 1
  /\ loop' = [loop EXCEPT ![dials + 1].at = "read"]
  /\ \/ stream' = 0 /\ At(next) /\ UNCHANGED net
     \/ stream' = dials + 1 /\ At(next) /\ UNCHANGED net
  /\ UNCHANGED <<posted, shown, failed>>

(* Connect: the dial succeeds, or fails and closes what there is.          *)
Connect(next) ==
  /\ dials < MaxDials /\ dials' = dials + 1
  /\ At(next)
  /\ \/ /\ stream' = dials + 1
        /\ loop' = [loop EXCEPT ![dials + 1].at = "read"]
        /\ UNCHANGED <<net, posted, shown, failed>>
     \/ /\ EndAll /\ DropStream
        /\ failed' = TRUE
        /\ UNCHANGED loop

(* The tap on "online" and Main's handler dial whatever there is, and then *)
(* send MSG.                                                               *)
Dial ==
  /\ ui.at = "connect"
  /\ Connect("send")
  /\ UNCHANGED <<listeners, screens, entered, left, crash, asked, refused, stale,
                 moved, late, hasty>>

Handle ==
  /\ ui.at = "idle" /\ posted > 0
  /\ IF left THEN Dies("null")
     ELSE /\ ui' = [at |-> "connect", call |-> Hello]
          /\ posted' = posted - 1
          /\ moved' = TRUE
          /\ UNCHANGED <<loop, crash, netVars, listeners, screens, entered, left,
                         shown, asked, refused, stale, failed, late, hasty>>

(* The user asks for a bank or a song, or leaves the online part.          *)
Ask(c) ==
  /\ ui.at = "idle" /\ screens > 0 /\ entered
  /\ c \notin ToSet(asked) /\ Len(asked) < MaxAsks
  /\ IF left THEN Dies("null")
     ELSE /\ ui' = [at |-> IF c \in Calls THEN "register" ELSE "send", call |-> c]
          /\ asked' = Append(asked, c)
          /\ UNCHANGED <<loop, crash, netVars, appVars, refused, stale, moved,
                         failed, late, hasty>>

(* Mutant: the first listener of a type stays. *)
KeepListener ==
  /\ ui.at = "register" /\ At("send")
  /\ listeners' = IF ui.call \in Songs THEN [listeners EXCEPT !.song = ui.call]
                  ELSE [listeners EXCEPT !.bank = IF @ = NoCall THEN ui.call ELSE @]
  /\ late' = (late \/ \E d \in Dials : loop[d].at = "niling")
  /\ UNCHANGED <<loop, crash, netVars, posted, screens, entered, left, shown,
                 asked, refused, stale, moved, failed, hasty>>

AddOnMessageListener ==
  /\ ui.at = "register" /\ At("send")
  /\ listeners' = IF ui.call \in Songs THEN [listeners EXCEPT !.song = ui.call]
                  ELSE [listeners EXCEPT !.bank = ui.call]
  /\ late' = (late \/ \E d \in Dials : loop[d].at = "niling")
  /\ UNCHANGED <<loop, crash, netVars, posted, screens, entered, left, shown,
                 asked, refused, stale, moved, failed, hasty>>

(* Mutant: sendMessage always dials. *)
AlwaysDial ==
  /\ ui.at = "send"
  /\ Connect("check")
  /\ UNCHANGED <<listeners, screens, entered, left, crash, asked, refused, stale,
                 moved, late, hasty>>

(* sendMessage dials first when there is no stream.                        *)
Send ==
  /\ ui.at = "send"
  /\ IF stream # 0
     THEN At("check") /\ UNCHANGED <<netVars, loop, posted, shown, failed>>
     ELSE Connect("check")
  /\ UNCHANGED <<listeners, screens, entered, left, crash, asked, refused, stale,
                 moved, late, hasty>>

Sent == IF ui.call \in Songs THEN At("wait") ELSE Idle

(* SendMessage gives up silently without a stream ...                      *)
Check ==
  /\ ui.at = "check"
  /\ IF stream = 0 THEN Sent ELSE At("put")
  /\ UNCHANGED <<loop, crash, netVars, appVars, pastVars>>

(* ... but the stream may be gone by the time it writes to it.             *)
Put ==
  /\ ui.at = "put"
  /\ IF stream = 0 THEN Dies("nil")
     ELSE /\ net' = [net EXCEPT ![stream].up =
                       IF net[stream].over THEN @ ELSE Append(@, ui.call)]
          /\ Sent
          /\ UNCHANGED <<loop, crash, stream, dials, appVars, pastVars>>

(* Mutant: the wait gives up after a while. *)
WaitTimesOut ==
  /\ ui.at = "wait"
  /\ Idle
  /\ UNCHANGED <<loop, crash, netVars, appVars, pastVars>>

(* The wait sees an answer; nobody expects the empty one.                  *)
WaitEnds ==
  /\ ui.at = "wait" /\ shown[ui.call] # NoCall
  /\ IF shown[ui.call] = Empty THEN Dies("null")
     ELSE Idle /\ UNCHANGED <<loop, crash, netVars, appVars, pastVars>>

(* Online.onDestroy. *)
Leave ==
  /\ ui.at = "idle" /\ screens > 0
  /\ IF left THEN Dies("null")
     ELSE /\ EndAll /\ DropStream
          /\ left' = TRUE /\ screens' = screens - 1
          /\ hasty' = (UnderWay \/ screens > 1)
          /\ UNCHANGED <<ui, loop, crash, dials, listeners, entered, asked, refused,
                         stale, moved, failed, late>>

-----------------------------------------------------------------------------
(* The server and the network. *)

Reply(d, answer) ==
  net' = [net EXCEPT ![d].up = Tail(@), ![d].down = @ \o answer]

(* A stream is served one message at a time; the server may be closed and  *)
(* opened at any time.                                                     *)
Serve(d) ==
  /\ net[d].up # <<>> /\ ~net[d].over
  /\ LET m == Head(net[d].up) IN
       \/ Reply(d, IF m \in Logouts THEN <<>> ELSE <<m>>) /\ UNCHANGED refused
       \/ /\ Reply(d, <<IF m = Hello THEN Closed ELSE Refusal>>)
          /\ refused' = refused \cup ({m} \ {Hello})
  /\ UNCHANGED <<ui, loop, crash, stream, dials, appVars, asked, stale, moved,
                 failed, late, hasty>>

(* The console announces a shutdown to those who have logged in.  Bounds:  *)
(* one announcement at a time, and none once Main's handler has dialled.   *)
Announce(d) ==
  /\ entered /\ loop[d].at # "off" /\ ~net[d].over
  /\ ~moved /\ posted = 0
  /\ \A e \in Dials : Notice \notin ToSet(net[e].down) \cup {loop[e].msg}
  /\ net' = [net EXCEPT ![d].down = Append(@, Notice)]
  /\ hasty' = (hasty \/ left)
  /\ UNCHANGED <<ui, loop, crash, stream, dials, appVars, asked, refused, stale,
                 moved, failed, late>>

(* The server closes a stream that the client has closed, when it has      *)
(* served it; the console or the network may end any stream at any time.   *)
HangUp(d) ==
  /\ net[d].shut /\ net[d].up = <<>> /\ ~net[d].over
  /\ net' = [net EXCEPT ![d].over = TRUE]
  /\ UNCHANGED <<ui, loop, crash, stream, dials, appVars, pastVars>>

Lose(d) ==
  /\ loop[d].at # "off" /\ ~net[d].over
  /\ \E rest \in {<<>>, net[d].down} :
       net' = [net EXCEPT ![d] = [up |-> <<>>, down |-> rest, shut |-> @.shut, over |-> TRUE]]
  /\ failed' = (failed \/ ~net[d].shut)
  /\ UNCHANGED <<ui, loop, crash, stream, dials, appVars, asked, refused, stale,
                 moved, late, hasty>>

-----------------------------------------------------------------------------
(* The goroutines that listen. *)

(* Each message starts with a look at c.stream.                            *)
Read(d) ==
  /\ loop[d].at = "read"
  /\ IF stream = 0 THEN Dies("nil")
     ELSE /\ loop' = [loop EXCEPT ![d] = [at |-> "blocked", on |-> stream, msg |-> NoCall]]
          /\ UNCHANGED <<ui, crash, netVars, appVars, pastVars>>

Arrived(d) == loop[d].at = "blocked" /\ net[loop[d].on].down # <<>>
Alone(d) ==
  \A e \in Dials \ {d} : ~(loop[e].at = "blocked" /\ loop[e].on = loop[d].on)
Consume(d) == net' = [net EXCEPT ![loop[d].on].down = Tail(@)]

(* The rest of a message is read from c.stream, too.                       *)
Take(d) ==
  /\ Arrived(d)
  /\ IF stream = 0 THEN Dies("nil")
     ELSE /\ stream = loop[d].on
          /\ loop' = [loop EXCEPT ![d].at = "call", ![d].msg = Head(net[loop[d].on].down)]
          /\ Consume(d)
          /\ UNCHANGED <<ui, crash, stream, dials, appVars, pastVars>>

(* Two loops on a stream, or two streams in a loop: a message is spoilt.   *)
Spoil(d) ==
  /\ Arrived(d) /\ stream # 0
  /\ stream # loop[d].on \/ ~Alone(d)
  /\ \E next \in {"read", "ending"} : loop' = [loop EXCEPT ![d] = [at |-> next, on |-> 0, msg |-> NoCall]]
  /\ Consume(d)
  /\ UNCHANGED <<ui, crash, stream, dials, appVars, pastVars>>

Older(a, b) ==
  \E i, j \in DOMAIN asked : i < j /\ asked[i] = a /\ asked[j] = b

(* The listener of the message's type is called.                           *)
Call(d) ==
  LET m == loop[d].msg
      heard == CASE m \in Banks -> listeners.bank [] m \in Songs -> listeners.song
                 [] OTHER -> NoCall IN
  /\ loop[d].at = "call"
  /\ loop' = [loop EXCEPT ![d] = [at |-> "read", on |-> 0, msg |-> NoCall]]
  /\ shown' = [c \in Calls |-> IF c = heard THEN m ELSE shown[c]]
  /\ stale' = (stale \/ (heard # NoCall /\ shown[heard] \in Calls /\ Older(m, shown[heard])))
  /\ posted' = IF m = Notice THEN posted + 1 ELSE posted
  /\ screens' = IF m \in {Hello, Closed, Refusal} /\ screens < 2 THEN screens + 1 ELSE screens
  /\ entered' = (entered \/ m = Hello)
  /\ UNCHANGED <<ui, crash, netVars, listeners, left, asked, refused, moved,
                 failed, late, hasty>>

Eof(d) ==
  /\ loop[d].at = "blocked" /\ net[loop[d].on].down = <<>> /\ net[loop[d].on].over
  /\ loop' = [loop EXCEPT ![d] = [at |-> "ending", on |-> 0, msg |-> NoCall]]
  /\ UNCHANGED <<ui, crash, netVars, appVars, pastVars>>

(* Mutant: the end of a connection is not told to the listeners. *)
EndNobody(d) ==
  /\ loop[d].at = "ending"
  /\ loop' = [loop EXCEPT ![d].at = "niling"]
  /\ UNCHANGED <<ui, crash, netVars, appVars, pastVars>>

(* The deferred Close: the listeners hear of it before the stream is nil.  *)
End(d) ==
  /\ loop[d].at = "ending"
  /\ EndAll
  /\ loop' = [loop EXCEPT ![d].at = "niling"]
  /\ UNCHANGED <<ui, crash, netVars, listeners, screens, entered, left, pastVars>>

Drop(d) ==
  /\ loop[d].at = "niling"
  /\ DropStream
  /\ loop' = [loop EXCEPT ![d] = [at |-> "done", on |-> 0, msg |-> NoCall]]
  /\ UNCHANGED <<ui, crash, dials, appVars, pastVars>>

LoopStep(d) == Read(d) \/ Take(d) \/ Spoil(d) \/ Call(d) \/ Eof(d) \/ End(d) \/ Drop(d)

(* A listener is added to the map while a loop looks one up: the Go        *)
(* runtime may end the process.                                            *)
MapFault ==
  /\ ui.at = "register"
  /\ \E d \in Dials : loop[d].at \in {"call", "ending"}
  /\ Dies("map")

-----------------------------------------------------------------------------
UiStep == Dial \/ Handle \/ AddOnMessageListener \/ Send \/ Check \/ Put \/ WaitEnds

Next ==
  crash = "none" /\
    ( \/ UiStep \/ Leave \/ MapFault
      \/ \E c \in Calls \cup Logouts : Ask(c)
      \/ \E d \in Dials : \/ Serve(d) \/ Announce(d) \/ HangUp(d) \/ Lose(d)
                          \/ LoopStep(d) )

(* The UI thread and the goroutines run on, and the server serves.         *)
Fairness ==
  /\ WF_vars(crash = "none" /\ UiStep)
  /\ \A d \in Dials : /\ WF_vars(crash = "none" /\ LoopStep(d))
                      /\ WF_vars(crash = "none" /\ Serve(d))

Spec == Init /\ [][Next]_vars
FairSpec == Spec /\ Fairness

-----------------------------------------------------------------------------
(* Properties. *)

(* As long as Main's handler has not dialled again, one loop reads, and no *)
(* stream is read that c.stream does not name, unless it was closed.       *)
OneReader ==
  ~moved => /\ Cardinality({d \in Dials : Live(d)}) <= 1
            /\ \A d \in Dials : loop[d].at \in {"blocked", "call"} =>
                 loop[d].on = d /\ stream \in {d, 0}

(* A listener never goes back to an older answer: the panel of a bank may  *)
(* show another bank's songs for a while, but only until its own arrive.   *)
AnswersInOrder == ~moved => ~stale

(* When nothing is under way any more, the latest bank asked for shows its *)
(* own songs, unless the server refused or the connection failed.          *)
LatestBankShown ==
  LET banks == {i \in DOMAIN asked : asked[i] \in Banks} IN
  ui.at = "idle" /\ ~UnderWay /\ banks # {} /\ ~moved /\ ~failed /\ ~left =>
    LET c == asked[CHOOSE i \in banks : \A j \in banks : j <= i] IN
    c \notin refused => shown[c] = c

(* The thread that waits for a song gets that song or nothing, although    *)
(* the listener is kept by type and not by request.                        *)
SongIsOwn == ~moved => \A c \in Songs : shown[c] \in {NoCall, Empty, c}

(* One tap leads to one Online screen, unless the server refused a request *)
(* or announced a shutdown, or dialling went wrong.                        *)
OneScreen == ~moved /\ refused = {} => screens <= 1

(* The app only dies when a dial failed or a connection was lost, when its *)
(* handler dialled a second time, when Online was left with messages under *)
(* way or with another Online on top, or of the race for the listeners.    *)
DiesOfFailureOnly ==
  crash \in {"nil", "null"} => failed \/ moved \/ hasty

(* What holds at every step of the UI thread and the loops: as long as     *)
(* Main's handler did not dial twice, one loop reads, answers come in the  *)
(* order of the requests, each song is for its own and one screen is       *)
(* opened; and the app dies of failures only.                              *)
Inv ==
  TypeOK /\ OneReader /\ AnswersInOrder /\ SongIsOwn /\ OneScreen /\ DiesOfFailureOnly

(* The UI thread does not wait for ever, except for a request the closed   *)
(* server refused, for one that was made just when the connection ended,   *)
(* or after a second dial of Main's handler.                               *)
WaitIsAnswered ==
  \A c \in Songs : (ui.at = "wait" /\ ui.call = c) ~>
    \/ ui.at # "wait" \/ crash # "none"
    \/ c \in refused \/ late \/ moved

=============================================================================
