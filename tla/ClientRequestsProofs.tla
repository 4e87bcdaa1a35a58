------------------------ MODULE ClientRequestsProofs ------------------------
(***************************************************************************)
(* What ClientRequests promises of every number of requests, dials and     *)
(* asks: until Main's handler dials a second time, one loop reads, answers *)
(* come in the order of the requests, a song is for its own wait, one      *)
(* screen is opened and the bank asked for last shows its own songs; and   *)
(* the app only dies of failures.                                          *)
(***************************************************************************)
EXTENDS ClientRequests, FiniteSetTheorems, WellFoundedInduction, TLAPS

-----------------------------------------------------------------------------
(* The inductive invariant.  All but Fits and Posts speaks of the time     *)
(* before Main's handler has dialled again.                                *)

(* A request between the tap and the stream. *)
Sending == ui.at \in {"register", "send", "check", "put"}

(* What is on its way on a stream: the message its loop has taken, those   *)
(* before the app and those before the server.                             *)
Line(d) == {loop[d].msg} \cup ToSet(net[d].down) \cup ToSet(net[d].up)

UiRecords == [at : UiStates, call : Requests \cup {NoCall}]
UpSeqs == Seq(Requests)
DownSeqs == Seq(Messages)
Nets == [Dials -> [up : UpSeqs, down : DownSeqs, shut : BOOLEAN, over : BOOLEAN]]
LoopRecords == [at : LoopStates, on : 0..MaxDials, msg : Messages \cup {NoCall}]
Loops == [Dials -> LoopRecords]
Listeners == [bank : Banks \cup {NoCall}, song : Songs \cup {NoCall}]
Deaths == {"none", "nil", "null", "map"}

(* TypeOK, but for the bound of posted, and what it leaves open. *)
UiFits ==
  /\ ui \in UiRecords
  /\ ui.at = "idle" <=> ui.call = NoCall
  /\ ui.at = "wait" => ui.call \in Songs
  /\ ui.at = "connect" => ui.call = Hello
  /\ ui.at = "register" => ui.call \in Calls
LoopsFit ==
  /\ loop \in Loops
  /\ \A d \in Dials : d > dials => loop[d].at = "off"
  /\ stream # 0 => loop[stream].at # "off"
  /\ \A d \in Dials : loop[d].msg # NoCall <=> loop[d].at = "call"
  /\ \A d \in Dials : loop[d].at \in {"blocked", "call"} => loop[d].on \in Dials
AppFits ==
  /\ listeners \in Listeners
  /\ posted \in Nat /\ screens \in 0..2
  /\ entered \in BOOLEAN /\ left \in BOOLEAN
  /\ shown \in [Calls -> Calls \cup {NoCall, Empty}]
PastFits ==
  /\ asked \in Seq(Calls \cup Logouts) /\ refused \in SUBSET (Calls \cup Logouts)
  /\ stale \in BOOLEAN /\ moved \in BOOLEAN /\ failed \in BOOLEAN
  /\ late \in BOOLEAN /\ hasty \in BOOLEAN
Fits ==
  /\ UiFits /\ LoopsFit /\ AppFits /\ PastFits
  /\ dials \in 0..MaxDials /\ stream \in 0..dials
  /\ net \in Nets /\ crash \in Deaths

(* Main's handler is told by a notice, by a dial that failed, by a loop    *)
(* that ended and by the one screen that is left, each at most once.       *)
Single(s) == \A i, j \in DOMAIN s : s[i] = Notice /\ s[j] = Notice => i = j
Noticed(d) == Notice \in {loop[d].msg} \cup ToSet(net[d].down)
Used == {d \in Dials : d <= dials /\ loop[d].at \in {"off", "niling", "done"}}
Posts ==
  /\ \A d, e \in Dials : Noticed(d) /\ Noticed(e) => d = e
  /\ \A d \in Dials : loop[d].msg = Notice => Notice \notin ToSet(net[d].down)
  /\ \A d \in Dials : Single(net[d].down)
  /\ posted + (IF \E d \in Dials : Noticed(d) THEN 1 ELSE 0)
       <= 1 + Cardinality(Used) + (IF left THEN 1 ELSE 0)

(* One loop is live at most, and reads its own stream; a stream nobody     *)
(* reads is empty.                                                         *)
Connected ==
  /\ \A d, e \in Dials : Live(d) /\ Live(e) => d = e
  /\ stream # 0 => Live(stream)
  /\ stream = 0 /\ ~left => \A d \in Dials : ~Live(d)
  /\ left => stream = 0 /\ ui.at = "idle"
  /\ ui.at = "connect" => dials = 0
  /\ \A d \in Dials :
       /\ loop[d].at \in {"blocked", "call"} => loop[d].on = d
       /\ loop[d].at \notin {"read", "blocked", "call"} =>
            net[d].down = <<>> /\ net[d].up = <<>>
       /\ net[d].over => net[d].up = <<>>
       /\ loop[d].at \in {"ending", "niling", "done"} => net[d].over

(* Requests and answers keep the order in which the requests were made,    *)
(* and what was shown is older than what is on its way. *)
Earlier(q, a, b) == \E i, j \in DOMAIN q : i < j /\ q[i] = a /\ q[j] = b
Rising(q, s) ==
  \A i, j \in DOMAIN s : i < j /\ s[i] \in Calls /\ s[j] \in Calls => Earlier(q, s[i], s[j])
Precede(q, A, B) == \A a \in A \cap Calls, b \in B \cap Calls : Earlier(q, a, b)
Ordered(q, before, msg, down, up) ==
  /\ ({msg} \cup ToSet(down) \cup ToSet(up)) \cap Calls \subseteq ToSet(q)
  /\ Rising(q, down) /\ Rising(q, up)
  /\ Precede(q, ToSet(down), ToSet(up))
  /\ Precede(q, {msg}, ToSet(down) \cup ToSet(up))
  /\ Precede(q, before, {msg} \cup ToSet(down) \cup ToSet(up))
Distinct(q) == \A i, j \in DOMAIN q : q[i] = q[j] => i = j
Shown == {shown[c] : c \in Calls}
InOrder ==
  /\ Distinct(asked)
  /\ Shown \cap Calls \subseteq ToSet(asked)
  /\ \A d \in Dials : Ordered(asked, Shown, loop[d].msg, net[d].down, net[d].up)
  /\ Sending /\ ui.call \in Calls =>
       /\ ui.call \in ToSet(asked)
       /\ Precede(asked, Shown, {ui.call})
       /\ \A d \in Dials : Precede(asked, Line(d), {ui.call})

(* Who asks is heard: the listeners are those of the request being made,   *)
(* and of the song that is waited for.                                     *)
Registered ==
  /\ ui.at \in {"send", "check", "put", "wait"} /\ ui.call \in Songs => listeners.song = ui.call
  /\ ui.at \in {"send", "check", "put"} /\ ui.call \in Banks => listeners.bank = ui.call
  /\ \A d \in Dials : \A c \in Songs \cap Line(d) :
       ui.at = "wait" /\ ui.call = c

(* The greeting comes alone and before anything is asked for. *)
Greetings == {Hello, Closed}
Lonely(d) ==
  /\ loop[d].msg # NoCall => net[d].down = <<>> /\ net[d].up = <<>>
  /\ net[d].down # <<>> => Len(net[d].down) = 1 /\ net[d].up = <<>>
  /\ net[d].up # <<>> => Len(net[d].up) = 1
Greeted ==
  /\ ui.call \in Calls \cup Logouts => asked # <<>>
  /\ ui.call = Hello \/ (\E d \in Dials : Line(d) \cap Greetings # {}) =>
       screens = 0 /\ asked = <<>> /\ ~entered
  /\ \A d \in Dials :
       /\ ui.call = Hello => Line(d) = {NoCall}
       /\ Line(d) \cap Greetings # {} => Lonely(d)
       /\ Refusal \in Line(d) => refused # {}

(* A stream nobody has opened is as good as new. *)
Unopened == \A d \in Dials : loop[d].at = "off" => ~net[d].shut /\ ~net[d].over

(* Without a failure the stream serves until the screen is left, and then  *)
(* nothing is on its way any more, unless it was left in haste.            *)
Serves ==
  ~failed /\ ~left /\ ui.at # "connect" =>
    /\ stream # 0 /\ loop[stream].at \in {"read", "blocked", "call"}
    /\ ~net[stream].over /\ ~net[stream].shut
Rests ==
  ~failed /\ left /\ ~hasty =>
    /\ posted = 0 /\ screens = 0
    /\ \A d \in Dials : /\ net[d].down = <<>> /\ net[d].up = <<>>
                        /\ loop[d].at \notin {"read", "call"}
EndIsHeard == Empty \in Shown => failed \/ left

(* The latest bank asked for is being asked for, on its way, or shown. *)
LastOf(q, c) ==
  /\ c \in Banks
  /\ \E i \in DOMAIN q : q[i] = c /\ \A j \in DOMAIN q : q[j] \in Banks => j <= i
BankComes ==
  ~failed /\ ~left => \A c \in Banks : LastOf(asked, c) =>
    \/ Sending /\ ui.call = c
    \/ c \in refused
    \/ listeners.bank = c /\ (shown[c] = c \/ \E d \in Dials : c \in Line(d))

(* Only the thread that waits for a song hears it. *)
SongsOwn == \A c \in Songs : shown[c] \in {NoCall, Empty, c}

(* One screen is opened by the greeting, and others only by refusals. *)
OneTap == refused = {} => screens <= 1

Early ==
  /\ Connected /\ Unopened /\ InOrder /\ Registered /\ Greeted /\ Serves /\ Rests /\ EndIsHeard /\ BankComes
  /\ ~stale
  /\ SongsOwn
  /\ OneTap

IInv ==
  Fits /\ Posts /\ (~moved => Early) /\ DiesOfFailureOnly

-----------------------------------------------------------------------------
(* Constants. *)

LEMMA OneMore ==
  ASSUME NEW S, NEW x, NEW n \in Nat, IsFiniteSet(S), Cardinality(S) <= n
  PROVE  IsFiniteSet(S \cup {x}) /\ Cardinality(S \cup {x}) <= n + 1
<1>1. Cardinality(S) \in Nat
  BY FS_CardinalityType
<1>2. Cardinality(S \cup {x}) = Cardinality(S) \/ Cardinality(S \cup {x}) = Cardinality(S) + 1
  BY FS_AddElement, Zenon
<1> QED
  BY <1>1, <1>2, FS_AddElement

LEMMA FewElements ==
  ASSUME NEW a, NEW b, NEW c, NEW d, NEW e
  PROVE  Cardinality({a, b, c, d, e}) <= 5
<1> DEFINE S == {a}  T == S \cup {b}  U == T \cup {c}  V == U \cup {d}  W == V \cup {e}
<1>1. IsFiniteSet(S) /\ Cardinality(S) <= 1
  BY FS_Singleton
<1> HIDE DEF S
<1>2. IsFiniteSet(T) /\ Cardinality(T) <= 2
  <2>1. 1 \in Nat
    OBVIOUS
  <2>2. IsFiniteSet(T) /\ Cardinality(T) <= 1 + 1
    BY <1>1, <2>1, OneMore, Zenon
  <2> QED
    BY <2>2
<1> HIDE DEF T
<1>3. IsFiniteSet(U) /\ Cardinality(U) <= 3
  <2>1. 2 \in Nat
    OBVIOUS
  <2>2. IsFiniteSet(U) /\ Cardinality(U) <= 2 + 1
    BY <1>2, <2>1, OneMore, Zenon
  <2> QED
    BY <2>2
<1> HIDE DEF U
<1>4. IsFiniteSet(V) /\ Cardinality(V) <= 4
  <2>1. 3 \in Nat
    OBVIOUS
  <2>2. IsFiniteSet(V) /\ Cardinality(V) <= 3 + 1
    BY <1>3, <2>1, OneMore, Zenon
  <2> QED
    BY <2>2
<1> HIDE DEF V
<1>5. IsFiniteSet(W) /\ Cardinality(W) <= 5
  <2>1. 4 \in Nat
    OBVIOUS
  <2>2. IsFiniteSet(W) /\ Cardinality(W) <= 4 + 1
    BY <1>4, <2>1, OneMore, Zenon
  <2> QED
    BY <2>2
<1>6. W = {a, b, c, d, e}
  BY DEF S, T, U, V
<1> QED
  BY <1>5, <1>6, Zenon

(* The names of messages and answers tell them apart. *)
LEMMA MarksDiffer ==
  /\ NoCall # Hello /\ NoCall # Closed /\ NoCall # Refusal /\ NoCall # Notice /\ NoCall # Empty
  /\ Hello # Closed /\ Hello # Refusal /\ Hello # Notice /\ Hello # Empty
  /\ Closed # Refusal /\ Closed # Notice /\ Closed # Empty
  /\ Refusal # Notice /\ Refusal # Empty /\ Notice # Empty
<1> SUFFICES ASSUME NEW a, NEW b, NEW c, NEW d, NEW e, Marks = {a, b, c, d, e}
             PROVE  FALSE
  <2>1. \A a, b, c, d, e : Marks # {a, b, c, d, e}
    OBVIOUS
  <2>2. /\ {Closed, Hello, Refusal, Notice, Empty} # Marks
        /\ {NoCall, Hello, Refusal, Notice, Empty} # Marks
        /\ {NoCall, Hello, Closed, Notice, Empty} # Marks
        /\ {NoCall, Hello, Closed, Refusal, Empty} # Marks
        /\ {NoCall, Hello, Closed, Refusal, Notice} # Marks
    BY <2>1
  <2> QED
    BY <2>2 DEF Marks
<1>1. Cardinality(Marks) <= 5
  BY FewElements, Zenon
<1>2. Cardinality(Marks) = 6
  BY RequestAssumptions
<1> QED
  BY <1>1, <1>2

(* Requests, answers and marks are different things. *)
LEMMA NamesDiffer ==
  /\ \A c \in Calls \cup Logouts : c \notin {NoCall, Hello, Closed, Refusal, Notice, Empty}
  /\ \A c \in Banks : c \notin Songs
  /\ \A c \in Logouts : c \notin Calls
  /\ NoCall \notin Messages /\ Empty \notin Messages /\ Notice \notin Requests
  BY RequestAssumptions, MarksDiffer DEF Marks, Calls, Messages, Requests

-----------------------------------------------------------------------------
(* Types. *)

LEMMA TypesFit ==
  ASSUME Fits, posted <= 2 * MaxDials + 1
  PROVE  TypeOK
<1>1. posted \in 0..(2 * MaxDials + 1)
  BY RequestAssumptions DEF Fits, AppFits
<1>2. {entered, left, stale, moved, failed, late, hasty} \subseteq BOOLEAN
  BY DEF Fits, AppFits, PastFits
<1>3. (ui.at = "idle") = (ui.call = NoCall)
  BY Zenon DEF Fits, UiFits
<1>4. net \in [Dials -> [up : Seq(Requests), down : Seq(Messages), shut : BOOLEAN, over : BOOLEAN]]
  BY Zenon DEF Fits, Nets, UpSeqs, DownSeqs
<1>5. loop \in [Dials -> [at : LoopStates, on : 0..MaxDials, msg : Messages \cup {NoCall}]]
  BY Zenon DEF Fits, LoopsFit, Loops, LoopRecords
<1>6. ui \in [at : UiStates, call : Requests \cup {NoCall}]
  BY Zenon DEF Fits, UiFits, UiRecords
<1>7. listeners \in [bank : Banks \cup {NoCall}, song : Songs \cup {NoCall}]
  BY Zenon DEF Fits, AppFits, Listeners
<1>8. /\ ui.at = "wait" => ui.call \in Songs
      /\ \A d \in Dials : d > dials => loop[d].at = "off"
      /\ stream # 0 => loop[stream].at # "off"
      /\ dials \in 0..MaxDials /\ stream \in 0..dials
      /\ crash \in {"none", "nil", "null", "map"}
      /\ screens \in 0..2
      /\ shown \in [Calls -> Calls \cup {NoCall, Empty}]
      /\ asked \in Seq(Calls \cup Logouts)
      /\ refused \in SUBSET (Calls \cup Logouts)
  BY Zenon DEF Fits, UiFits, LoopsFit, AppFits, PastFits, Deaths
<1> QED
  BY <1>1, <1>2, <1>3, <1>4, <1>5, <1>6, <1>7, <1>8, Zenon DEF TypeOK

LEMMA InitFits == Init => Fits
<1> SUFFICES ASSUME Init PROVE Fits
  OBVIOUS
<1>1. UiFits
  <2>1. ui = [at |-> "connect", call |-> Hello]
    BY DEF Init
  <2>2. "connect" \in UiStates /\ Hello \in Requests /\ Hello # NoCall
    BY NamesDiffer, MarksDiffer DEF UiStates, Requests
  <2>3. ui \in UiRecords /\ ui.at = "connect" /\ ui.call = Hello
    BY <2>1, <2>2 DEF UiRecords
  <2> QED
    BY <2>2, <2>3 DEF UiFits
<1>2. LoopsFit
  <2> DEFINE r == [at |-> "off", on |-> 0, msg |-> NoCall]
  <2>1. r \in LoopRecords
    BY RequestAssumptions DEF LoopRecords, LoopStates
  <2>2. \A d \in Dials : loop[d].at = "off" /\ loop[d].msg = NoCall
    BY DEF Init
  <2>3. loop = [d \in Dials |-> r]
    BY DEF Init
  <2>4. loop \in Loops
    BY <2>1, <2>3, Zenon DEF Loops
  <2> QED
    BY <2>2, <2>4 DEF Init, LoopsFit
<1>3. net \in Nets
  <2>1. <<>> \in UpSeqs /\ <<>> \in DownSeqs
    BY DEF UpSeqs, DownSeqs
  <2> QED
    BY <2>1 DEF Init, Nets
<1>4. AppFits
  <2>1. listeners \in Listeners
    <3>1. listeners = [bank |-> NoCall, song |-> NoCall]
      BY DEF Init
    <3>2. \A A, B : \A x \in A, y \in B : [bank |-> x, song |-> y] \in [bank : A, song : B]
      OBVIOUS
    <3>3. NoCall \in Banks \cup {NoCall} /\ NoCall \in Songs \cup {NoCall}
      OBVIOUS
    <3> QED
      BY <3>1, <3>2, <3>3, Zenon DEF Listeners
  <2>2. shown \in [Calls -> Calls \cup {NoCall, Empty}]
    <3>1. shown = [c \in Calls |-> NoCall]
      BY DEF Init
    <3> QED
      BY <3>1
  <2>3. posted \in Nat /\ screens \in 0..2 /\ entered \in BOOLEAN /\ left \in BOOLEAN
    <3>1. posted = 0 /\ screens = 0
      BY DEF Init
    <3>2. entered \in BOOLEAN /\ left \in BOOLEAN
      BY DEF Init
    <3> QED
      BY <3>1, <3>2
  <2> QED
    BY <2>1, <2>2, <2>3 DEF AppFits
<1>5. PastFits
  <2>1. asked \in Seq(Calls \cup Logouts) /\ refused \in SUBSET (Calls \cup Logouts)
    BY DEF Init
  <2>2. /\ stale \in BOOLEAN /\ moved \in BOOLEAN /\ failed \in BOOLEAN
        /\ late \in BOOLEAN /\ hasty \in BOOLEAN
    BY DEF Init
  <2> QED
    BY <2>1, <2>2 DEF PastFits
<1> QED
  BY <1>1, <1>2, <1>3, <1>4, <1>5, RequestAssumptions DEF Init, Fits, Deaths

LEMMA AtTypes ==
  ASSUME Fits, NEW p \in UiStates, At(p)
  PROVE  ui' \in UiRecords /\ ui'.at = p /\ ui'.call = ui.call
<1>1. \A A, C : \A r \in [at : A, call : C] : \A q \in A :
        LET s == [r EXCEPT !.at = q]
        IN s \in [at : A, call : C] /\ s.at = q /\ s.call = r.call
  OBVIOUS
<1> QED
  BY <1>1, Zenon DEF At, Fits, UiFits, UiRecords

LEMMA IdleTypes ==
  ASSUME Idle
  PROVE  ui' \in UiRecords /\ ui'.at = "idle" /\ ui'.call = NoCall
  BY DEF Idle, UiStates, UiRecords

LEMMA EndAllTypes ==
  ASSUME Fits, EndAll
  PROVE  /\ shown' \in [Calls -> Calls \cup {NoCall, Empty}]
         /\ posted' \in {posted, posted + 1}
         /\ posted' # posted => ~left /\ stream = 0
         /\ \A c \in Calls : shown'[c] = IF c = listeners.song THEN Empty ELSE shown[c]
  BY DEF Fits, AppFits, EndAll

(* What the actions do to one stream. *)
Others(d) == \A e \in Dials \ {d} : net'[e] = net[e]

LEMMA ShutChanges ==
  ASSUME net \in Nets, NEW d \in Dials,
         net' = [net EXCEPT ![d].shut = TRUE]
  PROVE  /\ net' \in Nets /\ Others(d)
         /\ net'[d].up = net[d].up /\ net'[d].down = net[d].down
         /\ net'[d].shut /\ net'[d].over = net[d].over
  BY DEF Nets, Others

LEMMA OverChanges ==
  ASSUME net \in Nets, NEW d \in Dials,
         net' = [net EXCEPT ![d].over = TRUE]
  PROVE  /\ net' \in Nets /\ Others(d)
         /\ net'[d].up = net[d].up /\ net'[d].down = net[d].down
         /\ net'[d].shut = net[d].shut /\ net'[d].over
  BY DEF Nets, Others

LEMMA UpChanges ==
  ASSUME net \in Nets, NEW d \in Dials, NEW s \in UpSeqs,
         net' = [net EXCEPT ![d].up = s]
  PROVE  /\ net' \in Nets /\ Others(d)
         /\ net'[d].up = s /\ net'[d].down = net[d].down
         /\ net'[d].shut = net[d].shut /\ net'[d].over = net[d].over
  BY DEF Nets, Others

LEMMA DownChanges ==
  ASSUME net \in Nets, NEW d \in Dials, NEW t \in DownSeqs,
         net' = [net EXCEPT ![d].down = t]
  PROVE  /\ net' \in Nets /\ Others(d)
         /\ net'[d].up = net[d].up /\ net'[d].down = t
         /\ net'[d].shut = net[d].shut /\ net'[d].over = net[d].over
  BY DEF Nets, Others

LEMMA BothChange ==
  ASSUME net \in Nets, NEW d \in Dials, NEW s \in UpSeqs, NEW t \in DownSeqs,
         net' = [net EXCEPT ![d].up = s, ![d].down = t]
  PROVE  /\ net' \in Nets /\ Others(d)
         /\ net'[d].up = s /\ net'[d].down = t
         /\ net'[d].shut = net[d].shut /\ net'[d].over = net[d].over
  BY DEF Nets, Others

LEMMA LoopChanges ==
  ASSUME loop \in Loops, NEW d \in Dials, NEW r \in LoopRecords, loop' = [loop EXCEPT ![d] = r]
  PROVE  loop' \in Loops /\ loop'[d] = r /\ \A e \in Dials \ {d} : loop'[e] = loop[e]
  BY DEF Loops

LEMMA LoopGoes ==
  ASSUME loop \in Loops, NEW d \in Dials, NEW p \in LoopStates,
         loop' = [loop EXCEPT ![d].at = p]
  PROVE  /\ loop' \in Loops /\ \A e \in Dials \ {d} : loop'[e] = loop[e]
         /\ loop'[d].at = p /\ loop'[d].on = loop[d].on /\ loop'[d].msg = loop[d].msg
<1> DEFINE A == 0..MaxDials
           B == Messages \cup {NoCall}
<1>1. loop \in [Dials -> [at : LoopStates, on : A, msg : B]]
  BY DEF Loops, LoopRecords
<1> HIDE DEF A, B
<1>2. /\ loop' \in [Dials -> [at : LoopStates, on : A, msg : B]]
      /\ \A e \in Dials \ {d} : loop'[e] = loop[e]
      /\ loop'[d].at = p /\ loop'[d].on = loop[d].on /\ loop'[d].msg = loop[d].msg
  BY <1>1
<1> QED
  BY <1>2 DEF A, B, Loops, LoopRecords

LEMMA LoopTakes ==
  ASSUME loop \in Loops, NEW d \in Dials, NEW m \in Messages,
         loop' = [loop EXCEPT ![d].at = "call", ![d].msg = m]
  PROVE  /\ loop' \in Loops /\ \A e \in Dials \ {d} : loop'[e] = loop[e]
         /\ loop'[d].at = "call" /\ loop'[d].on = loop[d].on /\ loop'[d].msg = m
<1> DEFINE A == 0..MaxDials
           B == Messages \cup {NoCall}
<1>1. loop \in [Dials -> [at : LoopStates, on : A, msg : B]] /\ m \in B
  BY DEF Loops, LoopRecords
<1>2. "call" \in LoopStates
  BY DEF LoopStates
<1> HIDE DEF A, B
<1>3. /\ loop' \in [Dials -> [at : LoopStates, on : A, msg : B]]
      /\ \A e \in Dials \ {d} : loop'[e] = loop[e]
      /\ loop'[d].at = "call" /\ loop'[d].on = loop[d].on /\ loop'[d].msg = m
  BY <1>1, <1>2
<1> QED
  BY <1>3 DEF A, B, Loops, LoopRecords

(* The stream of the loop, when there is a stream. *)
LEMMA StreamIs ==
  ASSUME Fits, stream # 0
  PROVE  stream \in Dials
  BY RequestAssumptions DEF Fits, Dials

LEMMA NextDialIs ==
  ASSUME Fits, dials < MaxDials
  PROVE  dials + 1 \in Dials /\ loop[dials + 1].at = "off" /\ dials + 1 # 0
<1>1. dials + 1 \in Dials /\ dials + 1 > dials /\ dials + 1 # 0
  BY RequestAssumptions DEF Fits, Dials
<1> QED
  BY <1>1 DEF Fits, LoopsFit

LEMMA DropStreamTypes ==
  ASSUME Fits, DropStream
  PROVE  /\ net' \in Nets /\ stream' = 0
         /\ \A d \in Dials : /\ net'[d].up = net[d].up /\ net'[d].down = net[d].down
                             /\ net'[d].over = net[d].over
                             /\ d # stream => net'[d].shut = net[d].shut
                             /\ d = stream => net'[d].shut
<1>1. net \in Nets /\ stream \in 0..dials /\ dials \in 0..MaxDials /\ MaxDials \in Nat
  BY RequestAssumptions DEF Fits
<1>2. CASE stream = 0
  <2>1. net' = net /\ stream' = 0
    BY <1>2 DEF DropStream
  <2>2. \A d \in Dials : d # stream
    BY <1>2 DEF Dials
  <2> QED
    BY <1>1, <2>1, <2>2
<1>3. CASE stream # 0
  <2>1. stream \in Dials /\ stream' = 0 /\ net' = [net EXCEPT ![stream].shut = TRUE]
    BY <1>1, <1>3 DEF DropStream, Dials
  <2> QED
    BY <1>1, <2>1, ShutChanges DEF Others
<1> QED
  BY <1>2, <1>3

-----------------------------------------------------------------------------
(* What each action does, and that its results fit. *)

LEMMA UiGoesOn ==
  ASSUME Fits, NEW p \in UiStates \ {"idle", "wait", "connect", "register"},
         ui.at # "idle", At(p)
  PROVE  UiFits' /\ ui'.at = p /\ ui'.call = ui.call
  BY AtTypes DEF Fits, UiFits

LEMMA UiSends ==
  ASSUME Fits, ui.at # "idle", Sent
  PROVE  /\ UiFits'
         /\ IF ui.call \in Songs THEN ui'.at = "wait" /\ ui'.call = ui.call
            ELSE ui'.at = "idle" /\ ui'.call = NoCall
<1>1. CASE ui.call \in Songs
  <2>1. At("wait") /\ "wait" \in UiStates
    BY <1>1 DEF Sent, UiStates
  <2> QED
    BY <1>1, <2>1, AtTypes DEF Fits, UiFits
<1>2. CASE ui.call \notin Songs
  BY <1>2, IdleTypes DEF Sent, UiFits
<1> QED
  BY <1>1, <1>2

LEMMA UiStays == ASSUME Fits, ui' = ui PROVE UiFits'
  BY DEF Fits, UiFits

LEMMA LoopsStay ==
  ASSUME Fits, loop' = loop, dials' = dials, stream' \in {stream, 0}
  PROVE  LoopsFit'
  BY DEF Fits, LoopsFit

(* A dial succeeds, or ends everything. *)
LEMMA ConnectEffect ==
  ASSUME Fits, ui.at \in {"connect", "send"}, NEW next \in {"send", "check"}, Connect(next)
  PROVE  /\ UiFits' /\ ui'.at = next /\ ui'.call = ui.call
         /\ dials' = dials + 1 /\ dials' \in Dials /\ dials' \in 0..MaxDials /\ stream' \in 0..dials'
         /\ LoopsFit' /\ net' \in Nets
         /\ posted' \in Nat /\ shown' \in [Calls -> Calls \cup {NoCall, Empty}]
         /\ failed' \in BOOLEAN
         /\ \/ /\ stream' = dials + 1 /\ loop[stream'].at = "off"
               /\ loop'[stream'].at = "read" /\ loop'[stream'].msg = NoCall
               /\ \A e \in Dials \ {stream'} : loop'[e] = loop[e]
               /\ UNCHANGED <<net, posted, shown, failed>>
            \/ EndAll /\ DropStream /\ failed' /\ loop' = loop
<1>1. UiFits' /\ ui'.at = next /\ ui'.call = ui.call
  <2>1. At(next) /\ next \in UiStates \ {"idle", "wait", "connect", "register"} /\ ui.at # "idle"
    BY DEF Connect, UiStates
  <2> QED
    BY <2>1, UiGoesOn
<1>2. /\ dials' = dials + 1 /\ dials' \in Dials /\ dials' \in 0..MaxDials /\ dials' # 0
      /\ loop[dials'].at = "off"
  BY NextDialIs, RequestAssumptions DEF Connect, Dials, Fits
<1>3. CASE /\ stream' = dials + 1
           /\ loop' = [loop EXCEPT ![dials + 1].at = "read"]
           /\ UNCHANGED <<net, posted, shown, failed>>
  <2>1. "read" \in LoopStates /\ loop \in Loops
    BY DEF LoopStates, Fits, LoopsFit
  <2>2. /\ loop' \in Loops /\ \A e \in Dials \ {dials'} : loop'[e] = loop[e]
        /\ loop'[dials'].at = "read" /\ loop'[dials'].msg = loop[dials'].msg
    BY <1>2, <1>3, <2>1, LoopGoes
  <2>3. loop'[dials'].msg = NoCall
    BY <1>2, <2>2 DEF Fits, LoopsFit
  <2>4. LoopsFit'
    <3>1. \A d \in Dials : d > dials' => d # dials' /\ d > dials
      BY <1>2, RequestAssumptions DEF Dials, Fits
    <3> QED
      BY <1>2, <1>3, <2>2, <2>3, <3>1 DEF Fits, LoopsFit
  <2>5. stream' \in 0..dials'
    BY <1>2, <1>3 DEF Fits
  <2> QED
    BY <1>1, <1>2, <1>3, <2>2, <2>3, <2>4, <2>5 DEF Fits, AppFits, PastFits
<1>4. CASE EndAll /\ DropStream /\ failed' = TRUE /\ loop' = loop
  <2>1. LoopsFit'
    <3>1. \A d \in Dials : d > dials' => d > dials
      BY <1>2, RequestAssumptions DEF Dials, Fits
    <3> QED
      BY <1>4, <3>1 DEF Fits, LoopsFit, DropStream
  <2>2. posted' \in Nat
    BY <1>4, EndAllTypes DEF Fits, AppFits
  <2>3. stream' \in 0..dials'
    BY <1>2, <1>4 DEF Fits, DropStream
  <2> QED
    BY <1>1, <1>2, <1>4, <2>1, <2>2, <2>3, EndAllTypes, DropStreamTypes
<1> QED
  BY <1>3, <1>4 DEF Connect

LEMMA FitsDial == ASSUME Fits, Dial \/ (Send /\ stream = 0) PROVE Fits'
<1>1. \E next \in {"send", "check"} : Connect(next) /\ ui.at \in {"connect", "send"}
  BY DEF Dial, Send
<1>2. UNCHANGED <<listeners, screens, entered, left, crash, asked, refused, stale, moved, late, hasty>>
  BY DEF Dial, Send
<1> QED
  BY <1>1, <1>2, ConnectEffect DEF Fits, AppFits, PastFits

LEMMA FitsSend == ASSUME Fits, Send, stream # 0 PROVE Fits' /\ ui'.at = "check" /\ ui'.call = ui.call
<1>1. At("check") /\ ui.at # "idle" /\ "check" \in UiStates \ {"idle", "wait", "connect", "register"}
  BY DEF Send, UiStates
<1>2. UNCHANGED <<netVars, loop, appVars, crash, pastVars>>
  BY DEF Send, netVars, appVars, pastVars
<1> QED
  BY <1>1, <1>2, UiGoesOn DEF Fits, LoopsFit, AppFits, PastFits, netVars, appVars, pastVars

LEMMA FitsDies ==
  ASSUME Fits, NEW how \in Deaths, Dies(how)
  PROVE  Fits'
  BY DEF Dies, Fits, UiFits, LoopsFit, AppFits, PastFits, netVars, appVars, pastVars

LEMMA FitsHandle ==
  ASSUME Fits, Handle
  PROVE  Fits' /\ (left => Dies("null")) /\ (~left => moved')
<1>1. CASE left
  BY <1>1, FitsDies DEF Handle, Deaths
<1>2. CASE ~left
  <2>1. ui' = [at |-> "connect", call |-> Hello] /\ posted' = posted - 1 /\ posted' \in Nat /\ moved' = TRUE
    BY <1>2 DEF Handle, Fits, AppFits
  <2>2. ui' \in UiRecords /\ ui'.at = "connect" /\ ui'.call = Hello
    BY <2>1 DEF UiRecords, UiStates, Requests
  <2>3. UiFits'
    BY <2>2, MarksDiffer DEF UiFits
  <2> QED
    BY <1>2, <2>1, <2>3 DEF Handle, Fits, LoopsFit, AppFits, PastFits, netVars
<1> QED
  BY <1>1, <1>2

(* A request is added to what was asked for. *)
LEMMA AskEffect ==
  ASSUME Fits, NEW c \in Calls \cup Logouts, Ask(c), ~left
  PROVE  /\ Fits' /\ ui.at = "idle" /\ ui'.call = c
         /\ ui'.at = IF c \in Calls THEN "register" ELSE "send"
         /\ c \notin ToSet(asked) /\ asked' = Append(asked, c) /\ screens > 0 /\ entered
         /\ UNCHANGED <<loop, crash, netVars, appVars, refused, stale, moved, failed, late, hasty>>
<1>1. /\ ui' = [at |-> IF c \in Calls THEN "register" ELSE "send", call |-> c]
      /\ asked' = Append(asked, c)
      /\ UNCHANGED <<loop, crash, netVars, appVars, refused, stale, moved, failed, late, hasty>>
      /\ ui.at = "idle" /\ c \notin ToSet(asked) /\ screens > 0 /\ entered
  BY DEF Ask
<1>2. /\ ui'.call = c /\ ui'.at = IF c \in Calls THEN "register" ELSE "send"
      /\ ui' \in UiRecords
  BY <1>1 DEF UiRecords, UiStates, Requests
<1>3. UiFits'
  BY <1>2, NamesDiffer DEF UiFits
<1>4. asked' \in Seq(Calls \cup Logouts)
  BY <1>1 DEF Fits, PastFits
<1>5. Fits'
  BY <1>1, <1>3, <1>4 DEF Fits, LoopsFit, AppFits, PastFits, netVars, appVars
<1> QED
  BY <1>1, <1>2, <1>5

LEMMA AddEffect ==
  ASSUME Fits, AddOnMessageListener
  PROVE  /\ Fits' /\ ui.at = "register" /\ ui'.at = "send" /\ ui'.call = ui.call /\ ui.call \in Calls
         /\ listeners'.song = IF ui.call \in Songs THEN ui.call ELSE listeners.song
         /\ listeners'.bank = IF ui.call \in Songs THEN listeners.bank ELSE ui.call
         /\ UNCHANGED <<loop, crash, netVars, posted, screens, entered, left, shown,
                        asked, refused, stale, moved, failed, hasty>>
<1>1. /\ ui.at = "register" /\ At("send") /\ "send" \in UiStates \ {"idle", "wait", "connect", "register"}
      /\ UNCHANGED <<loop, crash, netVars, posted, screens, entered, left, shown,
                     asked, refused, stale, moved, failed, hasty>>
      /\ late' \in BOOLEAN
  BY DEF AddOnMessageListener, UiStates, Fits, PastFits
<1>2. UiFits' /\ ui'.at = "send" /\ ui'.call = ui.call /\ ui.call \in Calls
  BY <1>1, UiGoesOn DEF Fits, UiFits
<1>3. \A A, B : \A r \in [bank : A, song : B] :
        /\ \A a \in A : LET s == [r EXCEPT !.bank = a]
                        IN s \in [bank : A, song : B] /\ s.bank = a /\ s.song = r.song
        /\ \A b \in B : LET s == [r EXCEPT !.song = b]
                        IN s \in [bank : A, song : B] /\ s.song = b /\ s.bank = r.bank
  OBVIOUS
<1>4. listeners \in [bank : Banks \cup {NoCall}, song : Songs \cup {NoCall}]
  BY DEF Fits, AppFits, Listeners
<1>5. CASE ui.call \in Songs
  <2>1. listeners' = [listeners EXCEPT !.song = ui.call] /\ ui.call \in Songs \cup {NoCall}
    BY <1>5 DEF AddOnMessageListener
  <2>2. listeners' \in Listeners /\ listeners'.song = ui.call /\ listeners'.bank = listeners.bank
    BY <1>3, <1>4, <2>1, Zenon DEF Listeners
  <2> QED
    BY <1>1, <1>2, <1>5, <2>2 DEF Fits, LoopsFit, AppFits, PastFits, netVars
<1>6. CASE ui.call \notin Songs
  <2>1. listeners' = [listeners EXCEPT !.bank = ui.call] /\ ui.call \in Banks \cup {NoCall}
    BY <1>2, <1>6 DEF AddOnMessageListener, Calls
  <2>2. listeners' \in Listeners /\ listeners'.bank = ui.call /\ listeners'.song = listeners.song
    BY <1>3, <1>4, <2>1, Zenon DEF Listeners
  <2> QED
    BY <1>1, <1>2, <1>6, <2>2 DEF Fits, LoopsFit, AppFits, PastFits, netVars
<1> QED
  BY <1>5, <1>6

LEMMA FitsCheck ==
  ASSUME Fits, Check
  PROVE  /\ Fits' /\ UNCHANGED <<loop, crash, netVars, appVars, pastVars>>
         /\ IF stream = 0
            THEN IF ui.call \in Songs THEN ui'.at = "wait" /\ ui'.call = ui.call
                 ELSE ui'.at = "idle" /\ ui'.call = NoCall
            ELSE ui'.at = "put" /\ ui'.call = ui.call
<1>1. UNCHANGED <<loop, crash, netVars, appVars, pastVars>> /\ ui.at = "check"
  BY DEF Check
<1>2. CASE stream = 0
  BY <1>1, <1>2, UiSends DEF Check, Fits, LoopsFit, AppFits, PastFits, netVars, appVars, pastVars
<1>3. CASE stream # 0
  <2>1. At("put") /\ "put" \in UiStates \ {"idle", "wait", "connect", "register"}
    BY <1>3 DEF Check, UiStates
  <2> QED
    BY <1>1, <1>3, <2>1, UiGoesOn DEF Fits, LoopsFit, AppFits, PastFits, netVars, appVars, pastVars
<1> QED
  BY <1>2, <1>3

LEMMA PutEffect ==
  ASSUME Fits, Put, stream # 0
  PROVE  /\ Fits' /\ ui.at = "put" /\ stream \in Dials /\ Others(stream)
         /\ UNCHANGED <<loop, crash, stream, dials, appVars, pastVars>>
         /\ net'[stream].down = net[stream].down
         /\ net'[stream].shut = net[stream].shut /\ net'[stream].over = net[stream].over
         /\ net'[stream].up = IF net[stream].over THEN net[stream].up
                              ELSE Append(net[stream].up, ui.call)
         /\ net[stream].up \in Seq(Requests) /\ ui.call \in Requests
         /\ IF ui.call \in Songs THEN ui'.at = "wait" /\ ui'.call = ui.call
            ELSE ui'.at = "idle" /\ ui'.call = NoCall
<1>1. /\ ui.at = "put" /\ Sent /\ stream \in Dials
      /\ UNCHANGED <<loop, crash, stream, dials, appVars, pastVars>>
  BY StreamIs DEF Put
<1>2. net[stream].up \in Seq(Requests)
  BY <1>1 DEF Fits, Nets, UpSeqs
<1>3. ui.call \in Requests
  <2>1. ui.call \in Requests \cup {NoCall}
    BY DEF Fits, UiFits, UiRecords
  <2> QED
    BY <1>1, <2>1 DEF Fits, UiFits
<1> DEFINE s == IF net[stream].over THEN net[stream].up ELSE Append(net[stream].up, ui.call)
<1>4. s \in UpSeqs
  BY <1>2, <1>3 DEF UpSeqs
<1>5. net' = [net EXCEPT ![stream].up = s]
  BY DEF Put
<1> HIDE DEF s
<1>6. /\ net' \in Nets /\ Others(stream) /\ net'[stream].up = s
      /\ net'[stream].down = net[stream].down
      /\ net'[stream].shut = net[stream].shut /\ net'[stream].over = net[stream].over
  BY <1>1, <1>4, <1>5, UpChanges DEF Fits
<1>7. /\ UiFits'
      /\ IF ui.call \in Songs THEN ui'.at = "wait" /\ ui'.call = ui.call
         ELSE ui'.at = "idle" /\ ui'.call = NoCall
  BY <1>1, UiSends
<1>8. Fits'
  BY <1>1, <1>6, <1>7 DEF Fits, LoopsFit, AppFits, PastFits, appVars, pastVars
<1> QED
  BY <1>1, <1>2, <1>3, <1>6, <1>7, <1>8 DEF s

LEMMA FitsWaitEnds ==
  ASSUME Fits, WaitEnds
  PROVE  /\ Fits' /\ ui.at = "wait"
         /\ \/ shown[ui.call] = Empty /\ Dies("null")
            \/ /\ shown[ui.call] \notin {NoCall, Empty} /\ ui'.at = "idle" /\ ui'.call = NoCall
               /\ UNCHANGED <<loop, crash, netVars, appVars, pastVars>>
<1>1. CASE shown[ui.call] = Empty
  BY <1>1, FitsDies DEF WaitEnds, Deaths
<1>2. CASE shown[ui.call] # Empty
  <2>1. Idle /\ UNCHANGED <<loop, crash, netVars, appVars, pastVars>>
    BY <1>2 DEF WaitEnds
  <2>2. ui' \in UiRecords /\ ui'.at = "idle" /\ ui'.call = NoCall
    BY <2>1, IdleTypes
  <2> QED
    BY <1>2, <2>1, <2>2 DEF WaitEnds, Fits, UiFits, LoopsFit, AppFits, PastFits, netVars, appVars, pastVars
<1> QED
  BY <1>1, <1>2

LEMMA LeaveEffect ==
  ASSUME Fits, Leave, ~left
  PROVE  /\ Fits' /\ ui.at = "idle" /\ EndAll /\ DropStream /\ left' /\ screens' = screens - 1
         /\ (hasty' <=> UnderWay \/ screens > 1)
         /\ UNCHANGED <<ui, loop, crash, dials, listeners, entered, asked, refused,
                        stale, moved, failed, late>>
<1>1. /\ ui.at = "idle" /\ EndAll /\ DropStream /\ left' = TRUE /\ screens' = screens - 1 /\ screens > 0
      /\ hasty' = (UnderWay \/ screens > 1)
      /\ UNCHANGED <<ui, loop, crash, dials, listeners, entered, asked, refused,
                     stale, moved, failed, late>>
  BY DEF Leave
<1>2. /\ net' \in Nets /\ stream' = 0 /\ posted' \in Nat
      /\ shown' \in [Calls -> Calls \cup {NoCall, Empty}]
  BY <1>1, EndAllTypes, DropStreamTypes DEF Fits, AppFits
<1>3. hasty' \in BOOLEAN /\ screens' \in 0..2 /\ stream' \in 0..dials
  BY <1>1, <1>2, RequestAssumptions DEF Fits, AppFits
<1>4. UiFits' /\ LoopsFit'
  BY <1>1, <1>2, UiStays, LoopsStay
<1>5. AppFits' /\ PastFits'
  BY <1>1, <1>2, <1>3 DEF Fits, AppFits, PastFits
<1>6. Fits'
  BY <1>1, <1>2, <1>3, <1>4, <1>5 DEF Fits
<1> QED
  BY <1>1, <1>6, Zenon


(* What a reply is: the message itself, nothing to a logout, or a refusal. *)
Answers(m) ==
  IF m \in Logouts THEN <<>> ELSE <<m>>
Refuses(m) == <<IF m = Hello THEN Closed ELSE Refusal>>

LEMMA ServeEffect ==
  ASSUME Fits, NEW d \in Dials, Serve(d)
  PROVE  /\ Fits' /\ net[d].up # <<>> /\ ~net[d].over /\ Others(d)
         /\ UNCHANGED <<ui, loop, crash, stream, dials, appVars, asked, stale, moved,
                        failed, late, hasty>>
         /\ Head(net[d].up) \in Requests
         /\ net'[d].up = Tail(net[d].up)
         /\ net'[d].shut = net[d].shut /\ net'[d].over = net[d].over
         /\ \/ net'[d].down = net[d].down \o Answers(Head(net[d].up)) /\ refused' = refused
            \/ /\ net'[d].down = net[d].down \o Refuses(Head(net[d].up))
               /\ refused' = refused \cup ({Head(net[d].up)} \ {Hello})
<1> DEFINE m == Head(net[d].up)
           u == Tail(net[d].up)
           a == net[d].down \o Answers(m)
           b == net[d].down \o Refuses(m)
<1>1. /\ net[d].up # <<>> /\ ~net[d].over
      /\ UNCHANGED <<ui, loop, crash, stream, dials, appVars, asked, stale, moved, failed, late, hasty>>
  BY DEF Serve
<1>2. net[d].up \in Seq(Requests) /\ net[d].down \in Seq(Messages)
  BY DEF Fits, Nets, UpSeqs, DownSeqs
<1>3. m \in Requests /\ u \in Seq(Requests)
  BY <1>1, <1>2
<1>4. Answers(m) \in Seq(Messages) /\ Refuses(m) \in Seq(Messages)
  <2>1. m \in Logouts \/ m \in Messages
    BY <1>3 DEF Requests, Messages
  <2>2. Answers(m) \in Seq(Messages)
    BY <2>1 DEF Answers
  <2>3. (IF m = Hello THEN Closed ELSE Refusal) \in Messages
    BY DEF Messages
  <2> QED
    BY <2>2, <2>3 DEF Refuses
<1>5. u \in UpSeqs /\ a \in DownSeqs /\ b \in DownSeqs
  BY <1>2, <1>3, <1>4 DEF UpSeqs, DownSeqs
<1>6. \/ net' = [net EXCEPT ![d].up = u, ![d].down = a] /\ refused' = refused
      \/ /\ net' = [net EXCEPT ![d].up = u, ![d].down = b]
         /\ refused' = refused \cup ({m} \ {Hello})
  BY DEF Serve, Reply, Answers, Refuses
<1>7. refused' \in SUBSET (Calls \cup Logouts)
  BY <1>3, <1>6 DEF Fits, PastFits, Requests
<1> HIDE DEF u, a, b
<1>8. /\ net' \in Nets /\ Others(d) /\ net'[d].up = u
      /\ net'[d].shut = net[d].shut /\ net'[d].over = net[d].over
      /\ \/ net'[d].down = a /\ refused' = refused
         \/ net'[d].down = b /\ refused' = refused \cup ({m} \ {Hello})
  <2>1. net \in Nets
    BY DEF Fits
  <2>2. CASE net' = [net EXCEPT ![d].up = u, ![d].down = a] /\ refused' = refused
    <3>1. net' \in Nets /\ Others(d) /\ net'[d].up = u /\ net'[d].down = a
          /\ net'[d].shut = net[d].shut /\ net'[d].over = net[d].over
      <4>1. net' = [net EXCEPT ![d].up = u, ![d].down = a]
        BY <2>2
      <4>2. u \in UpSeqs /\ a \in DownSeqs
        BY <1>5
      <4> QED
        BY <2>1, <4>1, <4>2, BothChange, ZenonT(40)
    <3> QED
      BY <2>2, <3>1
  <2>3. CASE /\ net' = [net EXCEPT ![d].up = u, ![d].down = b]
             /\ refused' = refused \cup ({m} \ {Hello})
    <3>1. net' \in Nets /\ Others(d) /\ net'[d].up = u /\ net'[d].down = b
          /\ net'[d].shut = net[d].shut /\ net'[d].over = net[d].over
      <4>1. net' = [net EXCEPT ![d].up = u, ![d].down = b]
        BY <2>3
      <4>2. u \in UpSeqs /\ b \in DownSeqs
        BY <1>5
      <4> QED
        BY <2>1, <4>1, <4>2, BothChange, ZenonT(40)
    <3> QED
      BY <2>3, <3>1
  <2> QED
    BY <1>6, <2>2, <2>3
<1>9. Fits'
  BY <1>1, <1>7, <1>8 DEF Fits, UiFits, LoopsFit, AppFits, PastFits, appVars
<1> QED
  BY <1>1, <1>3, <1>8, <1>9 DEF u, a, b

LEMMA AnnounceEffect ==
  ASSUME Fits, NEW d \in Dials, Announce(d)
  PROVE  /\ Fits' /\ loop[d].at # "off" /\ ~net[d].over /\ ~moved /\ posted = 0 /\ entered
         /\ \A e \in Dials : ~Noticed(e)
         /\ Others(d) /\ net'[d].down = Append(net[d].down, Notice)
         /\ net'[d].up = net[d].up /\ net'[d].shut = net[d].shut /\ net'[d].over = net[d].over
         /\ (hasty' <=> hasty \/ left)
         /\ UNCHANGED <<ui, loop, crash, stream, dials, appVars, asked, refused, stale,
                        moved, failed, late>>
<1>1. /\ entered /\ loop[d].at # "off" /\ ~net[d].over /\ ~moved /\ posted = 0
      /\ \A e \in Dials : ~Noticed(e)
      /\ hasty' = (hasty \/ left)
      /\ UNCHANGED <<ui, loop, crash, stream, dials, appVars, asked, refused, stale,
                     moved, failed, late>>
  BY DEF Announce, Noticed
<1> DEFINE t == Append(net[d].down, Notice)
<1>2. t \in DownSeqs /\ net' = [net EXCEPT ![d].down = t]
  BY DEF Announce, Fits, Nets, DownSeqs, Messages
<1> HIDE DEF t
<1>3. /\ net' \in Nets /\ Others(d) /\ net'[d].down = t
      /\ net'[d].up = net[d].up /\ net'[d].shut = net[d].shut /\ net'[d].over = net[d].over
  BY <1>2, DownChanges DEF Fits
<1>4. hasty' \in BOOLEAN
  BY <1>1
<1>5. Fits'
  BY <1>1, <1>3, <1>4 DEF Fits, UiFits, LoopsFit, AppFits, PastFits, appVars
<1> QED
  BY <1>1, <1>3, <1>5, Zenon DEF t

LEMMA HangUpEffect ==
  ASSUME Fits, NEW d \in Dials, HangUp(d)
  PROVE  /\ Fits' /\ net[d].shut /\ net[d].up = <<>> /\ ~net[d].over
         /\ Others(d) /\ net'[d].up = net[d].up /\ net'[d].down = net[d].down
         /\ net'[d].shut = net[d].shut /\ net'[d].over
         /\ UNCHANGED <<ui, loop, crash, stream, dials, appVars, pastVars>>
<1>1. /\ net[d].shut /\ net[d].up = <<>> /\ ~net[d].over
      /\ net' = [net EXCEPT ![d].over = TRUE]
      /\ UNCHANGED <<ui, loop, crash, stream, dials, appVars, pastVars>>
  BY DEF HangUp
<1>2. /\ net' \in Nets /\ Others(d) /\ net'[d].up = net[d].up /\ net'[d].down = net[d].down
      /\ net'[d].shut = net[d].shut /\ net'[d].over
  BY <1>1, OverChanges DEF Fits
<1>3. Fits'
  <2>1. UiFits' /\ LoopsFit'
    BY <1>1 DEF Fits, UiFits, LoopsFit
  <2>2. AppFits' /\ PastFits'
    BY <1>1 DEF Fits, AppFits, PastFits, appVars, pastVars
  <2> QED
    BY <1>1, <1>2, <2>1, <2>2 DEF Fits
<1> QED
  BY <1>1, <1>2, <1>3

LEMMA LoseEffect ==
  ASSUME Fits, NEW d \in Dials, Lose(d)
  PROVE  /\ Fits' /\ loop[d].at # "off" /\ ~net[d].over
         /\ Others(d) /\ net'[d].up = <<>> /\ net'[d].down \in {<<>>, net[d].down}
         /\ net'[d].shut = net[d].shut /\ net'[d].over
         /\ (failed' <=> failed \/ ~net[d].shut)
         /\ UNCHANGED <<ui, loop, crash, stream, dials, appVars, asked, refused, stale,
                        moved, late, hasty>>
<1>1. /\ loop[d].at # "off" /\ ~net[d].over
      /\ failed' = (failed \/ ~net[d].shut)
      /\ UNCHANGED <<ui, loop, crash, stream, dials, appVars, asked, refused, stale,
                     moved, late, hasty>>
  BY DEF Lose
<1>2. PICK rest \in {<<>>, net[d].down} :
        net' = [net EXCEPT ![d] = [up |-> <<>>, down |-> rest, shut |-> @.shut, over |-> TRUE]]
  BY DEF Lose
<1> DEFINE none == <<>>
<1>3. rest \in DownSeqs /\ none \in UpSeqs
  <2>1. none \in UpSeqs /\ none \in DownSeqs /\ net[d].down \in DownSeqs
    BY DEF Fits, Nets, UpSeqs, DownSeqs
  <2>2. rest = none \/ rest = net[d].down
    OBVIOUS
  <2> QED
    BY <2>1, <2>2
<1>4. /\ net' \in Nets /\ Others(d) /\ net'[d].up = none /\ net'[d].down = rest
      /\ net'[d].shut = net[d].shut /\ net'[d].over
  <2>1. net \in Nets
    BY DEF Fits
  <2>2. net' = [net EXCEPT ![d] = [up |-> none, down |-> rest, shut |-> net[d].shut, over |-> TRUE]]
    BY <1>2
  <2> HIDE DEF none
  <2> QED
    BY <1>3, <2>1, <2>2 DEF Nets, Others
<1>5. failed' \in BOOLEAN
  BY <1>1
<1>6. Fits'
  BY <1>1, <1>4, <1>5 DEF Fits, UiFits, LoopsFit, AppFits, PastFits, appVars
<1> QED
  BY <1>1, <1>2, <1>4, <1>6

(* A loop ends up where it may be. *)
LEMMA LoopGoesFit ==
  ASSUME Fits, NEW d \in Dials, NEW r \in LoopRecords, loop[d].at # "off",
         loop' = [loop EXCEPT ![d] = r],
         r.at # "off", r.msg # NoCall <=> r.at = "call",
         r.at \in {"blocked", "call"} => r.on \in Dials,
         dials' = dials, stream' \in {stream, 0}
  PROVE  LoopsFit' /\ loop'[d] = r /\ \A e \in Dials \ {d} : loop'[e] = loop[e]
<1>1. loop' \in Loops /\ loop'[d] = r /\ \A e \in Dials \ {d} : loop'[e] = loop[e]
  BY LoopChanges DEF Fits, LoopsFit
<1>2. stream' # 0 => stream' \in Dials /\ loop[stream'].at # "off"
  BY StreamIs DEF Fits, LoopsFit
<1>3. \A e \in Dials : e > dials' => loop'[e].at = "off"
  BY <1>1 DEF Fits, LoopsFit
<1>4. stream' # 0 => loop'[stream'].at # "off"
  BY <1>1, <1>2
<1>5. \A e \in Dials : loop'[e].msg # NoCall <=> loop'[e].at = "call"
  BY <1>1 DEF Fits, LoopsFit
<1>6. \A e \in Dials : loop'[e].at \in {"blocked", "call"} => loop'[e].on \in Dials
  BY <1>1 DEF Fits, LoopsFit
<1> QED
  BY <1>1, <1>3, <1>4, <1>5, <1>6 DEF LoopsFit

LEMMA LoopPlaces ==
  ASSUME NEW p \in LoopStates \ {"off", "call", "blocked"}
  PROVE  LET r == [at |-> p, on |-> 0, msg |-> NoCall]
         IN r \in LoopRecords /\ r.at = p /\ r.msg = NoCall
  BY RequestAssumptions DEF LoopRecords

LEMMA ReadEffect ==
  ASSUME Fits, NEW d \in Dials, Read(d), stream # 0
  PROVE  /\ Fits' /\ loop[d].at = "read"
         /\ loop'[d].at = "blocked" /\ loop'[d].on = stream /\ loop'[d].msg = NoCall
         /\ \A e \in Dials \ {d} : loop'[e] = loop[e]
         /\ UNCHANGED <<ui, crash, netVars, appVars, pastVars>>
<1> DEFINE r == [at |-> "blocked", on |-> stream, msg |-> NoCall]
<1>1. /\ loop[d].at = "read" /\ loop' = [loop EXCEPT ![d] = r]
      /\ UNCHANGED <<ui, crash, netVars, appVars, pastVars>>
  BY DEF Read
<1>2. stream \in Dials /\ stream \in 0..MaxDials
  BY StreamIs, RequestAssumptions DEF Dials
<1>3. r \in LoopRecords /\ r.at = "blocked" /\ r.on = stream /\ r.msg = NoCall
  BY <1>2 DEF LoopRecords, LoopStates
<1> HIDE DEF r
<1>4. LoopsFit' /\ loop'[d] = r /\ \A e \in Dials \ {d} : loop'[e] = loop[e]
  BY <1>1, <1>2, <1>3, LoopGoesFit DEF netVars
<1> QED
  BY <1>1, <1>3, <1>4 DEF Fits, UiFits, AppFits, PastFits, netVars, appVars, pastVars

LEMMA HeadOfDown ==
  ASSUME Fits, NEW d \in Dials, net[d].down # <<>>
  PROVE  Head(net[d].down) \in Messages /\ Tail(net[d].down) \in DownSeqs
  BY DEF Fits, Nets, DownSeqs

LEMMA TakeEffect ==
  ASSUME Fits, NEW d \in Dials, Take(d), stream # 0
  PROVE  /\ Fits' /\ loop[d].at = "blocked" /\ loop[d].on = stream /\ stream \in Dials
         /\ net[stream].down # <<>> /\ Others(stream)
         /\ net'[stream].down = Tail(net[stream].down)
         /\ net'[stream].up = net[stream].up
         /\ net'[stream].shut = net[stream].shut /\ net'[stream].over = net[stream].over
         /\ loop'[d].at = "call" /\ loop'[d].on = stream /\ loop'[d].msg = Head(net[stream].down)
         /\ \A e \in Dials \ {d} : loop'[e] = loop[e]
         /\ UNCHANGED <<ui, crash, stream, dials, appVars, pastVars>>
<1>1. /\ loop[d].at = "blocked" /\ loop[d].on = stream /\ stream \in Dials
      /\ net[stream].down # <<>>
      /\ loop' = [loop EXCEPT ![d].at = "call", ![d].msg = Head(net[stream].down)]
      /\ net' = [net EXCEPT ![stream].down = Tail(@)]
      /\ UNCHANGED <<ui, crash, stream, dials, appVars, pastVars>>
  BY StreamIs DEF Take, Arrived, Consume
<1> DEFINE m == Head(net[stream].down)
           t == Tail(net[stream].down)
<1>2. m \in Messages /\ t \in DownSeqs
  BY <1>1, HeadOfDown
<1>3. net' = [net EXCEPT ![stream].down = t] /\ loop' = [loop EXCEPT ![d].at = "call", ![d].msg = m]
  BY <1>1
<1> HIDE DEF m, t
<1>4. /\ net' \in Nets /\ Others(stream) /\ net'[stream].down = t
      /\ net'[stream].up = net[stream].up
      /\ net'[stream].shut = net[stream].shut /\ net'[stream].over = net[stream].over
  <2>1. net \in Nets
    BY DEF Fits
  <2> QED
    <3>1. stream \in Dials /\ t \in DownSeqs /\ net' = [net EXCEPT ![stream].down = t]
      BY <1>1, <1>2, <1>3
    <3> QED
      BY <2>1, <3>1, DownChanges, ZenonT(40)
<1>5. /\ loop' \in Loops /\ \A e \in Dials \ {d} : loop'[e] = loop[e]
      /\ loop'[d].at = "call" /\ loop'[d].on = loop[d].on /\ loop'[d].msg = m
  BY <1>2, <1>3, LoopTakes DEF Fits, LoopsFit
<1>6. m # NoCall
  BY <1>2, NamesDiffer
<1>7. LoopsFit'
  <2>1. loop' \in Loops /\ \A e \in Dials : e > dials' => loop'[e].at = "off"
    BY <1>1, <1>5 DEF Fits, LoopsFit
  <2>2. stream' # 0 => loop'[stream'].at # "off"
    BY <1>1, <1>5 DEF Fits, LoopsFit
  <2>3. \A e \in Dials : loop'[e].msg # NoCall <=> loop'[e].at = "call"
    BY <1>5, <1>6 DEF Fits, LoopsFit
  <2>4. \A e \in Dials : loop'[e].at \in {"blocked", "call"} => loop'[e].on \in Dials
    BY <1>1, <1>5 DEF Fits, LoopsFit
  <2> QED
    BY <2>1, <2>2, <2>3, <2>4 DEF LoopsFit
<1>8. Fits'
  BY <1>1, <1>4, <1>7 DEF Fits, UiFits, AppFits, PastFits, appVars, pastVars
<1> QED
  BY <1>1, <1>4, <1>5, <1>8 DEF m, t

LEMMA SpoilEffect ==
  ASSUME Fits, NEW d \in Dials, Spoil(d)
  PROVE  /\ Fits' /\ loop[d].at = "blocked" /\ loop[d].on \in Dials /\ Others(loop[d].on)
         /\ stream # 0 /\ (stream # loop[d].on \/ ~Alone(d))
         /\ net'[loop[d].on].down = Tail(net[loop[d].on].down) /\ net[loop[d].on].down # <<>>
         /\ loop'[d].at \in {"read", "ending"} /\ loop'[d].msg = NoCall
         /\ \A e \in Dials \ {d} : loop'[e] = loop[e]
         /\ UNCHANGED <<ui, crash, stream, dials, appVars, pastVars>>
<1> DEFINE o == loop[d].on
           t == Tail(net[o].down)
<1>1. /\ loop[d].at = "blocked" /\ o \in Dials /\ net[o].down # <<>>
      /\ stream # 0 /\ (stream # loop[d].on \/ ~Alone(d))
      /\ net' = [net EXCEPT ![o].down = t]
      /\ UNCHANGED <<ui, crash, stream, dials, appVars, pastVars>>
  BY DEF Spoil, Arrived, Consume, Fits, LoopsFit
<1>2. t \in DownSeqs
  BY <1>1, HeadOfDown
<1>3. PICK next \in {"read", "ending"} :
        loop' = [loop EXCEPT ![d] = [at |-> next, on |-> 0, msg |-> NoCall]]
  BY DEF Spoil
<1> DEFINE r == [at |-> next, on |-> 0, msg |-> NoCall]
<1>4. r \in LoopRecords /\ r.at = next /\ r.msg = NoCall
  BY <1>3, LoopPlaces DEF LoopStates
<1> HIDE DEF r, t
<1>5. LoopsFit' /\ loop'[d] = r /\ \A e \in Dials \ {d} : loop'[e] = loop[e]
  BY <1>1, <1>3, <1>4, LoopGoesFit DEF r
<1>6. net' \in Nets /\ Others(o) /\ net'[o].down = t
  BY <1>1, <1>2, DownChanges DEF Fits
<1>7. Fits'
  BY <1>1, <1>5, <1>6 DEF Fits, UiFits, AppFits, PastFits, appVars, pastVars
<1> QED
  BY <1>1, <1>3, <1>4, <1>5, <1>6, <1>7 DEF t

(* The listener of a message, if there is one. *)
Heard(m) ==
  IF m \in Banks THEN listeners.bank ELSE IF m \in Songs THEN listeners.song ELSE NoCall

LEMMA CallEffect ==
  ASSUME Fits, NEW d \in Dials, Call(d)
  PROVE  /\ Fits' /\ loop[d].at = "call" /\ loop[d].msg \in Messages
         /\ loop'[d].at = "read" /\ loop'[d].msg = NoCall
         /\ \A e \in Dials \ {d} : loop'[e] = loop[e]
         /\ \A c \in Calls : shown'[c] = IF c = Heard(loop[d].msg) THEN loop[d].msg ELSE shown[c]
         /\ stale' => stale \/ (/\ Heard(loop[d].msg) # NoCall
                                /\ shown[Heard(loop[d].msg)] \in Calls
                                /\ Older(loop[d].msg, shown[Heard(loop[d].msg)]))
         /\ posted' = IF loop[d].msg = Notice THEN posted + 1 ELSE posted
         /\ screens' = IF loop[d].msg \in {Hello, Closed, Refusal} /\ screens < 2
                       THEN screens + 1 ELSE screens
         /\ (entered' <=> entered \/ loop[d].msg = Hello)
         /\ UNCHANGED <<ui, crash, netVars, listeners, left, asked, refused, moved,
                        failed, late, hasty>>
<1> DEFINE m == loop[d].msg
           h == CASE m \in Banks -> listeners.bank [] m \in Songs -> listeners.song
                  [] OTHER -> NoCall
           r == [at |-> "read", on |-> 0, msg |-> NoCall]
<1>1. /\ loop[d].at = "call" /\ loop' = [loop EXCEPT ![d] = r]
      /\ shown' = [c \in Calls |-> IF c = h THEN m ELSE shown[c]]
      /\ stale' = (stale \/ (h # NoCall /\ shown[h] \in Calls /\ Older(m, shown[h])))
      /\ posted' = IF m = Notice THEN posted + 1 ELSE posted
      /\ screens' = IF m \in {Hello, Closed, Refusal} /\ screens < 2 THEN screens + 1 ELSE screens
      /\ entered' = (entered \/ m = Hello)
      /\ UNCHANGED <<ui, crash, netVars, listeners, left, asked, refused, moved,
                     failed, late, hasty>>
  BY DEF Call
<1>2. h = Heard(m)
  BY NamesDiffer DEF Heard
<1>3. m \in Messages
  <2>1. m # NoCall
    BY <1>1 DEF Fits, LoopsFit
  <2>2. m \in Messages \cup {NoCall}
    BY DEF Fits, LoopsFit, Loops, LoopRecords
  <2> QED
    BY <2>1, <2>2
<1>4. r \in LoopRecords /\ r.at = "read" /\ r.msg = NoCall
  BY LoopPlaces DEF LoopStates
<1>5. h # NoCall => m \in Calls
  BY <1>2 DEF Heard, Calls
<1>6. shown' \in [Calls -> Calls \cup {NoCall, Empty}]
  <2>1. \A c \in Calls : c = h => h # NoCall
    BY NamesDiffer
  <2>2. \A c \in Calls : (IF c = h THEN m ELSE shown[c]) \in Calls \cup {NoCall, Empty}
    BY <1>5, <2>1 DEF Fits, AppFits
  <2> HIDE DEF h, m
  <2> QED
    BY <1>1, <2>2
<1> HIDE DEF h, r
<1>7. LoopsFit' /\ loop'[d] = r /\ \A e \in Dials \ {d} : loop'[e] = loop[e]
  <2>1. dials' = dials /\ stream' = stream
    BY <1>1 DEF netVars
  <2>2. r.at # "off" /\ (r.msg # NoCall <=> r.at = "call") /\ loop[d].at # "off"
        /\ (r.at \in {"blocked", "call"} => r.on \in Dials)
    BY <1>1, <1>4
  <2> QED
    BY <1>1, <1>4, <2>1, <2>2, LoopGoesFit
<1>8. posted' \in Nat /\ screens' \in 0..2
  BY <1>1 DEF Fits, AppFits
<1>9. stale' \in BOOLEAN /\ entered' \in BOOLEAN
  BY <1>1
<1>10. AppFits' /\ PastFits'
  BY <1>1, <1>6, <1>8, <1>9 DEF Fits, AppFits, PastFits
<1>11. UiFits' /\ net' \in Nets /\ dials' \in 0..MaxDials /\ stream' \in 0..dials' /\ crash' \in Deaths
  BY <1>1 DEF Fits, UiFits, netVars
<1>12. Fits'
  BY <1>7, <1>10, <1>11 DEF Fits
<1>13. \A c \in Calls : shown'[c] = IF c = h THEN m ELSE shown[c]
  BY <1>1
<1> HIDE DEF m
<1>14. (stale' => stale \/ (h # NoCall /\ shown[h] \in Calls /\ Older(m, shown[h])))
       /\ (entered' <=> entered \/ m = Hello)
  BY <1>1
<1> QED
  BY <1>1, <1>2, <1>3, <1>4, <1>7, <1>12, <1>13, <1>14 DEF m

LEMMA EofEffect ==
  ASSUME Fits, NEW d \in Dials, Eof(d)
  PROVE  /\ Fits' /\ loop[d].at = "blocked"
         /\ net[loop[d].on].down = <<>> /\ net[loop[d].on].over
         /\ loop'[d].at = "ending" /\ loop'[d].msg = NoCall
         /\ \A e \in Dials \ {d} : loop'[e] = loop[e]
         /\ UNCHANGED <<ui, crash, netVars, appVars, pastVars>>
<1> DEFINE r == [at |-> "ending", on |-> 0, msg |-> NoCall]
<1>1. /\ loop[d].at = "blocked" /\ loop' = [loop EXCEPT ![d] = r]
      /\ net[loop[d].on].down = <<>> /\ net[loop[d].on].over
      /\ UNCHANGED <<ui, crash, netVars, appVars, pastVars>>
  BY DEF Eof
<1>2. r \in LoopRecords /\ r.at = "ending" /\ r.msg = NoCall
  BY LoopPlaces DEF LoopStates
<1> HIDE DEF r
<1>3. LoopsFit' /\ loop'[d] = r /\ \A e \in Dials \ {d} : loop'[e] = loop[e]
  BY <1>1, <1>2, LoopGoesFit DEF netVars
<1> QED
  BY <1>1, <1>2, <1>3 DEF Fits, UiFits, AppFits, PastFits, netVars, appVars, pastVars

LEMMA EndEffect ==
  ASSUME Fits, NEW d \in Dials, End(d)
  PROVE  /\ Fits' /\ loop[d].at = "ending" /\ EndAll
         /\ loop'[d].at = "niling" /\ loop'[d].msg = NoCall
         /\ \A e \in Dials \ {d} : loop'[e] = loop[e]
         /\ UNCHANGED <<ui, crash, netVars, listeners, screens, entered, left, pastVars>>
<1>1. /\ loop[d].at = "ending" /\ EndAll /\ loop' = [loop EXCEPT ![d].at = "niling"]
      /\ UNCHANGED <<ui, crash, netVars, listeners, screens, entered, left, pastVars>>
  BY DEF End
<1>2. "niling" \in LoopStates
  BY DEF LoopStates
<1>3. /\ loop' \in Loops /\ \A e \in Dials \ {d} : loop'[e] = loop[e]
      /\ loop'[d].at = "niling" /\ loop'[d].on = loop[d].on /\ loop'[d].msg = loop[d].msg
  BY <1>1, <1>2, LoopGoes DEF Fits, LoopsFit
<1>4. loop'[d].msg = NoCall
  BY <1>1, <1>3 DEF Fits, LoopsFit
<1>5. LoopsFit'
  BY <1>1, <1>3, <1>4 DEF Fits, LoopsFit, netVars
<1>6. shown' \in [Calls -> Calls \cup {NoCall, Empty}] /\ posted' \in Nat
  BY <1>1, EndAllTypes DEF Fits, AppFits
<1> QED
  BY <1>1, <1>3, <1>4, <1>5, <1>6 DEF Fits, UiFits, AppFits, PastFits, netVars, pastVars

LEMMA DropEffect ==
  ASSUME Fits, NEW d \in Dials, Drop(d)
  PROVE  /\ Fits' /\ loop[d].at = "niling" /\ DropStream
         /\ loop'[d].at = "done" /\ loop'[d].msg = NoCall
         /\ \A e \in Dials \ {d} : loop'[e] = loop[e]
         /\ UNCHANGED <<ui, crash, dials, appVars, pastVars>>
<1> DEFINE r == [at |-> "done", on |-> 0, msg |-> NoCall]
<1>1. /\ loop[d].at = "niling" /\ DropStream /\ loop' = [loop EXCEPT ![d] = r]
      /\ UNCHANGED <<ui, crash, dials, appVars, pastVars>>
  BY DEF Drop
<1>2. r \in LoopRecords /\ r.at = "done" /\ r.msg = NoCall
  BY LoopPlaces DEF LoopStates
<1>3. net' \in Nets /\ stream' = 0
  BY <1>1, DropStreamTypes
<1> HIDE DEF r
<1>4. LoopsFit' /\ loop'[d] = r /\ \A e \in Dials \ {d} : loop'[e] = loop[e]
  BY <1>1, <1>2, <1>3, LoopGoesFit
<1>5. stream' \in 0..dials
  BY <1>3 DEF Fits
<1> QED
  BY <1>1, <1>2, <1>3, <1>4, <1>5 DEF Fits, UiFits, AppFits, PastFits, appVars, pastVars

-----------------------------------------------------------------------------
(* Sequences. *)

LEMMA SetOf ==
  ASSUME NEW S, NEW s \in Seq(S)
  PROVE  /\ ToSet(s) = {s[i] : i \in DOMAIN s} /\ ToSet(s) \subseteq S
         /\ DOMAIN s = 1..Len(s) /\ Len(s) \in Nat
         /\ s = <<>> <=> Len(s) = 0
         /\ s # <<>> => ToSet(s) # {}
  BY DEF ToSet

LEMMA SetOfNone == ToSet(<<>>) = {}
  BY DEF ToSet

LEMMA TailIs ==
  ASSUME NEW S, NEW s \in Seq(S), s # <<>>
  PROVE  /\ Tail(s) \in Seq(S) /\ Len(Tail(s)) = Len(s) - 1 /\ Head(s) = s[1]
         /\ \A i \in DOMAIN Tail(s) : i \in Nat /\ i > 0 /\ i + 1 \in DOMAIN s /\ Tail(s)[i] = s[i + 1]
         /\ 1 \in DOMAIN s
         /\ ToSet(s) = {Head(s)} \cup ToSet(Tail(s))
<1>1. /\ Tail(s) \in Seq(S) /\ Len(Tail(s)) = Len(s) - 1 /\ Head(s) = s[1] /\ 1 \in DOMAIN s
      /\ \A i \in DOMAIN Tail(s) : i \in Nat /\ i > 0 /\ i + 1 \in DOMAIN s /\ Tail(s)[i] = s[i + 1]
  OBVIOUS
<1>2. \A i \in DOMAIN s : i = 1 \/ (i - 1 \in DOMAIN Tail(s) /\ s[i] = Tail(s)[i - 1])
  <2> SUFFICES ASSUME NEW i \in DOMAIN s, i # 1
               PROVE  i - 1 \in DOMAIN Tail(s) /\ s[i] = Tail(s)[i - 1]
    OBVIOUS
  <2>1. i \in 1..Len(s) /\ i \in Int /\ Len(s) \in Nat
    OBVIOUS
  <2>2. DOMAIN Tail(s) = 1..(Len(s) - 1)
    BY <1>1
  <2>3. i - 1 \in DOMAIN Tail(s) /\ (i - 1) + 1 = i
    BY <2>1, <2>2
  <2> QED
    BY <1>1, <2>3
<1>3. ToSet(s) \subseteq {Head(s)} \cup ToSet(Tail(s))
  <2>1. \A i \in DOMAIN Tail(s) : Tail(s)[i] \in ToSet(Tail(s))
    BY DEF ToSet
  <2>2. SUFFICES ASSUME NEW i \in DOMAIN s, i # 1
                 PROVE  s[i] \in ToSet(Tail(s))
    BY <1>1 DEF ToSet
  <2>3. i - 1 \in DOMAIN Tail(s) /\ s[i] = Tail(s)[i - 1]
    BY <1>2, <2>2
  <2> QED
    BY <2>1, <2>3
<1>4. {Head(s)} \cup ToSet(Tail(s)) \subseteq ToSet(s)
  <2>1. \A i \in DOMAIN s : s[i] \in ToSet(s)
    BY DEF ToSet
  <2>2. \A x \in ToSet(Tail(s)) : \E i \in DOMAIN Tail(s) : x = Tail(s)[i]
    BY DEF ToSet
  <2> QED
    BY <1>1, <2>1, <2>2, Zenon
<1> QED
  BY <1>1, <1>3, <1>4

LEMMA ConcatIs ==
  ASSUME NEW S, NEW s \in Seq(S), NEW t \in Seq(S)
  PROVE  /\ s \o t \in Seq(S) /\ Len(s \o t) = Len(s) + Len(t)
         /\ \A i \in DOMAIN (s \o t) : i \in Nat /\ 
              \/ i \in DOMAIN s /\ (s \o t)[i] = s[i]
              \/ i - Len(s) \in DOMAIN t /\ (s \o t)[i] = t[i - Len(s)] /\ \A j \in DOMAIN s : j < i
         /\ ToSet(s \o t) = ToSet(s) \cup ToSet(t)
<1>1. /\ s \o t \in Seq(S) /\ Len(s \o t) = Len(s) + Len(t)
      /\ \A i \in DOMAIN (s \o t) : i \in Nat /\ 
           \/ i \in DOMAIN s /\ (s \o t)[i] = s[i]
           \/ i - Len(s) \in DOMAIN t /\ (s \o t)[i] = t[i - Len(s)] /\ \A j \in DOMAIN s : j < i
  OBVIOUS
<1>2. ToSet(s \o t) \subseteq ToSet(s) \cup ToSet(t)
  BY <1>1 DEF ToSet
<1>3. \A i \in DOMAIN s : i \in DOMAIN (s \o t) /\ (s \o t)[i] = s[i]
  OBVIOUS
<1>4. \A i \in DOMAIN t : i + Len(s) \in DOMAIN (s \o t) /\ (s \o t)[i + Len(s)] = t[i]
  OBVIOUS
<1>5. ToSet(s) \cup ToSet(t) \subseteq ToSet(s \o t)
  BY <1>3, <1>4 DEF ToSet
<1> QED
  BY <1>1, <1>2, <1>5

LEMMA AppendIs ==
  ASSUME NEW S, NEW s \in Seq(S), NEW x \in S
  PROVE  /\ Append(s, x) \in Seq(S) /\ Len(Append(s, x)) = Len(s) + 1
         /\ \A i \in DOMAIN s : i \in DOMAIN Append(s, x) /\ Append(s, x)[i] = s[i] /\ i <= Len(s)
         /\ Len(s) + 1 \in DOMAIN Append(s, x) /\ Append(s, x)[Len(s) + 1] = x
         /\ \A i \in DOMAIN Append(s, x) : i \in DOMAIN s \/ i = Len(s) + 1
         /\ ToSet(Append(s, x)) = ToSet(s) \cup {x}
<1>1. /\ Append(s, x) \in Seq(S) /\ Len(Append(s, x)) = Len(s) + 1
      /\ \A i \in DOMAIN s : i \in DOMAIN Append(s, x) /\ Append(s, x)[i] = s[i] /\ i <= Len(s)
      /\ Len(s) + 1 \in DOMAIN Append(s, x) /\ Append(s, x)[Len(s) + 1] = x
      /\ \A i \in DOMAIN Append(s, x) : i \in DOMAIN s \/ i = Len(s) + 1
  OBVIOUS
<1>2. ToSet(Append(s, x)) \subseteq ToSet(s) \cup {x}
  BY <1>1 DEF ToSet
<1>3. ToSet(s) \cup {x} \subseteq ToSet(Append(s, x))
  BY <1>1 DEF ToSet
<1> QED
  BY <1>1, <1>2, <1>3

-----------------------------------------------------------------------------
(* The notices and the messages for Main's handler. *)

LEMMA SingleStays ==
  ASSUME NEW s \in Seq(Messages), Single(s)
  PROVE  /\ Single(<<>>)
         /\ s # <<>> => Single(Tail(s))
         /\ s # <<>> /\ Head(s) = Notice => Notice \notin ToSet(Tail(s))
         /\ \A t \in Seq(Messages) : Notice \notin ToSet(t) => Single(s \o t)
         /\ Notice \notin ToSet(s) => Single(Append(s, Notice))
<1>1. Single(<<>>)
  BY DEF Single
<1>2. ASSUME s # <<>>
      PROVE  Single(Tail(s)) /\ (Head(s) = Notice => Notice \notin ToSet(Tail(s)))
  <2>1. /\ \A i \in DOMAIN Tail(s) : i \in Nat /\ i > 0 /\ i + 1 \in DOMAIN s /\ Tail(s)[i] = s[i + 1]
        /\ 1 \in DOMAIN s /\ Head(s) = s[1]
    BY <1>2, TailIs
  <2>2. Single(Tail(s))
    BY <2>1 DEF Single
  <2>3. ASSUME Head(s) = Notice, NEW i \in DOMAIN Tail(s), Tail(s)[i] = Notice
        PROVE  FALSE
    <3>1. i \in Nat /\ i > 0 /\ i + 1 \in DOMAIN s /\ s[i + 1] = Notice /\ s[1] = Notice
      BY <2>1, <2>3
    <3>2. i + 1 = 1
      BY <2>1, <3>1 DEF Single
    <3> QED
      BY <3>1, <3>2
  <2> QED
    BY <2>2, <2>3 DEF ToSet
<1>3. ASSUME NEW t \in Seq(Messages), Notice \notin ToSet(t)
      PROVE  Single(s \o t)
  <2>1. \A i \in DOMAIN (s \o t) : (s \o t)[i] = Notice => i \in DOMAIN s /\ (s \o t)[i] = s[i]
    BY <1>3, ConcatIs DEF ToSet
  <2> QED
    BY <2>1 DEF Single
<1>4. ASSUME Notice \notin ToSet(s)
      PROVE  Single(Append(s, Notice))
  <2>1. Notice \in Messages
    BY DEF Messages
  <2>2. \A i \in DOMAIN Append(s, Notice) : Append(s, Notice)[i] = Notice => i = Len(s) + 1
    <3>1. \A i \in DOMAIN s : s[i] # Notice
      BY <1>4 DEF ToSet
    <3> QED
      BY <2>1, <3>1, AppendIs
  <2> QED
    BY <2>2 DEF Single
<1> QED
  BY <1>1, <1>2, <1>3, <1>4

LEMMA DialsFinite == IsFiniteSet(Dials) /\ Cardinality(Dials) = MaxDials
<1>1. MaxDials \in Nat /\ 1 \in Int /\ MaxDials \in Int
  BY RequestAssumptions
<1> QED
  BY <1>1, FS_Interval DEF Dials

LEMMA FewerDials ==
  ASSUME NEW S, NEW T \in SUBSET Dials, S \subseteq T
  PROVE  /\ Cardinality(S) \in Nat /\ Cardinality(T) \in Nat /\ Cardinality(S) <= Cardinality(T)
         /\ Cardinality(T) <= MaxDials
         /\ \A x \in T \ S : Cardinality(S) + 1 <= Cardinality(T)
<1>1. IsFiniteSet(T) /\ Cardinality(T) <= Cardinality(Dials)
  BY DialsFinite, FS_Subset
<1>2. IsFiniteSet(S) /\ Cardinality(S) <= Cardinality(T)
  BY <1>1, FS_Subset
<1>3. Cardinality(S) \in Nat /\ Cardinality(T) \in Nat
  BY <1>1, <1>2, FS_CardinalityType
<1>4. ASSUME NEW x \in T \ S PROVE Cardinality(S) + 1 <= Cardinality(T)
  <2>1. S # T
    BY <1>4
  <2>2. Cardinality(S) # Cardinality(T)
    BY <1>1, <2>1, FS_Subset
  <2> QED
    BY <1>2, <1>3, <2>2
<1> QED
  BY <1>1, <1>2, <1>3, <1>4, DialsFinite

LEMMA UsedIs == Used \in SUBSET Dials
  BY DEF Used

(* How many messages there may be for Main's handler. *)
LEMMA PostsBound ==
  ASSUME Fits, Posts
  PROVE  posted <= 2 * MaxDials + 1
<1>1. Cardinality(Used) \in Nat /\ Cardinality(Used) <= MaxDials
  BY FewerDials, UsedIs
<1>2. posted <= 2 + Cardinality(Used) /\ posted \in Nat
  BY <1>1 DEF Posts, Fits, AppFits
<1> QED
  BY <1>1, <1>2, RequestAssumptions

(* A step that brings no notice and takes none apart. *)
LEMMA NoticesStay ==
  ASSUME Fits, Posts,
         \A d \in Dials :
           /\ loop'[d].msg = Notice => loop[d].msg = Notice
           /\ \/ net'[d].down = net[d].down
              \/ net'[d].down = <<>>
              \/ net[d].down # <<>> /\ net'[d].down = Tail(net[d].down)
              \/ \E t \in Seq(Messages) : Notice \notin ToSet(t) /\ net'[d].down = net[d].down \o t
  PROVE  /\ \A d \in Dials : Noticed(d)' => Noticed(d)
         /\ \A d, e \in Dials : Noticed(d)' /\ Noticed(e)' => d = e
         /\ \A d \in Dials : loop'[d].msg = Notice => Notice \notin ToSet(net'[d].down)
         /\ \A d \in Dials : Single(net'[d].down)
<1>1. \A d \in Dials : net[d].down \in Seq(Messages)
  BY DEF Fits, Nets, DownSeqs
<1>2. ASSUME NEW d \in Dials
      PROVE  (Notice \in ToSet(net'[d].down) => Notice \in ToSet(net[d].down)) /\ Single(net'[d].down)
  <2>1. Single(net[d].down)
    BY DEF Posts
  <2>2. CASE net'[d].down = net[d].down
    BY <2>1, <2>2
  <2>3. CASE net'[d].down = <<>>
    <3>1. Single(<<>>)
      BY <1>1, <2>1, SingleStays
    <3> QED
      BY <2>3, <3>1, SetOfNone
  <2>4. CASE net[d].down # <<>> /\ net'[d].down = Tail(net[d].down)
    <3>1. Single(Tail(net[d].down))
      BY <1>1, <2>1, <2>4, SingleStays
    <3>2. ToSet(net[d].down) = {Head(net[d].down)} \cup ToSet(Tail(net[d].down))
      BY <1>1, <2>4, TailIs
    <3> QED
      BY <2>4, <3>1, <3>2
  <2>5. CASE \E t \in Seq(Messages) : Notice \notin ToSet(t) /\ net'[d].down = net[d].down \o t
    <3>1. PICK t \in Seq(Messages) : Notice \notin ToSet(t) /\ net'[d].down = net[d].down \o t
      BY <2>5
    <3>2. Single(net[d].down \o t)
      BY <1>1, <2>1, <3>1, SingleStays
    <3>3. ToSet(net[d].down \o t) = ToSet(net[d].down) \cup ToSet(t)
      BY <1>1, ConcatIs
    <3> QED
      BY <3>1, <3>2, <3>3
  <2> QED
    BY <2>2, <2>3, <2>4, <2>5
<1>3. \A d \in Dials : Noticed(d)' => Noticed(d)
  BY <1>2 DEF Noticed
<1> QED
  BY <1>2, <1>3 DEF Posts

(* Such a step keeps Posts, when what it posts is paid for. *)
LEMMA PostsStay ==
  ASSUME Fits, Fits', Posts,
         \A d \in Dials :
           /\ loop'[d].msg = Notice => loop[d].msg = Notice
           /\ \/ net'[d].down = net[d].down
              \/ net'[d].down = <<>>
              \/ net[d].down # <<>> /\ net'[d].down = Tail(net[d].down)
              \/ \E t \in Seq(Messages) : Notice \notin ToSet(t) /\ net'[d].down = net[d].down \o t,
         Used \subseteq Used', left => left',
         posted' <= posted
           \/ (posted' = posted + 1 /\ ((~left /\ left') \/ \E d \in Dials : d \in Used' \ Used))
  PROVE  Posts'
<1>1. /\ \A d \in Dials : Noticed(d)' => Noticed(d)
      /\ \A d, e \in Dials : Noticed(d)' /\ Noticed(e)' => d = e
      /\ \A d \in Dials : loop'[d].msg = Notice => Notice \notin ToSet(net'[d].down)
      /\ \A d \in Dials : Single(net'[d].down)
  BY NoticesStay
<1>2. Used' \in SUBSET Dials
  BY DEF Used
<1>3. /\ Cardinality(Used) \in Nat /\ Cardinality(Used') \in Nat
      /\ Cardinality(Used) <= Cardinality(Used')
      /\ (\E d \in Dials : d \in Used' \ Used) => Cardinality(Used) + 1 <= Cardinality(Used')
  BY <1>2, FewerDials
<1>4. posted \in Nat /\ posted' \in Nat /\ left \in BOOLEAN /\ left' \in BOOLEAN
  BY DEF Fits, AppFits
<1> DEFINE n == IF \E d \in Dials : Noticed(d) THEN 1 ELSE 0
           o == IF \E d \in Dials : Noticed(d)' THEN 1 ELSE 0
<1>5. o <= n /\ n \in Nat /\ o \in Nat
  BY <1>1
<1>6. posted + n <= 1 + Cardinality(Used) + (IF left THEN 1 ELSE 0)
  BY DEF Posts
<1> HIDE DEF n, o
<1>7. posted' + o <= 1 + Cardinality(Used') + (IF left' THEN 1 ELSE 0)
  BY <1>3, <1>4, <1>5, <1>6
<1> QED
  BY <1>1, <1>7 DEF Posts, o

LEMMA OneIs ==
  ASSUME NEW S, NEW s \in Seq(S)
  PROVE  /\ Len(s) = 1 => Tail(s) = <<>>
         /\ s = <<>> => \A x \in S : Len(Append(s, x)) = 1
<1>1. ASSUME Len(s) = 1 PROVE Tail(s) = <<>>
  <2>1. Tail(s) \in Seq(S) /\ Len(Tail(s)) = 0
    BY <1>1, TailIs, SetOf
  <2> QED
    BY <2>1, SetOf
<1>2. ASSUME s = <<>> PROVE \A x \in S : Len(Append(s, x)) = 1
  BY <1>2, AppendIs, SetOf
<1> QED
  BY <1>1, <1>2

LEMMA PostsDial == ASSUME Fits, Posts, Dial \/ (Send /\ stream = 0) PROVE Posts'
<1>1. Fits'
  BY FitsDial
<1>2. PICK next \in {"send", "check"} : Connect(next) /\ ui.at \in {"connect", "send"}
  BY DEF Dial, Send
<1>3. left' = left
  BY DEF Dial, Send
<1>4. dials' = dials + 1 /\ dials' \in Dials /\ dials \in Nat
  BY <1>2, ConnectEffect DEF Fits
<1>5. CASE /\ stream' = dials + 1 /\ loop[stream'].at = "off"
           /\ loop'[stream'].at = "read" /\ loop'[stream'].msg = NoCall
           /\ \A e \in Dials \ {stream'} : loop'[e] = loop[e]
           /\ UNCHANGED <<net, posted, shown, failed>>
  <2>1. Used \subseteq Used'
    <3>1. \A d \in Used : d # stream' /\ d <= dials'
      BY <1>4, <1>5 DEF Used, Dials
    <3> QED
      BY <1>5, <3>1 DEF Used
  <2>2. \A d \in Dials : loop'[d].msg = Notice => loop[d].msg = Notice
    BY <1>4, <1>5, MarksDiffer
  <2>3. posted' <= posted
    BY <1>5 DEF Fits, AppFits
  <2> QED
    BY <1>1, <1>3, <1>5, <2>1, <2>2, <2>3, PostsStay
<1>6. CASE EndAll /\ DropStream /\ failed' /\ loop' = loop
  <2>1. Used \subseteq Used'
    <3>1. \A d \in Used : d <= dials'
      BY <1>4 DEF Used, Dials
    <3> QED
      BY <1>6, <3>1 DEF Used
  <2>2. dials' \in Used' \ Used
    <3>1. dials' > dials /\ dials' <= dials'
      BY <1>4
    <3>2. loop'[dials'].at = "off" /\ ~(dials' <= dials)
      BY <1>4, <1>6, <3>1 DEF Fits, LoopsFit
    <3> QED
      BY <1>4, <3>1, <3>2 DEF Used
  <2>3. \A d \in Dials : net'[d].down = net[d].down
    BY <1>6, DropStreamTypes
  <2>4. posted' = posted \/ posted' = posted + 1
    BY <1>6, EndAllTypes
  <2>5. posted \in Nat
    BY DEF Fits, AppFits
  <2> QED
    BY <1>1, <1>3, <1>4, <1>6, <2>1, <2>2, <2>3, <2>4, <2>5, PostsStay
<1> QED
  BY <1>2, <1>5, <1>6, ConnectEffect

(* A step of the UI thread or the server that leaves the loops, the dials  *)
(* and the messages for the app alone. *)
LEMMA PostsRest ==
  ASSUME Fits, Fits', Posts,
         \A d \in Dials : /\ loop'[d].at = loop[d].at \/ loop'[d].at \in {"niling", "done"}
                             \/ loop[d].at \notin {"off", "niling", "done"}
                          /\ loop'[d].msg = Notice => loop[d].msg = Notice
                          /\ \/ net'[d].down = net[d].down
                             \/ net'[d].down = <<>>
                             \/ net[d].down # <<>> /\ net'[d].down = Tail(net[d].down)
                             \/ \E t \in Seq(Messages) : Notice \notin ToSet(t) /\ net'[d].down = net[d].down \o t,
         dials' = dials, left' = left, posted' <= posted
  PROVE  Posts'
<1>1. Used \subseteq Used'
  BY DEF Used
<1> QED
  BY <1>1, PostsStay

LEMMA PostsUi ==
  ASSUME Fits, Posts,
         Handle \/ AddOnMessageListener \/ (Send /\ stream # 0) \/ Check \/ Put \/ WaitEnds
           \/ (\E c \in Calls \cup Logouts : Ask(c)) \/ MapFault
  PROVE  Fits' /\ Posts'
<1>1. posted \in Nat /\ posted <= posted
  BY DEF Fits, AppFits
<1>2. ASSUME NEW how \in Deaths, Dies(how) PROVE Fits' /\ Posts'
  <2>1. Fits' /\ UNCHANGED <<loop, netVars, appVars>>
    BY <1>2, FitsDies DEF Dies
  <2> QED
    BY <1>1, <2>1, PostsRest DEF netVars, appVars
<1>3. "null" \in Deaths /\ "nil" \in Deaths /\ "map" \in Deaths
  BY DEF Deaths
<1>4. CASE Handle
  <2>1. CASE left
    BY <1>2, <1>3, <1>4, <2>1, FitsHandle
  <2>2. CASE ~left
    <3>1. Fits' /\ UNCHANGED <<loop, netVars, left>> /\ posted' = posted - 1
      BY <1>4, <2>2, FitsHandle DEF Handle
    <3> QED
      BY <1>1, <3>1, PostsRest DEF netVars
  <2> QED
    BY <2>1, <2>2
<1>5. CASE AddOnMessageListener
  <2>1. Fits' /\ UNCHANGED <<loop, netVars, posted, left>>
    BY <1>5, AddEffect
  <2> QED
    BY <1>1, <2>1, PostsRest DEF netVars
<1>6. CASE Send /\ stream # 0
  <2>1. Fits' /\ UNCHANGED <<loop, netVars, posted, left>>
    BY <1>6, FitsSend DEF Send
  <2> QED
    BY <1>1, <2>1, PostsRest DEF netVars
<1>7. CASE Check
  <2>1. Fits' /\ UNCHANGED <<loop, netVars, posted, left>>
    BY <1>7, FitsCheck DEF appVars
  <2> QED
    BY <1>1, <2>1, PostsRest DEF netVars
<1>8. CASE Put
  <2>1. CASE stream = 0
    BY <1>2, <1>3, <1>8, <2>1 DEF Put
  <2>2. CASE stream # 0
    <3>1. Fits' /\ UNCHANGED <<loop, dials, posted, left>> /\ \A d \in Dials : net'[d].down = net[d].down
      BY <1>8, <2>2, PutEffect DEF appVars, Others
    <3> QED
      BY <1>1, <3>1, PostsRest
  <2> QED
    BY <2>1, <2>2
<1>9. CASE WaitEnds
  <2>1. CASE Dies("null")
    BY <1>2, <1>3, <2>1
  <2>2. CASE ~Dies("null")
    <3>1. Fits' /\ UNCHANGED <<loop, netVars, posted, left>>
      BY <1>9, <2>2, FitsWaitEnds DEF appVars
    <3> QED
      BY <1>1, <3>1, PostsRest DEF netVars
  <2> QED
    BY <2>1, <2>2
<1>10. ASSUME NEW c \in Calls \cup Logouts, Ask(c) PROVE Fits' /\ Posts'
  <2>1. CASE left
    BY <1>2, <1>3, <1>10, <2>1 DEF Ask
  <2>2. CASE ~left
    <3>1. Fits' /\ UNCHANGED <<loop, netVars, posted, left>>
      BY <1>10, <2>2, AskEffect DEF appVars
    <3> QED
      BY <1>1, <3>1, PostsRest DEF netVars
  <2> QED
    BY <2>1, <2>2
<1>11. CASE MapFault
  BY <1>2, <1>3, <1>11 DEF MapFault
<1> QED
  BY <1>4, <1>5, <1>6, <1>7, <1>8, <1>9, <1>10, <1>11

LEMMA PostsLeave == ASSUME Fits, Posts, Leave PROVE Fits' /\ Posts'
<1>1. CASE left
  <2>1. Dies("null") /\ "null" \in Deaths
    BY <1>1 DEF Leave, Deaths
  <2>2. posted \in Nat /\ posted <= posted
    BY DEF Fits, AppFits
  <2> QED
    BY <2>1, <2>2, FitsDies, PostsRest DEF Dies, netVars, appVars
<1>2. CASE ~left
  <2>1. Fits' /\ EndAll /\ DropStream /\ left' /\ UNCHANGED <<loop, dials>>
    BY <1>2, LeaveEffect
  <2>2. Used \subseteq Used'
    BY <2>1 DEF Used
  <2>3. \A d \in Dials : net'[d].down = net[d].down /\ (loop'[d].msg = Notice => loop[d].msg = Notice)
    BY <2>1, DropStreamTypes
  <2>4. posted' \in {posted, posted + 1} /\ posted \in Nat
    BY <2>1, EndAllTypes DEF Fits, AppFits
  <2>5. posted' <= posted \/ (posted' = posted + 1 /\ ((~left /\ left') \/ \E d \in Dials : d \in Used' \ Used))
    BY <1>2, <2>1, <2>4
  <2> QED
    BY <2>1, <2>2, <2>3, <2>5, PostsStay
<1> QED
  BY <1>1, <1>2

LEMMA PostsNet ==
  ASSUME Fits, Posts, NEW d \in Dials, Serve(d) \/ Announce(d) \/ HangUp(d) \/ Lose(d)
  PROVE  Fits' /\ Posts'
<1>1. posted \in Nat /\ posted <= posted
  BY DEF Fits, AppFits
<1>2. CASE Serve(d)
  <2>1. /\ Fits' /\ Others(d) /\ UNCHANGED <<loop, dials, left, posted>>
        /\ Head(net[d].up) \in Requests
    BY <1>2, ServeEffect DEF appVars
  <2>2. PICK t \in {Answers(Head(net[d].up)), Refuses(Head(net[d].up))} :
          net'[d].down = net[d].down \o t
    BY <1>2, ServeEffect
  <2>3. t \in Seq(Messages) /\ Notice \notin ToSet(t)
    <3>1. Head(net[d].up) # Notice /\ (Head(net[d].up) \in Logouts \/ Head(net[d].up) \in Messages)
      BY <2>1, NamesDiffer DEF Requests, Messages
    <3>2. t = <<>> \/ \E x \in Messages : x # Notice /\ t = <<x>>
      BY <2>2, <3>1, MarksDiffer DEF Answers, Refuses, Messages
    <3>3. ToSet(<<>>) = {} /\ \A x : ToSet(<<x>>) = {x}
      BY DEF ToSet
    <3>4. CASE t = <<>>
      BY <3>3, <3>4
    <3>5. ASSUME NEW x \in Messages, x # Notice, t = <<x>>
          PROVE  t \in Seq(Messages) /\ Notice \notin ToSet(t)
      BY <3>3, <3>5
    <3> QED
      BY <3>2, <3>4, <3>5
  <2>4. \A e \in Dials : \/ net'[e].down = net[e].down
                         \/ \E s \in Seq(Messages) : Notice \notin ToSet(s) /\ net'[e].down = net[e].down \o s
    BY <2>1, <2>2, <2>3 DEF Others
  <2> QED
    BY <1>1, <2>1, <2>4, PostsRest
<1>3. CASE Announce(d)
  <2>1. /\ Fits' /\ Others(d) /\ UNCHANGED <<loop, dials, left, posted>> /\ posted = 0
        /\ net'[d].down = Append(net[d].down, Notice)
        /\ \A e \in Dials : ~Noticed(e)
    BY <1>3, AnnounceEffect DEF appVars
  <2>2. net[d].down \in Seq(Messages) /\ Notice \notin ToSet(net[d].down) /\ Single(net[d].down)
    BY <2>1 DEF Fits, Nets, DownSeqs, Noticed, Posts
  <2>3. Single(net'[d].down)
    BY <2>1, <2>2, SingleStays
  <2>4. \A e \in Dials \ {d} : net'[e] = net[e]
    BY <2>1 DEF Others
  <2>5. \A e \in Dials : loop'[e].msg # Notice /\ (e # d => ~Noticed(e)')
    BY <2>1, <2>4 DEF Noticed
  <2>6. Cardinality(Used') \in Nat
    BY FewerDials DEF Used
  <2>7. posted' + (IF \E e \in Dials : Noticed(e)' THEN 1 ELSE 0)
          <= 1 + Cardinality(Used') + (IF left' THEN 1 ELSE 0)
    BY <2>1, <2>6
  <2> QED
    BY <2>3, <2>1, <2>4, <2>5, <2>7 DEF Posts
<1>4. CASE HangUp(d)
  <2>1. Fits' /\ UNCHANGED <<loop, dials, left, posted>> /\ \A e \in Dials : net'[e].down = net[e].down
    BY <1>4, HangUpEffect DEF Others, appVars
  <2> QED
    BY <1>1, <2>1, PostsRest
<1>5. CASE Lose(d)
  <2>1. /\ Fits' /\ UNCHANGED <<loop, dials, left, posted>>
        /\ \A e \in Dials : net'[e].down = net[e].down \/ net'[e].down = <<>>
    BY <1>5, LoseEffect DEF Others, appVars
  <2> QED
    BY <1>1, <2>1, PostsRest
<1> QED
  BY <1>2, <1>3, <1>4, <1>5

LEMMA PostsTake == ASSUME Fits, Posts, NEW d \in Dials, Take(d), stream # 0 PROVE Posts'
<1> DEFINE s == net[stream].down
<1>1. /\ Fits' /\ loop[d].at = "blocked" /\ stream \in Dials /\ s # <<>> /\ Others(stream)
      /\ net'[stream].down = Tail(s) /\ loop'[d].msg = Head(s)
      /\ \A e \in Dials \ {d} : loop'[e] = loop[e]
      /\ UNCHANGED <<dials, appVars>> /\ loop'[d].at = "call"
  BY TakeEffect
<1>2. s \in Seq(Messages) /\ Single(s)
  BY <1>1 DEF Fits, Nets, DownSeqs, Posts
<1>3. Single(Tail(s)) /\ (Head(s) = Notice => Notice \notin ToSet(Tail(s)))
  BY <1>1, <1>2, SingleStays
<1>4. ToSet(s) = {Head(s)} \cup ToSet(Tail(s))
  BY <1>1, <1>2, TailIs
<1>5. loop[d].msg # Notice
  BY <1>1, MarksDiffer DEF Fits, LoopsFit
<1>6. \A e \in Dials \ {d} : Noticed(e)' => Noticed(e)
  BY <1>1, <1>4 DEF Noticed, Others
<1>7. Noticed(d)' => Noticed(d) \/ Head(s) = Notice
  BY <1>1, <1>4, <1>5 DEF Noticed, Others
<1>8. Head(s) = Notice => Noticed(stream) /\ loop[stream].msg # Notice
  BY <1>1, <1>4 DEF Noticed, Posts
<1>9. ASSUME Head(s) = Notice, NEW e \in Dials \ {d}
      PROVE  ~Noticed(e)'
  <2>1. CASE e = stream
    BY <1>1, <1>3, <1>8, <1>9, <2>1 DEF Noticed
  <2>2. CASE e # stream
    <3>1. ~Noticed(e)
      BY <1>1, <1>8, <1>9, <2>2 DEF Posts
    <3> QED
      BY <1>6, <3>1
  <2> QED
    BY <2>1, <2>2
<1>10. \A e, f \in Dials : Noticed(e)' /\ Noticed(f)' => e = f
  <2>1. CASE Head(s) = Notice
    BY <1>9, <2>1
  <2>2. CASE Head(s) # Notice
    BY <1>6, <1>7, <2>2 DEF Posts
  <2> QED
    BY <2>1, <2>2
<1>11. \A e \in Dials : loop'[e].msg = Notice => Notice \notin ToSet(net'[e].down)
  <2>1. CASE Head(s) = Notice
    <3>1. \A e \in Dials \ {d} : loop'[e].msg # Notice
      BY <1>9, <2>1 DEF Noticed
    <3>2. Notice \notin ToSet(net'[d].down)
      <4>1. CASE d = stream
        BY <1>1, <1>3, <2>1, <4>1
      <4>2. CASE d # stream
        <5>1. ~Noticed(d) /\ net'[d] = net[d]
          BY <1>1, <1>8, <2>1, <4>2 DEF Posts, Others
        <5> QED
          BY <5>1 DEF Noticed
      <4> QED
        BY <4>1, <4>2
    <3> QED
      BY <3>1, <3>2
  <2>2. CASE Head(s) # Notice
    <3>1. \A e \in Dials : loop'[e].msg = Notice => loop[e].msg = Notice
      BY <1>1, <2>2
    <3>2. \A e \in Dials : ToSet(net'[e].down) \subseteq ToSet(net[e].down)
      BY <1>1, <1>4 DEF Others
    <3> QED
      BY <3>1, <3>2 DEF Posts
  <2> QED
    BY <2>1, <2>2
<1>12. \A e \in Dials : Single(net'[e].down)
  BY <1>1, <1>3 DEF Posts, Others
<1>13. Used \subseteq Used' /\ Used' \in SUBSET Dials
  BY <1>1 DEF Used
<1>14. Cardinality(Used) \in Nat /\ Cardinality(Used') \in Nat /\ Cardinality(Used) <= Cardinality(Used')
  BY <1>13, FewerDials
<1>15. (\E e \in Dials : Noticed(e)') => \E e \in Dials : Noticed(e)
  BY <1>1, <1>6, <1>7, <1>8
<1>16. posted' = posted /\ left' = left /\ posted \in Nat
  BY <1>1 DEF appVars, Fits, AppFits
<1> DEFINE n == IF \E e \in Dials : Noticed(e) THEN 1 ELSE 0
           o == IF \E e \in Dials : Noticed(e)' THEN 1 ELSE 0
<1>17. o <= n /\ n \in Nat /\ o \in Nat
  BY <1>15
<1>18. posted + n <= 1 + Cardinality(Used) + (IF left THEN 1 ELSE 0)
  BY DEF Posts
<1> HIDE DEF n, o
<1>19. posted' + o <= 1 + Cardinality(Used') + (IF left' THEN 1 ELSE 0)
  BY <1>14, <1>16, <1>17, <1>18
<1> QED
  BY <1>10, <1>11, <1>12, <1>19 DEF Posts, o

LEMMA PostsCall == ASSUME Fits, Posts, NEW d \in Dials, Call(d) PROVE Posts'
<1>1. /\ Fits' /\ loop[d].at = "call" /\ loop'[d].at = "read" /\ loop'[d].msg = NoCall
      /\ \A e \in Dials \ {d} : loop'[e] = loop[e]
      /\ posted' = IF loop[d].msg = Notice THEN posted + 1 ELSE posted
      /\ dials' = dials /\ net' = net /\ left' = left
  BY CallEffect DEF netVars
<1>2. posted \in Nat
  BY DEF Fits, AppFits
<1>3. CASE loop[d].msg # Notice
  <2>1. posted' <= posted
    BY <1>1, <1>2, <1>3
  <2>2. \A e \in Dials : /\ loop'[e].at = loop[e].at \/ loop[e].at \notin {"off", "niling", "done"}
                         /\ loop'[e].msg = Notice => loop[e].msg = Notice
    BY <1>1, MarksDiffer
  <2> QED
    BY <1>1, <2>1, <2>2, PostsRest
<1>4. CASE loop[d].msg = Notice
  <2>1. Noticed(d) /\ Notice \notin ToSet(net[d].down)
    BY <1>4 DEF Noticed, Posts
  <2>2. \A e \in Dials \ {d} : ~Noticed(e) /\ ~Noticed(e)'
    BY <1>1, <2>1 DEF Noticed, Posts
  <2>3. ~Noticed(d)'
    BY <1>1, <2>1, MarksDiffer DEF Noticed
  <2>4. \A e \in Dials : ~Noticed(e)'
    BY <2>2, <2>3
  <2>5. Used \subseteq Used' /\ Used' \in SUBSET Dials
    BY <1>1 DEF Used
  <2>6. Cardinality(Used) \in Nat /\ Cardinality(Used') \in Nat /\ Cardinality(Used) <= Cardinality(Used')
    BY <2>5, FewerDials
  <2>7. posted' <= 1 + Cardinality(Used') + (IF left' THEN 1 ELSE 0)
    <3>1. posted + 1 <= 1 + Cardinality(Used) + (IF left THEN 1 ELSE 0)
      BY <2>1 DEF Posts
    <3>2. posted' = posted + 1 /\ left' = left
      BY <1>1, <1>4
    <3> QED
      BY <1>2, <2>6, <3>1, <3>2
  <2>8. posted' \in Nat
    BY <1>1, <1>2
  <2>9. posted' + (IF \E e \in Dials : Noticed(e)' THEN 1 ELSE 0)
          <= 1 + Cardinality(Used') + (IF left' THEN 1 ELSE 0)
    BY <2>4, <2>7, <2>8
  <2>10. \A e \in Dials : loop'[e].msg # Notice /\ Single(net'[e].down)
    BY <1>1, <2>4 DEF Noticed, Posts
  <2> QED
    BY <2>4, <2>9, <2>10 DEF Posts
<1> QED
  BY <1>3, <1>4

LEMMA PostsLoop ==
  ASSUME Fits, Posts, NEW d \in Dials, LoopStep(d)
  PROVE  Fits' /\ Posts'
<1>1. posted \in Nat /\ posted <= posted
  BY DEF Fits, AppFits
<1>2. CASE (Read(d) \/ Take(d)) /\ stream = 0
  <2>1. Dies("nil") /\ "nil" \in Deaths
    BY <1>2 DEF Read, Take, Deaths
  <2> QED
    BY <1>1, <2>1, FitsDies, PostsRest DEF Dies, netVars, appVars
<1>3. CASE Read(d) /\ stream # 0
  <2>1. /\ Fits' /\ UNCHANGED <<net, dials, left, posted>>
        /\ loop[d].at = "read" /\ loop'[d].msg = NoCall
        /\ \A e \in Dials \ {d} : loop'[e] = loop[e]
    BY <1>3, ReadEffect DEF netVars, appVars
  <2> QED
    BY <1>1, <2>1, PostsRest, MarksDiffer
<1>4. CASE Take(d) /\ stream # 0
  BY <1>4, PostsTake, TakeEffect
<1>5. CASE Spoil(d)
  <2>1. /\ Fits' /\ UNCHANGED <<dials, left, posted>>
        /\ loop[d].at = "blocked" /\ loop'[d].msg = NoCall /\ loop[d].on \in Dials
        /\ \A e \in Dials \ {d} : loop'[e] = loop[e]
        /\ net[loop[d].on].down # <<>> /\ net'[loop[d].on].down = Tail(net[loop[d].on].down)
        /\ Others(loop[d].on)
    BY <1>5, SpoilEffect DEF appVars
  <2>2. \A e \in Dials : \/ net'[e].down = net[e].down
                         \/ net[e].down # <<>> /\ net'[e].down = Tail(net[e].down)
    BY <2>1 DEF Others
  <2> QED
    BY <1>1, <2>1, <2>2, PostsRest, MarksDiffer
<1>6. CASE Call(d)
  BY <1>6, CallEffect, PostsCall
<1>7. CASE Eof(d)
  <2>1. /\ Fits' /\ UNCHANGED <<net, dials, left, posted>>
        /\ loop[d].at = "blocked" /\ loop'[d].msg = NoCall
        /\ \A e \in Dials \ {d} : loop'[e] = loop[e]
    BY <1>7, EofEffect DEF netVars, appVars
  <2> QED
    BY <1>1, <2>1, PostsRest, MarksDiffer
<1>8. CASE End(d)
  <2>1. /\ Fits' /\ UNCHANGED <<net, dials, left>>
        /\ loop[d].at = "ending" /\ loop'[d].at = "niling" /\ loop'[d].msg = NoCall
        /\ \A e \in Dials \ {d} : loop'[e] = loop[e]
        /\ posted' \in {posted, posted + 1}
    BY <1>8, EndEffect, EndAllTypes DEF netVars
  <2>2. Used \subseteq Used'
    BY <2>1 DEF Used
  <2>3. d \in Used' \ Used
    <3>1. d <= dials
      BY <2>1 DEF Fits, LoopsFit, Dials
    <3> QED
      BY <2>1, <3>1 DEF Used
  <2>4. \A e \in Dials : loop'[e].msg = Notice => loop[e].msg = Notice
    BY <2>1, MarksDiffer
  <2>5. posted' <= posted \/ (posted' = posted + 1 /\ \E e \in Dials : e \in Used' \ Used)
    BY <1>1, <2>1, <2>3
  <2> QED
    BY <2>1, <2>2, <2>4, <2>5, PostsStay
<1>9. CASE Drop(d)
  <2>1. /\ Fits' /\ UNCHANGED <<dials, left, posted>>
        /\ loop[d].at = "niling" /\ loop'[d].at = "done" /\ loop'[d].msg = NoCall
        /\ \A e \in Dials \ {d} : loop'[e] = loop[e]
        /\ \A e \in Dials : net'[e].down = net[e].down
    BY <1>9, DropEffect, DropStreamTypes DEF appVars
  <2> QED
    BY <1>1, <2>1, PostsRest, MarksDiffer
<1> QED
  BY <1>2, <1>3, <1>4, <1>5, <1>6, <1>7, <1>8, <1>9 DEF LoopStep

LEMMA PostsInit == Init => Posts
<1> SUFFICES ASSUME Init PROVE Posts
  OBVIOUS
<1>1. \A d \in Dials : net[d].down = <<>> /\ loop[d].msg = NoCall
  BY DEF Init
<1>2. posted = 0 /\ left = FALSE
  BY DEF Init
<1>3. \A d \in Dials : ~Noticed(d)
  BY <1>1, MarksDiffer, SetOfNone DEF Noticed
<1>4. Cardinality(Used) \in Nat
  BY FewerDials, UsedIs
<1>5. posted + (IF \E d \in Dials : Noticed(d) THEN 1 ELSE 0)
        <= 1 + Cardinality(Used) + (IF left THEN 1 ELSE 0)
  BY <1>2, <1>3, <1>4
<1>6. \A d \in Dials : Single(net[d].down) /\ loop[d].msg # Notice
  BY <1>1, MarksDiffer DEF Single
<1> QED
  BY <1>3, <1>5, <1>6 DEF Posts

LEMMA PostsNext ==
  ASSUME Fits, Posts, [Next]_vars
  PROVE  Fits' /\ Posts'
<1>1. CASE UNCHANGED vars
  <2>1. Fits'
    BY <1>1 DEF vars, netVars, appVars, pastVars, Fits, UiFits, LoopsFit, AppFits, PastFits
  <2>2. posted' <= posted /\ UNCHANGED <<loop, dials, net, left>>
    BY <1>1 DEF vars, netVars, appVars, Fits, AppFits
  <2> QED
    BY <2>1, <2>2, PostsRest
<1>2. CASE Dial \/ (Send /\ stream = 0)
  BY <1>2, FitsDial, PostsDial
<1>3. CASE Handle \/ AddOnMessageListener \/ (Send /\ stream # 0) \/ Check \/ Put \/ WaitEnds
             \/ (\E c \in Calls \cup Logouts : Ask(c)) \/ MapFault
  BY <1>3, PostsUi
<1>4. CASE Leave
  BY <1>4, PostsLeave
<1>5. ASSUME NEW d \in Dials, Serve(d) \/ Announce(d) \/ HangUp(d) \/ Lose(d) \/ LoopStep(d)
      PROVE  Fits' /\ Posts'
  BY <1>5, PostsNet, PostsLoop
<1> QED
  BY <1>1, <1>2, <1>3, <1>4, <1>5 DEF Next, UiStep

-----------------------------------------------------------------------------
(* The connection, as long as Main's handler has not dialled again. *)

LEMMA LoopAts == ASSUME Fits, NEW d \in Dials PROVE loop[d].at \in LoopStates
  BY DEF Fits, LoopsFit, Loops, LoopRecords

LEMMA NetBooleans ==
  ASSUME Fits, NEW d \in Dials
  PROVE  /\ net[d].shut \in BOOLEAN /\ net[d].over \in BOOLEAN
         /\ net[d].up \in Seq(Requests) /\ net[d].down \in Seq(Messages)
  BY DEF Fits, Nets, UpSeqs, DownSeqs

(* The live loop reads its own stream and no other. *)
LEMMA LiveIs ==
  ASSUME Fits, Connected, NEW d \in Dials, Live(d)
  PROVE  /\ stream # 0 => stream = d
         /\ \A e \in Dials : Live(e) => e = d
         /\ stream = 0 => left
         /\ loop[d].at \in {"blocked", "call"} => loop[d].on = d
  BY StreamIs DEF Connected

LEMMA NothingSpoils == ASSUME Fits, Connected, NEW d \in Dials PROVE ~Spoil(d)
<1> SUFFICES ASSUME Spoil(d) PROVE FALSE
  OBVIOUS
<1>1. loop[d].at = "blocked" /\ stream # 0 /\ (stream # loop[d].on \/ ~Alone(d))
  BY DEF Spoil, Arrived
<1>2. Live(d)
  BY <1>1 DEF Live
<1>3. stream = d /\ loop[d].on = d
  BY <1>1, <1>2, LiveIs
<1>4. Alone(d)
  <2>1. \A e \in Dials \ {d} : ~Live(e)
    BY <1>2, LiveIs
  <2> QED
    BY <2>1 DEF Alone, Live
<1> QED
  BY <1>1, <1>3, <1>4

(* A dial finds no loop. *)
LEMMA DialFindsNone ==
  ASSUME Fits, Connected, Dial \/ (Send /\ stream = 0)
  PROVE  stream = 0 /\ ~left /\ \A d \in Dials : ~Live(d)
<1>1. ui.at \in {"connect", "send"}
  BY DEF Dial, Send
<1>2. ~left
  BY <1>1 DEF Connected
<1>3. stream = 0
  <2>1. CASE Dial
    BY <2>1 DEF Dial, Connected, Fits
  <2> QED
    BY <2>1
<1> QED
  BY <1>2, <1>3 DEF Connected

LEMMA ConnectedDial == ASSUME Fits, Connected, Dial \/ (Send /\ stream = 0) PROVE Connected'
<1>1. stream = 0 /\ ~left /\ \A d \in Dials : ~Live(d)
  BY DialFindsNone
<1>2. PICK next \in {"send", "check"} : Connect(next) /\ ui.at \in {"connect", "send"}
  BY DEF Dial, Send
<1>3. ~left'
  BY <1>1 DEF Dial, Send
<1>4. ui'.at = next /\ dials' \in Dials /\ dials' = dials + 1 /\ dials' # 0
  BY <1>2, ConnectEffect DEF Dials
<1>5. CASE /\ stream' = dials + 1 /\ loop[stream'].at = "off"
           /\ loop'[stream'].at = "read" /\ loop'[stream'].msg = NoCall
           /\ \A e \in Dials \ {stream'} : loop'[e] = loop[e]
           /\ UNCHANGED <<net, posted, shown, failed>>
  BY <1>1, <1>3, <1>4, <1>5 DEF Connected, Live
<1>6. CASE EndAll /\ DropStream /\ failed' /\ loop' = loop
  <2>1. stream' = 0 /\ \A d \in Dials : /\ net'[d].up = net[d].up /\ net'[d].down = net[d].down
                                        /\ net'[d].over = net[d].over
    BY <1>6, DropStreamTypes
  <2> QED
    BY <1>1, <1>3, <1>4, <1>6, <2>1 DEF Connected, Live
<1> QED
  BY <1>2, <1>5, <1>6, ConnectEffect

LEMMA ConnectedUi ==
  ASSUME Fits, Connected, ui.at # "idle" \/ ~left, ui'.at # "connect", UNCHANGED <<loop, netVars, left>>
  PROVE  Connected'
<1>1. ~left
  BY DEF Connected
<1> QED
  BY <1>1 DEF Connected, Live, netVars

LEMMA ConnectedPut == ASSUME Fits, Connected, Put, stream # 0 PROVE Connected'
<1>1. /\ ui.at = "put" /\ stream \in Dials /\ UNCHANGED <<loop, stream, dials, left>>
      /\ \A e \in Dials \ {stream} : net'[e] = net[e]
      /\ net'[stream].down = net[stream].down /\ net'[stream].over = net[stream].over
      /\ net[stream].over => net'[stream].up = net[stream].up
      /\ ui'.at \in {"wait", "idle"}
  BY PutEffect DEF Others, appVars
<1>2. ~left
  BY <1>1 DEF Connected
<1>3. Live(stream)
  BY DEF Connected
<1>4. loop[stream].at \notin {"read", "blocked", "call"} => net[stream].over
  BY <1>1, <1>3, LoopAts DEF Connected, Live, LoopStates
<1>5. \A d \in Dials :
       /\ loop'[d].at \notin {"read", "blocked", "call"} => net'[d].down = <<>> /\ net'[d].up = <<>>
       /\ net'[d].over => net'[d].up = <<>>
       /\ loop'[d].at \in {"ending", "niling", "done"} => net'[d].over
  BY <1>1, <1>4 DEF Connected
<1> QED
  BY <1>1, <1>2, <1>5 DEF Connected, Live

LEMMA ConnectedLeave == ASSUME Fits, Connected, Leave, ~left PROVE Connected'
<1>1. /\ ui.at = "idle" /\ DropStream /\ left' /\ UNCHANGED <<ui, loop, dials>>
  BY LeaveEffect
<1>2. stream' = 0 /\ \A d \in Dials : /\ net'[d].up = net[d].up /\ net'[d].down = net[d].down
                                      /\ net'[d].over = net[d].over
  BY <1>1, DropStreamTypes
<1> QED
  BY <1>1, <1>2 DEF Connected, Live

LEMMA ConnectedNet ==
  ASSUME Fits, Connected, NEW d \in Dials, Serve(d) \/ Announce(d) \/ HangUp(d) \/ Lose(d)
  PROVE  Connected'
<1>1. \A e \in Dials \ {d} : net'[e] = net[e]
  BY ServeEffect, AnnounceEffect, HangUpEffect, LoseEffect DEF Others
<1>2. UNCHANGED <<ui, loop, stream, dials, left>>
  BY ServeEffect, AnnounceEffect, HangUpEffect, LoseEffect DEF appVars
<1>3. /\ loop[d].at \notin {"read", "blocked", "call"} => net'[d].down = <<>> /\ net'[d].up = <<>>
      /\ net'[d].over => net'[d].up = <<>>
      /\ loop[d].at \in {"ending", "niling", "done"} => net'[d].over
  <2>1. CASE Serve(d)
    <3>1. loop[d].at \in {"read", "blocked", "call"} /\ ~net'[d].over
      BY <2>1, ServeEffect DEF Connected
    <3> QED
      BY <3>1
  <2>2. CASE Announce(d)
    <3>1. loop[d].at \in {"read", "blocked", "call"} /\ ~net'[d].over
      BY <2>2, AnnounceEffect, LoopAts DEF Connected, LoopStates
    <3> QED
      BY <3>1
  <2>3. CASE HangUp(d)
    BY <2>3, HangUpEffect DEF Connected
  <2>4. CASE Lose(d)
    BY <2>4, LoseEffect DEF Connected
  <2> QED
    BY <2>1, <2>2, <2>3, <2>4
<1> QED
  BY <1>1, <1>2, <1>3 DEF Connected, Live

LEMMA ConnectedLoop ==
  ASSUME Fits, Connected, NEW d \in Dials, LoopStep(d), (Read(d) \/ Take(d)) => stream # 0
  PROVE  Connected'
<1>1. ~Spoil(d)
  BY NothingSpoils
<1>2. UNCHANGED <<ui, dials, left>> /\ \A e \in Dials \ {d} : loop'[e] = loop[e]
  BY <1>1, ReadEffect, TakeEffect, CallEffect, EofEffect, EndEffect, DropEffect DEF LoopStep, netVars, appVars
<1>3. Live(d)
  BY <1>1, ReadEffect, TakeEffect, CallEffect, EofEffect, EndEffect, DropEffect DEF LoopStep, Live
<1>10. stream \in {0, d}
  BY <1>3, LiveIs
<1>4. CASE Read(d)
  <2>1. stream = d
    BY <1>3, <1>4, LiveIs
  <2>2. /\ loop[d].at = "read" /\ loop'[d].at = "blocked" /\ loop'[d].on = d
        /\ net' = net /\ stream' = stream
    BY <1>4, <2>1, ReadEffect DEF netVars
  <2> QED
    BY <1>2, <1>3, <2>1, <2>2 DEF Connected, Live
<1>5. CASE Take(d)
  <2>1. stream = d
    BY <1>3, <1>5, LiveIs
  <2>2. \A e \in Dials \ {d} : net'[e] = net[e]
    BY <1>5, <2>1, TakeEffect DEF Others
  <2>3. /\ loop[d].at = "blocked" /\ loop'[d].at = "call" /\ loop'[d].on = d
        /\ net'[d].up = net[d].up /\ net'[d].over = net[d].over /\ stream' = stream
    BY <1>5, <2>1, TakeEffect
  <2> QED
    BY <1>2, <1>3, <2>1, <2>2, <2>3 DEF Connected, Live
<1>6. CASE Call(d)
  <2>1. /\ loop[d].at = "call" /\ loop'[d].at = "read"
        /\ net' = net /\ stream' = stream
    BY <1>6, CallEffect DEF netVars
  <2> QED
    BY <1>2, <1>3, <1>10, <2>1 DEF Connected, Live
<1>7. CASE Eof(d)
  <2>1. loop[d].on = d /\ net[d].down = <<>> /\ net[d].over /\ net[d].up = <<>>
    BY <1>7, EofEffect DEF Connected
  <2>2. loop[d].at = "blocked" /\ loop'[d].at = "ending" /\ net' = net /\ stream' = stream
    BY <1>7, EofEffect DEF netVars
  <2> QED
    BY <1>2, <1>3, <1>10, <2>1, <2>2 DEF Connected, Live
<1>8. CASE End(d)
  <2>1. loop[d].at = "ending" /\ loop'[d].at = "niling" /\ net' = net /\ stream' = stream
    BY <1>8, EndEffect DEF netVars
  <2> QED
    BY <1>2, <1>3, <1>10, <2>1 DEF Connected, Live
<1>9. CASE Drop(d)
  <2>1. stream' = 0 /\ \A e \in Dials : /\ net'[e].up = net[e].up /\ net'[e].down = net[e].down
                                        /\ net'[e].over = net[e].over
    BY <1>9, DropEffect, DropStreamTypes
  <2>2. loop[d].at = "niling" /\ loop'[d].at = "done"
    BY <1>9, DropEffect
  <2>3. \A e \in Dials : ~Live(e)'
    BY <1>2, <1>3, <2>2, LiveIs DEF Live
  <2>4. left' => ui'.at = "idle"
    BY <1>2 DEF Connected
  <2>5. ui'.at = "connect" => dials' = 0
    BY <1>2 DEF Connected
  <2>6. \A e \in Dials :
       /\ loop'[e].at \notin {"blocked", "call"}
       /\ loop'[e].at \notin {"read", "blocked", "call"} => net'[e].down = <<>> /\ net'[e].up = <<>>
       /\ net'[e].over => net'[e].up = <<>>
       /\ loop'[e].at \in {"ending", "niling", "done"} => net'[e].over
    BY <1>2, <2>1, <2>2, <2>3 DEF Connected, Live
  <2> QED
    BY <2>1, <2>3, <2>4, <2>5, <2>6 DEF Connected
<1> QED
  BY <1>1, <1>4, <1>5, <1>6, <1>7, <1>8, <1>9 DEF LoopStep

-----------------------------------------------------------------------------
(* The order of requests. *)

LEMMA OlderIs == \A a, b : Older(a, b) <=> Earlier(asked, a, b)
  BY DEF Older, Earlier

LEMMA EarlierGrows ==
  ASSUME NEW S, NEW q \in Seq(S), NEW c \in S
  PROVE  /\ \A a, b : Earlier(q, a, b) => Earlier(Append(q, c), a, b)
         /\ \A a \in ToSet(q) : Earlier(Append(q, c), a, c)
<1> DEFINE r == Append(q, c)
<1>1. /\ \A i \in DOMAIN q : i \in DOMAIN r /\ r[i] = q[i] /\ i < Len(q) + 1
      /\ Len(q) + 1 \in DOMAIN r /\ r[Len(q) + 1] = c
  BY AppendIs
<1> HIDE DEF r
<1>2. \A a, b : Earlier(q, a, b) => Earlier(r, a, b)
  BY <1>1 DEF Earlier
<1>3. \A a \in ToSet(q) : Earlier(r, a, c)
  <2> SUFFICES ASSUME NEW i \in DOMAIN q PROVE Earlier(r, q[i], c)
    BY DEF ToSet
  <2> QED
    BY <1>1 DEF Earlier
<1> QED
  BY <1>2, <1>3 DEF r

LEMMA EarlierIsStrict ==
  ASSUME NEW S, NEW q \in Seq(S), Distinct(q), NEW a, NEW b, Earlier(q, a, b)
  PROVE  ~Earlier(q, b, a)
<1> SUFFICES ASSUME Earlier(q, b, a) PROVE FALSE
  OBVIOUS
<1>1. PICK i \in DOMAIN q : \E j \in DOMAIN q : i < j /\ q[i] = a /\ q[j] = b
  BY DEF Earlier
<1>2. PICK j \in DOMAIN q : i < j /\ q[i] = a /\ q[j] = b
  BY <1>1
<1>3. PICK k \in DOMAIN q : \E l \in DOMAIN q : k < l /\ q[k] = b /\ q[l] = a
  BY DEF Earlier
<1>4. PICK l \in DOMAIN q : k < l /\ q[k] = b /\ q[l] = a
  BY <1>3
<1>5. i = l /\ j = k
  BY <1>2, <1>4 DEF Distinct
<1>6. i \in Nat /\ j \in Nat
  OBVIOUS
<1> QED
  BY <1>2, <1>4, <1>5, <1>6

LEMMA RisingTail ==
  ASSUME NEW S, NEW s \in Seq(S), s # <<>>, NEW q, Rising(q, s)
  PROVE  Rising(q, Tail(s)) /\ Precede(q, {Head(s)}, ToSet(Tail(s)))
<1>1. /\ \A i \in DOMAIN Tail(s) : i \in Nat /\ i > 0 /\ i + 1 \in DOMAIN s /\ Tail(s)[i] = s[i + 1]
      /\ 1 \in DOMAIN s /\ Head(s) = s[1]
  BY TailIs
<1>2. ASSUME NEW i \in DOMAIN Tail(s), NEW j \in DOMAIN Tail(s), i < j,
             Tail(s)[i] \in Calls, Tail(s)[j] \in Calls
      PROVE  Earlier(q, Tail(s)[i], Tail(s)[j])
  <2>1. /\ i + 1 \in DOMAIN s /\ j + 1 \in DOMAIN s /\ i + 1 < j + 1
        /\ Tail(s)[i] = s[i + 1] /\ Tail(s)[j] = s[j + 1]
    BY <1>1, <1>2
  <2> QED
    BY <1>2, <2>1 DEF Rising
<1>3. ASSUME NEW i \in DOMAIN Tail(s), Head(s) \in Calls, Tail(s)[i] \in Calls
      PROVE  Earlier(q, Head(s), Tail(s)[i])
  <2>1. i + 1 \in DOMAIN s /\ 1 < i + 1 /\ Tail(s)[i] = s[i + 1]
    BY <1>1
  <2> QED
    BY <1>1, <1>3, <2>1 DEF Rising
<1>4. Rising(q, Tail(s))
  BY <1>2 DEF Rising
<1>5. Precede(q, {Head(s)}, ToSet(Tail(s)))
  BY <1>3 DEF Precede, ToSet
<1> QED
  BY <1>4, <1>5

LEMMA RisingAppend ==
  ASSUME NEW S, NEW s \in Seq(S), NEW x \in S, NEW q, Rising(q, s),
         Precede(q, ToSet(s), {x})
  PROVE  Rising(q, Append(s, x))
<1> DEFINE t == Append(s, x)
<1>1. /\ \A i \in DOMAIN s : i \in DOMAIN t /\ t[i] = s[i] /\ i <= Len(s)
      /\ t[Len(s) + 1] = x /\ Len(s) \in Nat
      /\ \A i \in DOMAIN t : i \in DOMAIN s \/ i = Len(s) + 1
      /\ \A i \in DOMAIN t : i \in Nat
  BY AppendIs
<1> HIDE DEF t
<1> SUFFICES ASSUME NEW i \in DOMAIN t, NEW j \in DOMAIN t, i < j, t[i] \in Calls, t[j] \in Calls
             PROVE  Earlier(q, t[i], t[j])
  BY DEF Rising, t
<1>2. i \in DOMAIN s
  <2>1. i # Len(s) + 1
    <3>1. j <= Len(s) + 1 /\ i \in Nat /\ j \in Nat
      BY <1>1
    <3> QED
      BY <3>1
  <2> QED
    BY <1>1, <2>1
<1>3. CASE j \in DOMAIN s
  BY <1>1, <1>2, <1>3 DEF Rising
<1>4. CASE j = Len(s) + 1
  <2>1. s[i] \in ToSet(s)
    BY <1>2 DEF ToSet
  <2> QED
    BY <1>1, <1>2, <1>4, <2>1 DEF Precede
<1> QED
  BY <1>1, <1>3, <1>4

LEMMA NothingIsOrdered == \A q, B : Ordered(q, B, NoCall, <<>>, <<>>)
  BY NamesDiffer, SetOfNone DEF Ordered, Rising, Precede

(* A request more. *)
LEMMA OrderedGrows ==
  ASSUME NEW S, NEW q \in Seq(S), NEW c \in S,
         NEW B, NEW m, NEW t, NEW u, Ordered(q, B, m, t, u)
  PROVE  Ordered(Append(q, c), B, m, t, u)
<1>1. /\ \A a, b : Earlier(q, a, b) => Earlier(Append(q, c), a, b)
      /\ ToSet(q) \subseteq ToSet(Append(q, c))
  BY EarlierGrows, AppendIs
<1> QED
  BY <1>1 DEF Ordered, Rising, Precede

(* A message less, or less shown. *)
LEMMA OrderedShrinks ==
  ASSUME NEW q, NEW B, NEW m, NEW t, NEW u, Ordered(q, B, m, t, u),
         NEW C, C \cap Calls \subseteq B,
         NEW n \in {m, NoCall}, NEW s \in {t, <<>>}, NEW v \in {u, <<>>}
  PROVE  Ordered(q, C, n, s, v)
<1>1. /\ {n} \cap Calls \subseteq {m} /\ ToSet(s) \subseteq ToSet(t) /\ ToSet(v) \subseteq ToSet(u)
      /\ Rising(q, s) /\ Rising(q, v)
  BY NamesDiffer, SetOfNone DEF Ordered, Rising
<1> QED
  BY <1>1 DEF Ordered, Precede

(* The app sends a request. *)
LEMMA OrderedSends ==
  ASSUME NEW q, NEW B, NEW m, NEW t, NEW u \in Seq(Requests), Ordered(q, B, m, t, u),
         NEW c \in Requests,
         c \in Calls => /\ c \in ToSet(q) /\ Precede(q, B, {c})
                        /\ Precede(q, {m} \cup ToSet(t) \cup ToSet(u), {c})
  PROVE  Ordered(q, B, m, t, Append(u, c))
<1>1. ToSet(Append(u, c)) = ToSet(u) \cup {c}
  BY AppendIs
<1>2. Precede(q, ToSet(u), {c}) /\ Precede(q, {m} \cup ToSet(t), {c}) /\ Precede(q, B, {c})
  BY DEF Precede
<1>3. Rising(q, Append(u, c))
  BY <1>2, RisingAppend DEF Ordered
<1> QED
  BY <1>1, <1>2, <1>3 DEF Ordered, Precede

(* The server answers the first request, or says something of its own. *)
LEMMA OrderedServes ==
  ASSUME NEW q, NEW B, NEW m, NEW t \in Seq(Messages), NEW u \in Seq(Requests),
         Ordered(q, B, m, t, u), u # <<>>, NEW x \in Messages, x \in Calls => x = Head(u)
  PROVE  Ordered(q, B, m, t, Tail(u)) /\ Ordered(q, B, m, Append(t, x), Tail(u))
<1>1. ToSet(u) = {Head(u)} \cup ToSet(Tail(u)) /\ ToSet(Append(t, x)) = ToSet(t) \cup {x}
  BY AppendIs, TailIs
<1>2. Rising(q, Tail(u)) /\ Precede(q, {Head(u)}, ToSet(Tail(u)))
  BY RisingTail DEF Ordered
<1>3. Ordered(q, B, m, t, Tail(u))
  BY <1>1, <1>2 DEF Ordered, Precede
<1>4. Rising(q, Append(t, x))
  <2>1. Precede(q, ToSet(t), {x})
    BY <1>1 DEF Ordered, Precede
  <2> QED
    BY <2>1, RisingAppend DEF Ordered
<1>5. Ordered(q, B, m, Append(t, x), Tail(u))
  <2>1. ({m} \cup ToSet(Append(t, x)) \cup ToSet(Tail(u))) \cap Calls \subseteq ToSet(q)
    BY <1>1 DEF Ordered
  <2>2. Precede(q, ToSet(Append(t, x)), ToSet(Tail(u)))
    BY <1>1, <1>2 DEF Ordered, Precede
  <2>3. Precede(q, {m}, ToSet(Append(t, x)) \cup ToSet(Tail(u)))
    BY <1>1 DEF Ordered, Precede
  <2>4. Precede(q, B, {m} \cup ToSet(Append(t, x)) \cup ToSet(Tail(u)))
    BY <1>1 DEF Ordered, Precede
  <2> QED
    BY <1>2, <1>4, <2>1, <2>2, <2>3, <2>4 DEF Ordered
<1> QED
  BY <1>3, <1>5

LEMMA OrderedAnnounces ==
  ASSUME NEW q, NEW B, NEW m, NEW t \in Seq(Messages), NEW u, Ordered(q, B, m, t, u)
  PROVE  Ordered(q, B, m, Append(t, Notice), u)
<1>1. Notice \in Messages /\ Notice \notin Calls
  BY NamesDiffer DEF Messages
<1>2. ToSet(Append(t, Notice)) = ToSet(t) \cup {Notice}
  BY <1>1, AppendIs
<1>3. Precede(q, ToSet(t), {Notice})
  BY <1>1 DEF Precede
<1>4. Rising(q, Append(t, Notice))
  BY <1>1, <1>3, RisingAppend DEF Ordered
<1> QED
  BY <1>1, <1>2, <1>4 DEF Ordered, Precede

(* The loop takes the first message. *)
LEMMA OrderedTakes ==
  ASSUME NEW q, NEW B, NEW t \in Seq(Messages), NEW u, Ordered(q, B, NoCall, t, u), t # <<>>
  PROVE  Ordered(q, B, Head(t), Tail(t), u)
<1>1. ToSet(t) = {Head(t)} \cup ToSet(Tail(t))
  BY TailIs
<1>2. Rising(q, Tail(t)) /\ Precede(q, {Head(t)}, ToSet(Tail(t)))
  BY RisingTail DEF Ordered
<1>3. Precede(q, {Head(t)}, ToSet(u))
  BY <1>1 DEF Ordered, Precede
<1> QED
  BY <1>1, <1>2, <1>3 DEF Ordered, Precede

(* The listener is called. *)
LEMMA OrderedCalls ==
  ASSUME NEW q, NEW B, NEW m, NEW t, NEW u, Ordered(q, B, m, t, u),
         NEW C, C \cap Calls \subseteq B \cup {m}
  PROVE  Ordered(q, C, NoCall, t, u)
  BY NamesDiffer DEF Ordered, Precede

(* What was shown, after the end of a connection. *)
LEMMA ShownAtEnd ==
  ASSUME Fits, EndAll
  PROVE  Shown' \cap Calls \subseteq Shown
<1>1. \A c \in Calls : shown'[c] \in Calls => shown'[c] = shown[c]
  BY EndAllTypes, NamesDiffer
<1> QED
  BY <1>1 DEF Shown

LEMMA LineIsOrdered ==
  ASSUME InOrder, NEW d \in Dials
  PROVE  /\ Line(d) \cap Calls \subseteq ToSet(asked)
         /\ Precede(asked, Shown, Line(d))
         /\ Ordered(asked, Shown, loop[d].msg, net[d].down, net[d].up)
  BY DEF InOrder, Ordered, Line

(* A step that adds no message and shows nothing new. *)
LEMMA InOrderQuiet ==
  ASSUME Fits, InOrder, asked' = asked, Shown' \cap Calls \subseteq Shown,
         \A d \in Dials : /\ loop'[d].msg \in {loop[d].msg, NoCall}
                          /\ net'[d].down \in {net[d].down, <<>>}
                          /\ net'[d].up \in {net[d].up, <<>>},
         Sending' /\ ui'.call \in Calls => Sending /\ ui'.call = ui.call
  PROVE  InOrder'
<1>1. Distinct(asked') /\ Shown' \cap Calls \subseteq ToSet(asked')
  BY DEF InOrder
<1>2. \A d \in Dials : Ordered(asked', Shown', loop'[d].msg, net'[d].down, net'[d].up)
  BY LineIsOrdered, OrderedShrinks
<1>3. \A d \in Dials : Line(d)' \subseteq Line(d) \cup {NoCall}
  <2> SUFFICES ASSUME NEW d \in Dials PROVE Line(d)' \subseteq Line(d) \cup {NoCall}
    OBVIOUS
  <2>1. ToSet(net'[d].down) \subseteq ToSet(net[d].down) /\ ToSet(net'[d].up) \subseteq ToSet(net[d].up)
    BY SetOfNone
  <2> QED
    BY <2>1 DEF Line
<1>4. ASSUME Sending', ui'.call \in Calls
      PROVE  /\ ui'.call \in ToSet(asked')
             /\ Precede(asked', Shown', {ui'.call})
             /\ \A d \in Dials : Precede(asked', Line(d)', {ui'.call})
  <2>1. /\ ui.call \in ToSet(asked) /\ Precede(asked, Shown, {ui.call}) /\ ui'.call = ui.call
        /\ \A d \in Dials : Precede(asked, Line(d), {ui.call})
    BY <1>4 DEF InOrder
  <2>2. Precede(asked', Shown', {ui'.call})
    BY <2>1 DEF Precede
  <2>3. \A d \in Dials : Precede(asked', Line(d)', {ui'.call})
    BY <1>3, <2>1, NamesDiffer DEF Precede
  <2> QED
    BY <2>1, <2>2, <2>3
<1> QED
  BY <1>1, <1>2, <1>4 DEF InOrder

LEMMA InOrderAsk ==
  ASSUME Fits, InOrder, NEW c \in Calls \cup Logouts, Ask(c), ~left
  PROVE  InOrder'
<1>1. /\ ui'.call = c /\ c \notin ToSet(asked) /\ asked' = Append(asked, c)
      /\ Shown' = Shown /\ loop' = loop /\ net' = net
  BY AskEffect DEF netVars, appVars, Shown
<1>2. asked \in Seq(Calls \cup Logouts)
  BY DEF Fits, PastFits
<1>3. Distinct(asked')
  <2>1. /\ Len(asked) \in Nat
        /\ \A i \in DOMAIN asked : asked'[i] = asked[i] /\ i <= Len(asked)
        /\ asked'[Len(asked) + 1] = c
        /\ \A i \in DOMAIN asked' : i \in DOMAIN asked \/ i = Len(asked) + 1
    BY <1>1, <1>2, AppendIs
  <2>2. \A i \in DOMAIN asked : asked[i] # c
    BY <1>1 DEF ToSet
  <2>3. Distinct(asked)
    BY DEF InOrder
  <2> QED
    BY <2>1, <2>2, <2>3 DEF Distinct
<1>4. ToSet(asked') = ToSet(asked) \cup {c}
  BY <1>1, <1>2, AppendIs
<1>5. \A d \in Dials : Ordered(asked', Shown', loop'[d].msg, net'[d].down, net'[d].up)
  BY <1>1, <1>2, LineIsOrdered, OrderedGrows
<1>6. \A a \in ToSet(asked) : Earlier(asked', a, c)
  BY <1>1, <1>2, EarlierGrows
<1>7. Precede(asked', Shown', {c}) /\ \A d \in Dials : Precede(asked', Line(d)', {c})
  <2>1. Shown' \cap Calls \subseteq ToSet(asked)
    BY <1>1 DEF InOrder
  <2>2. \A d \in Dials : Line(d)' \cap Calls \subseteq ToSet(asked)
    BY <1>1, LineIsOrdered DEF Line
  <2> QED
    BY <1>6, <2>1, <2>2 DEF Precede
<1>8. Shown' \cap Calls \subseteq ToSet(asked')
  BY <1>1, <1>4 DEF InOrder
<1> QED
  BY <1>1, <1>3, <1>4, <1>5, <1>7, <1>8 DEF InOrder

LEMMA InOrderUi ==
  ASSUME Fits, Connected, InOrder,
         Dial \/ AddOnMessageListener \/ Send \/ Check \/ (WaitEnds /\ ~Dies("null")) \/ (Leave /\ ~left)
  PROVE  InOrder'
<1>1. CASE Dial \/ (Send /\ stream = 0)
  <2>1. PICK next \in {"send", "check"} : Connect(next) /\ ui.at \in {"connect", "send"}
    BY <1>1 DEF Dial, Send
  <2>2. asked' = asked
    BY <1>1 DEF Dial, Send
  <2>3. ui'.call = ui.call /\ ui'.at = next
    BY <2>1, ConnectEffect
  <2>4. Sending' /\ ui'.call \in Calls => Sending
    <3>1. ui.at = "connect" => ui.call = Hello
      BY DEF Fits, UiFits
    <3> QED
      BY <2>1, <2>3, <3>1, NamesDiffer DEF Sending
  <2>5. CASE EndAll /\ DropStream /\ failed' /\ loop' = loop
    <3>1. Shown' \cap Calls \subseteq Shown
      BY <2>5, ShownAtEnd
    <3>2. \A d \in Dials : net'[d].down = net[d].down /\ net'[d].up = net[d].up
      BY <2>5, DropStreamTypes
    <3> QED
      BY <2>2, <2>3, <2>4, <2>5, <3>1, <3>2, InOrderQuiet
  <2>6. CASE /\ loop'[stream'].msg = NoCall
             /\ \A e \in Dials \ {stream'} : loop'[e] = loop[e]
             /\ UNCHANGED <<net, shown>>
    <3>1. Shown' \cap Calls \subseteq Shown
      BY <2>6 DEF Shown
    <3> QED
      BY <2>2, <2>3, <2>4, <2>6, <3>1, InOrderQuiet
  <2> QED
    BY <2>1, <2>5, <2>6, ConnectEffect
<1>2. CASE AddOnMessageListener
  <2>1. UNCHANGED <<loop, net, shown, asked>> /\ ui'.call = ui.call /\ ui.at = "register"
    BY <1>2, AddEffect DEF netVars
  <2> QED
    BY <2>1, InOrderQuiet DEF Shown, Sending
<1>3. CASE Send /\ stream # 0
  <2>1. UNCHANGED <<loop, net, shown, asked>> /\ ui'.call = ui.call /\ ui.at = "send"
    BY <1>3, FitsSend DEF Send, netVars
  <2> QED
    BY <2>1, InOrderQuiet DEF Shown, Sending
<1>4. CASE Check
  <2>1. UNCHANGED <<loop, net, shown, asked>> /\ ui.at = "check"
    BY <1>4, FitsCheck DEF netVars, appVars, pastVars, Check
  <2>2. ui'.call = ui.call \/ ui'.at = "idle"
    BY <1>4, FitsCheck
  <2> QED
    BY <2>1, <2>2, InOrderQuiet DEF Shown, Sending
<1>5. CASE WaitEnds /\ ~Dies("null")
  <2>1. UNCHANGED <<loop, net, shown, asked>> /\ ui'.at = "idle"
    BY <1>5, FitsWaitEnds DEF netVars, appVars, pastVars
  <2> QED
    BY <2>1, InOrderQuiet DEF Shown, Sending
<1>6. CASE Leave /\ ~left
  <2>1. UNCHANGED <<ui, loop, asked>> /\ EndAll /\ DropStream
    BY <1>6, LeaveEffect
  <2>2. Shown' \cap Calls \subseteq Shown
    BY <2>1, ShownAtEnd
  <2>3. \A d \in Dials : net'[d].down = net[d].down /\ net'[d].up = net[d].up
    BY <2>1, DropStreamTypes
  <2> QED
    BY <2>1, <2>2, <2>3, InOrderQuiet DEF Sending
<1> QED
  BY <1>1, <1>2, <1>3, <1>4, <1>5, <1>6

LEMMA InOrderPut == ASSUME Fits, InOrder, Put, stream # 0 PROVE InOrder'
<1>1. /\ ui.at = "put" /\ stream \in Dials /\ UNCHANGED <<loop, shown, asked>>
      /\ \A e \in Dials \ {stream} : net'[e] = net[e]
      /\ net'[stream].down = net[stream].down
      /\ net'[stream].up = IF net[stream].over THEN net[stream].up
                           ELSE Append(net[stream].up, ui.call)
      /\ net[stream].up \in Seq(Requests) /\ ui.call \in Requests
      /\ ui'.at \in {"wait", "idle"}
  BY PutEffect DEF Others, appVars, pastVars
<1>2. Shown' = Shown
  BY <1>1 DEF Shown
<1>3. ~Sending'
  BY <1>1 DEF Sending
<1>4. Ordered(asked, Shown, loop[stream].msg, net[stream].down, net'[stream].up)
  <2>1. Ordered(asked, Shown, loop[stream].msg, net[stream].down, net[stream].up)
    BY <1>1, LineIsOrdered
  <2>2. ui.call \in Calls =>
          /\ ui.call \in ToSet(asked) /\ Precede(asked, Shown, {ui.call})
          /\ Precede(asked, {loop[stream].msg} \cup ToSet(net[stream].down) \cup ToSet(net[stream].up), {ui.call})
    BY <1>1 DEF InOrder, Sending, Line
  <2>3. Ordered(asked, Shown, loop[stream].msg, net[stream].down, Append(net[stream].up, ui.call))
    BY <1>1, <2>1, <2>2, OrderedSends
  <2> QED
    BY <1>1, <2>1, <2>3
<1>5. \A d \in Dials : Ordered(asked', Shown', loop'[d].msg, net'[d].down, net'[d].up)
  BY <1>1, <1>2, <1>4, LineIsOrdered
<1> QED
  BY <1>1, <1>2, <1>3, <1>5 DEF InOrder

(* The server's reply is one message or none, and then the request's own. *)
LEMMA ReplyIs ==
  ASSUME Fits, NEW d \in Dials, Serve(d)
  PROVE  /\ net[d].up \in Seq(Requests) /\ net[d].down \in Seq(Messages)
         /\ \/ net'[d].down = net[d].down /\ Head(net[d].up) \in Logouts /\ refused' = refused
            \/ /\ Head(net[d].up) \in Messages \cap Requests /\ refused' = refused
               /\ net'[d].down = Append(net[d].down, Head(net[d].up))
            \/ /\ Head(net[d].up) = Hello /\ refused' = refused
               /\ net'[d].down = Append(net[d].down, Closed)
            \/ /\ Head(net[d].up) # Hello /\ refused' = refused \cup {Head(net[d].up)}
               /\ net'[d].down = Append(net[d].down, Refusal)
<1> DEFINE m == Head(net[d].up)
<1>1. /\ m \in Requests
      /\ \/ net'[d].down = net[d].down \o Answers(m) /\ refused' = refused
         \/ net'[d].down = net[d].down \o Refuses(m) /\ refused' = refused \cup ({m} \ {Hello})
  BY ServeEffect
<1>2. net[d].up \in Seq(Requests) /\ net[d].down \in Seq(Messages)
  BY NetBooleans
<1>3. \A x \in Messages : net[d].down \o <<x>> = Append(net[d].down, x)
  BY <1>2
<1>4. net[d].down \o <<>> = net[d].down
  BY <1>2
<1>5. m \in Logouts \/ m \in Messages
  BY <1>1 DEF Requests, Messages
<1>6. Closed \in Messages /\ Refusal \in Messages
  BY DEF Messages
<1>7. /\ m \in Logouts => Answers(m) = <<>>
      /\ m \notin Logouts => Answers(m) = <<m>>
      /\ m = Hello => Refuses(m) = <<Closed>> /\ {m} \ {Hello} = {}
      /\ m # Hello => Refuses(m) = <<Refusal>> /\ {m} \ {Hello} = {m}
  BY DEF Answers, Refuses
<1> DEFINE t == net[d].down
           n == net'[d].down
<1> HIDE DEF m, t, n
<1>8. CASE n = t \o Answers(m) /\ refused' = refused
  <2>1. CASE m \in Logouts
    <3>1. n = t
      BY <1>4, <1>7, <1>8, <2>1 DEF t
    <3> QED
      BY <1>2, <1>8, <2>1, <3>1 DEF m, t, n
  <2>2. CASE m \notin Logouts
    <3>1. n = Append(t, m) /\ m \in Messages \cap Requests
      BY <1>1, <1>3, <1>5, <1>7, <1>8, <2>2 DEF t
    <3> QED
      BY <1>2, <1>8, <3>1 DEF m, t, n
  <2> QED
    BY <2>1, <2>2
<1>9. CASE n = t \o Refuses(m) /\ refused' = refused \cup ({m} \ {Hello})
  <2>1. CASE m = Hello
    <3>1. n = Append(t, Closed) /\ refused' = refused
      BY <1>3, <1>6, <1>7, <1>9, <2>1 DEF t
    <3> QED
      BY <1>2, <2>1, <3>1 DEF m, t, n
  <2>2. CASE m # Hello
    <3>1. n = Append(t, Refusal) /\ refused' = refused \cup {m}
      BY <1>3, <1>6, <1>7, <1>9, <2>2 DEF t
    <3> QED
      BY <1>2, <2>2, <3>1 DEF m, t, n
  <2> QED
    BY <2>1, <2>2
<1> QED
  BY <1>1, <1>8, <1>9 DEF m, t, n

LEMMA InOrderNet ==
  ASSUME Fits, InOrder, NEW d \in Dials, Serve(d) \/ Announce(d) \/ HangUp(d) \/ Lose(d)
  PROVE  InOrder'
<1>1. UNCHANGED <<ui, loop, shown, asked>> /\ \A e \in Dials \ {d} : net'[e] = net[e]
  BY ServeEffect, AnnounceEffect, HangUpEffect, LoseEffect DEF appVars, pastVars, Others
<1>2. Shown' = Shown /\ (Sending' <=> Sending)
  BY <1>1 DEF Shown, Sending
<1>3. net[d].up \in Seq(Requests) /\ net[d].down \in Seq(Messages)
  BY NetBooleans
<1>4. Ordered(asked, Shown, loop[d].msg, net[d].down, net[d].up)
  BY LineIsOrdered
<1>5. CASE HangUp(d) \/ Lose(d)
  <2>1. \A e \in Dials : net'[e].down \in {net[e].down, <<>>} /\ net'[e].up \in {net[e].up, <<>>}
    BY <1>1, <1>5, HangUpEffect, LoseEffect
  <2> QED
    BY <1>1, <1>2, <2>1, InOrderQuiet
<1>6. ASSUME Ordered(asked, Shown, loop[d].msg, net'[d].down, net'[d].up),
             ToSet(net'[d].up) \subseteq ToSet(net[d].up),
             ToSet(net'[d].down) \cap Calls \subseteq ToSet(net[d].down) \cup ToSet(net[d].up)
      PROVE  InOrder'
  <2>1. \A e \in Dials : Ordered(asked', Shown', loop'[e].msg, net'[e].down, net'[e].up)
    BY <1>1, <1>2, <1>6, LineIsOrdered
  <2>2. \A e \in Dials : Line(e)' \cap Calls \subseteq Line(e)
    BY <1>1, <1>6 DEF Line
  <2>3. \A e \in Dials : Precede(asked, Line(e), {ui.call}) => Precede(asked', Line(e)', {ui'.call})
    BY <1>1, <2>2 DEF Precede
  <2> QED
    BY <1>1, <1>2, <2>1, <2>3 DEF InOrder
<1>7. CASE Announce(d)
  <2>1. net'[d].down = Append(net[d].down, Notice) /\ net'[d].up = net[d].up
    BY <1>7, AnnounceEffect
  <2>2. Notice \in Messages /\ Notice \notin Calls
    BY NamesDiffer DEF Messages
  <2>3. ToSet(net'[d].down) = ToSet(net[d].down) \cup {Notice}
    BY <1>3, <2>1, <2>2, AppendIs
  <2>4. Ordered(asked, Shown, loop[d].msg, net'[d].down, net'[d].up)
    BY <1>3, <1>4, <2>1, OrderedAnnounces
  <2> QED
    BY <1>6, <2>1, <2>2, <2>3, <2>4
<1>8. CASE Serve(d)
  <2>1. /\ net[d].up # <<>> /\ net'[d].up = Tail(net[d].up)
        /\ \/ net'[d].down = net[d].down
           \/ \E x \in Messages : net'[d].down = Append(net[d].down, x) /\ (x \in Calls => x = Head(net[d].up))
    <3>1. Closed \notin Calls /\ Refusal \notin Calls /\ Closed \in Messages /\ Refusal \in Messages
      BY NamesDiffer DEF Messages
    <3> QED
      BY <1>8, <3>1, ServeEffect, ReplyIs
  <2>2. ToSet(net[d].up) = {Head(net[d].up)} \cup ToSet(net'[d].up)
    BY <1>3, <2>1, TailIs
  <2>3. CASE net'[d].down = net[d].down
    <3>1. Notice \in Messages /\ Notice \notin Calls
      BY NamesDiffer DEF Messages
    <3>2. Ordered(asked, Shown, loop[d].msg, net[d].down, Tail(net[d].up))
      BY <1>3, <1>4, <2>1, <3>1, OrderedServes
    <3> QED
      BY <1>6, <2>1, <2>2, <2>3, <3>2
  <2>4. ASSUME NEW x \in Messages, net'[d].down = Append(net[d].down, x), x \in Calls => x = Head(net[d].up)
        PROVE  InOrder'
    <3>1. Ordered(asked, Shown, loop[d].msg, Append(net[d].down, x), Tail(net[d].up))
      BY <1>3, <1>4, <2>1, <2>4, OrderedServes
    <3>2. ToSet(net'[d].down) = ToSet(net[d].down) \cup {x}
      BY <1>3, <2>4, AppendIs
    <3> QED
      BY <1>6, <2>1, <2>2, <2>4, <3>1, <3>2
  <2> QED
    BY <2>1, <2>3, <2>4
<1> QED
  BY <1>5, <1>7, <1>8

LEMMA InOrderLoop ==
  ASSUME Fits, Connected, InOrder, NEW d \in Dials, LoopStep(d), (Read(d) \/ Take(d)) => stream # 0
  PROVE  InOrder'
<1>1. ~Spoil(d)
  BY NothingSpoils
<1>2. CASE Read(d) \/ Eof(d)
  <2>1. /\ UNCHANGED <<ui, shown, net, asked>> /\ loop'[d].msg = NoCall
        /\ \A e \in Dials \ {d} : loop'[e] = loop[e]
    BY <1>2, ReadEffect, EofEffect DEF netVars, appVars, pastVars
  <2> QED
    BY <2>1, InOrderQuiet DEF Shown, Sending
<1>3. CASE End(d)
  <2>1. /\ UNCHANGED <<ui, net, asked>> /\ loop'[d].msg = NoCall /\ EndAll
        /\ \A e \in Dials \ {d} : loop'[e] = loop[e]
    BY <1>3, EndEffect DEF netVars, pastVars
  <2>2. Shown' \cap Calls \subseteq Shown
    BY <2>1, ShownAtEnd
  <2> QED
    BY <2>1, <2>2, InOrderQuiet DEF Sending
<1>4. CASE Drop(d)
  <2>1. /\ UNCHANGED <<ui, shown, asked>> /\ loop'[d].msg = NoCall /\ DropStream
        /\ \A e \in Dials \ {d} : loop'[e] = loop[e]
    BY <1>4, DropEffect DEF appVars, pastVars
  <2>2. \A e \in Dials : net'[e].down = net[e].down /\ net'[e].up = net[e].up
    BY <2>1, DropStreamTypes
  <2> QED
    BY <2>1, <2>2, InOrderQuiet DEF Shown, Sending
<1>5. CASE Take(d)
  <2>1. /\ UNCHANGED <<ui, shown, asked>> /\ loop[d].at = "blocked"
        /\ \A e \in Dials \ {stream} : net'[e] = net[e]
        /\ \A e \in Dials \ {d} : loop'[e] = loop[e]
        /\ net[stream].down # <<>> /\ net'[stream].up = net[stream].up
        /\ net'[stream].down = Tail(net[stream].down)
        /\ loop'[d].msg = Head(net[stream].down)
    BY <1>5, TakeEffect DEF appVars, pastVars, Others
  <2>2. stream = d
    <3>1. Live(d)
      BY <2>1 DEF Live
    <3> QED
      BY <1>5, <3>1, LiveIs
  <2>3. loop[d].msg = NoCall /\ net[d].down \in Seq(Messages)
    BY <2>1, NetBooleans DEF Fits, LoopsFit
  <2>4. Ordered(asked, Shown, loop'[d].msg, net'[d].down, net'[d].up)
    BY <2>1, <2>2, <2>3, LineIsOrdered, OrderedTakes
  <2>5. Shown' = Shown /\ (Sending' <=> Sending)
    BY <2>1 DEF Shown, Sending
  <2>6. \A e \in Dials : Ordered(asked', Shown', loop'[e].msg, net'[e].down, net'[e].up)
    BY <2>1, <2>2, <2>4, <2>5, LineIsOrdered
  <2>7. \A e \in Dials : Line(e)' \subseteq Line(e)
    <3>1. ToSet(net[d].down) = {Head(net[d].down)} \cup ToSet(Tail(net[d].down))
      BY <2>1, <2>2, <2>3, TailIs
    <3> QED
      BY <2>1, <2>2, <3>1 DEF Line
  <2>8. \A e \in Dials : Precede(asked, Line(e), {ui.call}) => Precede(asked', Line(e)', {ui'.call})
    BY <2>1, <2>7 DEF Precede
  <2> QED
    BY <2>1, <2>5, <2>6, <2>8 DEF InOrder
<1>6. CASE Call(d)
  <2> DEFINE m == loop[d].msg
  <2>1. /\ UNCHANGED <<ui, net, asked>> /\ loop[d].at = "call" /\ loop'[d].msg = NoCall
        /\ \A e \in Dials \ {d} : loop'[e] = loop[e]
        /\ \A c \in Calls : shown'[c] \in {shown[c], m}
    BY <1>6, CallEffect DEF netVars
  <2>2. Shown' \subseteq Shown \cup {m}
    BY <2>1 DEF Shown
  <2>3. m \in Line(d) /\ Ordered(asked, Shown, m, net[d].down, net[d].up)
        /\ Line(d) \cap Calls \subseteq ToSet(asked)
    BY LineIsOrdered DEF Line
  <2>4. Ordered(asked', Shown', NoCall, net'[d].down, net'[d].up)
    BY <2>1, <2>2, <2>3, OrderedCalls
  <2>5. ASSUME NEW e \in Dials \ {d}
        PROVE  Ordered(asked', Shown', loop'[e].msg, net'[e].down, net'[e].up)
    <3>1. ~Live(e)
      BY <2>1, LiveIs DEF Live
    <3>2. loop[e].msg = NoCall /\ net[e].down = <<>> /\ net[e].up = <<>>
      BY <3>1 DEF Live, Connected, Fits, LoopsFit
    <3> QED
      BY <2>1, <3>2, NothingIsOrdered
  <2>6. \A e \in Dials : Ordered(asked', Shown', loop'[e].msg, net'[e].down, net'[e].up)
    BY <2>1, <2>4, <2>5
  <2>7. Shown' \cap Calls \subseteq ToSet(asked')
    BY <2>1, <2>2, <2>3 DEF InOrder
  <2>8. \A e \in Dials : Line(e)' \subseteq Line(e) \cup {NoCall}
    BY <2>1 DEF Line
  <2>9. ASSUME Sending', ui'.call \in Calls
        PROVE  /\ ui'.call \in ToSet(asked') /\ Precede(asked', Shown', {ui'.call})
               /\ \A e \in Dials : Precede(asked', Line(e)', {ui'.call})
    <3>1. /\ ui.call \in ToSet(asked) /\ Precede(asked, Shown, {ui.call})
          /\ \A e \in Dials : Precede(asked, Line(e), {ui.call})
      BY <2>1, <2>9 DEF InOrder, Sending
    <3>2. Precede(asked', Shown', {ui'.call})
      BY <2>1, <2>2, <2>3, <3>1 DEF Precede
    <3>3. \A e \in Dials : Precede(asked', Line(e)', {ui'.call})
      BY <2>1, <2>8, <3>1, NamesDiffer DEF Precede
    <3> QED
      BY <2>1, <3>1, <3>2, <3>3
  <2>10. Distinct(asked')
    BY <2>1 DEF InOrder
  <2> QED
    BY <2>6, <2>7, <2>9, <2>10 DEF InOrder
<1> QED
  BY <1>1, <1>2, <1>3, <1>4, <1>5, <1>6 DEF LoopStep

(* No listener hears an older answer after a newer one. *)
LEMMA NothingIsStale ==
  ASSUME Fits, InOrder, ~stale, NEW d \in Dials, Call(d)
  PROVE  ~stale'
<1> DEFINE m == loop[d].msg
<1> SUFFICES ASSUME Heard(m) # NoCall, shown[Heard(m)] \in Calls, Older(m, shown[Heard(m)])
             PROVE  FALSE
  BY CallEffect
<1>1. Heard(m) \in Calls /\ m \in Calls
  BY DEF Heard, Fits, AppFits, Listeners, Calls
<1>2. shown[Heard(m)] \in Shown /\ m \in Line(d)
  BY <1>1 DEF Shown, Line
<1>3. Earlier(asked, shown[Heard(m)], m)
  BY <1>1, <1>2, LineIsOrdered DEF Precede
<1>4. Earlier(asked, m, shown[Heard(m)])
  BY OlderIs
<1>5. asked \in Seq(Calls \cup Logouts) /\ Distinct(asked)
  BY DEF Fits, PastFits, InOrder
<1> QED
  BY <1>3, <1>4, <1>5, EarlierIsStrict

LEMMA SongsAtEnd == ASSUME Fits, SongsOwn, EndAll PROVE SongsOwn'
  BY EndAllTypes DEF SongsOwn, Calls

LEMMA SongsAtCall ==
  ASSUME Fits, Registered, SongsOwn, NEW d \in Dials, Call(d)
  PROVE  SongsOwn'
<1> DEFINE m == loop[d].msg
<1>1. \A c \in Calls : shown'[c] = IF c = Heard(m) THEN m ELSE shown[c]
  BY CallEffect
<1>2. \A c \in Songs : c = Heard(m) => c = m
  <2> SUFFICES ASSUME NEW c \in Songs, c = Heard(m) PROVE c = m
    OBVIOUS
  <2>1. m \in Songs
    <3>1. c \notin Banks \cup {NoCall}
      BY NamesDiffer DEF Calls
    <3>2. listeners.bank \in Banks \cup {NoCall}
      BY DEF Fits, AppFits, Listeners
    <3> QED
      BY <3>1, <3>2 DEF Heard
  <2>2. m \notin Banks /\ c = listeners.song
    BY <2>1, NamesDiffer DEF Heard
  <2>3. ui.at = "wait" /\ ui.call = m
    BY <2>1 DEF Registered, Line
  <2> QED
    BY <2>1, <2>2, <2>3 DEF Registered
<1> QED
  BY <1>1, <1>2 DEF SongsOwn, Calls

LEMMA SongsNext ==
  ASSUME Fits, Registered, SongsOwn, Next
  PROVE  SongsOwn'
<1>1. CASE shown' = shown
  BY <1>1 DEF SongsOwn
<1>2. ASSUME NEW d \in Dials, LoopStep(d)
      PROVE  SongsOwn'
  BY <1>1, <1>2, SongsAtCall, SongsAtEnd
     DEF LoopStep, Read, Take, Spoil, Eof, End, Drop, Dies, appVars
<1>3. CASE Leave
  BY <1>1, <1>3, SongsAtEnd DEF Leave, Dies, appVars
<1>4. CASE Dial \/ Send
  BY <1>1, <1>4, SongsAtEnd DEF Dial, Send, Connect
<1>5. CASE Handle \/ AddOnMessageListener \/ Check \/ Put \/ WaitEnds \/ MapFault
             \/ \E c \in Calls \cup Logouts : Ask(c)
  BY <1>1, <1>5 DEF Handle, AddOnMessageListener, Check, Put, WaitEnds, MapFault, Ask, Dies, appVars
<1>6. CASE \E d \in Dials : Serve(d) \/ Announce(d) \/ HangUp(d) \/ Lose(d)
  BY <1>1, <1>6 DEF Serve, Announce, HangUp, Lose, appVars
<1> QED
  BY <1>2, <1>3, <1>4, <1>5, <1>6 DEF Next, UiStep

-----------------------------------------------------------------------------
(* What is on its way. *)

LEMMA LineParts ==
  ASSUME Fits, NEW d \in Dials
  PROVE  /\ Line(d) \subseteq Messages \cup Requests \cup {NoCall}
         /\ loop[d].msg \in Line(d)
         /\ \A c \in Line(d) : c # NoCall => loop[d].at = "call" \/ net[d].down # <<>> \/ net[d].up # <<>>
<1>1. net[d].up \in Seq(Requests) /\ net[d].down \in Seq(Messages)
  BY NetBooleans
<1>2. ToSet(net[d].up) \subseteq Requests /\ ToSet(net[d].down) \subseteq Messages
  BY <1>1, SetOf
<1>3. loop[d].msg \in Messages \cup {NoCall} /\ (loop[d].msg # NoCall => loop[d].at = "call")
  BY DEF Fits, LoopsFit, Loops, LoopRecords
<1>4. (net[d].down = <<>> => ToSet(net[d].down) = {}) /\ (net[d].up = <<>> => ToSet(net[d].up) = {})
  BY SetOfNone
<1> QED
  BY <1>2, <1>3, <1>4 DEF Line

LEMMA LineOfOthers ==
  ASSUME Fits, Connected, NEW d \in Dials, loop[d].at \notin {"read", "blocked", "call"}
  PROVE  Line(d) = {NoCall} /\ net[d].down = <<>> /\ net[d].up = <<>>
<1>1. loop[d].msg = NoCall /\ net[d].down = <<>> /\ net[d].up = <<>>
  BY DEF Connected, Fits, LoopsFit
<1> QED
  BY <1>1, SetOfNone DEF Line

LEMMA LineStays ==
  ASSUME NEW d \in Dials, loop'[d].msg = loop[d].msg, net'[d].down = net[d].down, net'[d].up = net[d].up
  PROVE  Line(d)' = Line(d)
  BY DEF Line

LEMMA LineAtDial ==
  ASSUME Fits, Connected, Dial \/ (Send /\ stream = 0), NEW d \in Dials
  PROVE  Line(d)' = Line(d) /\ Line(d) = {NoCall} /\ net'[d].down = <<>> /\ net'[d].up = <<>>
<1>1. PICK next \in {"send", "check"} : Connect(next) /\ ui.at \in {"connect", "send"}
  BY DEF Dial, Send
<1>2. \A e \in Dials : ~Live(e)
  BY DialFindsNone
<1>3. Line(d) = {NoCall} /\ net[d].down = <<>> /\ net[d].up = <<>> /\ loop[d].msg = NoCall
  BY <1>2, LineOfOthers DEF Live, Fits, LoopsFit
<1>4. loop'[d].msg = NoCall /\ net'[d].down = net[d].down /\ net'[d].up = net[d].up
  BY <1>1, <1>3, ConnectEffect, DropStreamTypes
<1> QED
  BY <1>3, <1>4, LineStays

LEMMA LineAtPut ==
  ASSUME Fits, Put, stream # 0, NEW d \in Dials
  PROVE  /\ Line(d) \subseteq Line(d)'
         /\ Line(d)' \subseteq Line(d) \cup {ui.call}
         /\ Line(d)' # Line(d) => d = stream
         /\ ~net[stream].over => ui.call \in Line(stream)'
<1>1. /\ stream \in Dials /\ stream' = stream
      /\ loop' = loop /\ \A e \in Dials \ {stream} : net'[e] = net[e]
      /\ net'[stream].down = net[stream].down
      /\ net'[stream].up = IF net[stream].over THEN net[stream].up ELSE Append(net[stream].up, ui.call)
      /\ net[stream].up \in Seq(Requests) /\ ui.call \in Requests
  BY PutEffect DEF Others
<1>2. ToSet(Append(net[stream].up, ui.call)) = ToSet(net[stream].up) \cup {ui.call}
  BY <1>1, AppendIs
<1>3. CASE d # stream
  <2>1. Line(d)' = Line(d)
    BY <1>1, <1>3 DEF Line
  <2>2. ~net[stream].over => ui.call \in Line(stream)'
    BY <1>1, <1>2 DEF Line
  <2> QED
    BY <2>1, <2>2
<1>4. CASE d = stream
  BY <1>1, <1>2, <1>4 DEF Line
<1> QED
  BY <1>3, <1>4

LEMMA LineAtServe ==
  ASSUME Fits, NEW d \in Dials, Serve(d)
  PROVE  /\ \A e \in Dials \ {d} : Line(e)' = Line(e)
         /\ Line(d)' \subseteq Line(d) \cup {Closed, Refusal}
         /\ Closed \in Line(d)' => Closed \in Line(d) \/ Head(net[d].up) = Hello
         /\ Refusal \in Line(d)' => Refusal \in Line(d) \/ refused' # {}
         /\ Head(net[d].up) \in Line(d)
         /\ Line(d) \subseteq Line(d)' \cup {Head(net[d].up)}
         /\ Head(net[d].up) \in Calls => Head(net[d].up) \in Line(d)' \/ Head(net[d].up) \in refused'
<1> DEFINE m == Head(net[d].up)
<1>1. /\ loop' = loop /\ \A e \in Dials \ {d} : net'[e] = net[e]
      /\ net[d].up # <<>> /\ net'[d].up = Tail(net[d].up)
  BY ServeEffect DEF Others
<1>2. net[d].up \in Seq(Requests) /\ net[d].down \in Seq(Messages)
  BY NetBooleans
<1>3. ToSet(net[d].up) = {m} \cup ToSet(net'[d].up)
  BY <1>1, <1>2, TailIs
<1>4. \A x \in Messages : ToSet(Append(net[d].down, x)) = ToSet(net[d].down) \cup {x}
  BY <1>2, AppendIs
<1>5. Closed \in Messages /\ Refusal \in Messages /\ Closed # Refusal
  BY MarksDiffer DEF Messages
<1> HIDE DEF m
<1>6. \/ net'[d].down = net[d].down /\ m \in Logouts /\ refused' = refused
      \/ m \in Messages \cap Requests /\ refused' = refused /\ ToSet(net'[d].down) = ToSet(net[d].down) \cup {m}
      \/ m = Hello /\ refused' = refused /\ ToSet(net'[d].down) = ToSet(net[d].down) \cup {Closed}
      \/ m # Hello /\ refused' = refused \cup {m} /\ ToSet(net'[d].down) = ToSet(net[d].down) \cup {Refusal}
  BY <1>4, <1>5, ReplyIs DEF m
<1>7. \A e \in Dials \ {d} : Line(e)' = Line(e)
  BY <1>1 DEF Line
<1>8. Hello \notin Calls /\ \A x \in Logouts : x \notin Calls
  BY NamesDiffer
<1>9. m # Refusal /\ m # Closed
  <2>1. m \in Requests
    BY ServeEffect DEF m
  <2> QED
    BY <2>1, NamesDiffer, MarksDiffer DEF Requests
<1> DEFINE D == ToSet(net[d].down)
           E == ToSet(net'[d].down)
           U == ToSet(net[d].up)
           V == ToSet(net'[d].up)
           n == loop[d].msg
<1>10. Line(d) = {n} \cup D \cup U /\ Line(d)' = {n} \cup E \cup V
  BY <1>1 DEF Line
<1>11. U = {m} \cup V
  BY <1>3
<1> HIDE DEF D, E, U, V, n
<1>12. \/ E = D /\ m \in Logouts /\ refused' = refused
       \/ E = D \cup {m} /\ refused' = refused
       \/ m = Hello /\ refused' = refused /\ E = D \cup {Closed}
       \/ refused' = refused \cup {m} /\ E = D \cup {Refusal}
  BY <1>6 DEF D, E
<1>13. Line(d)' \subseteq Line(d) \cup {Closed, Refusal} /\ m \in Line(d) /\ Line(d) \subseteq Line(d)' \cup {m}
  BY <1>10, <1>11, <1>12
<1>14. /\ Closed \in Line(d)' => Closed \in Line(d) \/ m = Hello
       /\ Refusal \in Line(d)' => Refusal \in Line(d) \/ refused' # {}
       /\ m \in Calls => m \in Line(d)' \/ m \in refused'
  BY <1>5, <1>8, <1>9, <1>10, <1>11, <1>12
<1> QED
  BY <1>7, <1>13, <1>14 DEF m

LEMMA LineAtNet ==
  ASSUME Fits, NEW d \in Dials, Announce(d) \/ HangUp(d) \/ Lose(d)
  PROVE  /\ \A e \in Dials \ {d} : Line(e)' = Line(e)
         /\ Announce(d) => Line(d)' = Line(d) \cup {Notice}
         /\ HangUp(d) => Line(d)' = Line(d)
         /\ Lose(d) => Line(d)' \subseteq Line(d)
<1>1. loop' = loop /\ \A e \in Dials \ {d} : net'[e] = net[e]
  BY AnnounceEffect, HangUpEffect, LoseEffect DEF Others
<1>2. net[d].up \in Seq(Requests) /\ net[d].down \in Seq(Messages) /\ Notice \in Messages
  BY NetBooleans DEF Messages
<1>3. ToSet(Append(net[d].down, Notice)) = ToSet(net[d].down) \cup {Notice}
  BY <1>2, AppendIs
<1>4. Announce(d) => Line(d)' = Line(d) \cup {Notice}
  BY <1>1, <1>3, AnnounceEffect DEF Line
<1>5. HangUp(d) => Line(d)' = Line(d)
  BY <1>1, HangUpEffect DEF Line
<1>6. Lose(d) => Line(d)' \subseteq Line(d)
  <2> SUFFICES ASSUME Lose(d) PROVE Line(d)' \subseteq Line(d)
    OBVIOUS
  <2>1. ToSet(net'[d].down) \subseteq ToSet(net[d].down) /\ ToSet(net'[d].up) \subseteq ToSet(net[d].up)
    BY LoseEffect, SetOfNone
  <2> QED
    BY <1>1, <2>1 DEF Line
<1>7. \A e \in Dials \ {d} : Line(e)' = Line(e)
  BY <1>1 DEF Line
<1> QED
  BY <1>4, <1>5, <1>6, <1>7

LEMMA LineAtLoop ==
  ASSUME Fits, Connected, NEW d \in Dials, LoopStep(d), (Read(d) \/ Take(d)) => stream # 0
  PROVE  /\ \A e \in Dials \ {d} : Line(e)' = Line(e)
         /\ ~Call(d) => Line(d) \subseteq Line(d)' \cup {NoCall} /\ Line(d)' \subseteq Line(d)
         /\ Call(d) => Line(d) \subseteq Line(d)' \cup {loop[d].msg} /\ Line(d)' \subseteq Line(d) \cup {NoCall}
                       /\ net' = net /\ loop'[d].msg = NoCall
         /\ ~Call(d) /\ ~Take(d) => loop'[d].msg = loop[d].msg /\ net'[d].down = net[d].down /\ net'[d].up = net[d].up
         /\ Take(d) => /\ stream = d /\ net[d].down # <<>> /\ loop'[d].msg = Head(net[d].down)
                       /\ net'[d].down = Tail(net[d].down) /\ net'[d].up = net[d].up
<1>1. ~Spoil(d)
  BY NothingSpoils
<1>2. CASE Read(d) \/ Eof(d) \/ End(d)
  <2>1. /\ net' = net /\ \A e \in Dials \ {d} : loop'[e] = loop[e]
        /\ loop'[d].msg = NoCall /\ loop[d].at \in {"read", "blocked", "ending"}
    BY <1>2, ReadEffect, EofEffect, EndEffect DEF netVars
  <2>2. loop[d].msg = NoCall /\ ~Call(d) /\ ~Take(d)
    <3>1. loop[d].msg = NoCall /\ ~Call(d)
      BY <2>1 DEF Fits, LoopsFit, Call
    <3>2. ~Take(d)
      BY <1>2 DEF Take, Arrived, Read, Eof, End
    <3> QED
      BY <3>1, <3>2
  <2>3. \A e \in Dials : Line(e)' = Line(e)
    BY <2>1, <2>2 DEF Line
  <2> QED
    BY <2>1, <2>2, <2>3
<1>3. CASE Drop(d)
  <2>1. /\ \A e \in Dials \ {d} : loop'[e] = loop[e]
        /\ loop'[d].msg = NoCall /\ loop[d].at = "niling"
        /\ \A e \in Dials : net'[e].down = net[e].down /\ net'[e].up = net[e].up
    BY <1>3, DropEffect, DropStreamTypes
  <2>2. loop[d].msg = NoCall /\ ~Call(d) /\ ~Take(d)
    BY <2>1 DEF Fits, LoopsFit, Call, Take, Arrived
  <2>3. \A e \in Dials : Line(e)' = Line(e)
    BY <2>1, <2>2 DEF Line
  <2> QED
    BY <2>1, <2>2, <2>3
<1>4. CASE Take(d)
  <2>1. /\ \A e \in Dials \ {stream} : net'[e] = net[e]
        /\ loop[d].at = "blocked" /\ \A e \in Dials \ {d} : loop'[e] = loop[e]
        /\ net[stream].down # <<>> /\ net'[stream].up = net[stream].up
        /\ net'[stream].down = Tail(net[stream].down)
        /\ loop'[d].msg = Head(net[stream].down) /\ loop[d].on = stream
    BY <1>4, TakeEffect DEF Others
  <2>2. stream = d
    BY <2>1 DEF Connected
  <2>3. net[d].down \in Seq(Messages) /\ ~Call(d)
    BY <2>1, NetBooleans DEF Call
  <2>4. ToSet(net[d].down) = {Head(net[d].down)} \cup ToSet(Tail(net[d].down))
    BY <2>1, <2>2, <2>3, TailIs
  <2>5. loop[d].msg = NoCall
    BY <2>1 DEF Fits, LoopsFit
  <2>6. \A e \in Dials \ {d} : Line(e)' = Line(e)
    BY <2>1, <2>2 DEF Line
  <2>7. Line(d) \subseteq Line(d)' \cup {NoCall} /\ Line(d)' \subseteq Line(d)
    BY <2>1, <2>2, <2>4, <2>5 DEF Line
  <2> QED
    BY <1>4, <2>1, <2>2, <2>3, <2>6, <2>7
<1>5. CASE Call(d)
  <2>1. /\ net' = net /\ loop'[d].msg = NoCall /\ loop[d].at = "call"
        /\ \A e \in Dials \ {d} : loop'[e] = loop[e]
    BY <1>5, CallEffect DEF netVars
  <2>2. \A e \in Dials \ {d} : Line(e)' = Line(e)
    BY <2>1 DEF Line
  <2>3. loop'[d].msg = NoCall /\ ~Take(d)
    BY <1>5, CallEffect DEF Take, Arrived
  <2>4. Line(d) \subseteq Line(d)' \cup {loop[d].msg} /\ Line(d)' \subseteq Line(d) \cup {NoCall}
    BY <2>1, <2>3 DEF Line
  <2> QED
    BY <1>5, <2>1, <2>2, <2>3, <2>4
<1> QED
  BY <1>1, <1>2, <1>3, <1>4, <1>5 DEF LoopStep

-----------------------------------------------------------------------------
(* Who listens, as long as Main's handler has not dialled again. *)

(* No song is on its way but for the one that is waited for. *)
LEMMA RegisteredStays ==
  ASSUME Fits, Registered, listeners' = listeners, ui' = ui,
         \A d \in Dials : Line(d)' \cap Calls \subseteq Line(d)
  PROVE  Registered'
<1>1. \A d \in Dials : \A c \in Songs \cap Line(d)' : c \in Line(d)
  BY DEF Calls
<1> QED
  BY <1>1 DEF Registered

LEMMA RegisteredWithoutSongs ==
  ASSUME Fits, Registered, ui.at # "wait",
         \A d \in Dials : Line(d)' \cap Calls \subseteq Line(d),
         ui'.at \in {"send", "check", "put", "wait"} /\ ui'.call \in Songs => listeners'.song = ui'.call,
         ui'.at \in {"send", "check", "put"} /\ ui'.call \in Banks => listeners'.bank = ui'.call
  PROVE  Registered'
<1>1. \A d \in Dials : \A c \in Songs : c \notin Line(d)'
  BY DEF Registered, Calls
<1> QED
  BY <1>1 DEF Registered

LEMMA RegisteredUi ==
  ASSUME Fits, Connected, Registered, InOrder, SongsOwn,
         Dial \/ AddOnMessageListener \/ Send \/ Check \/ (WaitEnds /\ ~Dies("null")) \/ (Leave /\ ~left)
           \/ \E c \in Calls \cup Logouts : Ask(c) /\ ~left
  PROVE  Registered'
<1>1. CASE Dial \/ (Send /\ stream = 0)
  <2>1. PICK next \in {"send", "check"} : Connect(next) /\ ui.at \in {"connect", "send"}
    BY <1>1 DEF Dial, Send
  <2>2. ui'.at = next /\ ui'.call = ui.call /\ listeners' = listeners
    BY <1>1, <2>1, ConnectEffect DEF Dial, Send
  <2>3. ui.at = "connect" => ui.call \notin Songs \cup Banks
    BY NamesDiffer DEF Fits, UiFits, Calls
  <2>4. \A d \in Dials : Line(d)' = Line(d)
    BY <1>1, LineAtDial
  <2>5. /\ ui'.at \in {"send", "check", "put", "wait"} /\ ui'.call \in Songs => listeners'.song = ui'.call
        /\ ui'.at \in {"send", "check", "put"} /\ ui'.call \in Banks => listeners'.bank = ui'.call
    BY <2>1, <2>2, <2>3 DEF Registered
  <2> QED
    BY <2>1, <2>4, <2>5, RegisteredWithoutSongs
<1>2. CASE AddOnMessageListener
  <2>1. /\ ui.at = "register" /\ ui'.call = ui.call /\ net' = net /\ loop' = loop
        /\ listeners'.song = IF ui.call \in Songs THEN ui.call ELSE listeners.song
        /\ listeners'.bank = IF ui.call \in Songs THEN listeners.bank ELSE ui.call
    BY <1>2, AddEffect DEF netVars
  <2>2. \A d \in Dials : Line(d)' = Line(d)
    BY <2>1 DEF Line
  <2> QED
    BY <2>1, <2>2, RegisteredWithoutSongs, NamesDiffer
<1>3. CASE Send /\ stream # 0
  <2>1. UNCHANGED <<loop, net, listeners>> /\ ui'.call = ui.call /\ ui.at = "send" /\ ui'.at = "check"
    BY <1>3, FitsSend DEF Send, netVars
  <2>2. \A d \in Dials : Line(d)' = Line(d)
    BY <2>1 DEF Line
  <2>3. /\ ui'.at \in {"send", "check", "put", "wait"} /\ ui'.call \in Songs => listeners'.song = ui'.call
        /\ ui'.at \in {"send", "check", "put"} /\ ui'.call \in Banks => listeners'.bank = ui'.call
    BY <2>1 DEF Registered
  <2> QED
    BY <2>1, <2>2, <2>3, RegisteredWithoutSongs
<1>4. CASE Check
  <2>1. /\ UNCHANGED <<loop, net, listeners>> /\ ui.at = "check"
        /\ \/ ui'.at \in {"put", "wait"} /\ ui'.call = ui.call
           \/ ui'.at = "idle"
    BY <1>4, FitsCheck DEF Check, netVars, appVars
  <2>2. \A d \in Dials : Line(d)' = Line(d)
    BY <2>1 DEF Line
  <2>3. /\ ui'.at \in {"send", "check", "put", "wait"} /\ ui'.call \in Songs => listeners'.song = ui'.call
        /\ ui'.at \in {"send", "check", "put"} /\ ui'.call \in Banks => listeners'.bank = ui'.call
    BY <2>1 DEF Registered
  <2> QED
    BY <2>1, <2>2, <2>3, RegisteredWithoutSongs
<1>5. CASE WaitEnds /\ ~Dies("null")
  <2>1. /\ ui.at = "wait" /\ UNCHANGED <<loop, net, listeners>> /\ ui'.at = "idle"
        /\ shown[ui.call] \notin {NoCall, Empty}
    BY <1>5, FitsWaitEnds DEF netVars, appVars
  <2>2. ui.call \in Songs /\ ui.call \in Calls
    BY <2>1 DEF Fits, UiFits, Calls
  <2>3. shown[ui.call] = ui.call /\ ui.call \in Shown
    BY <2>1, <2>2 DEF SongsOwn, Shown
  <2>4. ASSUME NEW d \in Dials, NEW c \in Songs \cap Line(d)
        PROVE  FALSE
    <3>1. c = ui.call
      BY <2>4 DEF Registered
    <3>2. Earlier(asked, c, c)
      BY <2>2, <2>3, <2>4, <3>1, LineIsOrdered DEF Precede
    <3>3. asked \in Seq(Calls \cup Logouts) /\ Distinct(asked)
      BY DEF Fits, PastFits, InOrder
    <3> QED
      BY <3>2, <3>3, EarlierIsStrict
  <2>5. \A d \in Dials : Line(d)' = Line(d)
    BY <2>1 DEF Line
  <2> QED
    BY <2>1, <2>4, <2>5 DEF Registered
<1>6. CASE Leave /\ ~left
  <2>1. UNCHANGED <<ui, loop, listeners>> /\ DropStream
    BY <1>6, LeaveEffect
  <2>2. \A d \in Dials : Line(d)' = Line(d)
    BY <2>1, DropStreamTypes, LineStays
  <2> QED
    BY <2>1, <2>2, RegisteredStays
<1>7. ASSUME NEW c \in Calls \cup Logouts, Ask(c), ~left
      PROVE  Registered'
  <2>1. /\ ui.at = "idle" /\ ui'.call = c /\ ui'.at = IF c \in Calls THEN "register" ELSE "send"
        /\ UNCHANGED <<loop, net, listeners>>
    BY <1>7, AskEffect DEF netVars, appVars
  <2>2. \A d \in Dials : Line(d)' = Line(d)
    BY <2>1 DEF Line
  <2> QED
    BY <2>1, <2>2, RegisteredWithoutSongs DEF Calls
<1> QED
  BY <1>1, <1>2, <1>3, <1>4, <1>5, <1>6, <1>7

LEMMA RegisteredPut == ASSUME Fits, Registered, Put, stream # 0 PROVE Registered'
<1>1. /\ ui.at = "put" /\ listeners' = listeners
      /\ IF ui.call \in Songs THEN ui'.at = "wait" /\ ui'.call = ui.call
         ELSE ui'.at = "idle" /\ ui'.call = NoCall
  BY PutEffect DEF appVars
<1>2. \A d \in Dials : \A c \in Songs : c \notin Line(d)
  BY <1>1 DEF Registered
<1>3. \A d \in Dials : \A c \in Songs \cap Line(d)' : c = ui.call
  BY <1>2, LineAtPut
<1> QED
  BY <1>1, <1>3 DEF Registered

LEMMA RegisteredRest ==
  ASSUME Fits, Connected, Registered, NEW d \in Dials,
         Serve(d) \/ Announce(d) \/ HangUp(d) \/ Lose(d)
           \/ (LoopStep(d) /\ ((Read(d) \/ Take(d)) => stream # 0))
  PROVE  Registered'
<1>1. Closed \notin Calls /\ Refusal \notin Calls /\ Notice \notin Calls /\ NoCall \notin Calls
  BY NamesDiffer
<1>2. CASE Serve(d) \/ Announce(d) \/ HangUp(d) \/ Lose(d)
  <2>1. UNCHANGED <<ui, listeners>>
    BY <1>2, ServeEffect, AnnounceEffect, HangUpEffect, LoseEffect DEF appVars
  <2>2. \A e \in Dials : Line(e)' \subseteq Line(e) \cup {Closed, Refusal, Notice}
    BY <1>2, LineAtServe, LineAtNet
  <2> QED
    BY <1>1, <2>1, <2>2, RegisteredStays
<1>3. CASE LoopStep(d) /\ ((Read(d) \/ Take(d)) => stream # 0)
  <2>1. UNCHANGED <<ui, listeners>>
    BY <1>3, NothingSpoils, ReadEffect, TakeEffect, CallEffect, EofEffect, EndEffect, DropEffect DEF LoopStep, appVars
  <2>2. \A e \in Dials : Line(e)' \subseteq Line(e) \cup {NoCall}
    BY <1>3, LineAtLoop
  <2> QED
    BY <1>1, <2>1, <2>2, RegisteredStays
<1> QED
  BY <1>2, <1>3

(* Streams are opened by dialling. *)
LEMMA UnopenedNext ==
  ASSUME Fits, Unopened, Next
  PROVE  Unopened'
<1>1. CASE UNCHANGED <<loop, net>>
  BY <1>1 DEF Unopened
<1>2. ASSUME DropStream, \A d \in Dials : loop'[d].at = "off" => loop[d].at = "off"
      PROVE  Unopened'
  <2>1. \A d \in Dials : /\ net'[d].over = net[d].over
                         /\ d # stream => net'[d].shut = net[d].shut
    BY <1>2, DropStreamTypes
  <2>2. \A d \in Dials : d = stream => loop[d].at # "off"
    BY DEF Fits, LoopsFit, Dials
  <2> QED
    BY <1>2, <2>1, <2>2 DEF Unopened
<1>3. CASE Dial \/ (Send /\ stream = 0)
  <2>1. PICK next \in {"send", "check"} : Connect(next) /\ ui.at \in {"connect", "send"}
    BY <1>3 DEF Dial, Send
  <2>2. CASE EndAll /\ DropStream /\ failed' /\ loop' = loop
    BY <1>2, <2>2
  <2>3. CASE /\ loop'[stream'].at = "read"
             /\ \A e \in Dials \ {stream'} : loop'[e] = loop[e]
             /\ UNCHANGED <<net, posted, shown, failed>>
    BY <2>3 DEF Unopened
  <2> QED
    BY <2>1, <2>2, <2>3, ConnectEffect
<1>4. CASE Leave
  <2>1. CASE left
    BY <1>1, <1>4, <2>1 DEF Leave, Dies, netVars
  <2>2. CASE ~left
    BY <1>2, <1>4, <2>2, LeaveEffect
  <2> QED
    BY <2>1, <2>2
<1>5. CASE Put
  <2>1. CASE stream = 0
    BY <1>1, <1>5, <2>1 DEF Put, Dies, netVars
  <2>2. CASE stream # 0
    <3>1. \A e \in Dials : net'[e].over = net[e].over /\ net'[e].shut = net[e].shut /\ loop' = loop
      BY <1>5, <2>2, PutEffect DEF Others
    <3> QED
      BY <3>1 DEF Unopened
  <2> QED
    BY <2>1, <2>2
<1>6. CASE Handle \/ AddOnMessageListener \/ (Send /\ stream # 0) \/ Check \/ WaitEnds \/ MapFault
             \/ \E c \in Calls \cup Logouts : Ask(c)
  BY <1>1, <1>6 DEF Handle, AddOnMessageListener, Send, Check, WaitEnds, MapFault, Ask, Dies, netVars
<1>7. ASSUME NEW d \in Dials, Serve(d) \/ Announce(d) \/ HangUp(d) \/ Lose(d)
      PROVE  Unopened'
  <2>1. loop' = loop /\ \A e \in Dials \ {d} : net'[e] = net[e]
    BY <1>7, ServeEffect, AnnounceEffect, HangUpEffect, LoseEffect DEF Others
  <2>2. loop[d].at = "off" => net'[d].over = net[d].over /\ net'[d].shut = net[d].shut
    BY <1>7, ServeEffect, AnnounceEffect, HangUpEffect, LoseEffect DEF Unopened
  <2> QED
    BY <2>1, <2>2 DEF Unopened
<1>8. ASSUME NEW d \in Dials, LoopStep(d)
      PROVE  Unopened'
  <2>1. CASE (Read(d) \/ Take(d)) /\ stream = 0
    BY <1>1, <2>1 DEF Read, Take, Dies, netVars
  <2>2. CASE Read(d) /\ stream # 0
    BY <2>2, ReadEffect DEF Unopened, netVars
  <2>3. CASE Take(d) /\ stream # 0
    <3>1. \A e \in Dials : net'[e].over = net[e].over /\ net'[e].shut = net[e].shut
      BY <2>3, TakeEffect DEF Others
    <3> QED
      BY <2>3, <3>1, TakeEffect DEF Unopened
  <2>4. CASE Spoil(d)
    <3>1. \A e \in Dials \ {loop[d].on} : net'[e] = net[e]
      BY <2>4, SpoilEffect DEF Others
    <3>2. net'[loop[d].on].over = net[loop[d].on].over /\ net'[loop[d].on].shut = net[loop[d].on].shut
      <4> DEFINE t == Tail(net[loop[d].on].down)
      <4>1. net' = [net EXCEPT ![loop[d].on].down = t] /\ loop[d].on \in Dials /\ t \in DownSeqs
        BY <2>4, SpoilEffect, HeadOfDown DEF Spoil, Consume
      <4> HIDE DEF t
      <4> QED
        BY <4>1, DownChanges DEF Fits
    <3> QED
      BY <2>4, <3>1, <3>2, SpoilEffect DEF Unopened
  <2>5. CASE Call(d)
    BY <2>5, CallEffect DEF Unopened, netVars
  <2>6. CASE Eof(d)
    BY <2>6, EofEffect DEF Unopened, netVars
  <2>7. CASE End(d)
    BY <2>7, EndEffect DEF Unopened, netVars
  <2>8. CASE Drop(d)
    <3>1. \A e \in Dials : loop'[e].at = "off" => loop[e].at = "off"
      BY <2>8, DropEffect
    <3> QED
      BY <1>2, <2>8, <3>1, DropEffect
  <2> QED
    BY <1>8, <2>1, <2>2, <2>3, <2>4, <2>5, <2>6, <2>7, <2>8 DEF LoopStep
<1> QED
  BY <1>3, <1>4, <1>5, <1>6, <1>7, <1>8 DEF Next, UiStep

-----------------------------------------------------------------------------
(* Without a failure the stream serves until the screen is left. *)

(* A dialled loop is live only after the first dial. *)
LEMMA LiveIsDialled ==
  ASSUME Fits, Connected, NEW d \in Dials, loop[d].at # "off"
  PROVE  ui.at # "connect" /\ d <= dials
<1>1. d <= dials
  BY DEF Fits, LoopsFit, Dials
<1> QED
  BY <1>1 DEF Connected, Dials

LEMMA LoopsEndOfFailures ==
  ASSUME Fits, Connected, Serves, NEW d \in Dials, Live(d),
         loop[d].at \notin {"read", "blocked", "call"} \/ net[d].over
  PROVE  failed \/ left
<1> SUFFICES ASSUME ~failed, ~left PROVE FALSE
  OBVIOUS
<1>1. ui.at # "connect"
  BY LiveIsDialled DEF Live
<1>2. /\ stream # 0 /\ loop[stream].at \in {"read", "blocked", "call"}
      /\ ~net[stream].over
  BY <1>1 DEF Serves
<1>3. stream = d
  BY <1>2, LiveIs
<1> QED
  BY <1>2, <1>3

NetStep(d) == Serve(d) \/ Announce(d) \/ HangUp(d) \/ Lose(d)
LoopWorks(d) == LoopStep(d) /\ ((Read(d) \/ Take(d)) => stream # 0)

LEMMA NetStepEffect ==
  ASSUME Fits, NEW d \in Dials, NetStep(d)
  PROVE  /\ UNCHANGED <<ui, loop, stream, dials, listeners, posted, screens, entered, left, shown,
                        asked, stale, moved>>
         /\ \A e \in Dials \ {d} : net'[e] = net[e]
         /\ net'[d].shut = net[d].shut
         /\ failed => failed'
         /\ hasty => hasty'
         /\ refused \subseteq refused'
         /\ ~HangUp(d) /\ ~Lose(d) => net'[d].over = net[d].over
<1>1. CASE Serve(d)
  BY <1>1, ServeEffect DEF Others, appVars
<1>2. CASE Announce(d)
  BY <1>2, AnnounceEffect DEF Others, appVars
<1>3. CASE HangUp(d)
  BY <1>3, HangUpEffect DEF Others, appVars, pastVars
<1>4. CASE Lose(d)
  BY <1>4, LoseEffect DEF Others, appVars
<1> QED
  BY <1>1, <1>2, <1>3, <1>4 DEF NetStep

LEMMA ServesNet ==
  ASSUME Fits, Connected, Serves, NEW d \in Dials, NetStep(d)
  PROVE  Serves'
<1> SUFFICES ASSUME ~failed', ~left', ui'.at # "connect"
             PROVE  /\ stream' # 0 /\ loop'[stream'].at \in {"read", "blocked", "call"}
                    /\ ~net'[stream'].over /\ ~net'[stream'].shut
  BY DEF Serves
<1>1. /\ stream # 0 /\ loop[stream].at \in {"read", "blocked", "call"}
      /\ ~net[stream].over /\ ~net[stream].shut
  BY NetStepEffect DEF Serves
<1>2. stream \in Dials /\ stream' = stream /\ loop' = loop
  BY <1>1, StreamIs, NetStepEffect
<1>3. ~net'[stream].shut
  BY <1>1, <1>2, NetStepEffect
<1>4. ~net'[stream].over
  <2>1. CASE d # stream
    BY <1>1, <1>2, <2>1, NetStepEffect
  <2>2. CASE d = stream
    <3>1. ~HangUp(d) /\ ~Lose(d)
      BY <1>1, <2>2, HangUpEffect, LoseEffect
    <3> QED
      BY <1>1, <2>2, <3>1, NetStepEffect
  <2> QED
    BY <2>1, <2>2
<1> QED
  BY <1>1, <1>2, <1>3, <1>4

LEMMA ServesLoop ==
  ASSUME Fits, Connected, Serves, NEW d \in Dials, LoopWorks(d)
  PROVE  Serves' /\ (Eof(d) \/ End(d) \/ Drop(d) => failed \/ left)
<1>1. LoopStep(d) /\ ~Spoil(d)
  BY NothingSpoils DEF LoopWorks
<1>2. Eof(d) \/ End(d) \/ Drop(d) => failed \/ left
  <2>1. CASE Eof(d)
    <3>1. loop[d].at = "blocked" /\ net[loop[d].on].over /\ loop[d].on = d
      BY <2>1, EofEffect DEF Connected
    <3> QED
      BY <3>1, LoopsEndOfFailures DEF Live
  <2>2. CASE End(d) \/ Drop(d)
    <3>1. loop[d].at \in {"ending", "niling"}
      BY <2>2, EndEffect, DropEffect
    <3> QED
      BY <3>1, LoopsEndOfFailures DEF Live
  <2> QED
    BY <2>1, <2>2
<1>3. CASE Eof(d) \/ End(d) \/ Drop(d)
  <2>1. failed' = failed /\ left' = left
    BY <1>3, EofEffect, EndEffect, DropEffect DEF pastVars, appVars
  <2> QED
    BY <1>2, <1>3, <2>1 DEF Serves
<1>4. CASE Read(d) \/ Take(d) \/ Call(d)
  <2>1. /\ UNCHANGED <<ui, stream, failed, left>> /\ \A e \in Dials \ {d} : loop'[e] = loop[e]
        /\ loop'[d].at \in {"read", "blocked", "call"}
    BY <1>4, ReadEffect, TakeEffect, CallEffect DEF LoopWorks, netVars, pastVars, appVars
  <2>2. \A e \in Dials : net'[e].over = net[e].over /\ net'[e].shut = net[e].shut
    <3>1. CASE Read(d) \/ Call(d)
      BY <3>1, ReadEffect, CallEffect DEF LoopWorks, netVars
    <3>2. CASE Take(d)
      BY <3>2, TakeEffect DEF LoopWorks, Others
    <3> QED
      BY <1>4, <3>1, <3>2
  <2>3. stream # 0 => stream \in Dials
    BY StreamIs
  <2> QED
    BY <1>2, <2>1, <2>2, <2>3 DEF Serves
<1> QED
  BY <1>1, <1>2, <1>3, <1>4 DEF LoopStep

LEMMA ServesUi ==
  ASSUME Fits, Connected, Unopened, Serves,
         Dial \/ AddOnMessageListener \/ Send \/ Check \/ (Put /\ stream # 0)
           \/ (WaitEnds /\ ~Dies("null")) \/ (Leave /\ ~left)
           \/ \E c \in Calls \cup Logouts : Ask(c) /\ ~left
  PROVE  Serves'
<1>1. CASE Dial \/ (Send /\ stream = 0)
  <2>1. PICK next \in {"send", "check"} : Connect(next) /\ ui.at \in {"connect", "send"}
    BY <1>1 DEF Dial, Send
  <2>2. CASE EndAll /\ DropStream /\ failed' /\ loop' = loop
    BY <2>2 DEF Serves
  <2>3. CASE /\ stream' = dials + 1 /\ loop[stream'].at = "off"
             /\ loop'[stream'].at = "read"
             /\ UNCHANGED <<net, posted, shown, failed>>
    <3>1. stream' \in Dials /\ stream' # 0
      BY <2>1, <2>3, ConnectEffect DEF Dials
    <3> QED
      BY <2>3, <3>1 DEF Serves, Unopened
  <2> QED
    BY <2>1, <2>2, <2>3, ConnectEffect
<1>2. CASE Leave /\ ~left
  BY <1>2, LeaveEffect DEF Serves
<1>3. CASE Put /\ stream # 0
  <2>1. /\ UNCHANGED <<loop, stream, failed, left>> /\ ui.at = "put"
        /\ \A e \in Dials : net'[e].over = net[e].over /\ net'[e].shut = net[e].shut
        /\ stream \in Dials
    BY <1>3, PutEffect DEF Others, appVars, pastVars
  <2> QED
    BY <2>1 DEF Serves
<1>4. CASE AddOnMessageListener \/ (Send /\ stream # 0) \/ Check \/ (WaitEnds /\ ~Dies("null"))
             \/ \E c \in Calls \cup Logouts : Ask(c) /\ ~left
  <2>1. UNCHANGED <<loop, net, stream, failed, left>> /\ ui.at # "connect"
    <3>1. CASE AddOnMessageListener
      BY <3>1 DEF AddOnMessageListener, netVars
    <3>2. CASE Send /\ stream # 0
      BY <3>2 DEF Send, netVars
    <3>3. CASE Check
      BY <3>3 DEF Check, netVars, appVars, pastVars
    <3>4. CASE WaitEnds /\ ~Dies("null")
      BY <3>4 DEF WaitEnds, netVars, appVars, pastVars
    <3>5. CASE \E c \in Calls \cup Logouts : Ask(c) /\ ~left
      BY <3>5 DEF Ask, netVars, appVars
    <3> QED
      BY <1>4, <3>1, <3>2, <3>3, <3>4, <3>5
  <2> QED
    BY <2>1 DEF Serves
<1> QED
  BY <1>1, <1>2, <1>3, <1>4

(* Nothing goes on after the screen was left in peace. *)
LEMMA RestsNet ==
  ASSUME Fits, Rests, NEW d \in Dials, NetStep(d)
  PROVE  Rests'
<1> SUFFICES ASSUME ~failed', left', ~hasty'
             PROVE  /\ posted' = 0 /\ screens' = 0
                    /\ \A e \in Dials : /\ net'[e].down = <<>> /\ net'[e].up = <<>>
                                        /\ loop'[e].at \notin {"read", "call"}
  BY DEF Rests
<1>1. left /\ posted = 0 /\ screens = 0 /\ posted' = posted /\ screens' = screens /\ loop' = loop
      /\ \A e \in Dials : /\ net[e].down = <<>> /\ net[e].up = <<>>
                          /\ loop[e].at \notin {"read", "call"}
  BY NetStepEffect DEF Rests
<1>2. ~Serve(d) /\ ~Announce(d)
  BY <1>1, ServeEffect, AnnounceEffect
<1>3. \A e \in Dials : net'[e].down = <<>> /\ net'[e].up = <<>>
  BY <1>1, <1>2, NetStepEffect, HangUpEffect, LoseEffect DEF NetStep
<1> QED
  BY <1>1, <1>3

LEMMA RestsLoop ==
  ASSUME Fits, Connected, Rests, NEW d \in Dials, LoopWorks(d)
  PROVE  Rests'
<1> SUFFICES ASSUME ~failed', left', ~hasty'
             PROVE  /\ posted' = 0 /\ screens' = 0
                    /\ \A e \in Dials : /\ net'[e].down = <<>> /\ net'[e].up = <<>>
                                        /\ loop'[e].at \notin {"read", "call"}
  BY DEF Rests
<1>1. LoopStep(d) /\ ~Spoil(d)
  BY NothingSpoils DEF LoopWorks
<1>2. ~failed /\ left /\ ~hasty
  BY <1>1, ReadEffect, TakeEffect, CallEffect, EofEffect, EndEffect, DropEffect
     DEF LoopStep, LoopWorks, appVars, pastVars
<1>3. /\ posted = 0 /\ screens = 0
      /\ \A e \in Dials : /\ net[e].down = <<>> /\ net[e].up = <<>>
                          /\ loop[e].at \notin {"read", "call"}
  BY <1>2 DEF Rests
<1>4. ~Read(d) /\ ~Call(d)
  BY <1>3 DEF Read, Call
<1>5. ~Take(d)
  BY <1>3, TakeEffect DEF LoopWorks
<1>6. CASE Eof(d)
  BY <1>3, <1>6, EofEffect DEF netVars, appVars
<1>7. CASE End(d)
  <2>1. posted' = posted
    BY <1>2, <1>7, EndEffect, EndAllTypes
  <2> QED
    BY <1>3, <1>7, <2>1, EndEffect DEF netVars
<1>8. CASE Drop(d)
  BY <1>3, <1>8, DropEffect, DropStreamTypes DEF appVars
<1> QED
  BY <1>1, <1>4, <1>5, <1>6, <1>7, <1>8 DEF LoopStep

LEMMA RestsUi ==
  ASSUME Fits, Connected, Serves, Rests,
         Dial \/ AddOnMessageListener \/ Send \/ Check \/ (Put /\ stream # 0)
           \/ (WaitEnds /\ ~Dies("null")) \/ (Leave /\ ~left)
           \/ \E c \in Calls \cup Logouts : Ask(c) /\ ~left
  PROVE  Rests'
<1>1. CASE Leave /\ ~left
  <2>1. /\ ui.at = "idle" /\ EndAll /\ DropStream /\ screens' = screens - 1
        /\ (hasty' <=> UnderWay \/ screens > 1) /\ failed' = failed /\ loop' = loop
    BY <1>1, LeaveEffect
  <2> SUFFICES ASSUME ~failed', ~hasty'
               PROVE  /\ posted' = 0 /\ screens' = 0
                      /\ \A e \in Dials : /\ net'[e].down = <<>> /\ net'[e].up = <<>>
                                          /\ loop'[e].at \notin {"read", "call"}
    BY DEF Rests
  <2>2. /\ posted = 0 /\ screens \in {0, 1}
        /\ \A e \in Dials : /\ net[e].down = <<>> /\ net[e].up = <<>>
                            /\ loop[e].at \notin {"read", "call"}
    BY <2>1 DEF UnderWay, Fits, AppFits
  <2>3. stream # 0
    BY <1>1, <2>1 DEF Serves
  <2>4. posted' = posted
    BY <2>1, <2>3, EndAllTypes
  <2>5. screens > 0
    BY <1>1 DEF Leave
  <2>6. \A e \in Dials : net'[e].down = net[e].down /\ net'[e].up = net[e].up
    BY <2>1, DropStreamTypes
  <2> QED
    BY <2>1, <2>2, <2>4, <2>5, <2>6
<1>2. CASE \E c \in Calls \cup Logouts : Ask(c) /\ ~left
  <2>1. ~left'
    BY <1>2, AskEffect DEF appVars
  <2> QED
    BY <2>1 DEF Rests
<1>3. CASE Dial \/ AddOnMessageListener \/ Send \/ Check \/ (Put /\ stream # 0) \/ (WaitEnds /\ ~Dies("null"))
  <2>1. ui.at # "idle" /\ left' = left
    BY <1>3 DEF Dial, AddOnMessageListener, Send, Check, Put, WaitEnds, appVars
  <2>2. ~left
    BY <2>1 DEF Connected
  <2> QED
    BY <2>1, <2>2 DEF Rests
<1> QED
  BY <1>1, <1>2, <1>3

(* A listener hears of an end only after a failure or the screen's. *)
LEMMA EndIsHeardUi ==
  ASSUME Fits, EndIsHeard,
         Dial \/ AddOnMessageListener \/ Send \/ Check \/ (Put /\ stream # 0)
           \/ (WaitEnds /\ ~Dies("null")) \/ (Leave /\ ~left)
           \/ \E c \in Calls \cup Logouts : Ask(c) /\ ~left
  PROVE  EndIsHeard'
<1>1. CASE Dial \/ (Send /\ stream = 0)
  <2>1. PICK next \in {"send", "check"} : Connect(next) /\ ui.at \in {"connect", "send"} /\ left' = left
    BY <1>1 DEF Dial, Send
  <2>2. failed' \/ (shown' = shown /\ failed' = failed)
    BY <2>1, ConnectEffect
  <2> QED
    BY <2>1, <2>2 DEF EndIsHeard, Shown
<1>2. CASE Leave /\ ~left
  BY <1>2, LeaveEffect DEF EndIsHeard
<1>3. CASE AddOnMessageListener \/ (Send /\ stream # 0) \/ Check \/ (Put /\ stream # 0)
             \/ (WaitEnds /\ ~Dies("null")) \/ \E c \in Calls \cup Logouts : Ask(c) /\ ~left
  <2>1. UNCHANGED <<shown, failed, left>>
    BY <1>3 DEF AddOnMessageListener, Send, Check, Put, WaitEnds, Ask, appVars, pastVars
  <2> QED
    BY <2>1 DEF EndIsHeard, Shown
<1> QED
  BY <1>1, <1>2, <1>3

LEMMA EndIsHeardRest ==
  ASSUME Fits, Connected, Serves, EndIsHeard, NEW d \in Dials, NetStep(d) \/ LoopWorks(d)
  PROVE  EndIsHeard'
<1>1. CASE NetStep(d)
  <2>1. shown' = shown /\ left' = left /\ (failed => failed')
    BY <1>1, NetStepEffect
  <2> QED
    BY <2>1 DEF EndIsHeard, Shown
<1>2. CASE LoopWorks(d)
  <2>1. LoopStep(d) /\ ~Spoil(d)
    BY <1>2, NothingSpoils DEF LoopWorks
  <2>2. CASE Read(d) \/ Take(d) \/ Eof(d) \/ Drop(d)
    <3>1. UNCHANGED <<shown, failed, left>>
      BY <1>2, <2>2, ReadEffect, TakeEffect, EofEffect, DropEffect DEF LoopWorks, appVars, pastVars
    <3> QED
      BY <3>1 DEF EndIsHeard, Shown
  <2>3. CASE End(d)
    <3>1. failed \/ left
      BY <1>2, <2>3, ServesLoop
    <3>2. failed' = failed /\ left' = left
      BY <2>3, EndEffect DEF pastVars
    <3> QED
      BY <3>1, <3>2 DEF EndIsHeard
  <2>4. CASE Call(d)
    <3>1. /\ \A c \in Calls : shown'[c] \in {shown[c], loop[d].msg}
          /\ loop[d].msg \in Messages /\ failed' = failed /\ left' = left
      BY <2>4, CallEffect
    <3>2. Empty \in Shown' => Empty \in Shown
      BY <3>1, NamesDiffer DEF Shown
    <3> QED
      BY <3>1, <3>2 DEF EndIsHeard
  <2> QED
    BY <2>1, <2>2, <2>3, <2>4 DEF LoopStep
<1> QED
  BY <1>1, <1>2

(* The app dies of failures. *)
LEMMA DiesNext ==
  ASSUME Fits, ~moved => Early, DiesOfFailureOnly, Next
  PROVE  DiesOfFailureOnly'
<1>1. crash = "none"
  BY DEF Next
<1>2. ASSUME Dies("null") \/ Dies("nil"), failed \/ moved \/ hasty
      PROVE  DiesOfFailureOnly'
  BY <1>2 DEF DiesOfFailureOnly, Dies, pastVars
<1>3. CASE crash' = crash
  BY <1>1, <1>3 DEF DiesOfFailureOnly
<1>4. ASSUME left, ~moved, posted > 0 \/ screens > 0 \/ \E d \in Dials : loop[d].at = "read" \/ net[d].down # <<>>
      PROVE  failed \/ hasty
  <2>1. Rests
    BY <1>4 DEF Early
  <2>2. posted \in Nat /\ screens \in 0..2
    BY DEF Fits, AppFits
  <2> QED
    BY <1>4, <2>1, <2>2 DEF Rests
<1>5. CASE Handle \/ Leave \/ \E c \in Calls \cup Logouts : Ask(c)
  <2>1. CASE left
    BY <1>2, <1>4, <1>5, <2>1 DEF Handle, Leave, Ask
  <2>2. CASE ~left
    BY <1>3, <1>5, <2>2 DEF Handle, Leave, Ask
  <2> QED
    BY <2>1, <2>2
<1>6. CASE Put
  <2>1. CASE stream = 0
    <3>1. ~moved => failed
      <4> SUFFICES ASSUME ~moved PROVE failed
        OBVIOUS
      <4>1. Connected /\ Serves /\ ui.at = "put"
        BY <1>6 DEF Early, Put
      <4> QED
        BY <2>1, <4>1 DEF Connected, Serves
    <3> QED
      BY <1>2, <1>6, <2>1, <3>1 DEF Put
  <2>2. CASE stream # 0
    BY <1>3, <1>6, <2>2 DEF Put
  <2> QED
    BY <2>1, <2>2
<1>7. CASE WaitEnds
  <2>1. CASE shown[ui.call] = Empty
    <3>1. ui.at = "wait" /\ ui.call \in Calls /\ Empty \in Shown
      BY <1>7, <2>1 DEF WaitEnds, Fits, UiFits, Calls, Shown
    <3>2. ~moved => failed
      BY <3>1 DEF Early, Connected, EndIsHeard
    <3> QED
      BY <1>2, <1>7, <2>1, <3>2 DEF WaitEnds
  <2>2. CASE shown[ui.call] # Empty
    BY <1>3, <1>7, <2>2 DEF WaitEnds
  <2> QED
    BY <2>1, <2>2
<1>8. CASE MapFault
  BY <1>8 DEF MapFault, Dies, DiesOfFailureOnly
<1>9. ASSUME NEW d \in Dials, LoopStep(d)
      PROVE  DiesOfFailureOnly'
  <2>1. CASE (Read(d) \/ Take(d)) /\ stream = 0
    <3>1. ~moved => failed \/ hasty
      <4> SUFFICES ASSUME ~moved PROVE failed \/ hasty
        OBVIOUS
      <4>1. Connected
        BY DEF Early
      <4>2. loop[d].at = "read" \/ (loop[d].at = "blocked" /\ net[loop[d].on].down # <<>>)
        BY <2>1 DEF Read, Take, Arrived
      <4>3. loop[d].at = "read" \/ net[d].down # <<>>
        BY <4>1, <4>2 DEF Connected
      <4>4. left
        BY <2>1, <4>1, <4>2, LiveIs DEF Live
      <4> QED
        BY <1>4, <4>3, <4>4
    <3> QED
      BY <1>2, <2>1, <3>1 DEF Read, Take
  <2>2. CASE ~((Read(d) \/ Take(d)) /\ stream = 0)
    BY <1>3, <1>9, <2>2 DEF LoopStep, Read, Take, Spoil, Call, Eof, End, Drop
  <2> QED
    BY <2>1, <2>2
<1>10. CASE Dial \/ AddOnMessageListener \/ Send \/ Check
  BY <1>3, <1>10 DEF Dial, AddOnMessageListener, Send, Check
<1>11. CASE \E d \in Dials : Serve(d) \/ Announce(d) \/ HangUp(d) \/ Lose(d)
  BY <1>3, <1>11 DEF Serve, Announce, HangUp, Lose
<1> QED
  BY <1>5, <1>6, <1>7, <1>8, <1>9, <1>10, <1>11 DEF Next, UiStep

-----------------------------------------------------------------------------
(* The greeting comes alone. *)

LEMMA LonelyStays ==
  ASSUME NEW d \in Dials, Lonely(d),
         loop'[d].msg \in {loop[d].msg, NoCall},
         net'[d].down \in {net[d].down, <<>>}, net'[d].up \in {net[d].up, <<>>}
  PROVE  Lonely(d)'
  BY DEF Lonely

LEMMA GreetedStays ==
  ASSUME Fits, Greeted,
         asked' = asked, screens' = screens, entered' = entered, refused' = refused,
         ui'.call \in {ui.call, NoCall},
         \A d \in Dials : Line(d)' \subseteq Line(d) \cup {NoCall},
         \A d \in Dials : Lonely(d) => Lonely(d)'
  PROVE  Greeted'
<1>1. NoCall \notin Calls \cup Logouts /\ NoCall # Hello /\ NoCall \notin Greetings /\ NoCall # Refusal
  BY NamesDiffer, MarksDiffer DEF Greetings
<1>2. ui'.call \in Calls \cup Logouts => asked' # <<>>
  BY <1>1 DEF Greeted
<1>3. ui'.call = Hello => ui.call = Hello
  BY <1>1
<1>4. \A d \in Dials : Line(d)' \cap Greetings # {} => Line(d) \cap Greetings # {}
  BY <1>1
<1>5. ASSUME NEW d \in Dials, ui'.call = Hello PROVE Line(d)' = {NoCall}
  <2>1. Line(d) = {NoCall}
    BY <1>3, <1>5 DEF Greeted
  <2>2. Line(d)' # {}
    BY DEF Line
  <2> QED
    BY <2>1, <2>2
<1>6. \A d \in Dials : /\ Line(d)' \cap Greetings # {} => Lonely(d)'
                       /\ Refusal \in Line(d)' => refused' # {}
  BY <1>1, <1>4 DEF Greeted
<1>7. ui'.call = Hello \/ (\E d \in Dials : Line(d)' \cap Greetings # {}) =>
        screens' = 0 /\ asked' = <<>> /\ ~entered'
  BY <1>3, <1>4 DEF Greeted
<1> QED
  BY <1>2, <1>5, <1>6, <1>7 DEF Greeted

(* After the greeting. *)
LEMMA GreetedAfter ==
  ASSUME ui'.call # Hello, \A d \in Dials : Line(d)' \cap Greetings = {},
         ui'.call \in Calls \cup Logouts => asked' # <<>>,
         \A d \in Dials : Refusal \in Line(d)' => refused' # {}
  PROVE  Greeted'
  BY DEF Greeted

LEMMA GreetedUi ==
  ASSUME Fits, Connected, Greeted,
         Dial \/ AddOnMessageListener \/ Send \/ Check \/ (Put /\ stream # 0)
           \/ (WaitEnds /\ ~Dies("null")) \/ (Leave /\ ~left)
           \/ \E c \in Calls \cup Logouts : Ask(c) /\ ~left
  PROVE  Greeted'
<1>1. CASE Dial \/ (Send /\ stream = 0)
  <2>1. PICK next \in {"send", "check"} : Connect(next) /\ ui.at \in {"connect", "send"}
    BY <1>1 DEF Dial, Send
  <2>2. UNCHANGED <<asked, screens, entered, refused>> /\ ui'.call = ui.call
    BY <1>1, <2>1, ConnectEffect DEF Dial, Send
  <2>3. \A d \in Dials : Line(d)' = Line(d) /\ Line(d) = {NoCall} /\ net'[d].down = <<>> /\ net'[d].up = <<>>
    BY <1>1, LineAtDial
  <2>4. \A d \in Dials : Lonely(d)'
    BY <2>3 DEF Lonely
  <2> QED
    BY <2>2, <2>3, <2>4, GreetedStays
<1>2. CASE AddOnMessageListener \/ (Send /\ stream # 0) \/ Check \/ (WaitEnds /\ ~Dies("null"))
  <2>1. UNCHANGED <<loop, net, asked, screens, entered, refused>>
    BY <1>2 DEF AddOnMessageListener, Send, Check, WaitEnds, netVars, appVars, pastVars
  <2>2. ui'.call \in {ui.call, NoCall}
    BY <1>2, AddEffect, FitsSend, FitsCheck, FitsWaitEnds
  <2>3. \A d \in Dials : Line(d)' = Line(d) /\ (Lonely(d) => Lonely(d)')
    BY <2>1 DEF Line, Lonely
  <2> QED
    BY <2>1, <2>2, <2>3, GreetedStays
<1>3. CASE Put /\ stream # 0
  <2>1. /\ ui.at = "put" /\ stream \in Dials /\ UNCHANGED <<loop, asked, screens, entered, refused>>
        /\ \A e \in Dials \ {stream} : net'[e] = net[e]
        /\ net'[stream].down = net[stream].down
        /\ net'[stream].up = IF net[stream].over THEN net[stream].up
                             ELSE Append(net[stream].up, ui.call)
        /\ net[stream].up \in Seq(Requests) /\ ui.call \in Requests
        /\ ui'.call \in {ui.call, NoCall} /\ (ui'.call = NoCall \/ ui.call \in Songs)
    BY <1>3, PutEffect DEF Others, appVars, pastVars
  <2>2. CASE ui.call = Hello
    <3>1. \A d \in Dials : Line(d) = {NoCall}
      BY <2>2 DEF Greeted
    <3>2. ui'.call # Hello /\ ui'.call \notin Calls \cup Logouts
      BY <2>1, <2>2, NamesDiffer, MarksDiffer DEF Calls
    <3>3. screens' = 0 /\ asked' = <<>> /\ ~entered'
      BY <2>1, <2>2 DEF Greeted
    <3>4. \A d \in Dials : loop[d].msg = NoCall /\ net[d].down = <<>> /\ net[d].up = <<>>
      <4> SUFFICES ASSUME NEW d \in Dials
                   PROVE  loop[d].msg = NoCall /\ net[d].down = <<>> /\ net[d].up = <<>>
        OBVIOUS
      <4>1. loop[d].msg \in {NoCall} /\ ToSet(net[d].down) \subseteq {NoCall} /\ ToSet(net[d].up) \subseteq {NoCall}
        BY <3>1 DEF Line
      <4>2. net[d].up \in Seq(Requests) /\ net[d].down \in Seq(Messages)
        BY NetBooleans
      <4>3. NoCall \notin Requests /\ NoCall \notin Messages
        BY NamesDiffer, MarksDiffer DEF Requests
      <4>4. ToSet(net[d].down) = {} /\ ToSet(net[d].up) = {}
        <5>1. ToSet(net[d].down) \subseteq Messages /\ ToSet(net[d].up) \subseteq Requests
          BY <4>2, SetOf
        <5> QED
          BY <4>1, <4>3, <5>1
      <4>5. net[d].down = <<>>
        BY <4>2, <4>4, SetOf
      <4>6. net[d].up = <<>>
        BY <4>2, <4>4, SetOf
      <4> QED
        BY <4>1, <4>5, <4>6
    <3>5. \A d \in Dials : Lonely(d)'
      <4>1. \A d \in Dials : loop'[d].msg = NoCall /\ net'[d].down = <<>>
        BY <2>1, <3>4
      <4>2. \A d \in Dials : net'[d].up = <<>> \/ Len(net'[d].up) = 1
        <5>1. Len(Append(net[stream].up, ui.call)) = 1
          BY <2>1, <3>4, OneIs
        <5>2. net'[stream].up = <<>> \/ Len(net'[stream].up) = 1
          BY <2>1, <3>4, <5>1
        <5> QED
          BY <2>1, <3>4, <5>2
      <4> QED
        BY <4>1, <4>2 DEF Lonely
    <3>6. \A d \in Dials : Refusal \notin Line(d)'
      <4>1. Refusal # NoCall /\ Refusal # Hello
        BY MarksDiffer
      <4> QED
        BY <1>3, <2>2, <3>1, <4>1, LineAtPut
    <3> QED
      BY <3>2, <3>3, <3>5, <3>6 DEF Greeted
  <2>3. CASE ui.call # Hello
    <3>1. ui.call \in Calls \cup Logouts /\ asked # <<>>
      BY <2>1, <2>3 DEF Requests, Greeted
    <3>2. \A d \in Dials : Line(d) \cap Greetings = {}
      BY <3>1 DEF Greeted
    <3>3. ui.call \notin Greetings /\ ui.call # Refusal /\ NoCall # Hello
      BY <3>1, NamesDiffer, MarksDiffer DEF Greetings
    <3>4. \A d \in Dials : Line(d)' \cap Greetings = {} /\ (Refusal \in Line(d)' => Refusal \in Line(d))
      BY <1>3, <3>2, <3>3, LineAtPut
    <3>5. \A d \in Dials : Refusal \in Line(d)' => refused' # {}
      BY <2>1, <3>4 DEF Greeted
    <3> QED
      BY <2>1, <2>3, <3>1, <3>3, <3>4, <3>5, GreetedAfter
  <2> QED
    BY <2>2, <2>3
<1>4. ASSUME screens > 0, loop' = loop, \A d \in Dials : net'[d].down = net[d].down /\ net'[d].up = net[d].up,
             refused' = refused, ui'.call # Hello, ui'.call \in Calls \cup Logouts => asked' # <<>>
      PROVE  Greeted'
  <2>1. \A d \in Dials : Line(d)' = Line(d)
    BY <1>4, LineStays
  <2>2. \A d \in Dials : Line(d) \cap Greetings = {}
    <3>1. screens # 0
      BY <1>4
    <3> QED
      BY <3>1 DEF Greeted
  <2> QED
    BY <1>4, <2>1, <2>2, GreetedAfter DEF Greeted
<1>5. CASE Leave /\ ~left
  <2>1. /\ screens > 0 /\ loop' = loop /\ refused' = refused /\ ui' = ui /\ asked' = asked /\ DropStream
    BY <1>5, LeaveEffect DEF Leave
  <2>2. \A d \in Dials : net'[d].down = net[d].down /\ net'[d].up = net[d].up
    BY <2>1, DropStreamTypes
  <2>3. ui.call # Hello
    <3>1. screens # 0
      BY <2>1
    <3> QED
      BY <3>1 DEF Greeted
  <2>4. ui'.call \in Calls \cup Logouts => asked' # <<>>
    BY <2>1 DEF Greeted
  <2> QED
    BY <1>4, <2>1, <2>2, <2>3, <2>4
<1>6. ASSUME NEW c \in Calls \cup Logouts, Ask(c), ~left
      PROVE  Greeted'
  <2>1. /\ screens > 0 /\ loop' = loop /\ refused' = refused /\ net' = net /\ ui'.call = c
        /\ asked' = Append(asked, c)
    BY <1>6, AskEffect DEF netVars
  <2>2. asked' # <<>>
    BY <2>1 DEF Fits, PastFits
  <2>3. c # Hello
    BY NamesDiffer
  <2> QED
    BY <1>4, <2>1, <2>2, <2>3
<1> QED
  BY <1>1, <1>2, <1>3, <1>5, <1>6

LEMMA GreetedNet ==
  ASSUME Fits, Connected, Greeted, NEW d \in Dials, NetStep(d)
  PROVE  Greeted'
<1>1. UNCHANGED <<ui, loop, screens, entered, asked>> /\ \A e \in Dials \ {d} : net'[e] = net[e]
  BY NetStepEffect
<1>2. CASE HangUp(d) \/ Lose(d)
  <2>1. refused' = refused /\ \A e \in Dials : Line(e)' \subseteq Line(e) \cup {NoCall}
    BY <1>2, LineAtNet, HangUpEffect, LoseEffect DEF pastVars
  <2>2. \A e \in Dials : Lonely(e) => Lonely(e)'
    BY <1>1, <1>2, HangUpEffect, LoseEffect, LonelyStays
  <2> QED
    BY <1>1, <2>1, <2>2, GreetedStays
<1>3. CASE Announce(d)
  <2>1. entered /\ refused' = refused
    BY <1>3, AnnounceEffect
  <2>2. ui.call # Hello /\ \A e \in Dials : Line(e) \cap Greetings = {}
    BY <2>1 DEF Greeted
  <2>3. Notice \notin Greetings /\ Notice # Refusal
    BY MarksDiffer DEF Greetings
  <2>4. \A e \in Dials : Line(e)' \subseteq Line(e) \cup {Notice}
    BY <1>3, LineAtNet
  <2>5. \A e \in Dials : Line(e)' \cap Greetings = {}
    BY <2>2, <2>3, <2>4
  <2>6. \A e \in Dials : Refusal \in Line(e)' => refused' # {}
    BY <2>1, <2>3, <2>4 DEF Greeted
  <2>7. ui'.call \in Calls \cup Logouts => asked' # <<>>
    BY <1>1 DEF Greeted
  <2> QED
    BY <1>1, <2>2, <2>5, <2>6, <2>7, GreetedAfter
<1>4. CASE Serve(d)
  <2> DEFINE m == Head(net[d].up)
  <2>1. /\ net[d].up # <<>> /\ net'[d].up = Tail(net[d].up) /\ m \in Requests /\ refused \subseteq refused'
        /\ net[d].up \in Seq(Requests) /\ net[d].down \in Seq(Messages)
    BY <1>4, ServeEffect, NetStepEffect, ReplyIs
  <2>2. m \in Line(d)
    BY <1>4, LineAtServe
  <2>3. ui.call # Hello
    <3>1. m # NoCall
      BY <2>1, NamesDiffer, MarksDiffer DEF Requests
    <3> QED
      BY <2>2, <3>1 DEF Greeted
  <2>4. \A e \in Dials : Refusal \in Line(e)' => refused' # {}
    BY <1>4, <2>1, LineAtServe DEF Greeted
  <2>5. CASE Line(d) \cap Greetings = {}
    <3>1. m # Hello /\ Closed \notin Line(d) /\ Hello \notin Line(d)
      BY <2>2, <2>5 DEF Greetings
    <3>2. Line(d)' \cap Greetings = {}
      BY <1>4, <3>1, LineAtServe, MarksDiffer DEF Greetings
    <3>3. ui'.call \in Calls \cup Logouts => asked' # <<>>
      BY <1>1 DEF Greeted
    <3>4. \A e \in Dials \ {d} : Line(e)' = Line(e) /\ (Lonely(e) => Lonely(e)')
      BY <1>1 DEF Line, Lonely
    <3>5. \A e \in Dials : Line(e)' \cap Greetings # {} => Line(e) \cap Greetings # {} /\ Lonely(e)'
      BY <3>2, <3>4 DEF Greeted
    <3>6. (\E e \in Dials : Line(e)' \cap Greetings # {}) => screens' = 0 /\ asked' = <<>> /\ ~entered'
      BY <1>1, <3>5 DEF Greeted
    <3> QED
      BY <1>1, <2>3, <2>4, <3>3, <3>5, <3>6 DEF Greeted
  <2>6. CASE Line(d) \cap Greetings # {}
    <3>1. Lonely(d) /\ screens = 0 /\ asked = <<>> /\ ~entered
      BY <2>6 DEF Greeted
    <3>2. loop[d].msg = NoCall /\ net[d].down = <<>> /\ Len(net[d].up) = 1
      BY <2>1, <3>1 DEF Lonely
    <3>3. net'[d].up = <<>>
      BY <2>1, <3>2, OneIs
    <3>4. net'[d].down = <<>> \/ Len(net'[d].down) = 1
      <4>1. \A x \in Messages : Len(Append(net[d].down, x)) = 1
        BY <2>1, <3>2
      <4>2. Closed \in Messages /\ Refusal \in Messages
        BY DEF Messages
      <4> QED
        BY <1>4, <3>2, <4>1, <4>2, ReplyIs
    <3>5. Lonely(d)'
      BY <1>1, <3>2, <3>3, <3>4 DEF Lonely
    <3>6. \A e \in Dials \ {d} : Line(e)' = Line(e) /\ (Lonely(e) => Lonely(e)')
      BY <1>1 DEF Line, Lonely
    <3>7. \A e \in Dials : Line(e)' \cap Greetings # {} => Lonely(e)'
      BY <3>5, <3>6 DEF Greeted
    <3>8. ui'.call \notin Calls \cup Logouts
      BY <1>1, <3>1 DEF Greeted
    <3> QED
      BY <1>1, <2>3, <2>4, <3>1, <3>7, <3>8 DEF Greeted
  <2> QED
    BY <2>5, <2>6
<1> QED
  BY <1>2, <1>3, <1>4 DEF NetStep

LEMMA GreetedLoop ==
  ASSUME Fits, Connected, Greeted, NEW d \in Dials, LoopWorks(d)
  PROVE  Greeted'
<1>1. LoopStep(d) /\ ~Spoil(d) /\ ((Read(d) \/ Take(d)) => stream # 0)
  BY NothingSpoils DEF LoopWorks
<1>2. UNCHANGED <<ui, asked, refused>> /\ \A e \in Dials \ {d} : loop'[e] = loop[e]
  BY <1>1, ReadEffect, TakeEffect, CallEffect, EofEffect, EndEffect, DropEffect
     DEF LoopStep, LoopWorks, appVars, pastVars
<1>3. CASE ~Call(d) /\ ~Take(d)
  <2>1. UNCHANGED <<screens, entered>>
    BY <1>1, <1>3, ReadEffect, EofEffect, EndEffect, DropEffect DEF LoopStep, LoopWorks, appVars
  <2>2. \A e \in Dials : Line(e)' \subseteq Line(e) \cup {NoCall}
    BY <1>1, <1>3, LineAtLoop
  <2>3. loop'[d].msg = loop[d].msg /\ net'[d].down = net[d].down /\ net'[d].up = net[d].up
    BY <1>1, <1>3, LineAtLoop
  <2>4. \A e \in Dials \ {d} : net'[e].down = net[e].down /\ net'[e].up = net[e].up
    BY <1>1, <1>3, ReadEffect, EofEffect, EndEffect, DropEffect, DropStreamTypes DEF LoopStep, LoopWorks, netVars
  <2>5. \A e \in Dials : Lonely(e) => Lonely(e)'
    BY <1>2, <2>3, <2>4, LonelyStays
  <2> QED
    BY <1>2, <2>1, <2>2, <2>5, GreetedStays
<1>4. CASE Take(d)
  <2>1. UNCHANGED <<screens, entered>> /\ \A e \in Dials \ {d} : net'[e] = net[e]
    BY <1>1, <1>4, LineAtLoop, TakeEffect DEF appVars, Others
  <2>2. /\ net[d].down # <<>> /\ net'[d].down = Tail(net[d].down) /\ net'[d].up = net[d].up
        /\ \A e \in Dials : Line(e)' \subseteq Line(e) \cup {NoCall}
    BY <1>1, <1>4, LineAtLoop, CallEffect, TakeEffect DEF LoopWorks
  <2>3. Lonely(d) => Lonely(d)'
    <3> SUFFICES ASSUME Lonely(d) PROVE Lonely(d)'
      OBVIOUS
    <3>1. Len(net[d].down) = 1 /\ net[d].up = <<>>
      BY <2>2 DEF Lonely
    <3>2. net[d].down \in Seq(Messages)
      BY NetBooleans
    <3>3. net'[d].down = <<>> /\ net'[d].up = <<>>
      BY <2>2, <3>1, <3>2, OneIs
    <3> QED
      BY <3>3 DEF Lonely
  <2>4. \A e \in Dials : Lonely(e) => Lonely(e)'
    BY <1>2, <2>1, <2>3 DEF Lonely
  <2> QED
    BY <1>2, <2>1, <2>2, <2>4, GreetedStays
<1>5. CASE Call(d)
  <2> DEFINE m == loop[d].msg
  <2>1. loop[d].at = "call" /\ m \in Messages /\ m # NoCall /\ net' = net /\ loop'[d].msg = NoCall
    BY <1>1, <1>5, CallEffect, LineAtLoop, NamesDiffer
  <2>2. ui.call # Hello
    <3>1. m \in Line(d)
      BY DEF Line
    <3> QED
      BY <2>1, <3>1 DEF Greeted
  <2>3. \A e \in Dials \ {d} : Line(e)' = {NoCall}
    <3>1. \A e \in Dials \ {d} : ~Live(e)
      BY <2>1, LiveIs DEF Live
    <3>2. \A e \in Dials \ {d} : Line(e) = {NoCall}
      BY <3>1, LineOfOthers DEF Live
    <3> QED
      BY <1>1, <1>5, <3>2, LineAtLoop
  <2>4. Line(d)' \cap Greetings = {}
    <3>1. CASE Line(d) \cap Greetings = {}
      <4>1. Line(d)' \subseteq Line(d) \cup {NoCall} /\ NoCall \notin Greetings
        BY <1>1, <1>5, LineAtLoop, MarksDiffer DEF Greetings
      <4> QED
        BY <3>1, <4>1
    <3>2. CASE Line(d) \cap Greetings # {}
      <4>1. net[d].down = <<>> /\ net[d].up = <<>>
        BY <2>1, <3>2 DEF Greeted, Lonely
      <4>2. Line(d)' = {NoCall} /\ NoCall \notin Greetings
        BY <2>1, <4>1, SetOfNone, MarksDiffer DEF Line, Greetings
      <4> QED
        BY <4>2
    <3> QED
      BY <3>1, <3>2
  <2>5. \A e \in Dials : Line(e)' \cap Greetings = {} /\ (Refusal \in Line(e)' => refused' # {})
    <3>1. NoCall \notin Greetings /\ NoCall # Refusal
      BY MarksDiffer DEF Greetings
    <3>2. Refusal \in Line(d)' => Refusal \in Line(d)
      BY <1>1, <1>5, <3>1, LineAtLoop
    <3> QED
      BY <1>2, <2>3, <2>4, <3>1, <3>2 DEF Greeted
  <2> QED
    BY <1>2, <2>2, <2>5, GreetedAfter DEF Greeted
<1> QED
  BY <1>3, <1>4, <1>5

LEMMA OneTapUi ==
  ASSUME Fits, OneTap,
         Dial \/ AddOnMessageListener \/ Send \/ Check \/ (Put /\ stream # 0)
           \/ (WaitEnds /\ ~Dies("null")) \/ (Leave /\ ~left)
           \/ \E c \in Calls \cup Logouts : Ask(c) /\ ~left
  PROVE  OneTap'
<1>1. CASE Leave /\ ~left
  <2>1. screens' = screens - 1 /\ refused' = refused /\ screens \in 0..2
    BY <1>1, LeaveEffect DEF Fits, AppFits
  <2> QED
    BY <2>1 DEF OneTap
<1>2. CASE ~(Leave /\ ~left)
  <2>1. screens' = screens /\ refused' = refused
    BY <1>2 DEF Dial, AddOnMessageListener, Send, Check, Put, WaitEnds, Ask, appVars, pastVars
  <2> QED
    BY <2>1 DEF OneTap
<1> QED
  BY <1>1, <1>2

LEMMA OneTapRest ==
  ASSUME Fits, Connected, Greeted, OneTap, NEW d \in Dials, NetStep(d) \/ LoopWorks(d)
  PROVE  OneTap'
<1>1. CASE NetStep(d)
  <2>1. screens' = screens /\ refused \subseteq refused'
    BY <1>1, NetStepEffect
  <2> QED
    BY <2>1 DEF OneTap
<1>2. CASE LoopWorks(d) /\ ~Call(d)
  <2>1. screens' = screens /\ refused' = refused
    BY <1>2, NothingSpoils, ReadEffect, TakeEffect, EofEffect, EndEffect, DropEffect
       DEF LoopStep, LoopWorks, appVars, pastVars
  <2> QED
    BY <2>1 DEF OneTap
<1>3. CASE Call(d)
  <2> DEFINE m == loop[d].msg
  <2>1. /\ refused' = refused /\ screens \in 0..2 /\ m \in Line(d)
        /\ screens' = IF m \in {Hello, Closed, Refusal} /\ screens < 2 THEN screens + 1 ELSE screens
    BY <1>3, CallEffect DEF Fits, AppFits, Line
  <2>2. CASE m \in {Hello, Closed}
    <3>1. screens = 0
      BY <2>1, <2>2 DEF Greeted, Greetings
    <3> QED
      BY <2>1, <3>1 DEF OneTap
  <2>3. CASE m = Refusal
    BY <2>1, <2>3 DEF Greeted, OneTap
  <2>4. CASE m \notin {Hello, Closed, Refusal}
    BY <2>1, <2>4 DEF OneTap
  <2> QED
    BY <2>2, <2>3, <2>4
<1> QED
  BY <1>1, <1>2, <1>3

-----------------------------------------------------------------------------
(* The latest bank is on its way. *)

Comes(c) ==
  \/ Sending /\ ui.call = c
  \/ c \in refused
  \/ listeners.bank = c /\ (shown[c] = c \/ \E d \in Dials : c \in Line(d))

LEMMA BankStays ==
  ASSUME BankComes, asked' = asked, failed => failed', left => left',
         \A c \in Banks : ~failed' /\ ~left' /\ LastOf(asked, c) /\ Comes(c) => Comes(c)'
  PROVE  BankComes'
<1>1. \A c \in Banks : ~failed' /\ ~left' /\ LastOf(asked, c) => Comes(c)'
  BY DEF BankComes, Comes
<1> QED
  BY <1>1 DEF BankComes, Comes

LEMMA LastAppended ==
  ASSUME NEW S, NEW q \in Seq(S), NEW x \in S, NEW c, LastOf(Append(q, x), c)
  PROVE  c = x \/ (x \notin Banks /\ LastOf(q, c))
<1> DEFINE a == Append(q, x)
<1>1. /\ DOMAIN a = 1..(Len(q) + 1) /\ DOMAIN q = 1..Len(q) /\ Len(q) \in Nat
      /\ a[Len(q) + 1] = x /\ \A i \in DOMAIN q : a[i] = q[i]
  OBVIOUS
<1> HIDE DEF a
<1>2. PICK i \in DOMAIN a : a[i] = c /\ \A j \in DOMAIN a : a[j] \in Banks => j <= i
  BY DEF LastOf, a
<1>3. c \in Banks
  BY DEF LastOf
<1>4. CASE i = Len(q) + 1
  BY <1>1, <1>2, <1>4
<1>5. CASE i # Len(q) + 1
  <2>1. i \in DOMAIN q /\ q[i] = c
    BY <1>1, <1>2, <1>5
  <2>2. \A j \in DOMAIN q : q[j] \in Banks => j <= i
    BY <1>1, <1>2
  <2>3. x \notin Banks
    <3>1. Len(q) + 1 \in DOMAIN a /\ ~(Len(q) + 1 <= i)
      BY <1>1, <2>1
    <3> QED
      BY <1>1, <1>2, <3>1
  <2> QED
    BY <1>3, <2>1, <2>2, <2>3 DEF LastOf
<1> QED
  BY <1>4, <1>5

LEMMA LastIsLast ==
  ASSUME NEW S, NEW q \in Seq(S), Distinct(q), NEW c, LastOf(q, c), NEW b \in Banks
  PROVE  ~Earlier(q, c, b)
<1>1. SUFFICES ASSUME Earlier(q, c, b) PROVE FALSE
  OBVIOUS
<1>2. PICK k \in DOMAIN q : q[k] = c /\ \A j \in DOMAIN q : q[j] \in Banks => j <= k
  BY DEF LastOf
<1>3. PICK i \in DOMAIN q, j \in DOMAIN q : i < j /\ q[i] = c /\ q[j] = b
  BY <1>1 DEF Earlier
<1>4. i = k
  BY <1>2, <1>3 DEF Distinct
<1> QED
  BY <1>2, <1>3, <1>4

LEMMA BankAtUi ==
  ASSUME Fits, Connected, Serves, InOrder, Registered, BankComes,
         Dial \/ AddOnMessageListener \/ Send \/ Check \/ (Put /\ stream # 0)
           \/ (WaitEnds /\ ~Dies("null")) \/ (Leave /\ ~left)
           \/ \E c \in Calls \cup Logouts : Ask(c) /\ ~left
  PROVE  BankComes'
<1>1. CASE Dial \/ (Send /\ stream = 0)
  <2>1. PICK next \in {"send", "check"} : Connect(next) /\ ui.at \in {"connect", "send"}
    BY <1>1 DEF Dial, Send
  <2>2. /\ UNCHANGED <<asked, left, refused, listeners>> /\ ui'.call = ui.call /\ ui'.at \in {"send", "check"}
        /\ ui.at = "connect" \/ Sending
        /\ UNCHANGED <<shown, failed>> \/ failed'
    BY <1>1, <2>1, ConnectEffect DEF Dial, Send, Sending
  <2>3. \A d \in Dials : Line(d)' = Line(d)
    BY <1>1, LineAtDial
  <2>4. ASSUME NEW c \in Banks, ~failed', Comes(c) PROVE Comes(c)'
    <3>1. ui.call = c => Sending'
      BY <2>2 DEF Sending
    <3> QED
      BY <2>2, <2>3, <2>4, <3>1 DEF Comes
  <2> QED
    BY <2>2, <2>4, BankStays
<1>2. CASE (Send /\ stream # 0) \/ Check
  <2>1. /\ UNCHANGED <<loop, net, asked, left, failed, refused, listeners, shown>>
        /\ ui.at \in {"send", "check"} /\ (Check => ui.at = "check") /\ ui.at # "connect"
    BY <1>2 DEF Send, Check, netVars, appVars, pastVars
  <2>2. ~failed /\ ~left => stream # 0
    BY <2>1 DEF Serves
  <2>3. ~failed /\ ~left => ui'.at \in {"check", "put"} /\ ui'.call = ui.call
    BY <1>2, <2>2, FitsSend, FitsCheck
  <2>4. \A d \in Dials : Line(d)' = Line(d)
    BY <2>1 DEF Line
  <2>5. ASSUME NEW c \in Banks, ~failed', ~left', Comes(c) PROVE Comes(c)'
    <3>1. Sending' /\ ui'.call = ui.call
      BY <2>1, <2>3, <2>5 DEF Sending
    <3> QED
      BY <2>1, <2>4, <2>5, <3>1 DEF Comes
  <2> QED
    BY <2>1, <2>5, BankStays
<1>3. CASE AddOnMessageListener
  <2>1. /\ ui.at = "register" /\ ui'.at = "send" /\ ui'.call = ui.call /\ ui.call \in Calls
        /\ listeners'.bank = IF ui.call \in Songs THEN listeners.bank ELSE ui.call
        /\ UNCHANGED <<loop, net, asked, left, failed, refused, shown>>
    BY <1>3, AddEffect DEF netVars
  <2>2. \A d \in Dials : Line(d)' = Line(d)
    BY <2>1 DEF Line
  <2>3. Sending /\ Sending'
    BY <2>1 DEF Sending
  <2>4. ASSUME NEW c \in Banks, LastOf(asked, c), Comes(c) PROVE Comes(c)'
    <3>1. CASE ui.call = c \/ c \in refused \/ ui.call \in Songs
      BY <2>1, <2>2, <2>3, <2>4, <3>1 DEF Comes
    <3>2. CASE ui.call # c /\ c \notin refused /\ ui.call \notin Songs
      <4>1. ui.call \in Banks /\ c \in Calls
        BY <2>1, <3>2 DEF Calls
      <4>2. shown[c] = c \/ \E d \in Dials : c \in Line(d)
        BY <2>4, <3>2 DEF Comes
      <4>3. Earlier(asked, c, ui.call)
        BY <2>1, <2>3, <4>1, <4>2 DEF InOrder, Precede, Shown
      <4>4. asked \in Seq(Calls \cup Logouts) /\ Distinct(asked)
        BY DEF Fits, PastFits, InOrder
      <4> QED
        BY <2>4, <4>1, <4>3, <4>4, LastIsLast
    <3> QED
      BY <3>1, <3>2
  <2> QED
    BY <2>1, <2>4, BankStays
<1>4. CASE Put /\ stream # 0
  <2>1. /\ ui.at = "put" /\ UNCHANGED <<loop, asked, left, failed, refused, listeners, shown, stream>>
        /\ stream \in Dials
    BY <1>4, PutEffect DEF appVars, pastVars
  <2>2. \A d \in Dials : Line(d) \subseteq Line(d)'
    BY <1>4, LineAtPut
  <2>3. ASSUME NEW c \in Banks, ~failed', ~left', Comes(c) PROVE Comes(c)'
    <3>1. CASE ui.call = c
      <4>1. listeners.bank = c
        BY <2>1, <3>1 DEF Registered
      <4>2. ~net[stream].over
        BY <2>1, <2>3 DEF Serves
      <4>3. ui.call \in Line(stream)'
        BY <1>4, <2>1, <4>2, LineAtPut
      <4>4. \E d \in Dials : c \in Line(d)'
        <5>1. PICK e \in Dials : e = stream
          BY <2>1
        <5>2. Line(e)' = {loop'[e].msg} \cup ToSet(net'[e].down) \cup ToSet(net'[e].up)
          BY DEF Line
        <5>3. Line(stream)' = {loop'[stream'].msg} \cup ToSet(net'[stream'].down) \cup ToSet(net'[stream'].up)
          BY DEF Line
        <5> QED
          BY <2>1, <3>1, <4>3, <5>1, <5>2, <5>3
      <4> QED
        BY <2>1, <4>1, <4>4 DEF Comes
    <3>2. CASE ui.call # c
      BY <2>1, <2>2, <2>3, <3>2 DEF Comes
    <3> QED
      BY <3>1, <3>2
  <2> QED
    BY <2>1, <2>3, BankStays
<1>5. CASE WaitEnds /\ ~Dies("null")
  <2>1. ui.at = "wait" /\ UNCHANGED <<loop, net, asked, left, failed, refused, listeners, shown>>
    BY <1>5, FitsWaitEnds DEF netVars, appVars, pastVars
  <2>2. \A d \in Dials : Line(d)' = Line(d)
    BY <2>1 DEF Line
  <2>3. \A c \in Banks : Comes(c) => Comes(c)'
    BY <2>1, <2>2 DEF Comes, Sending
  <2> QED
    BY <2>1, <2>3, BankStays
<1>6. CASE Leave /\ ~left
  BY <1>6, LeaveEffect DEF BankComes
<1>7. ASSUME NEW x \in Calls \cup Logouts, Ask(x), ~left
      PROVE  BankComes'
  <2>1. /\ ui.at = "idle" /\ ui'.call = x /\ ui'.at = IF x \in Calls THEN "register" ELSE "send"
        /\ asked' = Append(asked, x)
        /\ UNCHANGED <<loop, net, left, failed, refused, listeners, shown>>
    BY <1>7, AskEffect DEF netVars, appVars
  <2>2. \A d \in Dials : Line(d)' = Line(d)
    BY <2>1 DEF Line
  <2>3. Sending' /\ ~Sending
    BY <2>1 DEF Sending
  <2>4. ASSUME NEW c \in Banks, LastOf(Append(asked, x), c), ~failed, ~left PROVE Comes(c)'
    <3>1. asked \in Seq(Calls \cup Logouts)
      BY DEF Fits, PastFits
    <3>2. CASE c = x
      BY <2>1, <2>3, <3>2 DEF Comes
    <3>3. CASE LastOf(asked, c)
      <4>1. Comes(c)
        BY <2>4, <3>3 DEF BankComes, Comes
      <4> QED
        BY <2>1, <2>2, <2>3, <4>1 DEF Comes
    <3> QED
      BY <2>4, <3>1, <3>2, <3>3, LastAppended
  <2>5. \A c \in Banks : LastOf(asked', c) /\ ~failed' /\ ~left' => Comes(c)'
    BY <2>1, <2>4
  <2> QED
    BY <2>5 DEF BankComes, Comes
<1> QED
  BY <1>1, <1>2, <1>3, <1>4, <1>5, <1>6, <1>7

LEMMA BankAtNet ==
  ASSUME Fits, Connected, Serves, BankComes, NEW d \in Dials, NetStep(d)
  PROVE  BankComes'
<1>1. /\ UNCHANGED <<ui, loop, stream, listeners, left, shown, asked>>
      /\ failed => failed'
      /\ refused \subseteq refused'
  BY NetStepEffect
<1>2. ASSUME NEW c \in Banks, ~failed', ~left', NEW e \in Dials, c \in Line(e)
      PROVE  c \in Line(e)' \/ c \in refused'
  <2>1. c \in Calls /\ c # NoCall
    BY NamesDiffer DEF Calls
  <2>2. CASE e # d \/ Announce(d) \/ HangUp(d)
    BY <1>2, <2>2, LineAtNet, LineAtServe DEF NetStep
  <2>3. CASE e = d /\ Serve(d)
    BY <1>2, <2>1, <2>3, LineAtServe
  <2>4. CASE e = d /\ Lose(d)
    <3>1. net[d].shut /\ ~net[d].over
      BY <1>2, <2>4, LoseEffect
    <3>2. loop[d].at \in {"read", "blocked", "call"}
      BY <1>2, <2>1, <2>4, LineOfOthers
    <3>3. ui.at # "connect" /\ Live(d)
      BY <3>2, LiveIsDialled DEF Live
    <3>4. stream = d
      BY <1>1, <1>2, <3>3, LiveIs
    <3>5. ~net[d].shut
      BY <1>1, <1>2, <3>3, <3>4 DEF Serves
    <3> QED
      BY <3>1, <3>5
  <2> QED
    BY <2>2, <2>3, <2>4 DEF NetStep
<1>3. ASSUME NEW c \in Banks, ~failed', ~left', Comes(c) PROVE Comes(c)'
  <2>1. CASE (Sending /\ ui.call = c) \/ c \in refused
    BY <1>1, <2>1 DEF Comes, Sending
  <2>2. CASE listeners.bank = c /\ shown[c] = c
    BY <1>1, <2>2 DEF Comes
  <2>3. CASE listeners.bank = c /\ \E e \in Dials : c \in Line(e)
    <3>1. PICK e \in Dials : c \in Line(e)
      BY <2>3
    <3>2. c \in Line(e)' \/ c \in refused'
      BY <1>2, <1>3, <3>1
    <3> QED
      BY <1>1, <2>3, <3>2 DEF Comes
  <2> QED
    BY <1>3, <2>1, <2>2, <2>3 DEF Comes
<1> QED
  BY <1>1, <1>3, BankStays

LEMMA BankAtLoop ==
  ASSUME Fits, Connected, Serves, InOrder, BankComes, NEW d \in Dials, LoopWorks(d)
  PROVE  BankComes'
<1>1. /\ LoopStep(d) /\ ((Read(d) \/ Take(d)) => stream # 0)
  BY DEF LoopWorks
<1>2. CASE Eof(d) \/ End(d) \/ Drop(d)
  <2>1. failed \/ left
    BY <1>2, ServesLoop
  <2>2. failed' = failed /\ left' = left
    BY <1>2, EofEffect, EndEffect, DropEffect DEF appVars, pastVars
  <2> QED
    BY <2>1, <2>2 DEF BankComes
<1>3. CASE Read(d) \/ Take(d)
  <2>1. UNCHANGED <<ui, listeners, left, shown, asked, failed, refused>>
    BY <1>1, <1>3, ReadEffect, TakeEffect DEF appVars, pastVars
  <2>2. ~Call(d)
    BY <1>3 DEF Read, Take, Arrived, Call
  <2>3. \A e \in Dials, c \in Banks : c \in Line(e) => c \in Line(e)'
    BY <1>1, <2>2, LineAtLoop, NamesDiffer DEF Calls
  <2>4. \A c \in Banks : Comes(c) => Comes(c)'
    BY <2>1, <2>3 DEF Comes, Sending
  <2> QED
    BY <2>1, <2>4, BankStays
<1>4. CASE Call(d)
  <2> DEFINE m == loop[d].msg
  <2>1. /\ UNCHANGED <<ui, listeners, left, asked, failed, refused>> /\ m \in Messages
        /\ \A c \in Calls : shown'[c] = IF c = Heard(m) THEN m ELSE shown[c]
    BY <1>4, CallEffect DEF pastVars
  <2>2. \A e \in Dials : \A c \in Line(e) : c # m => c \in Line(e)'
    BY <1>1, <1>4, LineAtLoop
  <2>3. m \in Line(d) /\ Banks \subseteq Calls
    BY DEF Line, Calls
  <2> HIDE DEF m
  <2>4. ASSUME NEW c \in Banks, LastOf(asked, c), listeners.bank = c,
               shown[c] = c \/ \E e \in Dials : c \in Line(e)
        PROVE  shown'[c] = c \/ \E e \in Dials : c \in Line(e)'
    <3>1. CASE m = c
      <4>1. Heard(m) = c
        BY <2>4, <3>1 DEF Heard
      <4> QED
        BY <2>1, <2>3, <3>1, <4>1
    <3>2. CASE m # c /\ \E e \in Dials : c \in Line(e)
      BY <2>2, <3>2
    <3>3. CASE m # c /\ shown[c] = c /\ m \in Banks
      <4>1. Earlier(asked, c, m)
        BY <2>3, <3>3, LineIsOrdered DEF Precede, Shown
      <4>2. asked \in Seq(Calls \cup Logouts) /\ Distinct(asked)
        BY DEF Fits, PastFits, InOrder
      <4> QED
        BY <2>4, <3>3, <4>1, <4>2, LastIsLast
    <3>4. CASE m # c /\ shown[c] = c /\ m \notin Banks
      <4>1. Heard(m) \in Songs \cup {NoCall}
        BY <3>4 DEF Heard, Fits, AppFits, Listeners
      <4>2. c # Heard(m)
        BY <2>3, <4>1, NamesDiffer
      <4> QED
        BY <2>1, <2>3, <3>4, <4>2
    <3> QED
      BY <2>4, <3>1, <3>2, <3>3, <3>4
  <2>5. ASSUME NEW c \in Banks, LastOf(asked, c), Comes(c) PROVE Comes(c)'
    BY <2>1, <2>4, <2>5 DEF Comes, Sending
  <2> QED
    BY <2>1, <2>5, BankStays
<1> QED
  BY <1>1, <1>2, <1>3, <1>4, NothingSpoils DEF LoopStep

-----------------------------------------------------------------------------
(* The invariant as a whole. *)

(* What the invariant says of the time before Main's handler dials again   *)
(* does not look at the death of the app.                                  *)
LEMMA EarlyStays ==
  ASSUME Fits, Early, UNCHANGED <<ui, loop, netVars, appVars, pastVars>>
  PROVE  Early'
<1>1. UNCHANGED <<ui, loop, net, stream, dials, listeners, posted, screens, entered, left, shown,
                  asked, refused, stale, moved, failed, late, hasty>>
  BY DEF netVars, appVars, pastVars
<1>2. Connected'
  BY <1>1 DEF Early, Connected, Live
<1>3. Unopened'
  BY <1>1 DEF Early, Unopened
<1>4. Shown' = Shown /\ (Sending' <=> Sending) /\ \A d \in Dials : Line(d)' = Line(d)
  BY <1>1 DEF Shown, Sending, Line
<1>5. InOrder'
  BY <1>1, <1>4 DEF Early, InOrder
<1>6. Registered'
  BY <1>1, <1>4 DEF Early, Registered
<1>7. Greeted'
  <2>1. \A d \in Dials : Lonely(d)' <=> Lonely(d)
    BY <1>1 DEF Lonely
  <2> QED
    BY <1>1, <1>4, <2>1 DEF Early, Greeted
<1>8. Serves' /\ Rests'
  BY <1>1 DEF Early, Serves, Rests
<1>9. EndIsHeard'
  BY <1>1, <1>4 DEF Early, EndIsHeard
<1>10. BankComes'
  BY <1>1, <1>4 DEF Early, BankComes
<1>11. ~stale' /\ SongsOwn' /\ OneTap'
  BY <1>1 DEF Early, SongsOwn, OneTap
<1> QED
  BY <1>2, <1>3, <1>5, <1>6, <1>7, <1>8, <1>9, <1>10, <1>11 DEF Early

LEMMA EarlyUi ==
  ASSUME Fits, Early,  crash = "none",
         Dial \/ AddOnMessageListener \/ Send \/ Check \/ (Put /\ stream # 0)
           \/ (WaitEnds /\ ~Dies("null")) \/ (Leave /\ ~left)
           \/ \E c \in Calls \cup Logouts : Ask(c) /\ ~left
  PROVE  Early'
<1> USE DEF Early
<1>1. Next
  BY DEF Next, UiStep
<1>2. Connected'
  <2>1. CASE Dial \/ (Send /\ stream = 0)
    BY <2>1, ConnectedDial
  <2>2. CASE Put /\ stream # 0
    BY <2>2, ConnectedPut
  <2>3. CASE Leave /\ ~left
    BY <2>3, ConnectedLeave
  <2>4. CASE AddOnMessageListener \/ (Send /\ stream # 0) \/ Check \/ (WaitEnds /\ ~Dies("null"))
    <3>1. ui.at # "idle" /\ UNCHANGED <<loop, netVars, left>>
      BY <2>4 DEF AddOnMessageListener, Send, Check, WaitEnds, appVars
    <3>2. ui'.at # "connect"
      <4>1. CASE AddOnMessageListener
        BY <4>1, AddEffect
      <4>2. CASE Send /\ stream # 0
        BY <4>2, FitsSend
      <4>3. CASE Check
        BY <4>3, FitsCheck
      <4>4. CASE WaitEnds /\ ~Dies("null")
        BY <4>4, FitsWaitEnds
      <4> QED
        BY <2>4, <4>1, <4>2, <4>3, <4>4
    <3> QED
      BY <3>1, <3>2, ConnectedUi
  <2>5. ASSUME NEW c \in Calls \cup Logouts, Ask(c), ~left PROVE Connected'
    BY <2>5, AskEffect, ConnectedUi DEF appVars
  <2> QED
    BY <2>1, <2>2, <2>3, <2>4, <2>5
<1>3. InOrder'
  BY InOrderUi, InOrderPut, InOrderAsk
<1>4. Registered'
  BY RegisteredUi, RegisteredPut
<1>5. Unopened' /\ Serves' /\ Rests' /\ EndIsHeard'
  BY <1>1, UnopenedNext, ServesUi, RestsUi, EndIsHeardUi
<1>6. Greeted' /\ OneTap'
  BY GreetedUi, OneTapUi
<1>7. BankComes' /\ SongsOwn'
  BY <1>1, BankAtUi, SongsNext
<1>8. stale' = stale
  BY DEF Dial, AddOnMessageListener, Send, Check, Put, WaitEnds, Leave, Ask, pastVars
<1> QED
  BY <1>2, <1>3, <1>4, <1>5, <1>6, <1>7, <1>8

LEMMA EarlyNet ==
  ASSUME Fits, Early, NEW d \in Dials, NetStep(d), crash = "none"
  PROVE  Early'
<1> USE DEF Early
<1>1. Next /\ (Serve(d) \/ Announce(d) \/ HangUp(d) \/ Lose(d))
  BY DEF Next, NetStep
<1>2. Connected' /\ InOrder' /\ Registered'
  BY <1>1, ConnectedNet, InOrderNet, RegisteredRest
<1>3. Unopened' /\ Serves' /\ Rests' /\ EndIsHeard' /\ Greeted'
  BY <1>1, UnopenedNext, ServesNet, RestsNet, EndIsHeardRest, GreetedNet
<1>4. OneTap' /\ BankComes' /\ SongsOwn' /\ stale' = stale
  BY <1>1, OneTapRest, BankAtNet, SongsNext, NetStepEffect
<1> QED
  BY <1>2, <1>3, <1>4

LEMMA EarlyLoop ==
  ASSUME Fits, Early, NEW d \in Dials, LoopWorks(d), crash = "none"
  PROVE  Early'
<1> USE DEF Early
<1>1. Next /\ LoopStep(d) /\ (Read(d) \/ Take(d) => stream # 0)
  BY DEF Next, LoopWorks
<1>2. Connected' /\ InOrder' /\ Registered'
  BY <1>1, ConnectedLoop, InOrderLoop, RegisteredRest
<1>3. Unopened' /\ Serves' /\ Rests' /\ EndIsHeard' /\ Greeted'
  BY <1>1, UnopenedNext, ServesLoop, RestsLoop, EndIsHeardRest, GreetedLoop
<1>4. OneTap' /\ BankComes' /\ SongsOwn'
  BY <1>1, OneTapRest, BankAtLoop, SongsNext
<1>5. ~stale'
  <2>1. CASE Call(d)
    BY <2>1, NothingIsStale
  <2>2. CASE ~Call(d)
    BY <1>1, <2>2 DEF LoopStep, Read, Take, Spoil, Eof, End, Drop, pastVars
  <2> QED
    BY <2>1, <2>2
<1> QED
  BY <1>2, <1>3, <1>4, <1>5

LEMMA EarlyNext ==
  ASSUME Fits, Early, Next, ~moved'
  PROVE  Early'
<1>1. crash = "none"
  BY DEF Next
<1>2. ASSUME NEW how, Dies(how) PROVE Early'
  BY <1>2, EarlyStays DEF Dies
<1>3. CASE Handle
  <2>1. left
    BY <1>3, FitsHandle
  <2> QED
    BY <1>2, <1>3, <2>1 DEF Handle
<1>4. CASE Dial \/ AddOnMessageListener \/ Send \/ Check
  BY <1>1, <1>4, EarlyUi
<1>5. CASE Put \/ WaitEnds \/ Leave
  <2>1. CASE Put /\ stream = 0
    BY <1>2, <2>1 DEF Put
  <2>2. CASE WaitEnds /\ Dies("null")
    BY <1>2, <2>2
  <2>3. CASE Leave /\ left
    BY <1>2, <2>3 DEF Leave
  <2> QED
    BY <1>1, <1>5, <2>1, <2>2, <2>3, EarlyUi
<1>6. CASE MapFault
  BY <1>2, <1>6 DEF MapFault
<1>7. ASSUME NEW c \in Calls \cup Logouts, Ask(c) PROVE Early'
  <2>1. CASE left
    BY <1>2, <1>7, <2>1 DEF Ask
  <2>2. CASE ~left
    BY <1>1, <1>7, <2>2, EarlyUi
  <2> QED
    BY <2>1, <2>2
<1>8. ASSUME NEW d \in Dials, Serve(d) \/ Announce(d) \/ HangUp(d) \/ Lose(d) PROVE Early'
  BY <1>1, <1>8, EarlyNet DEF NetStep
<1>9. ASSUME NEW d \in Dials, LoopStep(d) PROVE Early'
  <2>1. CASE (Read(d) \/ Take(d)) /\ stream = 0
    BY <1>2, <2>1 DEF Read, Take
  <2>2. CASE Read(d) \/ Take(d) => stream # 0
    BY <1>1, <1>9, <2>2, EarlyLoop DEF LoopWorks
  <2> QED
    BY <2>1, <2>2
<1> QED
  BY <1>3, <1>4, <1>5, <1>6, <1>7, <1>8, <1>9 DEF Next, UiStep

(* The screen that has just been tapped. *)
LEMMA InitEarly == Init => Early
<1> SUFFICES ASSUME Init PROVE Early
  OBVIOUS
<1>1. /\ ui.at = "connect" /\ ui.call = Hello /\ stream = 0 /\ dials = 0
      /\ ~left /\ ~entered /\ ~stale /\ screens = 0 /\ asked = <<>> /\ refused = {}
      /\ \A c \in Calls : shown[c] = NoCall
  BY DEF Init
<1>2. ASSUME NEW d \in Dials
      PROVE  /\ loop[d].at = "off" /\ loop[d].msg = NoCall
             /\ net[d].up = <<>> /\ net[d].down = <<>> /\ ~net[d].shut /\ ~net[d].over
  BY <1>2 DEF Init
<1>3. \A d \in Dials : Line(d) = {NoCall}
  BY <1>2, SetOfNone DEF Line
<1>4. Shown \subseteq {NoCall}
  BY <1>1 DEF Shown
<1>5. /\ NoCall \notin Calls /\ NoCall \notin Greetings /\ NoCall # Refusal /\ NoCall # Empty
      /\ Hello \notin Calls \cup Logouts
  BY NamesDiffer, MarksDiffer DEF Greetings
<1>6. Connected /\ Unopened
  BY <1>1, <1>2 DEF Connected, Unopened, Live
<1>7. InOrder
  <2>1. Distinct(asked)
    BY <1>1 DEF Distinct
  <2>2. \A d \in Dials : Ordered(asked, Shown, loop[d].msg, net[d].down, net[d].up)
    BY <1>2, NothingIsOrdered
  <2> QED
    BY <1>1, <1>4, <1>5, <2>1, <2>2 DEF InOrder
<1>8. Registered
  BY <1>1, <1>3, <1>5 DEF Registered, Calls
<1>9. Greeted
  <2>1. \A d \in Dials : Line(d) \cap Greetings = {} /\ Refusal \notin Line(d)
    BY <1>3, <1>5
  <2> QED
    BY <1>1, <1>3, <1>5, <2>1 DEF Greeted
<1>10. Serves /\ Rests /\ EndIsHeard
  BY <1>1, <1>4, <1>5 DEF Serves, Rests, EndIsHeard
<1>11. BankComes
  <2>1. \A c : ~LastOf(asked, c)
    BY <1>1 DEF LastOf
  <2> QED
    BY <2>1 DEF BankComes
<1>12. SongsOwn /\ OneTap
  BY <1>1 DEF SongsOwn, OneTap, Calls
<1> QED
  BY <1>1, <1>6, <1>7, <1>8, <1>9, <1>10, <1>11, <1>12 DEF Early

LEMMA IInvInit == Init => IInv
<1> SUFFICES ASSUME Init PROVE IInv
  OBVIOUS
<1>1. crash = "none"
  BY DEF Init
<1> QED
  BY <1>1, InitFits, PostsInit, InitEarly DEF IInv, DiesOfFailureOnly

LEMMA IInvNext == IInv /\ [Next]_vars => IInv'
<1> SUFFICES ASSUME IInv, [Next]_vars PROVE IInv'
  OBVIOUS
<1> USE DEF IInv
<1>1. Fits' /\ Posts'
  BY PostsNext
<1>2. CASE UNCHANGED vars
  <2>1. UNCHANGED <<ui, loop, netVars, appVars, pastVars>> /\ UNCHANGED <<crash, moved, failed, hasty>>
    BY <1>2 DEF vars, pastVars
  <2>2. Early => Early'
    BY <2>1, EarlyStays
  <2>3. DiesOfFailureOnly'
    BY <2>1 DEF DiesOfFailureOnly
  <2> QED
    BY <1>1, <2>1, <2>2, <2>3
<1>3. CASE Next
  <2>1. moved => moved'
    BY <1>3 DEF Next, UiStep, Dial, Handle, AddOnMessageListener, Send, Check, Put, WaitEnds, Leave, MapFault,
                Ask, Serve, Announce, HangUp, Lose, LoopStep, Read, Take, Spoil, Call, Eof, End, Drop, Dies, pastVars
  <2>2. ~moved' => Early'
    BY <1>3, <2>1, EarlyNext
  <2>3. DiesOfFailureOnly'
    BY <1>3, DiesNext
  <2> QED
    BY <1>1, <2>2, <2>3
<1> QED
  BY <1>2, <1>3

-----------------------------------------------------------------------------
(* What follows from it. *)

LEMMA OneLoopReads == ASSUME Fits, Connected PROVE OneReader
<1> DEFINE L == {d \in Dials : Live(d)}
<1>1. Cardinality(L) <= 1
  <2>1. CASE L = {}
    BY <2>1, FS_EmptySet
  <2>2. CASE L # {}
    <3>1. PICK d \in Dials : Live(d)
      BY <2>2
    <3>2. L = {d}
      BY <3>1 DEF Connected
    <3>3. Cardinality({d}) = 1
      BY FS_Singleton
    <3> QED
      BY <3>2, <3>3
  <2> QED
    BY <2>1, <2>2
<1>2. ASSUME NEW d \in Dials, loop[d].at \in {"blocked", "call"}
      PROVE  loop[d].on = d /\ stream \in {d, 0}
  BY <1>2, LiveIs DEF Live
<1> QED
  BY <1>1, <1>2 DEF OneReader

(* Each stream posts for its end at most, beside the notice and the screen *)
(* that was left.                                                          *)
LEMMA PostsAreFew == ASSUME Fits, Posts PROVE posted <= 2 * MaxDials + 1
  BY PostsBound

(* A nonempty set of positions has a last one. *)
LEMMA LastPosition ==
  ASSUME NEW n \in Nat, NEW I, I \subseteq 1..n, I # {}
  PROVE  \E i \in I : \A j \in I : j <= i
<1> DEFINE D == {n - i : i \in I}
<1>1. D # {} /\ D \subseteq Nat
  OBVIOUS
<1>2. PICK m \in D : \A k \in D : m <= k
  <2>1. IsWellFoundedOn(OpToRel(<, Nat), Nat)
    BY NatLessThanWellFounded
  <2>2. PICK m \in D : \A k \in Nat : <<k, m>> \in OpToRel(<, Nat) => k \notin D
    BY <1>1, <2>1, WFMin
  <2>3. \A k \in D : ~(k < m)
    BY <1>1, <2>2 DEF OpToRel
  <2> QED
    BY <1>1, <2>3
<1>3. PICK i \in I : m = n - i
  OBVIOUS
<1>4. \A j \in I : j <= i
  <2>1. \A j \in I : n - j \in D
    OBVIOUS
  <2>2. \A j \in I : j \in Int /\ i \in Int
    OBVIOUS
  <2>3. \A j \in I : m <= n - j
    BY <1>2, <2>1
  <2> QED
    BY <1>3, <2>2, <2>3
<1> QED
  BY <1>4

LEMMA BankIsShown == ASSUME Fits, ~moved => Early PROVE LatestBankShown
<1> DEFINE banks == {i \in DOMAIN asked : asked[i] \in Banks}
           LatestAt(i) == \A j \in banks : j <= i
           c == asked[CHOOSE i \in banks : LatestAt(i)]
<1> SUFFICES ASSUME ui.at = "idle", ~UnderWay, banks # {}, ~moved, ~failed, ~left, c \notin refused
             PROVE  shown[c] = c
  BY DEF LatestBankShown
<1>1. asked \in Seq(Calls \cup Logouts)
  BY DEF Fits, PastFits
<1>2. \E i \in banks : LatestAt(i)
  <2>1. Len(asked) \in Nat /\ banks \subseteq 1..Len(asked)
    BY <1>1
  <2> HIDE DEF banks
  <2> QED
    BY <2>1, LastPosition
<1>3. LastOf(asked, c)
  <2>1. PICK i : i = CHOOSE k \in banks : LatestAt(k)
    OBVIOUS
  <2>2. i \in banks /\ LatestAt(i)
    BY <1>2, <2>1
  <2>3. c = asked[i]
    BY <2>1
  <2> HIDE DEF c
  <2> QED
    BY <2>2, <2>3 DEF LastOf
<1> HIDE DEF c
<1>4. c \in Banks
  BY <1>3 DEF LastOf
<1>5. ~Sending
  BY DEF Sending
<1>6. shown[c] = c \/ \E d \in Dials : c \in Line(d)
  BY <1>3, <1>4, <1>5 DEF Early, BankComes
<1>7. \A d \in Dials : c \notin Line(d)
  <2> SUFFICES ASSUME NEW d \in Dials, c \in Line(d) PROVE FALSE
    OBVIOUS
  <2>1. c # NoCall
    BY <1>4, NamesDiffer DEF Calls
  <2>2. loop[d].at = "call" \/ net[d].down # <<>> \/ net[d].up # <<>>
    BY <2>1, LineParts
  <2> QED
    BY <2>2 DEF UnderWay
<1> QED
  BY <1>6, <1>7

LEMMA IInvMeans == IInv => Inv /\ LatestBankShown
<1> SUFFICES ASSUME IInv PROVE Inv /\ LatestBankShown
  OBVIOUS
<1>1. TypeOK
  BY PostsAreFew, TypesFit DEF IInv
<1>2. OneReader
  <2>1. ~moved => Connected
    BY DEF IInv, Early
  <2> QED
    BY <2>1, OneLoopReads DEF IInv, OneReader
<1>3. AnswersInOrder /\ SongIsOwn /\ OneScreen /\ DiesOfFailureOnly
  BY DEF IInv, Early, AnswersInOrder, SongIsOwn, SongsOwn, OneScreen, OneTap
<1> QED
  BY <1>1, <1>2, <1>3, BankIsShown DEF IInv, Inv

-----------------------------------------------------------------------------
(* Until Main's handler has dialled a second time, one loop reads at most, *)
(* and only the stream that c.stream names; no listener gets an older      *)
(* answer after a newer one; the thread that waits for a song gets that    *)
(* song or nothing; one tap opens one Online screen, refusals aside.  And  *)
(* the app dies of failures, of the handler's second dial, of the race for *)
(* the listeners, or when Online is left in haste.  Whatever the number of *)
(* requests, of dials and of asks (Client.go, Main.java, Online.java).     *)
THEOREM RequestsAreAnswered == Spec => []Inv
<1> QED
  BY IInvInit, IInvNext, IInvMeans, PTL DEF Spec

(* When nothing is under way, the bank asked for last shows its own songs, *)
(* unless the server refused it or the connection failed: the listener of  *)
(* OnlineBank.java is kept by type, and still ends up with its own answer. *)
THEOREM LatestBankIsShown == Spec => []LatestBankShown
<1> QED
  BY IInvInit, IInvNext, IInvMeans, PTL DEF Spec
=============================================================================
