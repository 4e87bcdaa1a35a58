-------------------------- MODULE PropertyUpdates ---------------------------
(***************************************************************************)
(* How the settings of sources reach the voices that play them.  A call    *)
(* fills a container, swaps it into its voice's mUpdate, and the mixer     *)
(* swaps it out at the start of a mix and copies it.  Containers go round  *)
(* by a list, mFreeVoiceProps, from which only a call takes (one at a time *)
(* by mSourceLock) and to which both sides give back with                  *)
(* compare_exchange.                                                       *)
(*                                                                         *)
(* Settings made while updates are deferred are to arrive all in one mix:  *)
(* applyAllUpdates has the mixer hold off (mHoldUpdates), lets an update   *)
(* under way finish (mUpdateCount is odd) and only then supplies them.     *)
(*                                                                         *)
(* A container and a voice keep whose settings they hold and how many had  *)
(* been made of that source, which is all that tells settings apart.  One  *)
(* on the list holds none, one off it has no link: the code leaves both    *)
(* there, and writes them before it reads them.  The atomics are taken as  *)
(* sequentially consistent.                                                *)
(***************************************************************************)
EXTENDS Naturals, Sequences, FiniteSets

CONSTANTS
  Source,
  NVoices,      \* the voices: the mixer takes them in order
  Cluster,      \* containers allocVoiceProps adds (32 in the code)
  MaxSettings,  \* bound on the settings made of each source
  MaxHolds      \* bound on the calls of applyAllUpdates

NoSource == "no source"

ASSUME CountsAssumption == NVoices \in Nat /\ Cluster \in Nat \ {0}
ASSUME SourceAssumption == NoSource \notin Source

VARIABLES
  source,    \* what ALsource keeps of it
  voice,     \* what Voice keeps of it
  update,    \* Voice::mUpdate
  next,      \* the links of the containers
  holds,     \* what the containers hold
  made,      \* the number of containers there are
  free,      \* mFreeVoiceProps
  defer,     \* mDeferUpdates
  hold,      \* mHoldUpdates
  updating,  \* mUpdateCount is odd
  call,      \* the call that holds mSourceLock
  apply,     \* where the call stands that holds mPropLock for all sources
  mixer,     \* where ProcessParamUpdates stands
  batch,     \* the settings the latest applyAllUpdates found, by voice
  holdings   \* the number of times it was called

vars == <<source, voice, update, next, holds, made, free, defer, hold, updating,
          call, apply, mixer, batch, holdings>>

Null == 0
Voices == 1..NVoices
Container == 1..(NVoices + 2 + Cluster)
Nothing == [s |-> NoSource, n |-> 0]
Idle == [pc |-> "idle"]
Settings(s) == [s |-> s, n |-> source[s].n]

Init ==
  /\ source = [s \in Source |-> [n |-> 0, dirty |-> FALSE, vidx |-> Null]]
  /\ voice = [v \in Voices |-> [sid |-> NoSource, step |-> FALSE, props |-> Nothing]]
  /\ update = [v \in Voices |-> Null]
  /\ next = [c \in Container |-> Null]
  /\ holds = [c \in Container |-> Nothing]
  /\ made = 0
  /\ free = Null
  /\ defer = FALSE /\ hold = FALSE /\ updating = FALSE
  /\ call = [pc |-> "idle"]
  /\ apply = "idle"
  /\ mixer = [pc |-> "idle"]
  /\ batch = [v \in Voices |-> Nothing]
  /\ holdings = 0

List == <<next, holds, made, free>>
Batch == <<batch, holdings>>
Flags == <<defer, hold, apply>>

HasVoice(s) == source[s].vidx # Null /\ voice[source[s].vidx].sid = s

-----------------------------------------------------------------------------
(* UpdateSourceProps(source, voice): its steps run for whatever call is at *)
(* pc "supply", which goes on at "then".                                   *)

Supply(s, v, then, at) ==
  [pc |-> "supply", s |-> s, v |-> v, then |-> then, at |-> at, c |-> Null, link |-> Null]
Supplying(pc, c, link) ==
  [pc |-> pc, s |-> call.s, v |-> call.v, then |-> call.then, at |-> call.at,
   c |-> c, link |-> link]
Supplied == Supplying(call.then, Null, Null)

(* The head of the list is loaded, or found to be null.                    *)
SupplyLoad ==
  /\ call.pc = "supply"
  /\ call' = IF free # Null
             THEN Supplying("pop", free, next[free])
             ELSE Supplying("grow", Null, Null)
  /\ UNCHANGED <<source, voice, update, updating, mixer, List, Flags, Batch>>

(* allocVoiceProps: a cluster goes in front of what the mixer may have     *)
(* given back meanwhile.                                                   *)
allocVoiceProps ==
  LET last == made + Cluster
  IN /\ call.pc = "grow"
     /\ last \in Container
     /\ made' = last
     /\ next' = [c \in Container |-> IF c \in (made + 1)..(last - 1) THEN c + 1
                                     ELSE IF c = last THEN free ELSE next[c]]
     /\ free' = made + 1
     /\ call' = Supplying("supply", Null, Null)
     /\ UNCHANGED <<source, voice, update, holds, updating, mixer, Flags, Batch>>

(* compare_exchange; when it fails it has loaded the head anew.            *)
SupplyPop ==
  /\ call.pc = "pop"
  /\ IF free = call.c
     THEN /\ free' = call.link
          /\ next' = [next EXCEPT ![call.c] = Null]
          /\ holds' = [holds EXCEPT ![call.c] = Settings(call.s)]
          /\ call' = Supplying("swap", call.c, Null)
     ELSE /\ call' = Supplying("pop", free, next[free])
          /\ UNCHANGED <<next, free, holds>>
  /\ UNCHANGED <<source, voice, update, made, updating, mixer, Flags, Batch>>

(* Settings that the mixer has not taken go back to the list.              *)
SupplySwap ==
  /\ call.pc = "swap"
  /\ update' = [update EXCEPT ![call.v] = call.c]
  /\ call' = IF update[call.v] # Null
             THEN Supplying("link", update[call.v], Null)
             ELSE Supplied
  /\ UNCHANGED <<source, voice, updating, mixer, List, Flags, Batch>>

SupplyLink ==
  /\ call.pc = "link"
  /\ next' = [next EXCEPT ![call.c] = free]
  /\ call' = Supplying("push", call.c, free)
  /\ UNCHANGED <<source, voice, update, holds, made, free, updating, mixer, Flags, Batch>>

(* A mutant: what the mixer gave back since the link was set is lost.      *)
SupplyPushBlindly ==
  /\ call.pc = "push"
  /\ free' = call.c
  /\ holds' = [holds EXCEPT ![call.c] = Nothing]
  /\ call' = Supplied
  /\ UNCHANGED <<source, voice, update, next, made, updating, mixer, Flags, Batch>>

SupplyPush ==
  /\ call.pc = "push"
  /\ IF free = call.link
     THEN /\ free' = call.c
          /\ holds' = [holds EXCEPT ![call.c] = Nothing]
          /\ call' = Supplied
     ELSE /\ call' = Supplying("link", call.c, Null)
          /\ UNCHANGED <<free, holds>>
  /\ UNCHANGED <<source, voice, update, next, made, updating, mixer, Flags, Batch>>

UpdateSourceProps ==
  SupplyLoad \/ allocVoiceProps \/ SupplyPop \/ SupplySwap \/ SupplyLink \/ SupplyPush

-----------------------------------------------------------------------------
(* The calls.                                                              *)

(* A setter of a source: alSourcef and its like.                           *)
SetSource(s) ==
  /\ call.pc = "idle" /\ apply = "idle"
  /\ source[s].n < MaxSettings
  /\ IF ~defer /\ HasVoice(s)
     THEN /\ source' = [source EXCEPT ![s].n = @ + 1]
          /\ call' = Supply(s, source[s].vidx, "done", 0)
     ELSE /\ source' = [source EXCEPT ![s].n = @ + 1, ![s].dirty = TRUE]
          /\ UNCHANGED call
  /\ UNCHANGED <<voice, update, updating, mixer, List, Flags, Batch>>

(* InitVoice: the voice cannot be mixed (prepare clears mStep) until the   *)
(* mixer has taken the settings supplied here, and has its source last.    *)
InitVoice(s, v) ==
  /\ call.pc = "idle"
  /\ ~HasVoice(s)
  /\ voice[v].sid = NoSource
  /\ voice' = [voice EXCEPT ![v].step = FALSE]
  /\ source' = [source EXCEPT ![s].dirty = FALSE]
  /\ call' = Supply(s, v, "started", 0)
  /\ UNCHANGED <<update, updating, mixer, List, Flags, Batch>>

VoiceStarted ==
  /\ call.pc = "started"
  /\ voice' = [voice EXCEPT ![call.v].sid = call.s]
  /\ source' = [source EXCEPT ![call.s].vidx = call.v]
  /\ call' = Idle
  /\ UNCHANGED <<update, updating, mixer, List, Flags, Batch>>

Done ==
  /\ call.pc = "done"
  /\ call' = Idle
  /\ UNCHANGED <<source, voice, update, updating, mixer, List, Flags, Batch>>

deferUpdates ==
  /\ apply = "idle"
  /\ defer' = TRUE
  /\ UNCHANGED <<source, voice, update, hold, updating, call, apply, mixer, List, Batch>>

(* processUpdates, and a setter of the context that defers nothing, call   *)
(* applyAllUpdates, which holds mPropLock all along.                       *)
HoldUpdates ==
  /\ apply = "idle"
  /\ holdings < MaxHolds
  /\ holdings' = holdings + 1
  /\ defer' = FALSE
  /\ hold' = TRUE
  /\ apply' = "wait"
  /\ UNCHANGED <<source, voice, update, updating, call, mixer, batch, List>>

(* A mutant: the update under way is not waited for.                       *)
AwaitNothing ==
  /\ apply = "wait" /\ call.pc = "idle"
  /\ batch' = [v \in Voices |-> IF \E s \in Source : HasVoice(s) /\ source[s].vidx = v
                                                      /\ source[s].dirty
                                THEN Settings(voice[v].sid) ELSE Nothing]
  /\ apply' = "held"
  /\ call' = [pc |-> "all", at |-> 1]
  /\ UNCHANGED <<source, voice, update, defer, hold, updating, mixer, holdings, List>>

(* The update under way is over, and mSourceLock is free.                  *)
AwaitUpdate ==
  /\ apply = "wait" /\ call.pc = "idle"
  /\ ~updating
  /\ batch' = [v \in Voices |-> IF \E s \in Source : HasVoice(s) /\ source[s].vidx = v
                                                      /\ source[s].dirty
                                THEN Settings(voice[v].sid) ELSE Nothing]
  /\ apply' = "held"
  /\ call' = [pc |-> "all", at |-> 1]
  /\ UNCHANGED <<source, voice, update, defer, hold, updating, mixer, holdings, List>>

(* UpdateAllSourceProps, voice by voice.                                   *)
UpdateAllSourceProps ==
  /\ call.pc = "all"
  /\ IF call.at \notin Voices
     THEN /\ call' = Idle
          /\ apply' = "supplied"
          /\ UNCHANGED source
     ELSE LET v == call.at
              s == voice[v].sid
          IN /\ UNCHANGED apply
             /\ IF s # NoSource /\ source[s].vidx = v /\ source[s].dirty
                THEN /\ source' = [source EXCEPT ![s].dirty = FALSE]
                     /\ call' = Supply(s, v, "all", v + 1)
                ELSE /\ call' = [pc |-> "all", at |-> v + 1]
                     /\ UNCHANGED source
  /\ UNCHANGED <<voice, update, defer, hold, updating, mixer, List, Batch>>

ReleaseUpdates ==
  /\ apply = "supplied"
  /\ hold' = FALSE
  /\ apply' = "idle"
  /\ UNCHANGED <<source, voice, update, defer, updating, call, mixer, List, Batch>>

(* UpdateDeviceParams, while nothing is mixed: every voice gives back what *)
(* it was supplied, the list starts anew, and every source supplies again. *)
UpdateDeviceParams ==
  /\ apply = "idle" /\ call.pc = "idle"
  /\ mixer.pc = "idle"
  /\ update' = [v \in Voices |-> Null]
  /\ voice' = [v \in Voices |-> IF voice[v].sid = NoSource THEN voice[v]
                                ELSE [voice[v] EXCEPT !.step = FALSE]]
  /\ source' = [s \in Source |-> [source[s] EXCEPT !.dirty = TRUE]]
  /\ made' = 0 /\ free' = Null
  /\ next' = [c \in Container |-> Null]
  /\ holds' = [c \in Container |-> Nothing]
  /\ batch' = [v \in Voices |-> Nothing]
  /\ apply' = "reset"
  /\ call' = [pc |-> "all", at |-> 1]
  /\ UNCHANGED <<defer, hold, updating, mixer, holdings>>

Call ==
  \/ \E s \in Source : SetSource(s) \/ \E v \in Voices : InitVoice(s, v)
  \/ deferUpdates \/ HoldUpdates \/ UpdateDeviceParams

CallGoesOn ==
  \/ UpdateSourceProps \/ VoiceStarted \/ Done
  \/ AwaitUpdate \/ UpdateAllSourceProps \/ ReleaseUpdates

-----------------------------------------------------------------------------
(* The mixer.                                                              *)

Others == <<source, call, Flags, holdings>>

Take(v, force) == [pc |-> "take", v |-> v, force |-> force, c |-> Null, link |-> Null]
Taking(pc, c, link) ==
  [pc |-> pc, v |-> mixer.v, force |-> mixer.force, c |-> c, link |-> link]

UpdateBegins ==
  /\ mixer.pc = "idle" /\ apply # "reset"
  /\ updating' = TRUE
  /\ mixer' = [pc |-> "look"]
  /\ UNCHANGED <<voice, update, batch, List, Others>>

(* mHoldUpdates is loaded after the count was raised.  What else the mix   *)
(* found changed may force every voice's parameters to be made anew.       *)
UpdateHeld ==
  /\ mixer.pc = "look"
  /\ \/ hold /\ mixer' = [pc |-> "end"]
     \/ ~hold /\ \E force \in BOOLEAN : mixer' = Take(1, force)
  /\ UNCHANGED <<voice, update, updating, batch, List, Others>>

(* CalcSourceParams: the settings taken, or the last ones if forced.       *)
CalcSourceParams ==
  /\ mixer.pc = "take"
  /\ mixer.v \in Voices
  /\ LET v == mixer.v
         c == update[v]
     IN IF voice[v].sid = NoSource \/ (c = Null /\ ~mixer.force)
        THEN /\ mixer' = Take(v + 1, mixer.force)
             /\ UNCHANGED <<voice, update>>
        ELSE IF c = Null
        THEN /\ voice' = [voice EXCEPT ![v].step = TRUE]
             /\ mixer' = Take(v + 1, mixer.force)
             /\ UNCHANGED update
        ELSE /\ update' = [update EXCEPT ![v] = Null]
             /\ mixer' = Taking("copy", c, Null)
             /\ UNCHANGED voice
  /\ UNCHANGED <<updating, batch, List, Others>>

Copy ==
  /\ mixer.pc = "copy"
  /\ voice' = [voice EXCEPT ![mixer.v].step = TRUE, ![mixer.v].props = holds[mixer.c]]
  /\ mixer' = Taking("link", mixer.c, Null)
  /\ UNCHANGED <<update, updating, batch, List, Others>>

GiveBackLink ==
  /\ mixer.pc = "link"
  /\ next' = [next EXCEPT ![mixer.c] = free]
  /\ mixer' = Taking("push", mixer.c, free)
  /\ UNCHANGED <<voice, update, holds, made, free, updating, batch, Others>>

GiveBackPush ==
  /\ mixer.pc = "push"
  /\ IF free = mixer.link
     THEN /\ free' = mixer.c
          /\ holds' = [holds EXCEPT ![mixer.c] = Nothing]
          /\ mixer' = Take(mixer.v + 1, mixer.force)
     ELSE /\ mixer' = Taking("link", mixer.c, Null)
          /\ UNCHANGED <<free, holds>>
  /\ UNCHANGED <<voice, update, next, made, updating, batch, Others>>

UpdateEnds ==
  /\ \/ mixer.pc = "end"
     \/ mixer.pc = "take" /\ mixer.v \notin Voices
  /\ updating' = FALSE
  /\ mixer' = [pc |-> "mix"]
  /\ UNCHANGED <<voice, update, batch, List, Others>>

(* The voices are mixed, and some of them end.                             *)
MixVoices ==
  /\ mixer.pc = "mix"
  /\ \E ending \in SUBSET {v \in Voices : voice[v].sid # NoSource /\ voice[v].step} :
       /\ voice' = [v \in Voices |-> IF v \in ending
                                     THEN [voice[v] EXCEPT !.sid = NoSource] ELSE voice[v]]
       /\ batch' = [v \in Voices |-> IF v \in ending THEN Nothing ELSE batch[v]]
  /\ mixer' = Idle
  /\ UNCHANGED <<update, updating, List, Others>>

Mix ==
  \/ UpdateBegins \/ UpdateHeld \/ CalcSourceParams \/ Copy
  \/ GiveBackLink \/ GiveBackPush \/ UpdateEnds \/ MixVoices

Next == Call \/ CallGoesOn \/ Mix

Spec == Init /\ [][Next]_vars

-----------------------------------------------------------------------------
(* What holds.                                                             *)

(* The containers on the list, from its head along the links to the null   *)
(* that ends it.                                                           *)
FreeContainers ==
  LET walk[k \in 0..Cardinality(Container)] ==
        IF k = 0 THEN <<free>>
        ELSE LET w == walk[k - 1]
             IN IF w[Len(w)] = Null THEN w ELSE Append(w, next[w[Len(w)]])
      whole == walk[Cardinality(Container)]
  IN SubSeq(whole, 1, Len(whole) - 1)

Attached == {v \in Voices : update[v] # Null}
InCall == IF call.pc \in {"swap", "link", "push"} THEN {call.c} ELSE {}
InMixer == IF mixer.pc \in {"copy", "link", "push"} THEN {mixer.c} ELSE {}

(* Every container that was made is in one place: free, supplied to one    *)
(* voice, in the hands of a call or of the mixer.  None is lost, however   *)
(* the two give back at once, so there are never more than the voices and  *)
(* the two need.                                                           *)
EachInOnePlace ==
  LET places == InCall \cup InMixer \cup {update[v] : v \in Attached}
  IN /\ places \cup {FreeContainers[i] : i \in DOMAIN FreeContainers} = 1..made
     /\ made = Len(FreeContainers) + Cardinality(Attached)
               + Cardinality(InCall) + Cardinality(InMixer)
     /\ made <= NVoices + 1 + Cluster

(* A voice that is mixed is mixed with settings of the source it plays,    *)
(* never with those of the source that had it before.                      *)
MixedAsItsSource ==
  \A v \in Voices : voice[v].step /\ voice[v].sid # NoSource
                      => voice[v].props.s = voice[v].sid

(* Settings applied together are heard together: a mix has all of them or  *)
(* none.                                                                   *)
HeardTogether ==
  LET waiting == {v \in Voices : batch[v] # Nothing}
      heard == {v \in waiting : voice[v].props.s = batch[v].s
                                 /\ voice[v].props.n >= batch[v].n}
  IN mixer.pc = "mix" => heard \in {{}, waiting}

(* Where nothing is deferred, held in hands or supplied, a voice has the   *)
(* latest settings of its source: none is overtaken by an older one.       *)
LatestIsHeard ==
  \A s \in Source :
    LET v == source[s].vidx
    IN /\ HasVoice(s) /\ ~source[s].dirty
       /\ update[v] = Null
       /\ call.pc = "idle" \/ call.pc = "all"
       /\ ~(mixer.pc = "copy" /\ mixer.v = v)
       => voice[v].props = Settings(s)

(* A container of properties is in one place at a time, a voice is mixed   *)
(* as its own source says, and the latest settings are heard, whatever     *)
(* comes between the hand-overs (al/source.cpp, alc/alu.cpp).              *)
Inv == EachInOnePlace /\ MixedAsItsSource /\ LatestIsHeard

=============================================================================
