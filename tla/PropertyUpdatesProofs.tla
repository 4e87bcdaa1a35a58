------------------------ MODULE PropertyUpdatesProofs ------------------------
(***************************************************************************)
(* What PropertyUpdates promises of every number of sources, voices and    *)
(* calls: that a container is in one place at a time, although calls and   *)
(* the mixer give containers back to one list without a lock, that none is *)
(* lost, that settings which were applied together are heard together, and *)
(* that a voice comes to have the latest settings of its own source.  And  *)
(* what EffectSlots promises of every number of slots, effects and calls:  *)
(* that the mixer comes across slots in use only, processes each before    *)
(* the one it targets, and lets no state go.                               *)
(***************************************************************************)
EXTENDS MCUpdates, FiniteSetTheorems, SequenceTheorems, WellFoundedInduction, TLAPS

-----------------------------------------------------------------------------
(* The inductive invariant, in seven parts; what follows IInv below is     *)
(* inductive where IInv is known.                                          *)

Gathering == {"supply", "grow", "pop", "swap"}
Supplies == Gathering \cup {"link", "push"}
Updates == {"take", "copy", "link", "push"}
Quiet == {"idle", "look", "end", "mix"}
Props == [s : Source \cup {NoSource}, n : Nat]

CallFields ==
  /\ call.pc \in Supplies \cup {"idle", "all", "started", "done"}
  /\ call.pc \in Supplies \cup {"started", "done"} =>
       /\ call.s \in Source /\ call.v \in Voices
       /\ call.then \in {"started", "done", "all"} /\ call.at \in 0..(NVoices + 1)
  /\ call.pc = "all" => call.at \in 1..(NVoices + 1)
  /\ call.pc \in Supplies /\ call.then = "all" => call.at \in 1..(NVoices + 1)
  /\ call.pc \in {"swap", "link", "push"} => call.c \in Container

MixerFields ==
  /\ mixer.pc \in Quiet \cup Updates
  /\ mixer.pc \in Updates => mixer.v \in 1..(NVoices + 1)
  /\ mixer.pc \in {"copy", "link", "push"} => mixer.v \in Voices /\ mixer.c \in Container

Types ==
  /\ source \in [Source -> [n : Nat, dirty : BOOLEAN, vidx : Voices \cup {Null}]]
  /\ voice \in [Voices -> [sid : Source \cup {NoSource}, step : BOOLEAN, props : Props]]
  /\ update \in [Voices -> Container \cup {Null}]
  /\ next \in [Container -> Container \cup {Null}]
  /\ holds \in [Container -> Props]
  /\ batch \in [Voices -> Props]
  /\ made \in 0..(NVoices + 2 + Cluster)
  /\ free \in Container \cup {Null}
  /\ defer \in BOOLEAN /\ hold \in BOOLEAN /\ updating \in BOOLEAN
  /\ apply \in {"idle", "wait", "held", "supplied", "reset"}
  /\ CallFields /\ MixerFields

(* Where the mixer and the call stand while settings are applied: the      *)
(* mixer takes none while it is held off, and a reset leaves no batch.     *)
SuppliesAll == call.pc = "all" \/ (call.pc \in Supplies /\ call.then = "all")

Phases ==
  /\ apply \in {"held", "reset"} <=> SuppliesAll
  /\ apply \in {"wait", "held"} => hold
  /\ hold => apply \in {"wait", "held", "supplied"}
  /\ updating <=> mixer.pc \in Updates \cup {"look", "end"}
  /\ hold /\ apply \in {"held", "supplied"} => mixer.pc \in Quiet
  /\ apply = "reset" => mixer.pc = "idle"
  /\ apply = "reset" \/ (apply = "supplied" /\ ~hold) => \A v \in Voices : batch[v] = Nothing

(* A container is free, supplied to one voice, or in the hands of a call   *)
(* or of the mixer.                                                        *)
Places == InCall \cup InMixer \cup {update[v] : v \in Attached}
Free == (1..made) \ Places

Apart ==
  /\ Places \subseteq 1..made
  /\ \A v, w \in Attached : update[v] = update[w] => v = w
  /\ \A v \in Attached : update[v] \notin InCall \cup InMixer
  /\ InCall \cap InMixer = {}

(* The links lead from one of the l elements of F to the next, and from    *)
(* the last one to last.                                                   *)
Strung(l, p, F, n, last) ==
  /\ p \in [1..l -> F]
  /\ \A c \in F : \E i \in 1..l : p[i] = c
  /\ \A i, j \in 1..l : p[i] = p[j] => i = j
  /\ \A i \in 1..l : n[p[i]] = IF i = l THEN last ELSE p[i + 1]

Along(l, p, F, n, h) == Strung(l, p, F, n, Null) /\ h = IF l = 0 THEN Null ELSE p[1]

Path(F, n, h) == \E l \in Nat : \E p : Along(l, p, F, n, h)

(* The list links the free containers and nothing else, and no two of them *)
(* to the same; what an exchange compares with has not changed meanwhile.  *)
Chain(F, n, h) ==
  /\ h \in F \cup {Null}
  /\ \A c \in F : n[c] \in F \cup {Null} /\ (n[c] # Null => n[c] # h)
  /\ \A c, d \in F : n[c] = n[d] /\ n[c] # Null => c = d
  /\ Path(F, n, h)

Linked ==
  /\ Chain(Free, next, free)
  /\ call.pc = "pop" => call.c \in Free /\ call.link = next[call.c] /\ free # Null
  /\ call.pc = "push" => next[call.c] = call.link
  /\ mixer.pc = "push" => next[mixer.c] = mixer.link

OneOwner == Apart /\ Linked

(* A source is dirty only as long as its latest settings are nowhere.      *)
Known ==
  /\ \A c \in Container : holds[c].s # NoSource => holds[c].n <= source[holds[c].s].n
  /\ \A v \in Voices : LET p == voice[v].props
                       IN p.s # NoSource => p.n <= source[p.s].n

Stale(s) ==
  /\ \A c \in Container : holds[c].s = s => holds[c].n < source[s].n
  /\ \A v \in Voices : voice[v].props.s = s => voice[v].props.n < source[s].n

Clean(s) == HasVoice(s) => ~source[s].dirty

StaleUnlessClean == apply # "reset" => \A s \in Source : Clean(s) \/ Stale(s)
CleanOnceSupplied ==
  apply = "supplied" \/ (apply = "idle" /\ ~defer) => \A s \in Source : Clean(s)
CleanSoFar ==
  apply \in {"held", "reset"} => \A s \in Source : source[s].vidx < call.at => Clean(s)
CleanInCall == call.pc \in Supplies \cup {"started", "done"} => ~source[call.s].dirty

DirtyIsStale ==
  Known /\ StaleUnlessClean /\ CleanOnceSupplied /\ CleanSoFar /\ CleanInCall

(* A call supplies the latest settings of the source its voice plays, or   *)
(* played, or will play.                                                   *)
CallFits ==
  /\ call.pc = "started" \/ (call.pc \in Supplies /\ call.then = "started") =>
       voice[call.v].sid = NoSource /\ ~HasVoice(call.s)
  /\ call.pc \in Supplies /\ call.then # "started" =>
       source[call.s].vidx = call.v /\ voice[call.v].sid \in {call.s, NoSource}
  /\ call.pc = "swap" => holds[call.c] = Settings(call.s)

(* Settings of the batch are on their way to a voice that has not got them.*)
Waits(v) == batch[v].s # NoSource
Fits(v, p) == p.s = batch[v].s /\ p.n >= batch[v].n
Heard(v) == Fits(v, voice[v].props)

Pending(v) ==
  /\ apply = "held"
  /\ v >= call.at \/ (call.pc \in Gathering /\ v = call.v)

OnItsWay(v) ==
  IF update[v] # Null THEN Fits(v, holds[update[v]])
  ELSE Heard(v) \/ (mixer.pc = "copy" /\ mixer.v = v)

BatchOwned ==
  \A v \in Voices :
    \/ batch[v] = Nothing
    \/ /\ Waits(v)
       /\ voice[v].sid = batch[v].s /\ source[batch[v].s].vidx = v
       /\ batch[v].n <= source[batch[v].s].n
BatchDirty ==
  apply = "held" =>
    \A v \in Voices : Waits(v) /\ v >= call.at => source[batch[v].s].dirty
BatchComes == \A v \in Voices : Waits(v) => Pending(v) \/ OnItsWay(v)
CopyFits == mixer.pc = "copy" /\ Waits(mixer.v) => Fits(mixer.v, holds[mixer.c])

BatchArrives == BatchOwned /\ BatchDirty /\ BatchComes /\ CopyFits

(* The batch is heard by no voice before it was supplied to all of them,   *)
(* and an update passes it on to voice after voice.                        *)
NoneBefore == hold /\ apply \in {"held", "supplied"} => \A v \in Voices : Waits(v) => ~Heard(v)
QuietAllOrNone ==
  mixer.pc \in Quiet =>
    \/ \A v \in Voices : Waits(v) => Heard(v)
    \/ \A v \in Voices : Waits(v) => ~Heard(v)
HeardSoFar ==
  mixer.pc \in Updates =>
    \A v \in Voices :
      /\ Waits(v)
      /\ v < mixer.v \/ (v = mixer.v /\ mixer.pc \in {"link", "push"})
      => Heard(v)

AllOrNone == NoneBefore /\ QuietAllOrNone /\ HeardSoFar

IInv == Types /\ Phases /\ OneOwner /\ DirtyIsStale /\ CallFits /\ BatchArrives /\ AllOrNone

(* What comes to a voice: the settings it was supplied, those the mixer is *)
(* copying for it, or those it has.                                        *)
Copying(v) == mixer.pc = "copy" /\ mixer.v = v
Current(v) == IF update[v] # Null THEN holds[update[v]]
              ELSE IF Copying(v) THEN holds[mixer.c] ELSE voice[v].props

(* A voice has its settings before it has its source, and is not mixed.    *)
Starting == call.pc = "started" \/ (call.pc \in Supplies /\ call.then = "started")

VoiceIsKnown == \A v \in Voices : voice[v].sid # NoSource => source[voice[v].sid].vidx = v

StartFits ==
  Starting => /\ ~voice[call.v].step
              /\ call.pc \notin Gathering =>
                   update[call.v] # Null /\ holds[update[call.v]] = Settings(call.s)

MixesPlayed ==
  /\ mixer.pc \in {"copy", "link", "push"} => voice[mixer.v].sid # NoSource
  /\ mixer.pc = "copy" => holds[mixer.c].s = voice[mixer.v].sid

(* They are those of the source it plays, except where a reset took them   *)
(* away and has yet to supply the voice; and the latest ones, unless the   *)
(* source is dirty or a call has them in its hands.                        *)
Awaited(v) ==
  apply = "reset" /\ (v >= call.at \/ (call.pc \in Gathering /\ v = call.v))

OwnComes ==
  \A v \in Voices : voice[v].sid # NoSource =>
    Current(v).s = voice[v].sid \/ (Awaited(v) /\ update[v] = Null)

ResetDirty ==
  apply = "reset" =>
    \A v \in Voices : v >= call.at /\ voice[v].sid # NoSource => source[voice[v].sid].dirty

LatestComes ==
  \A v \in Voices :
    LET s == voice[v].sid
    IN s # NoSource /\ ~source[s].dirty /\ ~(call.pc \in Gathering /\ call.s = s)
         => Current(v) = Settings(s)

(* A cluster is made only where the voices and the mixer hold every one.   *)
FewMade == made <= NVoices + 1 + Cluster /\ (call.pc = "grow" => made <= NVoices + 1)

HeardInv ==
  VoiceIsKnown /\ StartFits /\ MixesPlayed /\ MixedAsItsSource /\ OwnComes /\ ResetDirty
  /\ LatestComes

USE CountsAssumption, SourceAssumption

-----------------------------------------------------------------------------
LEMMA PathEmpty == ASSUME NEW n PROVE Path({}, n, Null)
<1>1. Along(0, [i \in 1..0 |-> Null], {}, n, Null)
  BY DEF Along, Strung
<1> QED
  BY <1>1 DEF Path

LEMMA InitInv == Init => IInv
<1> SUFFICES ASSUME Init PROVE IInv
  OBVIOUS
<1>1. Types
  <2>1. CallFields /\ MixerFields
    BY DEF Init, CallFields, MixerFields, Supplies, Gathering, Quiet, Updates
  <2>2. /\ source \in [Source -> [n : Nat, dirty : BOOLEAN, vidx : Voices \cup {Null}]]
        /\ update \in [Voices -> Container \cup {Null}]
        /\ next \in [Container -> Container \cup {Null}]
        /\ free \in Container \cup {Null}
    BY DEF Init, Null
  <2>3. Nothing \in Props
    BY DEF Nothing, Props
  <2>4. /\ voice \in [Voices -> [sid : Source \cup {NoSource}, step : BOOLEAN, props : Props]]
        /\ holds \in [Container -> Props]
        /\ batch \in [Voices -> Props]
    BY <2>3 DEF Init
  <2>5. made \in 0..(NVoices + 2 + Cluster)
    BY DEF Init
  <2> QED
    BY <2>1, <2>2, <2>4, <2>5 DEF Init, Types
<1>2. Phases
  BY DEF Init, Phases, SuppliesAll, Supplies, Gathering, Updates, Quiet
<1>3. Places = {}
  BY DEF Init, Places, InCall, InMixer, Attached, Null
<1>4. OneOwner
  BY <1>3, PathEmpty DEF Init, OneOwner, Apart, Linked, Chain, Free, InCall, InMixer, Attached, Null
<1>5. DirtyIsStale /\ CallFits
  BY DEF Init, DirtyIsStale, StaleUnlessClean, CleanOnceSupplied, CleanSoFar, CleanInCall,
         CallFits, Known, Stale, Clean, HasVoice, Nothing, Null,
         Supplies, Gathering, Voices
<1>6. BatchArrives /\ AllOrNone
  BY DEF Init, BatchArrives, BatchOwned, BatchDirty, BatchComes, CopyFits, AllOrNone,
         NoneBefore, QuietAllOrNone, HeardSoFar, Waits, Nothing, Quiet, Updates
<1> QED
  BY <1>1, <1>2, <1>4, <1>5, <1>6 DEF IInv

-----------------------------------------------------------------------------
(* What some steps leave of the settings, in the terms of the invariant.   *)

LEMMA SetSourceEffect ==
  ASSUME Types, NEW s \in Source, SetSource(s)
  PROVE  /\ \A x \in Source : source'[x].vidx = source[x].vidx
         /\ \A x \in Source : x # s => source'[x] = source[x]
         /\ source'[s].n = source[s].n + 1
         /\ ~defer /\ HasVoice(s) => /\ source'[s].dirty = source[s].dirty
                                     /\ call' = Supply(s, source[s].vidx, "done", 0)
         /\ defer \/ ~HasVoice(s) => call' = call
         /\ UNCHANGED <<voice, update, holds, next, made, free, batch, apply, defer, hold,
                        updating, mixer>>
<1>1. CASE ~defer /\ HasVoice(s)
  <2>1. source' = [source EXCEPT ![s].n = @ + 1]
    BY <1>1 DEF SetSource
  <2>2. call' = Supply(s, source[s].vidx, "done", 0)
    BY <1>1 DEF SetSource
  <2>3. UNCHANGED <<voice, update, holds, next, made, free, batch, apply, defer, hold,
                    updating, mixer>>
    BY DEF SetSource, List, Flags, Batch
  <2> QED
    BY <1>1, <2>1, <2>2, <2>3 DEF Types
<1>2. CASE defer \/ ~HasVoice(s)
  <2>1. source' = [source EXCEPT ![s].n = @ + 1, ![s].dirty = TRUE]
    BY <1>2 DEF SetSource
  <2>2. call' = call
    BY <1>2 DEF SetSource
  <2>3. UNCHANGED <<voice, update, holds, next, made, free, batch, apply, defer, hold,
                    updating, mixer>>
    BY DEF SetSource, List, Flags, Batch
  <2>4. /\ \A x \in Source : source'[x].vidx = source[x].vidx
        /\ \A x \in Source : x # s => source'[x] = source[x]
        /\ source'[s].n = source[s].n + 1
    BY <2>1 DEF Types
  <2>5. ~(~defer /\ HasVoice(s))
    BY <1>2
  <2> QED
    BY <1>2, <2>1, <2>2, <2>3, <2>4, <2>5
<1> QED
  BY <1>1, <1>2

LEMMA UpdateAllEffect ==
  ASSUME Types, UpdateAllSourceProps
  PROVE  /\ \A x \in Source : /\ source'[x].n = source[x].n /\ source'[x].vidx = source[x].vidx
                              /\ source'[x].dirty => source[x].dirty
         /\ call.at \notin Voices =>
              apply' = "supplied" /\ call' = Idle /\ source' = source
         /\ call.at \in Voices =>
              LET s == voice[call.at].sid
              IN /\ apply' = apply
                 /\ IF s # NoSource /\ source[s].vidx = call.at /\ source[s].dirty
                    THEN /\ call' = Supply(s, call.at, "all", call.at + 1)
                         /\ ~source'[s].dirty
                         /\ \A x \in Source : x # s => source'[x].dirty = source[x].dirty
                    ELSE source' = source /\ call' = [pc |-> "all", at |-> call.at + 1]
         /\ UNCHANGED <<voice, update, holds, next, made, free, batch, defer, hold,
                        updating, mixer>>
  BY DEF Types, UpdateAllSourceProps, List, Batch

LEMMA CalcEffect ==
  ASSUME Types, CalcSourceParams
  PROVE  /\ \A v \in Voices : voice'[v].sid = voice[v].sid /\ voice'[v].props = voice[v].props
         /\ UNCHANGED <<source, holds, next, made, free, batch, apply, defer, hold,
                        updating, call>>
  BY DEF Types, CalcSourceParams, List, Others, Flags

LEMMA CopyEffect ==
  ASSUME Types, Copy
  PROVE  /\ mixer.v \in Voices /\ mixer.c \in Container
         /\ \A v \in Voices : /\ voice'[v].sid = voice[v].sid
                              /\ v # mixer.v => voice'[v].props = voice[v].props
         /\ voice'[mixer.v].props = holds[mixer.c]
         /\ UNCHANGED <<source, holds, next, made, free, update, batch, apply, defer, hold,
                        updating, call>>
  BY DEF Types, MixerFields, Copy, List, Others, Flags

LEMMA PushEffect ==
  ASSUME Types, SupplyPush \/ GiveBackPush
  PROVE  /\ \A c \in Container : holds'[c] = holds[c] \/ holds'[c].s = NoSource
         /\ UNCHANGED <<source, voice, apply, defer>>
  BY DEF Types, SupplyPush, GiveBackPush, List, Others, Flags, Nothing

LEMMA PopEffect ==
  ASSUME IInv, SupplyPop
  PROVE  /\ \A c \in Container : holds'[c] = holds[c] \/ holds'[c] = Settings(call.s)
         /\ ~source[call.s].dirty /\ call.s \in Source
         /\ UNCHANGED <<source, voice, apply, defer>>
  BY DEF IInv, Types, CallFields, DirtyIsStale, CleanInCall, SupplyPop, Supplies, Gathering,
         List, Flags

LEMMA ResetEffect ==
  ASSUME Types, UpdateDeviceParams
  PROVE  /\ \A x \in Source : /\ source'[x].n = source[x].n /\ source'[x].vidx = source[x].vidx
                              /\ source'[x].dirty
         /\ \A v \in Voices : voice'[v].sid = voice[v].sid /\ voice'[v].props = voice[v].props
         /\ \A c \in Container : holds'[c] = Nothing /\ next'[c] = Null
         /\ \A v \in Voices : update'[v] = Null /\ batch'[v] = Nothing
         /\ made' = 0 /\ free' = Null /\ apply' = "reset" /\ call' = [pc |-> "all", at |-> 1]
         /\ UNCHANGED <<defer, hold, updating, mixer>>
  BY DEF Types, UpdateDeviceParams

LEMMA InitVoiceEffect ==
  ASSUME Types, NEW s \in Source, NEW v \in Voices, InitVoice(s, v)
  PROVE  /\ \A x \in Source : source'[x].n = source[x].n /\ source'[x].vidx = source[x].vidx
         /\ ~source'[s].dirty
         /\ \A x \in Source : x # s => source'[x] = source[x]
         /\ \A w \in Voices : voice'[w].sid = voice[w].sid /\ voice'[w].props = voice[w].props
         /\ call' = Supply(s, v, "started", 0)
         /\ UNCHANGED <<update, holds, next, made, free, batch, apply, defer, hold,
                        updating, mixer>>
  BY DEF Types, InitVoice, List, Flags, Batch

LEMMA StartedEffect ==
  ASSUME Types, VoiceStarted
  PROVE  /\ call.s \in Source /\ call.v \in Voices
         /\ \A x \in Source : source'[x].n = source[x].n /\ source'[x].dirty = source[x].dirty
         /\ \A x \in Source : x # call.s => source'[x].vidx = source[x].vidx
         /\ source'[call.s].vidx = call.v
         /\ \A w \in Voices : /\ voice'[w].props = voice[w].props
                              /\ w # call.v => voice'[w].sid = voice[w].sid
         /\ voice'[call.v].sid = call.s
         /\ call' = Idle
         /\ UNCHANGED <<update, holds, next, made, free, batch, apply, defer, hold,
                        updating, mixer>>
  BY DEF Types, CallFields, VoiceStarted, List, Flags, Batch

-----------------------------------------------------------------------------
LEMMA KnownNext == ASSUME IInv, Next PROVE Known'
<1> USE DEF IInv, Types, DirtyIsStale, Known, Props
<1>1. CASE \E s \in Source : SetSource(s)
  <2>1. PICK s \in Source : SetSource(s)
    BY <1>1
  <2>2. \A x \in Source : source'[x].n \in {source[x].n, source[x].n + 1}
    BY <2>1, SetSourceEffect
  <2>3. holds' = holds /\ voice' = voice
    BY <2>1, SetSourceEffect
  <2>4. \A p \in Props : p.s # NoSource /\ p.n <= source[p.s].n => p.n <= source'[p.s].n
    <3> SUFFICES ASSUME NEW p \in Props, p.s # NoSource, p.n <= source[p.s].n
                 PROVE  p.n <= source'[p.s].n
      OBVIOUS
    <3>1. p.s \in Source /\ p.n \in Nat /\ source[p.s].n \in Nat
      OBVIOUS
    <3>2. source'[p.s].n \in {source[p.s].n, source[p.s].n + 1}
      BY <2>2, <3>1
    <3> QED
      BY <3>1, <3>2
  <2> QED
    BY <2>3, <2>4
<1>2. CASE SupplyPush \/ GiveBackPush
  BY <1>2, PushEffect
<1>3. CASE UpdateAllSourceProps
  <2>1. \A x \in Source : source'[x].n = source[x].n
    BY <1>3, UpdateAllEffect
  <2>2. holds' = holds /\ voice' = voice
    BY <1>3, UpdateAllEffect
  <2> QED
    BY <2>1, <2>2
<1>4. CASE UpdateDeviceParams
  BY <1>4, ResetEffect DEF Nothing
<1>5. CASE SupplyPop
  BY <1>5, PopEffect, SMTT(30) DEF Settings
<1>6. CASE Copy
  BY <1>6, CopyEffect, SMTT(30)
<1>7. CASE CalcSourceParams
  BY <1>7, CalcEffect
<1>8. CASE MixVoices
  BY <1>8 DEF MixVoices, List, Others
<1>9. CASE VoiceStarted \/ \E s \in Source, v \in Voices : InitVoice(s, v)
  <2>1. /\ \A x \in Source : source'[x].n = source[x].n
        /\ \A v \in Voices : voice'[v].props = voice[v].props
        /\ holds' = holds
    BY <1>9, StartedEffect, InitVoiceEffect
  <2> QED
    BY <2>1
<1>10. CASE UNCHANGED <<source, holds, voice>>
  BY <1>10
<1> QED
  BY <1>1, <1>2, <1>3, <1>4, <1>5, <1>6, <1>7, <1>8, <1>9, <1>10
  DEF Next, Call, CallGoesOn, UpdateSourceProps, Mix, deferUpdates, HoldUpdates, SupplyLoad,
      allocVoiceProps, SupplySwap, SupplyLink, Done, AwaitUpdate, ReleaseUpdates, UpdateBegins,
      UpdateHeld, GiveBackLink, UpdateEnds, List, Others

LEMMA StaleUnlessCleanNext == ASSUME IInv, Next PROVE StaleUnlessClean'
<1> USE DEF IInv, Types, DirtyIsStale, StaleUnlessClean
<1>1. CASE \E s \in Source : SetSource(s)
  <2>1. PICK s \in Source : SetSource(s)
    BY <1>1
  <2>2. /\ holds' = holds /\ voice' = voice /\ apply' = apply
        /\ \A x \in Source : HasVoice(x)' = HasVoice(x)
        /\ \A x \in Source : x # s => source'[x] = source[x]
        /\ source'[s].n = source[s].n + 1
    BY <2>1, SetSourceEffect DEF HasVoice
  <2>3. \A x \in Source : x # s => Clean(x)' = Clean(x) /\ Stale(x)' = Stale(x)
    BY <2>2 DEF Clean, Stale
  <2>4. Stale(s)'
    <3>1. source[s].n \in Nat /\ source'[s].n = source[s].n + 1
      BY <2>2
    <3>2. ASSUME NEW c \in Container, holds[c].s = s PROVE holds[c].n < source'[s].n
      BY <3>1, <3>2 DEF Known, Props
    <3>3. ASSUME NEW v \in Voices, voice[v].props.s = s PROVE voice[v].props.n < source'[s].n
      BY <3>1, <3>3 DEF Known, Props
    <3> QED
      BY <2>2, <3>2, <3>3 DEF Stale
  <2> QED
    BY <2>2, <2>3, <2>4
<1>2. CASE SupplyPush \/ GiveBackPush
  <2>1. \A x \in Source : Clean(x)' = Clean(x)
    BY <1>2, PushEffect DEF Clean, HasVoice
  <2>2. \A x \in Source : Stale(x) => Stale(x)'
    BY <1>2, PushEffect DEF Stale
  <2> QED
    BY <1>2, <2>1, <2>2, PushEffect
<1>3. CASE UpdateAllSourceProps
  <2>1. /\ \A x \in Source : /\ source'[x].n = source[x].n /\ source'[x].vidx = source[x].vidx
                             /\ source'[x].dirty => source[x].dirty
        /\ holds' = holds /\ voice' = voice
    BY <1>3, UpdateAllEffect
  <2>2. \A x \in Source : (Clean(x) => Clean(x)') /\ (Stale(x) => Stale(x)')
    BY <2>1 DEF Clean, Stale, HasVoice
  <2>3. apply = "reset" /\ apply' # "reset" => \A x \in Source : Clean(x)
    <3> SUFFICES ASSUME apply = "reset", apply' # "reset", NEW x \in Source PROVE Clean(x)
      OBVIOUS
    <3>1. call.at \notin Voices /\ call.at \in 1..(NVoices + 1)
      BY <1>3, UpdateAllEffect DEF UpdateAllSourceProps, CallFields
    <3>2. source[x].vidx < call.at
      BY <3>1 DEF Voices, Null
    <3> QED
      BY <3>2 DEF CleanSoFar
  <2> QED
    BY <2>2, <2>3
<1>4. CASE UpdateDeviceParams
  BY <1>4, ResetEffect
<1>5. CASE SupplyPop
  <2>1. \A x \in Source : Clean(x)' = Clean(x)
    BY <1>5, PopEffect DEF Clean, HasVoice
  <2>2. Clean(call.s)
    BY <1>5, PopEffect DEF Clean
  <2>3. \A x \in Source : x # call.s /\ Stale(x) => Stale(x)'
    BY <1>5, PopEffect DEF Stale, Settings
  <2> QED
    BY <1>5, <2>1, <2>2, <2>3, PopEffect
<1>6. CASE Copy
  <2>1. \A x \in Source : Clean(x)' = Clean(x) /\ (Stale(x) => Stale(x)')
    BY <1>6, CopyEffect DEF Clean, HasVoice, Stale
  <2> QED
    BY <1>6, <2>1, CopyEffect
<1>7. CASE CalcSourceParams
  <2>1. \A x \in Source : Clean(x)' = Clean(x) /\ (Stale(x) => Stale(x)')
    BY <1>7, CalcEffect DEF Clean, HasVoice, Stale
  <2> QED
    BY <1>7, <2>1, CalcEffect
<1>8. CASE MixVoices
  <2>1. \A x \in Source : (Clean(x) => Clean(x)') /\ (Stale(x) => Stale(x)')
    BY <1>8 DEF MixVoices, Clean, HasVoice, Stale, List, Others, Null
  <2> QED
    BY <1>8, <2>1 DEF MixVoices, Others, Flags
<1>9. CASE \E s \in Source, v \in Voices : InitVoice(s, v)
  <2>1. PICK s \in Source, v \in Voices : InitVoice(s, v)
    BY <1>9
  <2>2. \A x \in Source : (Clean(x) => Clean(x)') /\ (Stale(x) => Stale(x)')
    BY <2>1, InitVoiceEffect DEF Clean, HasVoice, Stale, Null
  <2> QED
    BY <2>1, <2>2, InitVoiceEffect
<1>11. CASE VoiceStarted
  <2>1. \A x \in Source : x = call.s => Clean(x)'
    BY <1>11, StartedEffect DEF VoiceStarted, CleanInCall, Clean
  <2>2. \A x \in Source : x # call.s => (Clean(x) => Clean(x)') /\ (Stale(x) => Stale(x)')
    BY <1>11, StartedEffect DEF Clean, HasVoice, Stale, Null
  <2> QED
    BY <1>11, <2>1, <2>2, StartedEffect
<1>10. CASE UNCHANGED <<source, holds, voice>> /\ (apply' # "reset" => apply # "reset")
  BY <1>10 DEF Clean, Stale, HasVoice
<1> QED
  BY <1>1, <1>2, <1>3, <1>4, <1>5, <1>6, <1>7, <1>8, <1>9, <1>10, <1>11
  DEF Next, Call, CallGoesOn, UpdateSourceProps, Mix, deferUpdates, HoldUpdates, SupplyLoad,
      allocVoiceProps, SupplySwap, SupplyLink, Done, AwaitUpdate, ReleaseUpdates, UpdateBegins,
      UpdateHeld, GiveBackLink, UpdateEnds, List, Others, Flags

LEMMA CleanOnceSuppliedNext == ASSUME IInv, Next PROVE CleanOnceSupplied'
<1> USE DEF IInv, Types, DirtyIsStale, CleanOnceSupplied
<1>1. CASE \E s \in Source : SetSource(s)
  <2>1. PICK s \in Source : SetSource(s)
    BY <1>1
  <2>2. /\ voice' = voice /\ apply' = apply /\ defer' = defer /\ apply = "idle"
        /\ \A x \in Source : HasVoice(x)' = HasVoice(x)
        /\ \A x \in Source : x # s => source'[x] = source[x]
        /\ ~defer /\ HasVoice(s) => source'[s].dirty = source[s].dirty
    BY <2>1, SetSourceEffect DEF HasVoice, SetSource
  <2> QED
    BY <2>2 DEF Clean
<1>2. CASE SupplyPush \/ GiveBackPush \/ SupplyPop
  BY <1>2, PushEffect, PopEffect DEF Clean, HasVoice
<1>3. CASE UpdateAllSourceProps
  <2>1. /\ \A x \in Source : /\ source'[x].n = source[x].n /\ source'[x].vidx = source[x].vidx
                             /\ source'[x].dirty => source[x].dirty
        /\ voice' = voice
    BY <1>3, UpdateAllEffect
  <2>2. \A x \in Source : Clean(x) => Clean(x)'
    BY <2>1 DEF Clean, HasVoice
  <2>3. apply \in {"held", "reset"} /\ call.pc = "all" /\ call.at \in 1..(NVoices + 1)
    <3>1. call.pc = "all"
      BY <1>3 DEF UpdateAllSourceProps
    <3>2. SuppliesAll
      BY <3>1 DEF SuppliesAll
    <3> QED
      BY <3>1, <3>2 DEF Phases, CallFields
  <2>4. CASE apply' = "supplied"
    <3> SUFFICES ASSUME NEW x \in Source PROVE Clean(x)'
      BY <2>4
    <3>1. call.at \notin Voices
      BY <1>3, <2>3, <2>4, UpdateAllEffect
    <3>2. source[x].vidx < call.at
      BY <3>1, <2>3 DEF Voices, Null
    <3> QED
      BY <3>2, <2>3, <2>2 DEF CleanSoFar
  <2>5. CASE apply' # "supplied"
    BY <2>5, <1>3, <2>3, UpdateAllEffect
  <2> QED
    BY <2>4, <2>5
<1>4. CASE UpdateDeviceParams
  BY <1>4, ResetEffect
<1>6. CASE Copy
  BY <1>6, CopyEffect DEF Clean, HasVoice, Null
<1>7. CASE CalcSourceParams
  <2>1. \A x \in Source : Clean(x)' = Clean(x)
    BY <1>7, CalcEffect DEF Clean, HasVoice
  <2> QED
    BY <1>7, <2>1, CalcEffect
<1>8. CASE MixVoices
  <2>1. \A x \in Source : Clean(x) => Clean(x)'
    BY <1>8 DEF MixVoices, Clean, HasVoice, Others, Null
  <2> QED
    BY <1>8, <2>1 DEF MixVoices, Others, Flags
<1>9. CASE \E s \in Source, v \in Voices : InitVoice(s, v)
  <2>1. PICK s \in Source, v \in Voices : InitVoice(s, v)
    BY <1>9
  <2>2. \A x \in Source : Clean(x) => Clean(x)'
    BY <2>1, InitVoiceEffect DEF Clean, HasVoice, Null
  <2> QED
    BY <2>1, <2>2, InitVoiceEffect
<1>11. CASE VoiceStarted
  <2>1. \A x \in Source : x = call.s => Clean(x)'
    BY <1>11, StartedEffect DEF VoiceStarted, CleanInCall, Clean
  <2>2. \A x \in Source : x # call.s => (Clean(x) => Clean(x)')
    BY <1>11, StartedEffect DEF Clean, HasVoice, Null
  <2> QED
    BY <1>11, <2>1, <2>2, StartedEffect
<1>12. CASE HoldUpdates \/ AwaitUpdate \/ deferUpdates
  BY <1>12 DEF HoldUpdates, AwaitUpdate, deferUpdates
<1>10. CASE UNCHANGED <<source, voice, apply, defer>>
  BY <1>10 DEF Clean, HasVoice
<1>13. CASE ReleaseUpdates
  BY <1>13 DEF ReleaseUpdates, Clean, HasVoice
<1> QED
  BY <1>1, <1>2, <1>3, <1>4, <1>6, <1>7, <1>8, <1>9, <1>10, <1>11, <1>12, <1>13
  DEF Next, Call, CallGoesOn, UpdateSourceProps, Mix, SupplyLoad,
      allocVoiceProps, SupplySwap, SupplyLink, Done, UpdateBegins,
      UpdateHeld, GiveBackLink, UpdateEnds, Others, Flags

SupplySteps == SupplyLoad \/ allocVoiceProps \/ SupplyPop \/ SupplySwap \/ SupplyLink \/ SupplyPush

LEMMA SupplyEffect ==
  ASSUME IInv, SupplySteps
  PROVE  /\ call.pc \in Supplies
         /\ call'.s = call.s /\ call'.v = call.v /\ call'.then = call.then /\ call'.at = call.at
         /\ call'.pc \in Supplies \cup {call.then}
         /\ UNCHANGED <<source, voice, batch, apply, defer, hold, updating, mixer>>
  BY DEF SupplySteps, SupplyLoad, allocVoiceProps, SupplyPop, SupplySwap, SupplyLink, SupplyPush,
         Supplying, Supplied, Supplies, Gathering, Flags, Batch

LEMMA MixEffect ==
  ASSUME IInv, Mix
  PROVE  /\ UNCHANGED <<source, call, apply, defer, hold>>
         /\ \A v \in Voices : voice'[v].sid = voice[v].sid \/ voice'[v].sid = NoSource
  <1>1. CASE CalcSourceParams
    BY <1>1, CalcEffect DEF IInv
  <1>2. CASE Copy
    BY <1>2, CopyEffect DEF IInv
  <1>3. CASE MixVoices
    BY <1>3 DEF MixVoices, Others, Flags, IInv, Types
  <1>4. CASE UpdateBegins \/ UpdateHeld \/ GiveBackLink \/ GiveBackPush \/ UpdateEnds
    BY <1>4 DEF UpdateBegins, UpdateHeld, GiveBackLink, GiveBackPush, UpdateEnds, Others, Flags
  <1> QED
    BY <1>1, <1>2, <1>3, <1>4 DEF Mix

LEMMA CleanSoFarNext == ASSUME IInv, Next PROVE CleanSoFar'
<1> USE DEF IInv, Types, CleanSoFar
<1>1. CASE SupplySteps
  <2>1. \A x \in Source : Clean(x)' = Clean(x)
    BY <1>1, SupplyEffect DEF Clean, HasVoice
  <2> QED
    BY <1>1, <2>1, SupplyEffect DEF DirtyIsStale
<1>2. CASE Mix
  <2>1. \A x \in Source : Clean(x) => Clean(x)'
    BY <1>2, MixEffect DEF Clean, HasVoice, Null
  <2> QED
    BY <1>2, <2>1, MixEffect DEF DirtyIsStale
<1>3. CASE UpdateAllSourceProps
  <2>1. /\ \A x \in Source : /\ source'[x].n = source[x].n /\ source'[x].vidx = source[x].vidx
                             /\ source'[x].dirty => source[x].dirty
        /\ voice' = voice
    BY <1>3, UpdateAllEffect
  <2>2. \A x \in Source : Clean(x) => Clean(x)'
    BY <2>1 DEF Clean, HasVoice
  <2>3. apply \in {"held", "reset"} /\ call.pc = "all" /\ call.at \in 1..(NVoices + 1)
    <3>1. call.pc = "all"
      BY <1>3 DEF UpdateAllSourceProps
    <3>2. SuppliesAll
      BY <3>1 DEF SuppliesAll
    <3> QED
      BY <3>1, <3>2 DEF Phases, CallFields
  <2>4. CASE call.at \in Voices
    <3>1. call'.at = call.at + 1
      BY <1>3, <2>4, UpdateAllEffect DEF Supply
    <3> SUFFICES ASSUME NEW x \in Source, source[x].vidx < call.at + 1 PROVE Clean(x)'
      BY <2>1, <3>1
    <3>2. CASE source[x].vidx < call.at
      BY <3>2, <2>2, <2>3 DEF DirtyIsStale
    <3>3. CASE source[x].vidx = call.at
      <4>1. ASSUME HasVoice(x)' PROVE ~source'[x].dirty
        <5>1. voice[call.at].sid = x
          BY <3>3, <4>1, <2>1, <2>4 DEF HasVoice
        <5>2. x # NoSource
          BY SourceAssumption
        <5> QED
          BY <5>1, <5>2, <3>3, <2>4, <1>3, UpdateAllEffect
      <4> QED
        BY <4>1 DEF Clean
    <3> QED
      BY <3>2, <3>3, <2>3 DEF Voices, Null
  <2>5. CASE call.at \notin Voices
    BY <2>5, <1>3, UpdateAllEffect
  <2> QED
    BY <2>4, <2>5
<1>4. CASE UpdateDeviceParams
  <2>1. \A x \in Source : source'[x].vidx < 1 => source'[x].vidx = Null
    BY <1>4, ResetEffect DEF Voices, Null
  <2> QED
    BY <2>1, <1>4, ResetEffect DEF Clean, HasVoice
<1>5. CASE AwaitUpdate
  <2>1. source' = source /\ voice' = voice /\ call'.at = 1
    BY <1>5 DEF AwaitUpdate
  <2>2. \A x \in Source : source[x].vidx < 1 => source[x].vidx = Null
    BY DEF Voices, Null
  <2> QED
    BY <2>1, <2>2 DEF Clean, HasVoice
<1>6. CASE deferUpdates \/ HoldUpdates \/ ReleaseUpdates
  BY <1>6 DEF deferUpdates, HoldUpdates, ReleaseUpdates
<1>7. CASE \/ \E s \in Source : SetSource(s)
           \/ \E s \in Source, v \in Voices : InitVoice(s, v)
           \/ VoiceStarted \/ Done
  <2>1. apply \notin {"held", "reset"}
    BY <1>7 DEF SetSource, InitVoice, VoiceStarted, Done, Phases, SuppliesAll, Supplies, Gathering
  <2> QED
    BY <1>7, <2>1 DEF SetSource, InitVoice, VoiceStarted, Done, Flags
<1> QED
  BY <1>1, <1>2, <1>3, <1>4, <1>5, <1>6, <1>7
  DEF Next, Call, CallGoesOn, UpdateSourceProps, SupplySteps

LEMMA CleanInCallNext == ASSUME IInv, Next PROVE CleanInCall'
<1> USE DEF IInv, Types, CleanInCall
<1>1. CASE SupplySteps
  BY <1>1, SupplyEffect DEF DirtyIsStale, CallFields
<1>2. CASE Mix
  BY <1>2, MixEffect DEF DirtyIsStale
<1>3. CASE UpdateAllSourceProps
  BY <1>3, UpdateAllEffect DEF Supply, Idle, Supplies, Gathering, CallFields
<1>4. CASE UpdateDeviceParams \/ AwaitUpdate \/ VoiceStarted \/ Done
  BY <1>4 DEF UpdateDeviceParams, AwaitUpdate, VoiceStarted, Done, Supplies, Gathering, Idle
<1>6. CASE deferUpdates \/ HoldUpdates \/ ReleaseUpdates
  BY <1>6 DEF deferUpdates, HoldUpdates, ReleaseUpdates, DirtyIsStale
<1>7. CASE \E s \in Source : SetSource(s)
  <2>1. PICK s \in Source : SetSource(s)
    BY <1>7
  <2>2. call.pc = "idle" /\ apply = "idle"
    BY <2>1 DEF SetSource
  <2>3. CASE ~defer /\ HasVoice(s)
    <3>1. Clean(s)
      BY <2>2, <2>3 DEF DirtyIsStale, CleanOnceSupplied
    <3>2. ~source'[s].dirty /\ call'.s = s
      BY <3>1, <2>1, <2>3, SetSourceEffect DEF Clean, Supply
    <3> QED
      BY <3>2
  <2>4. CASE defer \/ ~HasVoice(s)
    BY <2>1, <2>2, <2>4, SetSourceEffect DEF Supplies, Gathering
  <2> QED
    BY <2>3, <2>4
<1>8. CASE \E s \in Source, v \in Voices : InitVoice(s, v)
  BY <1>8, InitVoiceEffect DEF Supply
<1> QED
  BY <1>1, <1>2, <1>3, <1>4, <1>6, <1>7, <1>8
  DEF Next, Call, CallGoesOn, UpdateSourceProps, SupplySteps

LEMMA CallFitsNext == ASSUME IInv, Next PROVE CallFits'
<1> USE DEF IInv, Types, CallFits, CallFields
<1>1. CASE SupplySteps
  <2>1. /\ \A s \in Source : HasVoice(s)' = HasVoice(s)
        /\ \A s : Settings(s)' = Settings(s)
    BY <1>1, SupplyEffect DEF HasVoice, Settings
  <2>2. call'.pc = "swap" => SupplyPop /\ call'.c = call.c /\ holds'[call.c] = Settings(call.s)
    BY <1>1 DEF SupplySteps, SupplyLoad, allocVoiceProps, SupplyPop, SupplySwap, SupplyLink,
                SupplyPush, Supplying, Supplied, OneOwner, Linked, Free, Supplies, Gathering
  <2>3. /\ voice' = voice /\ call'.s = call.s /\ call'.v = call.v /\ call'.then = call.then
        /\ source' = source /\ call.pc \in Supplies
        /\ call'.pc = "started" => call.then = "started"
    BY <1>1, SupplyEffect DEF Supplies, Gathering
  <2>4. call'.pc = "swap" => holds'[call'.c] = Settings(call.s)'
    BY <2>2, <2>3 DEF Settings
  <2>6. call.then = "started" => voice'[call'.v].sid = NoSource /\ ~HasVoice(call.s)'
    BY <2>3 DEF HasVoice
  <2>7. call.then # "started" =>
          source'[call'.s].vidx = call'.v /\ voice'[call'.v].sid \in {call'.s, NoSource}
    BY <2>3
  <2> QED
    BY <2>3, <2>4, <2>6, <2>7
<1>2. CASE Mix
  <2>1. \A s \in Source : HasVoice(s)' => HasVoice(s)
    BY <1>2, MixEffect DEF HasVoice, Null
  <2>2. call.pc = "swap" => holds'[call.c] = holds[call.c]
    <3>1. CASE GiveBackPush
      BY <3>1 DEF GiveBackPush, MixerFields, OneOwner, Apart, InCall, InMixer
    <3>2. CASE holds' = holds
      BY <3>2
    <3> QED
      BY <1>2, <3>1, <3>2 DEF Mix, UpdateBegins, UpdateHeld, CalcSourceParams, Copy, GiveBackLink,
         UpdateEnds, MixVoices, List
  <2> QED
    BY <1>2, <2>1, <2>2, MixEffect DEF Settings, Supplies, Gathering
<1>3. CASE UpdateAllSourceProps
  BY <1>3, UpdateAllEffect DEF Supply, Idle, Supplies, Gathering
<1>4. CASE UpdateDeviceParams \/ AwaitUpdate \/ VoiceStarted \/ Done
  BY <1>4 DEF UpdateDeviceParams, AwaitUpdate, VoiceStarted, Done, Supplies, Gathering, Idle
<1>5. CASE deferUpdates \/ HoldUpdates \/ ReleaseUpdates
  BY <1>5 DEF deferUpdates, HoldUpdates, ReleaseUpdates, HasVoice, Settings, List
<1>6. CASE \E s \in Source : SetSource(s)
  BY <1>6, SetSourceEffect DEF SetSource, Supply, HasVoice, Supplies, Gathering, Null
<1>7. CASE \E s \in Source, v \in Voices : InitVoice(s, v)
  <2>1. PICK s \in Source, v \in Voices : InitVoice(s, v)
    BY <1>7
  <2>2. voice[v].sid = NoSource /\ ~HasVoice(s)
    BY <2>1 DEF InitVoice
  <2>3. voice'[v].sid = NoSource /\ ~HasVoice(s)'
    BY <2>1, <2>2, InitVoiceEffect DEF HasVoice, Null
  <2>4. call' = Supply(s, v, "started", 0)
    BY <2>1, InitVoiceEffect
  <2> QED
    BY <2>3, <2>4 DEF Supply, HasVoice
<1> QED
  BY <1>1, <1>2, <1>3, <1>4, <1>5, <1>6, <1>7
  DEF Next, Call, CallGoesOn, UpdateSourceProps, SupplySteps

-----------------------------------------------------------------------------
(* One owner of every container.                                           *)

LEMMA PathPop ==
  ASSUME NEW F, NEW n, NEW m, NEW h \in F, Null \notin F, Path(F, n, h),
         \A c \in F \ {h} : m[c] = n[c]
  PROVE  Path(F \ {h}, m, n[h])
<1>a. PICK l \in Nat : \E p : Along(l, p, F, n, h)
  BY DEF Path
<1>1. PICK p : Along(l, p, F, n, h)
  BY <1>a
<1>2. l # 0 /\ l - 1 \in Nat /\ 1 \in 1..l /\ p[1] = h
  BY <1>1 DEF Along, Strung
<1> DEFINE q == [i \in 1..(l - 1) |-> p[i + 1]]
<1>3. \A i \in 1..(l - 1) : i + 1 \in 1..l /\ i + 1 # 1 /\ q[i] = p[i + 1]
  BY <1>2
<1>4. \A i \in 1..(l - 1) : q[i] \in F \ {h}
  BY <1>1, <1>2, <1>3 DEF Along, Strung
<1>5. q \in [1..(l - 1) -> F \ {h}]
  BY <1>4
<1>6. ASSUME NEW c \in F \ {h} PROVE \E i \in 1..(l - 1) : q[i] = c
  <2>1. PICK i \in 1..l : p[i] = c
    BY <1>1 DEF Along, Strung
  <2>2. i - 1 \in 1..(l - 1) /\ q[i - 1] = c
    BY <1>2, <2>1
  <2> QED
    BY <2>2
<1>7. \A i, j \in 1..(l - 1) : q[i] = q[j] => i = j
  <2>1. \A i, j \in 1..(l - 1) : p[i + 1] = p[j + 1] => i + 1 = j + 1
    BY <1>1, <1>3 DEF Along, Strung
  <2> QED
    BY <1>3, <2>1
<1>8. n[h] = IF l - 1 = 0 THEN Null ELSE q[1]
  BY <1>1, <1>2 DEF Along, Strung
<1>9. ASSUME NEW i \in 1..(l - 1)
      PROVE  m[q[i]] = IF i = l - 1 THEN Null ELSE q[i + 1]
  <2>1. m[q[i]] = n[p[i + 1]]
    BY <1>3, <1>4
  <2>2. n[p[i + 1]] = IF i + 1 = l THEN Null ELSE p[(i + 1) + 1]
    BY <1>1, <1>3 DEF Along, Strung
  <2>3. i # l - 1 => i + 1 \in 1..(l - 1)
    OBVIOUS
  <2> QED
    BY <2>1, <2>2, <2>3, <1>3
<1>10. Along(l - 1, q, F \ {h}, m, n[h])
  BY <1>5, <1>6, <1>7, <1>8, <1>9 DEF Along, Strung
<1> QED
  BY <1>2, <1>10 DEF Path

LEMMA PathSame ==
  ASSUME NEW F, NEW n, NEW m, NEW h, Path(F, n, h), \A c \in F : m[c] = n[c]
  PROVE  Path(F, m, h)
<1>a. PICK l \in Nat : \E p : Along(l, p, F, n, h)
  BY DEF Path
<1>1. PICK p : Along(l, p, F, n, h)
  BY <1>a
<1>2. Along(l, p, F, m, h)
  BY <1>1 DEF Along, Strung
<1> QED
  BY <1>2 DEF Path

(* A path put in front of a path.                                          *)
LEMMA PathBefore ==
  ASSUME NEW F, NEW n, NEW m, NEW h, Path(F, n, h), Null \notin F,
         NEW G, NEW k \in Nat \ {0}, NEW r, Strung(k, r, G, m, h),
         G \cap F = {}, Null \notin G, \A c \in F : m[c] = n[c]
  PROVE  Path(F \cup G, m, r[1])
<1>a. PICK l \in Nat : \E p : Along(l, p, F, n, h)
  BY DEF Path
<1>1. PICK p : Along(l, p, F, n, h)
  BY <1>a
<1> USE DEF Strung
<1> DEFINE q == [i \in 1..(l + k) |-> IF i <= k THEN r[i] ELSE p[i - k]]
<1>2. \A i \in 1..(l + k) : \/ i \in 1..k /\ q[i] = r[i] /\ r[i] \in G
                            \/ i > k /\ i - k \in 1..l /\ q[i] = p[i - k] /\ p[i - k] \in F
  BY <1>1 DEF Along, Strung
<1>3. q \in [1..(l + k) -> F \cup G]
  BY <1>2
<1>4. ASSUME NEW c \in F \cup G PROVE \E i \in 1..(l + k) : q[i] = c
  <2>1. CASE c \in G
    <3>1. PICK i \in 1..k : r[i] = c
      BY <2>1
    <3>2. i \in 1..(l + k) /\ q[i] = c
      BY <3>1
    <3> QED
      BY <3>2
  <2>2. CASE c \in F
    <3>1. PICK i \in 1..l : p[i] = c
      BY <1>1, <2>2 DEF Along, Strung
    <3>2. i + k \in 1..(l + k) /\ q[i + k] = c
      BY <3>1
    <3> QED
      BY <3>2
  <2> QED
    BY <2>1, <2>2
<1>5. ASSUME NEW i \in 1..(l + k), NEW j \in 1..(l + k), q[i] = q[j] PROVE i = j
  <2>1. CASE i <= k /\ j <= k
    BY <1>2, <1>5, <2>1
  <2>2. CASE i > k /\ j > k
    <3>1. i - k \in 1..l /\ j - k \in 1..l /\ p[i - k] = p[j - k]
      BY <1>2, <1>5, <2>2
    <3>2. i - k = j - k
      BY <1>1, <3>1 DEF Along, Strung
    <3> QED
      BY <3>2
  <2>3. \A x \in 1..(l + k) : IF x <= k THEN q[x] \in G ELSE q[x] \in F
    BY <1>2
  <2>4. i <= k <=> j <= k
    BY <1>5, <2>3
  <2> QED
    BY <2>1, <2>2, <2>4
<1>6. l + k # 0 /\ l + k \in Nat /\ 1 \in 1..k /\ q[1] = r[1]
  OBVIOUS
<1>7. ASSUME NEW i \in 1..(l + k)
      PROVE  m[q[i]] = IF i = l + k THEN Null ELSE q[i + 1]
  <2>1. CASE i < k
    <3>1. m[q[i]] = r[i + 1] /\ i + 1 \in 1..(l + k) /\ q[i + 1] = r[i + 1]
      BY <2>1
    <3> QED
      BY <2>1, <3>1
  <2>2. CASE i = k
    <3>1. m[q[i]] = h
      BY <2>2
    <3>2. l # 0 => i + 1 \in 1..(l + k) /\ q[i + 1] = p[1]
      BY <2>2
    <3>3. h = IF l = 0 THEN Null ELSE p[1]
      BY <1>1 DEF Along, Strung
    <3> QED
      BY <2>2, <3>1, <3>2, <3>3
  <2>3. CASE i > k
    <3>1. i - k \in 1..l /\ q[i] = p[i - k] /\ p[i - k] \in F
      BY <1>2, <2>3
    <3>2. n[p[i - k]] = IF i - k = l THEN Null ELSE p[(i - k) + 1]
      BY <1>1, <3>1 DEF Along, Strung
    <3>3. i # l + k => i + 1 \in 1..(l + k) /\ q[i + 1] = p[(i + 1) - k] /\ (i + 1) - k = (i - k) + 1
      BY <2>3
    <3>4. i - k = l <=> i = l + k
      OBVIOUS
    <3> HIDE DEF q
    <3> QED
      BY <3>1, <3>2, <3>3, <3>4
  <2> QED
    BY <2>1, <2>2, <2>3
<1> HIDE DEF q
<1>8. Along(l + k, q, F \cup G, m, r[1])
  BY <1>3, <1>4, <1>5, <1>6, <1>7 DEF Along, Strung
<1> QED
  BY <1>6, <1>8 DEF Path

LEMMA PathPush ==
  ASSUME NEW F, NEW n, NEW m, NEW h, NEW c, c \notin F, c # Null, Null \notin F, Path(F, n, h),
         m[c] = h, \A d \in F : m[d] = n[d]
  PROVE  Path(F \cup {c}, m, c)
<1> DEFINE r == [i \in 1..1 |-> c]
<1>1. /\ r \in [1..1 -> {c}] /\ r[1] = c /\ \A d \in {c} : r[1] = d
      /\ \A i \in 1..1 : i = 1
  OBVIOUS
<1> HIDE DEF r
<1>2. {c} \cap F = {} /\ Null \notin {c} /\ 1 \in Nat \ {0} /\ 1 \in 1..1
  OBVIOUS
<1>3. \A d \in {c} : \E i \in 1..1 : r[i] = d
  BY <1>1, <1>2
<1>4. \A i, j \in 1..1 : r[i] = r[j] => i = j
  BY <1>1
<1>5. \A i \in 1..1 : m[r[i]] = IF i = 1 THEN h ELSE r[i + 1]
  BY <1>1
<1>6. Strung(1, r, {c}, m, h)
  BY <1>1, <1>3, <1>4, <1>5 DEF Strung
<1>7. Path(F \cup {c}, m, r[1])
  BY <1>2, <1>6, PathBefore
<1> QED
  BY <1>1, <1>7

LEMMA PathGrow ==
  ASSUME NEW k \in Nat, NEW l \in Nat, k < l, NEW F \in SUBSET (1..k), NEW n, NEW m, NEW h,
         Path(F, n, h), \A c \in F : m[c] = n[c],
         \A c \in (k + 1)..(l - 1) : m[c] = c + 1, m[l] = h
  PROVE  Path(F \cup (k + 1)..l, m, k + 1)
<1> DEFINE G == (k + 1)..l
           r == [i \in 1..(l - k) |-> k + i]
<1>1. l - k \in Nat \ {0} /\ r \in [1..(l - k) -> G] /\ r[1] = k + 1
  OBVIOUS
<1>2. G \cap F = {} /\ Null \notin G /\ Null \notin F
  BY DEF Null
<1>3. ASSUME NEW c \in G PROVE \E i \in 1..(l - k) : r[i] = c
  <2>1. c - k \in 1..(l - k) /\ r[c - k] = c
    OBVIOUS
  <2> QED
    BY <2>1
<1>4. \A i, j \in 1..(l - k) : r[i] = r[j] => i = j
  OBVIOUS
<1>5. ASSUME NEW i \in 1..(l - k)
      PROVE  m[r[i]] = IF i = l - k THEN h ELSE r[i + 1]
  <2>1. r[i] = k + i
    OBVIOUS
  <2>2. CASE i = l - k
    BY <2>1, <2>2
  <2>3. CASE i # l - k
    <3>1. k + i \in (k + 1)..(l - 1) /\ r[i + 1] = k + (i + 1)
      BY <2>3
    <3> QED
      BY <2>1, <2>3, <3>1
  <2> QED
    BY <2>2, <2>3
<1> HIDE DEF r, G
<1>6. Strung(l - k, r, G, m, h)
  BY <1>1, <1>3, <1>4, <1>5 DEF Strung
<1>7. Path(F \cup G, m, r[1])
  BY <1>1, <1>2, <1>6, PathBefore
<1> QED
  BY <1>1, <1>7 DEF G

LEMMA ChainPop ==
  ASSUME NEW F, NEW n, NEW m, NEW h \in F, Null \notin F, Chain(F, n, h),
         \A c \in F \ {h} : m[c] = n[c]
  PROVE  Chain(F \ {h}, m, n[h])
  BY PathPop DEF Chain

LEMMA ChainPush ==
  ASSUME NEW F, NEW n, NEW m, NEW h, NEW c, c \notin F, c # Null, Null \notin F, Chain(F, n, h),
         m[c] = h, \A d \in F : m[d] = n[d]
  PROVE  Chain(F \cup {c}, m, c)
  BY PathPush DEF Chain

LEMMA ChainSame ==
  ASSUME NEW F, NEW n, NEW m, NEW h, Chain(F, n, h), \A c \in F : m[c] = n[c]
  PROVE  Chain(F, m, h)
  BY PathSame DEF Chain

LEMMA ChainGrow ==
  ASSUME NEW k \in Nat, NEW l \in Nat, k < l, NEW F \in SUBSET (1..k), NEW n, NEW m, NEW h,
         Chain(F, n, h), \A c \in F : m[c] = n[c],
         \A c \in (k + 1)..(l - 1) : m[c] = c + 1, m[l] = h
  PROVE  Chain(F \cup (k + 1)..l, m, k + 1)
<1>1. h \in F \cup {Null} /\ h \notin (k + 1)..l
  BY DEF Chain, Null
<1>2. \A c \in (k + 1)..l : \/ m[c] = c + 1 /\ c + 1 \in (k + 2)..l
                            \/ c = l /\ m[c] = h
  OBVIOUS
<1>3. \A c \in F : /\ m[c] \in F \cup {Null} /\ m[c] \notin (k + 1)..l
                   /\ m[c] # Null => m[c] # h
  BY DEF Chain, Null
<1>4. \A c \in F \cup (k + 1)..l : m[c] \in (F \cup (k + 1)..l) \cup {Null}
  BY <1>1, <1>2, <1>3
<1>5. \A c \in F \cup (k + 1)..l : m[c] # k + 1
  BY <1>1, <1>2, <1>3 DEF Null
<1>6. ASSUME NEW c \in F \cup (k + 1)..l, NEW d \in F \cup (k + 1)..l, m[c] = m[d], m[c] # Null
      PROVE  c = d
  <2>1. CASE c \in F /\ d \in F
    BY <2>1, <1>6 DEF Chain
  <2>2. CASE c \notin F /\ d \notin F
    BY <2>2, <1>6, <1>1, <1>2
  <2>3. CASE c \in F /\ d \notin F
    BY <2>3, <1>6, <1>1, <1>2, <1>3
  <2>4. CASE c \notin F /\ d \in F
    BY <2>4, <1>6, <1>1, <1>2, <1>3
  <2> QED
    BY <2>1, <2>2, <2>3, <2>4
<1>7. Path(F \cup (k + 1)..l, m, k + 1)
  BY PathGrow DEF Chain
<1> QED
  BY <1>4, <1>5, <1>6, <1>7 DEF Chain

LEMMA FreeFacts ==
  ASSUME IInv
  PROVE  Null \notin Free /\ Free \in SUBSET (1..made) /\ made \in Nat /\ 1..made \subseteq Container
  BY DEF Free, Null, IInv, Types, Container

(* A container that is taken passes from its voice to the mixer.           *)
LEMMA TakenOnce ==
  ASSUME IInv, CalcSourceParams
  PROVE  /\ Places' = Places
         /\ Attached' \subseteq Attached /\ \A v \in Attached' : update'[v] = update[v]
         /\ InCall' = InCall
         /\ InMixer' = {} \/ \E w \in Attached \ Attached' : InMixer' = {update[w]}
         /\ UNCHANGED <<made, next, free, call>>
         /\ mixer'.pc # "push"
<1>1. /\ mixer.v \in Voices /\ InMixer = {} /\ InCall' = InCall /\ mixer'.pc # "push"
      /\ UNCHANGED <<made, next, free, call>>
  BY DEF CalcSourceParams, List, Others, Take, Taking, InMixer, InCall
<1>2. CASE update' = update /\ mixer'.pc = "take"
  <2>1. InMixer' = {} /\ Attached' = Attached
    BY <1>2 DEF InMixer, Attached
  <2> QED
    BY <1>1, <1>2, <2>1 DEF Places
<1>3. CASE /\ update[mixer.v] # Null
           /\ update' = [update EXCEPT ![mixer.v] = Null]
           /\ mixer'.pc = "copy" /\ mixer'.c = update[mixer.v]
  <2>1. /\ InMixer' = {update[mixer.v]} /\ Attached' = Attached \ {mixer.v}
        /\ mixer.v \in Attached
    BY <1>1, <1>3 DEF IInv, Types, Attached, InMixer
  <2>2. \A v \in Attached' : update'[v] = update[v]
    BY <1>1, <1>3, <2>1 DEF IInv, Types, Attached
  <2>3. {update[v] : v \in Attached} = {update[v] : v \in Attached'} \cup {update[mixer.v]}
    BY <2>1
  <2> QED
    BY <1>1, <2>1, <2>2, <2>3 DEF Places
<1> QED
  BY <1>2, <1>3 DEF CalcSourceParams, Take, Taking

LEMMA ApartCalc ==
  ASSUME IInv, CalcSourceParams
  PROVE  Apart'
<1>1. Apart
  BY DEF IInv, OneOwner
<1>2. InMixer' \cap InCall' = {}
  BY <1>1, TakenOnce DEF Apart
<1>3. \A v, w \in Attached' : update'[v] = update'[w] => v = w
  BY <1>1, TakenOnce DEF Apart
<1>4. \A v \in Attached' : update'[v] \notin InMixer' /\ update'[v] \notin InCall'
  BY <1>1, TakenOnce DEF Apart
<1> QED
  BY <1>1, <1>2, <1>3, <1>4, TakenOnce DEF Apart

(* A container that is supplied takes the place of the one it replaces.    *)
LEMMA SwapEffect ==
  ASSUME IInv, SupplySwap
  PROVE  /\ call.v \in Voices /\ InCall = {call.c} /\ call.c \in Container
         /\ InMixer' = InMixer
         /\ InCall' = {update[v] : v \in Attached \cap {call.v}}
         /\ Attached' = Attached \cup {call.v}
         /\ update'[call.v] = call.c /\ \A v \in Voices \ {call.v} : update'[v] = update[v]
         /\ call'.pc \notin {"pop", "push"}
         /\ UNCHANGED <<made, next, free, mixer>>
<1>1. /\ call.v \in Voices /\ call.c \in Container /\ call.c # Null /\ call.pc = "swap"
      /\ call.then \in {"started", "done", "all"}
  BY DEF SupplySwap, IInv, Types, CallFields, Supplies, Gathering, Null, Container
<1>2. update' = [update EXCEPT ![call.v] = call.c] /\ update \in [Voices -> Container \cup {Null}]
  BY DEF SupplySwap, IInv, Types
<1>3. UNCHANGED <<made, next, free, mixer>>
  BY DEF SupplySwap, List
<1>4. CASE update[call.v] # Null
  <2>1. call'.pc = "link" /\ call'.c = update[call.v]
    BY <1>4 DEF SupplySwap, Supplying
  <2> QED
    BY <1>1, <1>2, <1>3, <1>4, <2>1 DEF InCall, InMixer, Attached
<1>5. CASE update[call.v] = Null
  <2>1. call'.pc = call.then
    BY <1>5 DEF SupplySwap, Supplying, Supplied
  <2> QED
    BY <1>1, <1>2, <1>3, <1>5, <2>1 DEF InCall, InMixer, Attached
<1> QED
  BY <1>4, <1>5

LEMMA ApartSwap ==
  ASSUME IInv, SupplySwap
  PROVE  Apart' /\ Places' = Places
<1>1. Apart
  BY DEF IInv, OneOwner
<1>2. {update'[v] : v \in Attached'} = {update[v] : v \in Attached \ {call.v}} \cup {call.c}
  BY SwapEffect DEF Attached
<1>3. {update[v] : v \in Attached} = {update[v] : v \in Attached \ {call.v}} \cup InCall'
  BY SwapEffect
<1>4. Places' = Places
  BY <1>2, <1>3, SwapEffect DEF Places
<1>5. ASSUME NEW v \in Attached', NEW w \in Attached', update'[v] = update'[w]
      PROVE  v = w
  BY <1>1, <1>5, SwapEffect DEF Apart, Attached
<1>6. ASSUME NEW v \in Attached' PROVE update'[v] \notin InCall' \cup InMixer'
  BY <1>1, <1>6, SwapEffect DEF Apart, Attached
<1>7. InCall' \cap InMixer' = {}
  BY <1>1, SwapEffect DEF Apart
<1> QED
  BY <1>1, <1>4, <1>5, <1>6, <1>7, SwapEffect DEF Apart

LEMMA ApartKept ==
  ASSUME Apart, update' = update, made' = made \/ (made \in Nat /\ made' \in Nat /\ made <= made'),
         InCall' \subseteq InCall, InMixer' \subseteq InMixer
  PROVE  Apart'
<1>1. Attached' = Attached
  BY DEF Attached
<1>2. Places' \subseteq Places
  BY <1>1 DEF Places
<1>3. 1..made \subseteq 1..made'
  OBVIOUS
<1> QED
  BY <1>1, <1>2, <1>3 DEF Apart

LEMMA ApartNext == ASSUME IInv, Next PROVE Apart'
<1>0. Types /\ Apart
  BY DEF IInv, OneOwner
<1>1. CASE SupplyLoad \/ SupplyLink \/ SupplyPush
  <2>1. /\ update' = update /\ made' = made /\ mixer' = mixer
        /\ call.pc \in {"supply", "link", "push"}
        /\ \/ call'.pc \notin {"swap", "link", "push"}
           \/ call.pc \in {"link", "push"} /\ call'.c = call.c
    BY <1>0, <1>1 DEF SupplyLoad, SupplyLink, SupplyPush, Supplying, Supplied, List, Types,
                      CallFields, Supplies, Gathering
  <2>2. InCall' \subseteq InCall /\ InMixer' = InMixer
    BY <2>1 DEF InCall, InMixer
  <2> QED
    BY <1>0, <2>1, <2>2, ApartKept
<1>2. CASE allocVoiceProps
  <2>1. /\ update' = update /\ made \in Nat /\ made' \in Nat /\ made <= made' /\ mixer' = mixer
        /\ call'.pc = "supply"
    BY <1>0, <1>2 DEF allocVoiceProps, Supplying, Types
  <2>2. InCall' = {} /\ InMixer' = InMixer
    BY <2>1 DEF InCall, InMixer
  <2> QED
    BY <1>0, <2>1, <2>2, ApartKept
<1>3. CASE SupplyPop
  <2>1. CASE free = call.c
    <3>1. /\ update' = update /\ made' = made /\ InMixer' = InMixer /\ InCall' = {call.c}
          /\ Attached' = Attached /\ call.c \in Free
      BY <1>3, <2>1 DEF SupplyPop, Supplying, InCall, InMixer, Attached, IInv, OneOwner, Linked
    <3>2. Places' \subseteq Places \cup {call.c} /\ call.c \in 1..made /\ call.c \notin Places
      BY <3>1 DEF Places, Free
    <3>3. call.c \notin InMixer /\ \A v \in Attached : update[v] # call.c
      BY <3>2 DEF Places
    <3> QED
      BY <1>0, <3>1, <3>2, <3>3 DEF Apart
  <2>2. CASE free # call.c
    <3>1. update' = update /\ made' = made /\ mixer' = mixer /\ call'.pc = "pop"
      BY <1>3, <2>2 DEF SupplyPop, Supplying
    <3>2. InCall' = {} /\ InMixer' = InMixer
      BY <3>1 DEF InCall, InMixer
    <3> QED
      BY <1>0, <3>1, <3>2, ApartKept
  <2> QED
    BY <2>1, <2>2
<1>4. CASE SupplySwap
  BY <1>4, ApartSwap
<1>7. CASE \/ \E s \in Source : SetSource(s)
           \/ \E s \in Source, v \in Voices : InitVoice(s, v)
           \/ UpdateAllSourceProps
  <2>1. UNCHANGED <<update, made, mixer>>
    BY <1>0, <1>7, SetSourceEffect, InitVoiceEffect, UpdateAllEffect
  <2>2. call' = call \/ call'.pc \in {"supply", "all", "idle"}
    <3>1. CASE \E s \in Source : SetSource(s)
      BY <3>1 DEF SetSource, Supply
    <3>2. CASE \E s \in Source, v \in Voices : InitVoice(s, v)
      BY <3>2 DEF InitVoice, Supply
    <3>3. CASE UpdateAllSourceProps
      BY <3>3 DEF UpdateAllSourceProps, Supply, Idle
    <3> QED
      BY <1>7, <3>1, <3>2, <3>3
  <2>3. InCall' \subseteq InCall /\ InMixer' = InMixer
    BY <2>1, <2>2 DEF InCall, InMixer
  <2> QED
    BY <1>0, <2>1, <2>3, ApartKept
<1>9. CASE UpdateDeviceParams
  <2>1. InCall' = {} /\ InMixer' = {} /\ Attached' = {}
    BY <1>0, <1>9, ResetEffect DEF UpdateDeviceParams, InCall, InMixer, Attached
  <2> QED
    BY <2>1 DEF Apart, Places
<1>11. CASE VoiceStarted \/ Done \/ deferUpdates \/ HoldUpdates \/ AwaitUpdate \/ ReleaseUpdates
  <2>1. /\ UNCHANGED <<update, made, mixer>>
        /\ call' = call \/ call'.pc \in {"idle", "all"}
    BY <1>11 DEF VoiceStarted, Done, deferUpdates, HoldUpdates, AwaitUpdate, ReleaseUpdates, List, Idle
  <2>2. InCall' \subseteq InCall /\ InMixer' = InMixer
    BY <2>1 DEF InCall, InMixer
  <2> QED
    BY <1>0, <2>1, <2>2, ApartKept
<1>12. CASE CalcSourceParams
  BY <1>12, ApartCalc
<1>13. CASE \/ Copy \/ GiveBackLink \/ GiveBackPush
            \/ UpdateBegins \/ UpdateHeld \/ UpdateEnds \/ MixVoices
  <2>1. /\ UNCHANGED <<update, made, call>>
        /\ \/ mixer'.pc \notin {"copy", "link", "push"}
           \/ mixer.pc \in {"copy", "link", "push"} /\ mixer'.c = mixer.c
    BY <1>13 DEF Copy, GiveBackLink, GiveBackPush, UpdateBegins, UpdateHeld, UpdateEnds, MixVoices,
                 Take, Taking, Idle, List, Others
  <2>2. InCall' = InCall /\ InMixer' \subseteq InMixer
    BY <2>1 DEF InCall, InMixer
  <2> QED
    BY <1>0, <2>1, <2>2, ApartKept
<1> QED
  BY <1>1, <1>2, <1>3, <1>4, <1>7, <1>9, <1>11, <1>12, <1>13
  DEF Next, Call, CallGoesOn, UpdateSourceProps, Mix

(* What a step makes of the free containers.                               *)
FreeKept ==
  /\ Free' = Free
  /\ free' = free /\ \A c \in Free : next'[c] = next[c]

LEMMA LinkedNext == ASSUME IInv, Next PROVE Linked'
<1> USE FreeFacts, ApartNext DEF IInv, Types, OneOwner, CallFields, MixerFields
<1>1. CASE SupplyLoad
  <2>1. FreeKept
    BY <1>1 DEF SupplyLoad, List, Supplying, FreeKept, Free, Places, Attached, InCall, InMixer
  <2>2. next' = next /\ mixer' = mixer
    BY <1>1 DEF SupplyLoad, List
  <2> QED
    BY <1>1, <2>1, <2>2 DEF FreeKept, Linked, Chain, SupplyLoad, Supplying
<1>2. CASE allocVoiceProps
  <2>1. /\ made' = made + Cluster /\ made' \in Nat /\ free' = made + 1
        /\ \A c \in (made + 1)..(made' - 1) : next'[c] = c + 1
        /\ next'[made'] = free
        /\ \A c \in 1..made : next'[c] = next[c]
    BY <1>2 DEF allocVoiceProps, Container
  <2>2. Places' = Places
    BY <1>2 DEF allocVoiceProps, Supplying, Places, Attached, InCall, InMixer
  <2>3. Free' = Free \cup (made + 1)..made'
    BY <2>1, <2>2 DEF Free, Apart
  <2>4. Chain(Free \cup (made + 1)..made', next', made + 1)
    <3>1. made \in Nat /\ made' \in Nat /\ made < made'
      BY <2>1
    <3>2. /\ Free \in SUBSET (1..made) /\ Chain(Free, next, free)
          /\ \A c \in Free : next'[c] = next[c]
      BY <2>1 DEF Linked
    <3> HIDE DEF IInv, Types, OneOwner, CallFields, MixerFields
    <3> QED
      BY <2>1, <3>1, <3>2, ChainGrow
  <2>5. /\ call'.pc = "supply" /\ mixer' = mixer
        /\ mixer.pc = "push" => next'[mixer.c] = next[mixer.c]
    BY <1>2, <2>1 DEF allocVoiceProps, Supplying, Apart, Places, InMixer
  <2> QED
    BY <2>1, <2>3, <2>4, <2>5 DEF Linked
<1>3. CASE SupplyPop
  <2>1. CASE free = call.c
    <3>1. /\ free' = next[free] /\ free \in Free
          /\ \A c \in Free \ {free} : next'[c] = next[c]
          /\ made' = made /\ call'.pc = "swap" /\ call'.c = free /\ mixer' = mixer
          /\ mixer.pc = "push" => next'[mixer.c] = next[mixer.c]
      BY <1>3, <2>1 DEF SupplyPop, Supplying, Linked, Free, Places, InMixer
    <3>2. Places' = Places \cup {free}
      BY <1>3, <2>1 DEF SupplyPop, Supplying, Places, Attached, InCall, InMixer
    <3>3. Free' = Free \ {free}
      BY <3>1, <3>2 DEF Free
    <3>4. Chain(Free \ {free}, next', next[free])
      BY <3>1, ChainPop DEF Linked
    <3> QED
      BY <3>1, <3>3, <3>4 DEF Linked
  <2>2. CASE free # call.c
    <3>1. FreeKept
      BY <1>3, <2>2 DEF SupplyPop, Supplying, FreeKept, Free, Places, Attached, InCall, InMixer
    <3>2. next' = next /\ mixer' = mixer /\ call'.pc = "pop" /\ call'.c = free /\ call'.link = next[free]
      BY <1>3, <2>2 DEF SupplyPop, Supplying
    <3>3. free \in Free
      BY <1>3 DEF SupplyPop, Linked, Chain
    <3> QED
      BY <3>1, <3>2, <3>3 DEF FreeKept, Linked, Chain
  <2> QED
    BY <2>1, <2>2
<1>4. CASE SupplySwap
  <2>1. Free' = Free
    BY <1>4, SwapEffect, ApartSwap DEF Free
  <2> QED
    BY <1>4, <2>1, SwapEffect DEF Linked
<1>5. CASE SupplyLink
  <2>1. FreeKept /\ next'[call.c] = free
    BY <1>5 DEF SupplyLink, Supplying, FreeKept, Free, Places, Attached, InCall, InMixer
  <2>2. /\ call'.pc = "push" /\ call'.c = call.c /\ call'.link = free /\ mixer' = mixer
        /\ mixer.pc = "push" => next'[mixer.c] = next[mixer.c]
    BY <1>5 DEF SupplyLink, Supplying, Apart, InCall, InMixer
  <2> QED
    BY <2>1, <2>2, ChainSame DEF FreeKept, Linked
<1>6. CASE SupplyPush
  <2>1. CASE free = call.link
    <3>1. /\ free' = call.c /\ call.c \notin Free /\ call.c # Null /\ next' = next
          /\ next[call.c] = free /\ made' = made /\ mixer' = mixer
          /\ call'.pc \notin {"pop", "push"}
      BY <1>6, <2>1 DEF SupplyPush, Supplied, Supplying, Linked, Free, Places, InCall, Null,
                        Container, Supplies, Gathering
    <3>2. Places' = Places \ {call.c} /\ call.c \in Places
      BY <1>6, <2>1 DEF SupplyPush, Supplied, Supplying, Places, Attached, InCall, InMixer, Apart,
                        Supplies, Gathering
    <3>3. Free' = Free \cup {call.c}
      BY <3>1, <3>2 DEF Free, Apart
    <3>4. Chain(Free \cup {call.c}, next, call.c)
      BY <3>1, ChainPush DEF Linked
    <3> QED
      BY <3>1, <3>3, <3>4 DEF Linked
  <2>2. CASE free # call.link
    <3>1. FreeKept
      BY <1>6, <2>2 DEF SupplyPush, Supplying, FreeKept, Free, Places, Attached, InCall, InMixer
    <3>2. next' = next /\ mixer' = mixer /\ call'.pc = "link"
      BY <1>6, <2>2 DEF SupplyPush, Supplying
    <3> QED
      BY <3>1, <3>2 DEF FreeKept, Linked
  <2> QED
    BY <2>1, <2>2
<1>7. CASE UpdateDeviceParams
  <2>1. Free' = {} /\ free' = Null /\ call'.pc = "all" /\ mixer'.pc = "idle"
    BY <1>7, ResetEffect DEF UpdateDeviceParams, Free
  <2> QED
    BY <2>1, PathEmpty DEF Linked, Chain
<1>8. CASE GiveBackLink
  <2>1. FreeKept /\ next'[mixer.c] = free
    BY <1>8 DEF GiveBackLink, Taking, Others, FreeKept, Free, Places, Attached, InCall, InMixer
  <2>2. /\ mixer'.pc = "push" /\ mixer'.c = mixer.c /\ mixer'.link = free /\ call' = call
        /\ call.pc = "push" => next'[call.c] = next[call.c]
        /\ call.pc = "pop" => next'[call.c] = next[call.c]
    BY <1>8 DEF GiveBackLink, Taking, Others, Apart, InCall, InMixer, Linked, Free, Places
  <2> QED
    BY <2>1, <2>2, ChainSame DEF FreeKept, Linked
<1>9. CASE GiveBackPush
  <2>1. CASE free = mixer.link
    <3>1. /\ free' = mixer.c /\ mixer.c \notin Free /\ mixer.c # Null /\ next' = next
          /\ next[mixer.c] = free /\ made' = made /\ call' = call /\ mixer'.pc = "take"
      BY <1>9, <2>1 DEF GiveBackPush, Others, Take, Linked, Free, Places, InMixer, Null, Container
    <3>2. Places' = Places \ {mixer.c} /\ mixer.c \in Places
      BY <1>9, <2>1 DEF GiveBackPush, Others, Take, Places, Attached, InCall, InMixer, Apart
    <3>3. Free' = Free \cup {mixer.c}
      BY <3>1, <3>2 DEF Free, Apart
    <3>4. Chain(Free \cup {mixer.c}, next, mixer.c)
      BY <3>1, ChainPush DEF Linked
    <3> QED
      BY <3>1, <3>3, <3>4 DEF Linked
  <2>2. CASE free # mixer.link
    <3>1. FreeKept
      BY <1>9, <2>2 DEF GiveBackPush, Others, Taking, FreeKept, Free, Places, Attached, InCall, InMixer
    <3>2. next' = next /\ call' = call /\ mixer'.pc = "link"
      BY <1>9, <2>2 DEF GiveBackPush, Others, Taking
    <3> QED
      BY <3>1, <3>2 DEF FreeKept, Linked
  <2> QED
    BY <2>1, <2>2
<1>10. CASE CalcSourceParams
  <2>1. Free' = Free
    BY <1>10, TakenOnce DEF Free
  <2> QED
    BY <1>10, <2>1, TakenOnce DEF Linked
<1>11. CASE Copy
  <2>1. Free' = Free
    BY <1>11 DEF Copy, Taking, List, Others, Free, Places, Attached, InCall, InMixer
  <2> QED
    BY <1>11, <2>1 DEF Copy, Taking, List, Others, Linked
<1>12. CASE UpdateBegins \/ UpdateHeld \/ UpdateEnds \/ MixVoices
  <2>1. Free' = Free
    BY <1>12 DEF UpdateBegins, UpdateHeld, UpdateEnds, MixVoices, Take, Idle, List, Others,
                 Free, Places, Attached, InCall, InMixer
  <2> QED
    BY <1>12, <2>1 DEF UpdateBegins, UpdateHeld, UpdateEnds, MixVoices, Take, Idle, List, Others,
                       Linked
<1>13. CASE VoiceStarted \/ Done \/ deferUpdates \/ HoldUpdates \/ AwaitUpdate \/ ReleaseUpdates
  <2>1. Free' = Free
    BY <1>13 DEF VoiceStarted, Done, deferUpdates, HoldUpdates, AwaitUpdate, ReleaseUpdates, List,
                 Idle, Free, Places, Attached, InCall, InMixer
  <2> QED
    BY <1>13, <2>1 DEF VoiceStarted, Done, deferUpdates, HoldUpdates, AwaitUpdate, ReleaseUpdates,
                       List, Idle, Linked
<1>14. CASE \/ UpdateAllSourceProps
            \/ \E s \in Source : SetSource(s)
            \/ \E s \in Source, v \in Voices : InitVoice(s, v)
  <2>1. /\ call.pc \in {"idle", "all"} /\ call'.pc \in {"idle", "all", "supply"}
        /\ UNCHANGED <<update, next, made, free, mixer>>
    <3>1. CASE UpdateAllSourceProps
      BY <3>1 DEF UpdateAllSourceProps, Supply, Idle, List
    <3>2. CASE \E s \in Source : SetSource(s)
      BY <3>2 DEF SetSource, Supply, List
    <3>3. CASE \E s \in Source, v \in Voices : InitVoice(s, v)
      BY <3>3 DEF InitVoice, Supply, List
    <3> QED
      BY <1>14, <3>1, <3>2, <3>3
  <2>2. Free' = Free
    BY <2>1 DEF Free, Places, Attached, InCall, InMixer
  <2> QED
    BY <2>1, <2>2 DEF Linked
<1> QED
  BY <1>1, <1>2, <1>3, <1>4, <1>5, <1>6, <1>7, <1>8, <1>9, <1>10, <1>11, <1>12, <1>13, <1>14
  DEF Next, Call, CallGoesOn, UpdateSourceProps, Mix

-----------------------------------------------------------------------------
(* The types, and where the mixer and the call stand.                      *)

LEMMA CallFieldsNext == ASSUME IInv, Next PROVE CallFields'
<1> USE DEF IInv, Types, CallFields
<1>1. CASE SupplySteps
  <2>1. call'.pc \in {"swap", "link", "push"} => call'.c \in Container
    BY <1>1 DEF SupplySteps, SupplyLoad, allocVoiceProps, SupplyPop, SupplySwap, SupplyLink,
                SupplyPush, Supplying, Supplied, OneOwner, Linked, Free, Supplies, Gathering
  <2> QED
    BY <1>1, <2>1, SupplyEffect DEF Supplies, Gathering
<1>2. CASE Mix
  BY <1>2, MixEffect
<1>3. CASE UpdateAllSourceProps
  <2>1. call.pc = "all" /\ call.at \in 1..(NVoices + 1)
    BY <1>3 DEF UpdateAllSourceProps
  <2>2. call.at \in Voices => /\ call.at + 1 \in 1..(NVoices + 1)
                              /\ voice[call.at].sid # NoSource => voice[call.at].sid \in Source
    BY DEF Voices
  <2> QED
    BY <1>3, <2>1, <2>2, UpdateAllEffect DEF Supply, Idle, Supplies, Gathering
<1>4. CASE UpdateDeviceParams \/ AwaitUpdate \/ VoiceStarted \/ Done
  BY <1>4 DEF UpdateDeviceParams, AwaitUpdate, VoiceStarted, Done, Idle, Supplies, Gathering
<1>5. CASE deferUpdates \/ HoldUpdates \/ ReleaseUpdates
  BY <1>5 DEF deferUpdates, HoldUpdates, ReleaseUpdates
<1>6. CASE \E s \in Source : SetSource(s)
  <2>1. PICK s \in Source : SetSource(s)
    BY <1>6
  <2>2. HasVoice(s) => source[s].vidx \in Voices
    BY DEF HasVoice, Null
  <2> QED
    BY <2>1, <2>2, SetSourceEffect DEF Supply, Supplies, Gathering
<1>7. CASE \E s \in Source, v \in Voices : InitVoice(s, v)
  BY <1>7, InitVoiceEffect DEF Supply, Supplies, Gathering
<1> QED
  BY <1>1, <1>2, <1>3, <1>4, <1>5, <1>6, <1>7
  DEF Next, Call, CallGoesOn, UpdateSourceProps, SupplySteps

LEMMA MixerFieldsNext == ASSUME IInv, Next PROVE MixerFields'
<1> USE DEF IInv, Types, MixerFields, Quiet, Updates
<1>1. CASE CalcSourceParams
  BY <1>1 DEF CalcSourceParams, Take, Taking, Voices, Null
<1>2. CASE Copy \/ GiveBackLink \/ GiveBackPush
  BY <1>2 DEF Copy, GiveBackLink, GiveBackPush, Take, Taking, Voices
<1>3. CASE UpdateBegins \/ UpdateHeld \/ UpdateEnds \/ MixVoices
  BY <1>3 DEF UpdateBegins, UpdateHeld, UpdateEnds, MixVoices, Take, Idle
<1>4. CASE SupplySteps
  BY <1>4, SupplyEffect
<1>5. CASE Call \/ VoiceStarted \/ Done \/ AwaitUpdate \/ UpdateAllSourceProps \/ ReleaseUpdates
  BY <1>5 DEF Call, SetSource, InitVoice, deferUpdates, HoldUpdates, UpdateDeviceParams,
              VoiceStarted, Done, AwaitUpdate, UpdateAllSourceProps, ReleaseUpdates
<1> QED
  BY <1>1, <1>2, <1>3, <1>4, <1>5
  DEF Next, CallGoesOn, UpdateSourceProps, SupplySteps, Mix

LEMMA DirtyTyped ==
  ASSUME source \in [Source -> [n : Nat, dirty : BOOLEAN, vidx : Voices \cup {Null}]], NEW s \in Source, NEW b \in BOOLEAN
  PROVE  [source EXCEPT ![s].dirty = b] \in [Source -> [n : Nat, dirty : BOOLEAN, vidx : Voices \cup {Null}]]
OBVIOUS

LEMMA CountTyped ==
  ASSUME source \in [Source -> [n : Nat, dirty : BOOLEAN, vidx : Voices \cup {Null}]],
         NEW s \in Source, NEW n \in Nat
  PROVE  [source EXCEPT ![s].n = n] \in [Source -> [n : Nat, dirty : BOOLEAN, vidx : Voices \cup {Null}]]
OBVIOUS

LEMMA CountDirtyTyped ==
  ASSUME source \in [Source -> [n : Nat, dirty : BOOLEAN, vidx : Voices \cup {Null}]],
         NEW s \in Source, NEW n \in Nat
  PROVE  [source EXCEPT ![s].n = n, ![s].dirty = TRUE] \in
           [Source -> [n : Nat, dirty : BOOLEAN, vidx : Voices \cup {Null}]]
OBVIOUS

LEMMA StepTyped ==
  ASSUME voice \in [Voices -> [sid : Source \cup {NoSource}, step : BOOLEAN, props : Props]], NEW v \in Voices, NEW b \in BOOLEAN
  PROVE  [voice EXCEPT ![v].step = b] \in [Voices -> [sid : Source \cup {NoSource}, step : BOOLEAN, props : Props]]
OBVIOUS

LEMMA CopyTyped ==
  ASSUME voice \in [Voices -> [sid : Source \cup {NoSource}, step : BOOLEAN, props : Props]],
         NEW v \in Voices, NEW b \in BOOLEAN, NEW p \in Props
  PROVE  [voice EXCEPT ![v].step = b, ![v].props = p] \in
           [Voices -> [sid : Source \cup {NoSource}, step : BOOLEAN, props : Props]]
OBVIOUS

LEMMA TypesNext == ASSUME IInv, Next PROVE Types'
<1> USE DEF IInv, Types
<1>1. CASE SupplySteps
  <2>1. /\ call.s \in Source /\ call.v \in Voices
        /\ call.pc \in {"swap", "link", "push"} => call.c \in Container
        /\ call.pc = "pop" => call.link \in Container \cup {Null} /\ free # Null
    BY <1>1, SupplyEffect, FreeFacts DEF CallFields, OneOwner, Linked
  <2>2. /\ next' \in [Container -> Container \cup {Null}]
        /\ made' \in 0..(NVoices + 2 + Cluster)
        /\ free' \in Container \cup {Null}
        /\ update' \in [Voices -> Container \cup {Null}]
    <3>1. CASE allocVoiceProps
      BY <3>1 DEF allocVoiceProps, Container
    <3>2. CASE SupplyLoad \/ SupplyPop \/ SupplySwap \/ SupplyLink \/ SupplyPush
      BY <2>1, <3>2 DEF SupplyLoad, SupplyPop, SupplySwap, SupplyLink, SupplyPush, List, Null
    <3> QED
      BY <1>1, <3>1, <3>2 DEF SupplySteps
  <2>3. holds' \in [Container -> Props]
    BY <1>1, <2>1 DEF SupplySteps, SupplyLoad, allocVoiceProps, SupplyPop, SupplySwap, SupplyLink,
                      SupplyPush, List, Props, Settings, Nothing
  <2> QED
    BY <1>1, <2>2, <2>3, SupplyEffect, CallFieldsNext, MixerFieldsNext
<1>2. CASE Mix
  <2>1. Nothing \in Props
    BY DEF Nothing, Props
  <2>2. CASE CalcSourceParams
    <3>1. voice' \in [Voices -> [sid : Source \cup {NoSource}, step : BOOLEAN, props : Props]]
      <4>1. CASE voice' = voice
        BY <4>1
      <4>2. CASE mixer.v \in Voices /\ voice' = [voice EXCEPT ![mixer.v].step = TRUE]
        BY <4>2
      <4> QED
        BY <2>2, <4>1, <4>2 DEF CalcSourceParams
    <3>2. update' \in [Voices -> Container \cup {Null}]
      BY <2>2 DEF CalcSourceParams, Null
    <3> QED
      BY <2>2, <3>1, <3>2, CalcEffect, CallFieldsNext, MixerFieldsNext
  <2>3. CASE Copy
    <3>1. holds[mixer.c] \in Props
      BY <2>3 DEF Copy, MixerFields
    <3>2. voice' = [voice EXCEPT ![mixer.v].step = TRUE, ![mixer.v].props = holds[mixer.c]]
      BY <2>3 DEF Copy
    <3>3. voice' \in [Voices -> [sid : Source \cup {NoSource}, step : BOOLEAN, props : Props]]
      <4>1. mixer.v \in Voices
        BY <2>3 DEF Copy, MixerFields
      <4> QED
        BY <3>1, <3>2, <4>1, CopyTyped
    <3> QED
      BY <1>2, <2>3, <3>3, CallFieldsNext, MixerFieldsNext DEF Copy, List, Others, Flags
  <2>4. CASE GiveBackLink
    BY <1>2, <2>4, CallFieldsNext, MixerFieldsNext DEF GiveBackLink, Others, Flags
  <2>5. CASE GiveBackPush
    BY <1>2, <2>1, <2>5, CallFieldsNext, MixerFieldsNext DEF GiveBackPush, MixerFields, Others, Flags
  <2>6. CASE MixVoices
    <3>1. voice' \in [Voices -> [sid : Source \cup {NoSource}, step : BOOLEAN, props : Props]]
      BY <2>6 DEF MixVoices
    <3>2. batch' \in [Voices -> Props]
      BY <2>1, <2>6 DEF MixVoices
    <3> QED
      BY <1>2, <2>6, <3>1, <3>2, CallFieldsNext, MixerFieldsNext DEF MixVoices, List, Others, Flags
  <2>7. CASE UpdateBegins \/ UpdateHeld \/ UpdateEnds
    BY <1>2, <2>7, CallFieldsNext, MixerFieldsNext
    DEF UpdateBegins, UpdateHeld, UpdateEnds, List, Others, Flags
  <2> QED
    BY <1>2, <2>2, <2>3, <2>4, <2>5, <2>6, <2>7 DEF Mix
<1>3. CASE UpdateDeviceParams
  <2>1. voice' \in [Voices -> [sid : Source \cup {NoSource}, step : BOOLEAN, props : Props]]
    BY <1>3 DEF UpdateDeviceParams
  <2>2. source' \in [Source -> [n : Nat, dirty : BOOLEAN, vidx : Voices \cup {Null}]]
    <3>1. source' = [s \in Source |-> [source[s] EXCEPT !.dirty = TRUE]]
      BY <1>3 DEF UpdateDeviceParams
    <3>2. ASSUME NEW s \in Source
          PROVE  [source[s] EXCEPT !.dirty = TRUE] \in [n : Nat, dirty : BOOLEAN, vidx : Voices \cup {Null}]
      <4>1. source[s] \in [n : Nat, dirty : BOOLEAN, vidx : Voices \cup {Null}]
        OBVIOUS
      <4> HIDE DEF Types, IInv
      <4> QED
        BY <4>1
    <3> QED
      BY <3>1, <3>2
  <2>3. Nothing \in Props
    BY DEF Nothing, Props
  <2> QED
    BY <1>3, <2>1, <2>2, <2>3, CallFieldsNext, MixerFieldsNext DEF UpdateDeviceParams
<1>4. CASE AwaitUpdate
  <2>1. batch' \in [Voices -> Props]
    BY <1>4 DEF AwaitUpdate, Settings, Nothing, Props, HasVoice
  <2> QED
    BY <1>4, <2>1, CallFieldsNext, MixerFieldsNext DEF AwaitUpdate, List
<1>5. CASE \E s \in Source : SetSource(s)
  <2>1. source' \in [Source -> [n : Nat, dirty : BOOLEAN, vidx : Voices \cup {Null}]]
    <3>1. PICK s \in Source : SetSource(s)
      BY <1>5
    <3>2. PICK n \in Nat : n = source[s].n + 1
      OBVIOUS
    <3>3. \/ source' = [source EXCEPT ![s].n = n]
          \/ source' = [source EXCEPT ![s].n = n, ![s].dirty = TRUE]
      BY <3>1, <3>2 DEF SetSource
    <3> QED
      <4>1. CASE source' = [source EXCEPT ![s].n = n]
        BY <4>1, CountTyped
      <4>2. CASE source' = [source EXCEPT ![s].n = n, ![s].dirty = TRUE]
        BY <4>2, CountDirtyTyped
      <4> QED
        BY <3>3, <4>1, <4>2
  <2> QED
    BY <1>5, <2>1, SetSourceEffect, CallFieldsNext, MixerFieldsNext
<1>6. CASE \E s \in Source, v \in Voices : InitVoice(s, v)
  <2>1. PICK s \in Source, v \in Voices : InitVoice(s, v)
    BY <1>6
  <2>2. voice' \in [Voices -> [sid : Source \cup {NoSource}, step : BOOLEAN, props : Props]]
    <3>1. voice' = [voice EXCEPT ![v].step = FALSE]
      BY <2>1 DEF InitVoice
    <3> QED
      BY <3>1, StepTyped
  <2>3. source' \in [Source -> [n : Nat, dirty : BOOLEAN, vidx : Voices \cup {Null}]]
    <3>1. source' = [source EXCEPT ![s].dirty = FALSE]
      BY <2>1 DEF InitVoice
    <3> QED
      BY <3>1, DirtyTyped
  <2> QED
    BY <1>6, <2>1, <2>2, <2>3, InitVoiceEffect, CallFieldsNext, MixerFieldsNext
<1>7. CASE VoiceStarted
  BY <1>7, CallFieldsNext, MixerFieldsNext DEF VoiceStarted, CallFields, List, Flags, Batch
<1>8. CASE UpdateAllSourceProps
  <2>1. source' \in [Source -> [n : Nat, dirty : BOOLEAN, vidx : Voices \cup {Null}]]
    <3>1. CASE source' = source
      BY <3>1
    <3>2. ASSUME NEW s \in Source, source' = [source EXCEPT ![s].dirty = FALSE]
          PROVE  source' \in [Source -> [n : Nat, dirty : BOOLEAN, vidx : Voices \cup {Null}]]
      BY <3>2, DirtyTyped
    <3> QED
      BY <1>8, <3>1, <3>2 DEF UpdateAllSourceProps
  <2>2. apply' \in {apply, "supplied"}
    BY <1>8, UpdateAllEffect
  <2> QED
    BY <1>8, <2>1, <2>2, UpdateAllEffect, CallFieldsNext, MixerFieldsNext
<1>9. CASE Done \/ deferUpdates \/ HoldUpdates \/ ReleaseUpdates
  BY <1>9, CallFieldsNext, MixerFieldsNext
  DEF Done, deferUpdates, HoldUpdates, ReleaseUpdates, List, Flags, Batch
<1> QED
  BY <1>1, <1>2, <1>3, <1>4, <1>5, <1>6, <1>7, <1>8, <1>9
  DEF Next, Call, CallGoesOn, UpdateSourceProps, SupplySteps

LEMMA PhasesNext == ASSUME IInv, Next PROVE Phases'
<1> USE DEF IInv, Phases
<1>1. CASE SupplySteps
  <2>1. SuppliesAll' = SuppliesAll
    BY <1>1, SupplyEffect DEF SuppliesAll, Supplies, Gathering, Types, CallFields
  <2> QED
    BY <1>1, <2>1, SupplyEffect
<1>2. CASE Mix
  <2>1. SuppliesAll' = SuppliesAll
    BY <1>2, MixEffect DEF SuppliesAll
  <2>2. updating' <=> mixer'.pc \in Updates \cup {"look", "end"}
    BY <1>2 DEF Mix, UpdateBegins, UpdateHeld, CalcSourceParams, Copy, GiveBackLink, GiveBackPush,
                UpdateEnds, MixVoices, Take, Taking, Idle, Updates
  <2>3. hold /\ apply \in {"held", "supplied"} => mixer'.pc \in Quiet
    BY <1>2 DEF Mix, UpdateBegins, UpdateHeld, CalcSourceParams, Copy, GiveBackLink, GiveBackPush,
                UpdateEnds, MixVoices, Take, Taking, Idle, Quiet
  <2>4. apply # "reset"
    BY <1>2 DEF Mix, UpdateBegins, UpdateHeld, CalcSourceParams, Copy, GiveBackLink, GiveBackPush,
                UpdateEnds, MixVoices
  <2>5. \A v \in Voices : batch'[v] = batch[v] \/ batch'[v] = Nothing
    BY <1>2 DEF Mix, UpdateBegins, UpdateHeld, CalcSourceParams, Copy, GiveBackLink, GiveBackPush,
                UpdateEnds, MixVoices, Types
  <2> QED
    BY <1>2, <2>1, <2>2, <2>3, <2>4, <2>5, MixEffect
<1>3. CASE UpdateAllSourceProps
  <2>1. SuppliesAll /\ call.pc = "all"
    BY <1>3 DEF UpdateAllSourceProps, SuppliesAll
  <2>2. CASE call.at \in Voices
    <3>1. SuppliesAll' /\ apply' = apply
      BY <1>3, <2>2, UpdateAllEffect DEF SuppliesAll, Supply, Supplies, Gathering
    <3> QED
      BY <1>3, <2>1, <3>1, UpdateAllEffect
  <2>3. CASE call.at \notin Voices
    <3>1. ~SuppliesAll' /\ apply' = "supplied"
      BY <1>3, <2>3, UpdateAllEffect DEF SuppliesAll, Idle, Supplies, Gathering
    <3>2. UNCHANGED <<batch, hold, updating, mixer>>
      BY <1>3, UpdateAllEffect
    <3>3. mixer.pc = "idle" => mixer.pc \in Quiet
      BY DEF Quiet
    <3> QED
      BY <2>1, <3>1, <3>2, <3>3
  <2> QED
    BY <2>2, <2>3
<1>4. CASE UpdateDeviceParams
  <2>1. /\ apply = "idle" /\ mixer.pc = "idle" /\ SuppliesAll'
    BY <1>4 DEF UpdateDeviceParams, SuppliesAll
  <2> QED
    BY <1>4, <2>1, ResetEffect
<1>5. CASE AwaitUpdate
  <2>1. /\ apply = "wait" /\ ~updating /\ apply' = "held" /\ SuppliesAll'
        /\ UNCHANGED <<hold, updating, mixer>>
    BY <1>5 DEF AwaitUpdate, SuppliesAll
  <2>2. mixer.pc \in Quiet
    BY <2>1 DEF Types, MixerFields, Quiet, Updates
  <2> QED
    BY <2>1, <2>2
<1>6. CASE deferUpdates \/ HoldUpdates \/ ReleaseUpdates
  BY <1>6 DEF deferUpdates, HoldUpdates, ReleaseUpdates, SuppliesAll, List, Batch
<1>7. CASE \/ \E s \in Source : SetSource(s)
           \/ \E s \in Source, v \in Voices : InitVoice(s, v)
           \/ VoiceStarted \/ Done
  <2>1. /\ ~SuppliesAll /\ ~SuppliesAll'
        /\ UNCHANGED <<apply, hold, updating, mixer, batch>>
    <3>1. CASE \E s \in Source : SetSource(s)
      BY <3>1, SetSourceEffect DEF SetSource, Supply, SuppliesAll, Supplies, Gathering
    <3>2. CASE \E s \in Source, v \in Voices : InitVoice(s, v)
      <4>1. call.pc = "idle" /\ call'.pc = "supply" /\ call'.then = "started"
        BY <3>2, InitVoiceEffect DEF InitVoice, Supply
      <4> QED
        BY <3>2, <4>1, InitVoiceEffect DEF SuppliesAll, Supplies, Gathering
    <3>3. CASE VoiceStarted \/ Done
      BY <3>3 DEF VoiceStarted, Done, Idle, SuppliesAll, Supplies, Gathering, Flags, Batch
    <3> QED
      BY <1>7, <3>1, <3>2, <3>3
  <2> QED
    BY <2>1
<1> QED
  BY <1>1, <1>2, <1>3, <1>4, <1>5, <1>6, <1>7
  DEF Next, Call, CallGoesOn, UpdateSourceProps, SupplySteps

-----------------------------------------------------------------------------
(* A batch on its way.                                                     *)

(* Steps that leave the batch to the voices it waits for.                  *)
LEMMA AwaitEffect ==
  ASSUME IInv, AwaitUpdate
  PROVE  /\ \A v \in Voices : batch'[v] # Nothing =>
              /\ HasVoice(voice[v].sid) /\ voice[v].sid \in Source
              /\ source[voice[v].sid].vidx = v /\ source[voice[v].sid].dirty
              /\ batch'[v].s = voice[v].sid
              /\ batch'[v].n = source[voice[v].sid].n /\ source[voice[v].sid].n \in Nat
         /\ apply' = "held" /\ call' = [pc |-> "all", at |-> 1] /\ mixer.pc \in Quiet
         /\ UNCHANGED <<source, voice, update, holds, next, made, free, defer, hold, updating, mixer>>
<1>1. \A s \in Source, v \in Voices : HasVoice(s) /\ source[s].vidx = v => voice[v].sid = s
  BY DEF HasVoice
<1>2. mixer.pc \in Quiet
  BY DEF AwaitUpdate, IInv, Phases, Types, MixerFields, Quiet, Updates
<1>3. \A s \in Source : source[s].n \in Nat
  BY DEF IInv, Types
<1>4. ASSUME NEW v \in Voices, batch'[v] # Nothing
      PROVE  /\ HasVoice(voice[v].sid) /\ voice[v].sid \in Source
             /\ source[voice[v].sid].vidx = v /\ source[voice[v].sid].dirty
             /\ batch'[v] = Settings(voice[v].sid)
  BY <1>1, <1>4 DEF AwaitUpdate
<1> QED
  BY <1>2, <1>3, <1>4 DEF AwaitUpdate, List, Settings

LEMMA MixVoicesEffect ==
  ASSUME Types, MixVoices
  PROVE  /\ \A v \in Voices : /\ voice'[v].props = voice[v].props
                              /\ \/ batch'[v] = Nothing /\ voice'[v].sid = NoSource
                                 \/ batch'[v] = batch[v] /\ voice'[v].sid = voice[v].sid
         /\ mixer.pc = "mix" /\ mixer' = Idle
         /\ UNCHANGED <<source, update, holds, next, made, free, apply, defer, hold, updating, call>>
  BY DEF Types, MixVoices, List, Others, Flags

LEMMA NothingWaits == \A v \in Voices : batch[v] = Nothing => ~Waits(v)
  BY DEF Nothing, Waits

LEMMA BatchOwnedNext == ASSUME IInv, Next PROVE BatchOwned'
<1> USE DEF IInv, Types, BatchArrives, BatchOwned
<1>1. CASE \E s \in Source : SetSource(s)
  <2>1. PICK s \in Source : SetSource(s)
    BY <1>1
  <2>2. /\ batch' = batch /\ voice' = voice
        /\ \A x \in Source : source'[x].vidx = source[x].vidx
        /\ \A x \in Source : source'[x].n \in {source[x].n, source[x].n + 1}
    BY <2>1, SetSourceEffect
  <2> SUFFICES ASSUME NEW v \in Voices, batch[v] # Nothing
      PROVE  /\ Waits(v)' /\ voice'[v].sid = batch'[v].s /\ source'[batch'[v].s].vidx = v
             /\ batch'[v].n <= source'[batch'[v].s].n
    BY <2>2
  <2>3. batch[v].s \in Source /\ batch[v].n \in Nat /\ Waits(v)
    BY DEF Waits, Props
  <2>4. /\ batch[v].n <= source[batch[v].s].n /\ source[batch[v].s].n \in Nat
        /\ voice[v].sid = batch[v].s /\ source[batch[v].s].vidx = v
    BY <2>3
  <2>5. batch[v].n <= source'[batch[v].s].n
    BY <2>2, <2>3, <2>4
  <2> QED
    BY <2>2, <2>3, <2>4, <2>5 DEF Waits
<1>2. CASE SupplySteps
  BY <1>2, SupplyEffect DEF Waits
<1>3. CASE UpdateAllSourceProps
  <2>1. /\ batch' = batch /\ voice' = voice
        /\ \A x \in Source : source'[x].vidx = source[x].vidx /\ source'[x].n = source[x].n
    BY <1>3, UpdateAllEffect
  <2> QED
    BY <2>1 DEF Waits, Props
<1>4. CASE UpdateDeviceParams
  BY <1>4, ResetEffect
<1>5. CASE AwaitUpdate
  <2> SUFFICES ASSUME NEW v \in Voices, batch'[v] # Nothing
      PROVE  /\ Waits(v)' /\ voice'[v].sid = batch'[v].s /\ source'[batch'[v].s].vidx = v
             /\ batch'[v].n <= source'[batch'[v].s].n
    OBVIOUS
  <2> QED
    BY <1>5, AwaitEffect DEF Waits
<1>6. CASE Copy \/ CalcSourceParams
  <2>1. batch' = batch /\ source' = source /\ \A v \in Voices : voice'[v].sid = voice[v].sid
    BY <1>6, CopyEffect, CalcEffect
  <2> QED
    BY <2>1 DEF Waits
<1>7. CASE MixVoices
  <2>1. source' = source /\ \A v \in Voices : \/ batch'[v] = Nothing
                                              \/ batch'[v] = batch[v] /\ voice'[v].sid = voice[v].sid
    BY <1>7, MixVoicesEffect
  <2> SUFFICES ASSUME NEW v \in Voices, batch'[v] = batch[v], voice'[v].sid = voice[v].sid
      PROVE  \/ batch'[v] = Nothing
             \/ /\ Waits(v)' /\ voice'[v].sid = batch'[v].s /\ source'[batch'[v].s].vidx = v
                /\ batch'[v].n <= source'[batch'[v].s].n
    BY <2>1
  <2> QED
    BY <2>1 DEF Waits
<1>8. CASE \E s \in Source, v \in Voices : InitVoice(s, v)
  <2>1. /\ batch' = batch /\ \A v \in Voices : voice'[v].sid = voice[v].sid
        /\ \A x \in Source : source'[x].vidx = source[x].vidx /\ source'[x].n = source[x].n
    BY <1>8, InitVoiceEffect
  <2> SUFFICES ASSUME NEW v \in Voices, batch[v] # Nothing
      PROVE  /\ Waits(v)' /\ voice'[v].sid = batch'[v].s /\ source'[batch'[v].s].vidx = v
             /\ batch'[v].n <= source'[batch'[v].s].n
    BY <2>1
  <2>2. Waits(v) /\ batch[v].s \in Source
    BY DEF Waits, Props
  <2> QED
    BY <2>1, <2>2 DEF Waits
<1>9. CASE VoiceStarted
  <2>1. voice[call.v].sid = NoSource /\ ~HasVoice(call.s) /\ batch' = batch
    BY <1>9, StartedEffect DEF VoiceStarted, CallFits
  <2> SUFFICES ASSUME NEW v \in Voices, batch[v] # Nothing
      PROVE  /\ Waits(v)' /\ voice'[v].sid = batch'[v].s /\ source'[batch'[v].s].vidx = v
             /\ batch'[v].n <= source'[batch'[v].s].n
    BY <2>1
  <2>2. batch[v].s \in Source /\ HasVoice(batch[v].s)
    BY DEF Waits, Props, HasVoice, Voices, Null
  <2>3. v # call.v /\ batch[v].s # call.s
    BY <2>1, <2>2 DEF Waits
  <2> QED
    BY <1>9, <2>1, <2>2, <2>3, StartedEffect DEF Waits
<1>10. CASE UNCHANGED <<source, voice, batch>>
  BY <1>10 DEF Waits
<1> QED
  BY <1>1, <1>2, <1>3, <1>4, <1>5, <1>6, <1>7, <1>8, <1>9, <1>10
  DEF Next, Call, CallGoesOn, UpdateSourceProps, SupplySteps, Mix, deferUpdates, HoldUpdates,
      ReleaseUpdates, Done, UpdateBegins, UpdateHeld, GiveBackLink, GiveBackPush, UpdateEnds,
      List, Others, Batch

LEMMA BatchDirtyNext == ASSUME IInv, Next PROVE BatchDirty'
<1> USE DEF IInv, Types, BatchArrives, BatchDirty
<1>1. CASE SupplySteps
  BY <1>1, SupplyEffect DEF Waits
<1>2. CASE Mix
  <2>1. CASE MixVoices
    BY <2>1, MixVoicesEffect DEF Waits, Nothing
  <2>2. CASE batch' = batch
    BY <1>2, <2>2, MixEffect DEF Waits
  <2> QED
    BY <1>2, <2>1, <2>2 DEF Mix, UpdateBegins, UpdateHeld, CalcSourceParams, Copy, GiveBackLink,
                            GiveBackPush, UpdateEnds
<1>3. CASE UpdateAllSourceProps
  <2>1. CASE call.at \in Voices
    <3> SUFFICES ASSUME apply = "held", NEW v \in Voices, Waits(v), v >= call.at + 1
        PROVE  source'[batch[v].s].dirty
      BY <1>3, <2>1, UpdateAllEffect DEF Waits, Supply
    <3>1. batch[v].s \in Source /\ source[batch[v].s].vidx = v /\ source[batch[v].s].dirty
      BY <2>1 DEF Waits, Props, BatchOwned, Nothing, Voices
    <3>2. source' = source \/ \A x \in Source : source[x].vidx # call.at
                                              => source'[x].dirty = source[x].dirty
      BY <1>3, <2>1, UpdateAllEffect
    <3>3. v # call.at
      BY DEF Voices
    <3> QED
      BY <3>1, <3>2, <3>3
  <2>2. CASE call.at \notin Voices
    BY <1>3, <2>2, UpdateAllEffect
  <2> QED
    BY <2>1, <2>2
<1>4. CASE AwaitUpdate
  <2>1. \A v \in Voices : Waits(v)' => batch'[v] # Nothing
    BY DEF Waits, Nothing
  <2>2. \A v \in Voices : Waits(v)' => source[batch'[v].s].dirty
    BY <1>4, <2>1, AwaitEffect
  <2> QED
    BY <1>4, <2>2, AwaitEffect
<1>5. CASE \/ UpdateDeviceParams \/ deferUpdates \/ HoldUpdates \/ ReleaseUpdates
  BY <1>5 DEF UpdateDeviceParams, deferUpdates, HoldUpdates, ReleaseUpdates
<1>6. CASE \/ \E s \in Source : SetSource(s)
           \/ \E s \in Source, v \in Voices : InitVoice(s, v)
           \/ VoiceStarted \/ Done
  <2>1. apply # "held"
    BY <1>6 DEF SetSource, InitVoice, VoiceStarted, Done, Phases, SuppliesAll, Supplies, Gathering
  <2> QED
    BY <1>6, <2>1 DEF SetSource, InitVoice, VoiceStarted, Done, Flags
<1> QED
  BY <1>1, <1>2, <1>3, <1>4, <1>5, <1>6 DEF Next, Call, CallGoesOn, UpdateSourceProps, SupplySteps

(* What a voice is supplied stays in its container until it is copied.     *)
LEMMA ContentsKept ==
  ASSUME IInv, Next, ~UpdateDeviceParams
  PROVE  /\ \A v \in Attached : holds'[update[v]] = holds[update[v]]
         /\ mixer.pc = "copy" => holds'[mixer.c] = holds[mixer.c]
<1> USE DEF IInv, Types
<1>1. CASE SupplyPop
  <2>1. \A c \in Container : c \notin Free => holds'[c] = holds[c]
    BY <1>1 DEF SupplyPop, OneOwner, Linked
  <2> QED
    BY <2>1 DEF Free, Places, Attached, InMixer, MixerFields
<1>2. CASE SupplyPush
  BY <1>2 DEF SupplyPush, OneOwner, Apart, Attached, InCall, InMixer, MixerFields
<1>3. CASE GiveBackPush
  BY <1>3 DEF GiveBackPush, OneOwner, Apart, Attached, InCall, InMixer, MixerFields
<1>4. CASE holds' = holds
  BY <1>4
<1> QED
  BY <1>1, <1>2, <1>3, <1>4
  DEF Next, Call, CallGoesOn, UpdateSourceProps, Mix, SetSource, InitVoice, deferUpdates,
      HoldUpdates, UpdateDeviceParams, SupplyLoad, allocVoiceProps, SupplySwap, SupplyLink,
      VoiceStarted, Done, AwaitUpdate, UpdateAllSourceProps, ReleaseUpdates, UpdateBegins,
      UpdateHeld, CalcSourceParams, Copy, GiveBackLink, UpdateEnds, MixVoices, List, Others

LEMMA HeldContents ==
  ASSUME IInv, Next, apply' # "reset"
  PROVE  /\ \A v \in Attached : holds'[update[v]] = holds[update[v]]
         /\ mixer.pc = "copy" => holds'[mixer.c] = holds[mixer.c]
  BY ContentsKept, ResetEffect DEF IInv

LEMMA CopyFitsNext == ASSUME IInv, Next PROVE CopyFits'
<1> USE DEF IInv, Types, BatchArrives, CopyFits
<1>1. CASE CalcSourceParams
  <2>1. SUFFICES ASSUME mixer'.pc = "copy", Waits(mixer.v)
        PROVE  Fits(mixer.v, holds[update[mixer.v]]) /\ mixer.v \in Voices
    BY <1>1, CalcEffect DEF CalcSourceParams, Take, Taking, Waits, Fits
  <2>2. mixer.v \in Voices /\ update[mixer.v] # Null /\ mixer.pc = "take"
    BY <1>1, <2>1 DEF CalcSourceParams, Take
  <2>3. ~Pending(mixer.v)
    BY <2>2 DEF Pending, Phases, Quiet
  <2> QED
    BY <2>1, <2>2, <2>3 DEF BatchComes, OnItsWay
<1>2. CASE mixer' = mixer /\ batch' = batch /\ apply' # "reset"
  BY <1>2, HeldContents DEF Waits, Fits
<1>3. CASE mixer'.pc # "copy"
  BY <1>3
<1>4. CASE UpdateDeviceParams \/ AwaitUpdate
  <2>1. mixer' = mixer /\ mixer.pc # "copy"
    BY <1>4, ResetEffect, AwaitEffect DEF UpdateDeviceParams, Quiet
  <2> QED
    BY <2>1
<1>5. CASE SupplySteps
  <2>1. apply # "reset" \/ mixer.pc = "idle"
    BY DEF Phases
  <2> QED
    BY <1>2, <1>3, <1>5, <2>1, SupplyEffect
<1>6. CASE \/ UpdateBegins \/ UpdateHeld \/ Copy \/ GiveBackLink \/ GiveBackPush \/ UpdateEnds
           \/ MixVoices
  <2>1. mixer'.pc # "copy"
    BY <1>6 DEF UpdateBegins, UpdateHeld, Copy, GiveBackLink, GiveBackPush, UpdateEnds, MixVoices,
                Take, Taking, Idle
  <2> QED
    BY <1>3, <2>1
<1>7. CASE \/ \E s \in Source : SetSource(s)
           \/ \E s \in Source, v \in Voices : InitVoice(s, v)
           \/ VoiceStarted \/ Done
  <2>1. mixer' = mixer /\ batch' = batch /\ apply' = apply
    BY <1>7 DEF SetSource, InitVoice, VoiceStarted, Done, Flags, Batch
  <2>2. apply # "reset" \/ mixer.pc = "idle"
    BY DEF Phases
  <2> QED
    BY <1>2, <1>3, <2>1, <2>2
<1>8. CASE UpdateAllSourceProps \/ deferUpdates \/ HoldUpdates \/ ReleaseUpdates
  <2>1. mixer' = mixer /\ batch' = batch /\ (apply' = "reset" => apply = "reset")
    BY <1>8, UpdateAllEffect DEF deferUpdates, HoldUpdates, ReleaseUpdates, Batch, UpdateAllSourceProps
  <2>2. apply # "reset" \/ mixer.pc = "idle"
    BY DEF Phases
  <2> QED
    BY <1>2, <1>3, <2>1, <2>2
<1> QED
  BY <1>1, <1>4, <1>5, <1>6, <1>7, <1>8
  DEF Next, Call, CallGoesOn, UpdateSourceProps, SupplySteps, Mix

(* A voice that was still to be supplied is, and one that was supplied     *)
(* stays so until it has heard the settings.                               *)
LEMMA BatchComesNext == ASSUME IInv, Next PROVE BatchComes'
<1> USE DEF IInv, Types, BatchArrives, BatchComes
<1>1. ASSUME /\ UNCHANGED <<batch, update, mixer, apply, hold>> /\ apply # "reset"
             /\ \A v \in Voices : voice'[v].props = voice[v].props
             /\ apply = "held" => /\ call'.at = call.at /\ call'.v = call.v
                                  /\ call.pc \in Gathering => call'.pc \in Gathering
      PROVE  BatchComes'
  <2> SUFFICES ASSUME NEW v \in Voices, Waits(v) PROVE (Pending(v) \/ OnItsWay(v))'
    BY <1>1 DEF Waits
  <2>1. CASE Pending(v)
    BY <1>1, <2>1 DEF Pending
  <2>2. CASE OnItsWay(v)
    BY <1>1, <2>2, HeldContents DEF OnItsWay, Heard, Fits, Attached
  <2> QED
    BY <2>1, <2>2
<1>2. CASE apply' = "reset"
  <2>1. \A v \in Voices : batch'[v] = Nothing
    BY <1>2, PhasesNext DEF Phases
  <2> QED
    BY <2>1 DEF Waits, Nothing
<1>3. CASE SupplyLoad \/ allocVoiceProps \/ SupplyPop
  <2>1. UNCHANGED <<batch, update, mixer, apply, hold, voice>> /\ call'.pc \in Gathering
        /\ call'.at = call.at /\ call'.v = call.v
    BY <1>3 DEF SupplyLoad, allocVoiceProps, SupplyPop, Supplying, Gathering, List, Flags, Batch
  <2> QED
    BY <1>1, <1>2, <2>1
<1>4. CASE SupplyLink \/ SupplyPush
  <2>1. UNCHANGED <<batch, update, mixer, apply, hold, voice>> /\ call.pc \notin Gathering
        /\ call'.at = call.at /\ call'.v = call.v
    BY <1>4 DEF SupplyLink, SupplyPush, Supplying, Supplied, Gathering, List, Flags, Batch
  <2> QED
    BY <1>1, <1>2, <2>1
<1>5. CASE SupplySwap
  <2>1. /\ UNCHANGED <<batch, mixer, apply, hold, voice, source, holds>> /\ call'.at = call.at
        /\ call'.v = call.v /\ call.v \in Voices /\ call.s \in Source /\ call.c \in Container
        /\ update' = [update EXCEPT ![call.v] = call.c] /\ call.c # Null
    BY <1>5 DEF SupplySwap, Supplying, Supplied, CallFields, Supplies, Gathering, List, Flags,
                Batch, Container, Null
  <2> SUFFICES ASSUME NEW v \in Voices, Waits(v) PROVE (Pending(v) \/ OnItsWay(v))'
    BY <2>1 DEF Waits
  <2>2. CASE v = call.v
    <3>1. voice[v].sid = batch[v].s /\ batch[v].n <= source[batch[v].s].n
      BY DEF BatchOwned, Waits, Nothing
    <3>2. batch[v].s = call.s
      BY <1>5, <2>2, <3>1 DEF CallFits, SupplySwap, Supplies, Gathering, Waits
    <3>3. holds[call.c].s = call.s /\ holds[call.c].n = source[call.s].n
      BY <1>5 DEF CallFits, SupplySwap, Settings
    <3>4. Fits(v, holds[call.c])
      BY <3>1, <3>2, <3>3 DEF Fits, Props
    <3> QED
      BY <2>1, <2>2, <3>4 DEF OnItsWay, Fits
  <2>3. CASE v # call.v
    <3>1. CASE Pending(v)
      BY <2>1, <2>3, <3>1 DEF Pending
    <3>2. CASE OnItsWay(v)
      BY <2>1, <2>3, <3>2 DEF OnItsWay, Heard, Fits
    <3> QED
      BY <3>1, <3>2
  <2> QED
    BY <2>2, <2>3
<1>6. CASE CalcSourceParams
  <2> SUFFICES ASSUME NEW v \in Voices, Waits(v) PROVE (Pending(v) \/ OnItsWay(v))'
    BY <1>6, CalcEffect DEF Waits
  <2>1. CASE Pending(v)
    BY <1>6, <2>1, CalcEffect DEF Pending
  <2>2. CASE OnItsWay(v)
    <3>1. /\ mixer.pc = "take" /\ mixer.v \in Voices
          /\ \/ update' = update
             \/ /\ update' = [update EXCEPT ![mixer.v] = Null]
                /\ mixer'.pc = "copy" /\ mixer'.v = mixer.v
      BY <1>6 DEF CalcSourceParams, Taking
    <3> QED
      BY <1>6, <2>2, <3>1, CalcEffect DEF OnItsWay, Heard, Fits
  <2> QED
    BY <2>1, <2>2
<1>7. CASE Copy
  <2> SUFFICES ASSUME NEW v \in Voices, Waits(v) PROVE (Pending(v) \/ OnItsWay(v))'
    BY <1>7, CopyEffect DEF Waits
  <2>1. CASE Pending(v)
    BY <1>7, <2>1, CopyEffect DEF Pending
  <2>2. CASE OnItsWay(v)
    <3>1. v = mixer.v => Heard(v)'
      BY <1>7, CopyEffect DEF Copy, CopyFits, Heard, Fits
    <3>2. v # mixer.v /\ Heard(v) => Heard(v)'
      BY <1>7, CopyEffect DEF Heard, Fits
    <3> QED
      BY <1>7, <2>2, <3>1, <3>2, CopyEffect DEF OnItsWay, Fits
  <2> QED
    BY <2>1, <2>2
<1>8. CASE \/ UpdateBegins \/ UpdateHeld \/ GiveBackLink \/ GiveBackPush \/ UpdateEnds \/ MixVoices
  <2> SUFFICES ASSUME NEW v \in Voices, Waits(v)' PROVE (Pending(v) \/ OnItsWay(v))'
    OBVIOUS
  <2>1. /\ UNCHANGED <<update, call, apply>> /\ batch'[v] = batch[v]
        /\ voice'[v].props = voice[v].props /\ mixer.pc # "copy" /\ apply # "reset"
    <3>1. CASE MixVoices
      BY <3>1, MixVoicesEffect DEF Waits, Nothing, Phases
    <3>2. CASE UpdateBegins \/ UpdateHeld \/ GiveBackLink \/ GiveBackPush \/ UpdateEnds
      BY <3>2 DEF UpdateBegins, UpdateHeld, GiveBackLink, GiveBackPush, UpdateEnds, List, Others,
                  Flags, Phases
    <3> QED
      BY <1>8, <3>1, <3>2
  <2>2. Waits(v)
    BY <2>1 DEF Waits
  <2>3. CASE Pending(v)
    BY <2>1, <2>3 DEF Pending
  <2>4. CASE OnItsWay(v)
    BY <2>1, <2>4, HeldContents DEF OnItsWay, Heard, Fits, Attached
  <2> QED
    BY <2>2, <2>3, <2>4
<1>9. CASE UpdateAllSourceProps
  <2>1. UNCHANGED <<batch, update, mixer, hold, voice, holds>>
    BY <1>9, UpdateAllEffect
  <2> SUFFICES ASSUME NEW v \in Voices, Waits(v) PROVE (Pending(v) \/ OnItsWay(v))'
    BY <2>1 DEF Waits
  <2>2. CASE OnItsWay(v)
    BY <2>1, <2>2 DEF OnItsWay, Heard, Fits
  <2>3. CASE Pending(v)
    <3>1. call.pc = "all" /\ v >= call.at /\ apply = "held" /\ call.at \in 1..(NVoices + 1)
      BY <1>9, <2>3 DEF UpdateAllSourceProps, Pending, Gathering, CallFields
    <3>2. call.at \in Voices
      BY <3>1 DEF Voices
    <3>3. CASE v = call.at
      <4>1. LET s == voice[v].sid
            IN s # NoSource /\ source[s].vidx = v /\ source[s].dirty
        BY <3>1, <3>3 DEF BatchOwned, BatchDirty, Waits, Nothing
      <4>2. call' = Supply(voice[v].sid, v, "all", v + 1) /\ apply' = "held"
        BY <1>9, <3>1, <3>2, <3>3, <4>1, UpdateAllEffect
      <4> QED
        BY <3>3, <4>2 DEF Pending, Supply, Gathering
    <3>4. CASE v # call.at
      <4>1. apply' = "held" /\ call'.at = call.at + 1
        BY <1>9, <3>1, <3>2, UpdateAllEffect DEF Supply
      <4> QED
        BY <3>1, <3>2, <3>4, <4>1 DEF Pending, Voices
    <3> QED
      BY <3>3, <3>4
  <2> QED
    BY <2>2, <2>3
<1>10. CASE AwaitUpdate
  BY <1>10, AwaitEffect DEF Pending, Voices
<1>11. CASE deferUpdates \/ HoldUpdates \/ ReleaseUpdates
  <2>1. /\ UNCHANGED <<batch, update, mixer, voice, holds>> /\ apply # "held"
    BY <1>11 DEF deferUpdates, HoldUpdates, ReleaseUpdates, List, Batch
  <2> QED
    BY <2>1 DEF Waits, Pending, OnItsWay, Heard, Fits
<1>12. CASE \/ \E s \in Source : SetSource(s)
            \/ \E s \in Source, v \in Voices : InitVoice(s, v)
            \/ VoiceStarted \/ Done
  <2>1. /\ UNCHANGED <<batch, update, mixer, holds>>
        /\ \A v \in Voices : voice'[v].props = voice[v].props
    BY <1>12, SetSourceEffect, InitVoiceEffect, StartedEffect DEF Done, List, Batch
  <2>2. apply # "held"
    BY <1>12 DEF SetSource, InitVoice, VoiceStarted, Done, Phases, SuppliesAll, Supplies, Gathering
  <2> QED
    BY <2>1, <2>2 DEF Waits, Pending, OnItsWay, Heard, Fits
<1>13. CASE UpdateDeviceParams
  BY <1>2, <1>13, ResetEffect
<1> QED
  BY <1>3, <1>4, <1>5, <1>6, <1>7, <1>8, <1>9, <1>10, <1>11, <1>12, <1>13
  DEF Next, Call, CallGoesOn, UpdateSourceProps, Mix

-----------------------------------------------------------------------------
LEMMA NoneBeforeNext == ASSUME IInv, Next PROVE NoneBefore'
<1> USE DEF IInv, Types, AllOrNone, NoneBefore
<1>1. CASE AwaitUpdate
  <2> SUFFICES ASSUME NEW v \in Voices, Waits(v)' PROVE ~Heard(v)'
    OBVIOUS
  <2>1. batch'[v] # Nothing
    BY DEF Waits, Nothing
  <2>2. /\ voice[v].sid \in Source /\ ~Clean(voice[v].sid)
        /\ batch'[v].s = voice[v].sid /\ batch'[v].n = source[voice[v].sid].n
        /\ voice' = voice
    BY <1>1, <2>1, AwaitEffect DEF Clean
  <2>3. Stale(voice[v].sid)
    BY <1>1, <2>2 DEF AwaitUpdate, DirtyIsStale, StaleUnlessClean
  <2>4. voice[v].props.s = voice[v].sid => voice[v].props.n < source[voice[v].sid].n
    BY <2>3 DEF Stale
  <2>5. voice[v].props.n \in Nat /\ source[voice[v].sid].n \in Nat
    BY <2>2 DEF Props
  <2> QED
    BY <2>2, <2>4, <2>5 DEF Heard, Fits
<1>2. CASE UpdateAllSourceProps
  <2>1. UNCHANGED <<batch, voice, hold>>
    BY <1>2, UpdateAllEffect
  <2>2. apply \in {"held", "reset"}
    BY <1>2 DEF UpdateAllSourceProps, Phases, SuppliesAll
  <2>3. CASE apply = "held"
    BY <2>1, <2>3 DEF Phases, Waits, Heard, Fits
  <2>4. CASE apply = "reset"
    BY <2>1, <2>4 DEF Phases
  <2> QED
    BY <2>2, <2>3, <2>4
<1>3. CASE MixVoices
  <2>1. \A v \in Voices : Waits(v)' => /\ Waits(v) /\ batch'[v] = batch[v]
                                       /\ voice'[v].props = voice[v].props
    BY <1>3, MixVoicesEffect DEF Waits, Nothing
  <2> QED
    BY <1>3, <2>1, MixVoicesEffect DEF Heard, Fits
<1>4. CASE CalcSourceParams
  <2>1. \A v \in Voices : Waits(v)' = Waits(v) /\ Heard(v)' = Heard(v)
    BY <1>4, CalcEffect DEF Waits, Heard, Fits
  <2> QED
    BY <1>4, <2>1, CalcEffect
<1>5. CASE Copy
  BY <1>5, CopyEffect DEF Copy, Phases, Quiet
<1>6. CASE deferUpdates \/ HoldUpdates \/ ReleaseUpdates \/ UpdateDeviceParams
  BY <1>6 DEF deferUpdates, HoldUpdates, ReleaseUpdates, UpdateDeviceParams
<1>7. CASE \/ \E s \in Source : SetSource(s)
           \/ \E s \in Source, v \in Voices : InitVoice(s, v)
           \/ VoiceStarted \/ Done
  <2>1. /\ UNCHANGED <<batch, hold, apply>>
        /\ \A v \in Voices : voice'[v].props = voice[v].props
    BY <1>7, SetSourceEffect, InitVoiceEffect, StartedEffect DEF Done, Flags, Batch
  <2> QED
    BY <2>1 DEF Waits, Heard, Fits
<1>8. CASE SupplySteps
  BY <1>8, SupplyEffect DEF Waits, Heard, Fits
<1>9. CASE UpdateBegins \/ UpdateHeld \/ GiveBackLink \/ GiveBackPush \/ UpdateEnds
  <2>1. UNCHANGED <<batch, hold, apply, voice>>
    BY <1>9 DEF UpdateBegins, UpdateHeld, GiveBackLink, GiveBackPush, UpdateEnds, Others, Flags
  <2> QED
    BY <2>1 DEF Waits, Heard, Fits
<1> QED
  BY <1>1, <1>2, <1>3, <1>4, <1>5, <1>6, <1>7, <1>8, <1>9
  DEF Next, Call, CallGoesOn, UpdateSourceProps, SupplySteps, Mix

LEMMA MixedTogetherNext == ASSUME IInv, Next PROVE QuietAllOrNone' /\ HeardSoFar'
<1> USE DEF IInv, Types, AllOrNone, QuietAllOrNone, HeardSoFar
<1>1. ASSUME UNCHANGED <<batch, mixer>>, \A v \in Voices : voice'[v].props = voice[v].props
      PROVE  QuietAllOrNone' /\ HeardSoFar'
  <2>1. \A v \in Voices : Waits(v)' = Waits(v) /\ Heard(v)' = Heard(v)
    BY <1>1 DEF Waits, Heard, Fits
  <2> QED
    BY <1>1, <2>1
<1>2. CASE SupplySteps
  BY <1>1, <1>2, SupplyEffect
<1>3. CASE \/ \E s \in Source : SetSource(s)
           \/ \E s \in Source, v \in Voices : InitVoice(s, v)
           \/ VoiceStarted \/ Done
  <2>1. /\ UNCHANGED <<batch, mixer>> /\ \A v \in Voices : voice'[v].props = voice[v].props
    BY <1>3, SetSourceEffect, InitVoiceEffect, StartedEffect DEF Done, Flags, Batch
  <2> QED
    BY <1>1, <2>1
<1>4. CASE UpdateAllSourceProps \/ deferUpdates \/ HoldUpdates \/ ReleaseUpdates
  <2>1. UNCHANGED <<batch, mixer, voice>>
    BY <1>4, UpdateAllEffect DEF deferUpdates, HoldUpdates, ReleaseUpdates, Batch
  <2> QED
    BY <1>1, <2>1
<1>5. CASE AwaitUpdate
  <2>1. mixer'.pc \in Quiet /\ mixer'.pc \notin Updates
    BY <1>5, AwaitEffect DEF Quiet, Updates
  <2>2. hold' /\ apply' = "held"
    BY <1>5, PhasesNext, AwaitEffect DEF Phases
  <2>3. \A v \in Voices : Waits(v)' => ~Heard(v)'
    BY <2>2, NoneBeforeNext DEF NoneBefore
  <2> QED
    BY <2>1, <2>3
<1>6. CASE UpdateDeviceParams
  <2>1. \A v \in Voices : ~Waits(v)'
    BY <1>6, ResetEffect DEF Waits, Nothing
  <2> QED
    BY <2>1
<1>7. CASE MixVoices
  <2>1. \A v \in Voices : Waits(v)' => Waits(v) /\ Heard(v)' = Heard(v)
    BY <1>7, MixVoicesEffect DEF Waits, Nothing, Heard, Fits
  <2>2. mixer.pc \in Quiet /\ mixer'.pc \notin Updates
    BY <1>7, MixVoicesEffect DEF Quiet, Updates, Idle
  <2> QED
    BY <2>1, <2>2
<1>8. CASE UpdateBegins \/ UpdateHeld
  <2>1. /\ UNCHANGED <<batch, voice>> /\ mixer.pc \in Quiet
        /\ mixer'.pc \in Quiet \/ (mixer'.pc = "take" /\ mixer'.v = 1)
        /\ "take" \notin Quiet /\ Quiet \cap Updates = {}
    BY <1>8 DEF UpdateBegins, UpdateHeld, Take, Quiet, Updates, Others
  <2>2. \A v \in Voices : Waits(v)' = Waits(v) /\ Heard(v)' = Heard(v) /\ ~(v < 1)
    BY <2>1 DEF Waits, Heard, Fits, Voices
  <2> QED
    BY <2>1, <2>2
<1>9. CASE CalcSourceParams
  <2>1. \A v \in Voices : Waits(v)' = Waits(v) /\ Heard(v)' = Heard(v)
    BY <1>9, CalcEffect DEF Waits, Heard, Fits
  <2>2. /\ mixer.pc = "take" /\ mixer.v \in Voices
        /\ \/ mixer'.pc = "copy" /\ mixer'.v = mixer.v
           \/ /\ mixer'.pc = "take" /\ mixer'.v = mixer.v + 1
              /\ voice[mixer.v].sid = NoSource \/ update[mixer.v] = Null
    BY <1>9 DEF CalcSourceParams, Take, Taking
  <2>3. mixer'.pc = "take" /\ Waits(mixer.v) => Heard(mixer.v)
    <3> SUFFICES ASSUME mixer'.pc = "take", Waits(mixer.v) PROVE Heard(mixer.v)
      OBVIOUS
    <3>1. voice[mixer.v].sid # NoSource
      BY <2>2 DEF BatchArrives, BatchOwned, Waits, Nothing
    <3>2. ~Pending(mixer.v)
      BY <2>2 DEF Pending, Phases, Quiet
    <3> QED
      BY <2>2, <3>1, <3>2 DEF BatchArrives, BatchComes, OnItsWay
  <2>4. /\ mixer'.pc \in Updates /\ mixer'.pc \notin Quiet /\ mixer.pc \in Updates
        /\ mixer'.pc \notin {"link", "push"} /\ mixer.v \in Nat
    BY <2>2 DEF Updates, Quiet, Voices
  <2> SUFFICES ASSUME NEW v \in Voices, Waits(v), v < mixer'.v PROVE Heard(v)
    BY <2>1, <2>4
  <2>5. v < mixer.v \/ (v = mixer.v /\ mixer'.pc = "take")
    BY <2>2, <2>4 DEF Voices
  <2> QED
    BY <2>3, <2>4, <2>5
<1>10. CASE Copy
  <2>1. /\ mixer.pc = "copy" /\ mixer'.pc = "link" /\ mixer'.v = mixer.v /\ mixer.v \in Voices
        /\ \A v \in Voices : Waits(v)' = Waits(v)
        /\ \A v \in Voices : v # mixer.v => Heard(v)' = Heard(v)
    BY <1>10, CopyEffect DEF Copy, Taking, Waits, Heard, Fits
  <2>2. \A v \in Voices : v = mixer.v /\ Waits(v) => Heard(v)'
    BY <1>10, <2>1, CopyEffect DEF BatchArrives, CopyFits, Heard, Fits
  <2> QED
    BY <2>1, <2>2 DEF Updates, Quiet
<1>11. CASE GiveBackLink \/ GiveBackPush
  <2>1. /\ UNCHANGED <<batch, voice>> /\ mixer.pc \in {"link", "push"} /\ mixer.v \in Voices
        /\ \/ mixer'.pc \in {"link", "push"} /\ mixer'.v = mixer.v
           \/ mixer'.pc = "take" /\ mixer'.v = mixer.v + 1
    BY <1>11 DEF GiveBackLink, GiveBackPush, Take, Taking, Others, MixerFields
  <2>2. \A v \in Voices : Waits(v)' = Waits(v) /\ Heard(v)' = Heard(v)
    BY <2>1 DEF Waits, Heard, Fits
  <2>3. \A v \in Voices : v < mixer.v + 1 => v < mixer.v \/ v = mixer.v
    BY <2>1 DEF Voices
  <2> QED
    BY <2>1, <2>2, <2>3 DEF Updates, Quiet
<1>12. CASE UpdateEnds
  <2>1. /\ UNCHANGED <<batch, voice>> /\ mixer'.pc = "mix"
        /\ mixer.pc \in Quiet \/ (mixer.pc = "take" /\ mixer.v \notin Voices)
    BY <1>12 DEF UpdateEnds, Others, Quiet
  <2>2. \A v \in Voices : Waits(v)' = Waits(v) /\ Heard(v)' = Heard(v)
    BY <2>1 DEF Waits, Heard, Fits
  <2>3. CASE mixer.pc \in Quiet
    BY <2>1, <2>2, <2>3 DEF Updates
  <2>4. CASE mixer.pc = "take" /\ mixer.v \notin Voices
    <3>1. \A v \in Voices : v < mixer.v
      BY <2>4 DEF MixerFields, Updates, Voices
    <3> QED
      BY <2>1, <2>2, <2>4, <3>1 DEF Updates
  <2> QED
    BY <2>1, <2>3, <2>4
<1> QED
  BY <1>2, <1>3, <1>4, <1>5, <1>6, <1>7, <1>8, <1>9, <1>10, <1>11, <1>12
  DEF Next, Call, CallGoesOn, UpdateSourceProps, SupplySteps, Mix

-----------------------------------------------------------------------------
LEMMA NextInv == ASSUME IInv, [Next]_vars PROVE IInv'
<1>1. CASE Next
  BY <1>1, TypesNext, PhasesNext, ApartNext, LinkedNext, KnownNext, StaleUnlessCleanNext,
     CleanOnceSuppliedNext, CleanSoFarNext, CleanInCallNext, CallFitsNext, BatchOwnedNext,
     BatchDirtyNext, BatchComesNext, CopyFitsNext, NoneBeforeNext, MixedTogetherNext
  DEF IInv, OneOwner, DirtyIsStale, BatchArrives, AllOrNone
<1>2. CASE UNCHANGED vars
  <2> USE <1>2 DEF vars
  <2>1. Types' /\ Phases'
    BY DEF IInv, Types, CallFields, MixerFields, Phases, SuppliesAll
  <2>2. Free' = Free /\ Places' = Places
    BY DEF Free, Places, InCall, InMixer, Attached
  <2>3. OneOwner'
    BY <2>2 DEF IInv, OneOwner, Apart, Linked, Attached, InCall, InMixer
  <2>4. DirtyIsStale' /\ CallFits'
    BY DEF IInv, DirtyIsStale, Known, StaleUnlessClean, CleanOnceSupplied, CleanSoFar, CleanInCall,
           Clean, Stale, HasVoice, CallFits, Settings
  <2>5. BatchArrives' /\ AllOrNone'
    BY DEF IInv, BatchArrives, BatchOwned, BatchDirty, BatchComes, CopyFits, Pending, OnItsWay,
           AllOrNone, NoneBefore, QuietAllOrNone, HeardSoFar, Waits, Fits, Heard
  <2> QED
    BY <2>1, <2>3, <2>4, <2>5 DEF IInv
<1> QED
  BY <1>1, <1>2

-----------------------------------------------------------------------------
(* What comes to a voice.                                                  *)

LEMMA InitHeard == Init => HeardInv
  BY DEF Init, HeardInv, VoiceIsKnown, StartFits, Starting, MixesPlayed, MixedAsItsSource, OwnComes,
         ResetDirty, LatestComes, Supplies, Gathering

(* Which voice plays which source changes only as a voice starts or ends.  *)
LEMMA PlayedKept ==
  ASSUME IInv, Next, ~VoiceStarted
  PROVE  /\ \A s \in Source : source'[s].vidx = source[s].vidx
         /\ \A v \in Voices : voice'[v].sid = voice[v].sid \/ voice'[v].sid = NoSource
<1> USE DEF IInv, Types
<1>1. CASE SupplySteps
  BY <1>1, SupplyEffect
<1>2. CASE Mix
  BY <1>2, MixEffect
<1>3. CASE \E s \in Source : SetSource(s)
  BY <1>3, SetSourceEffect
<1>4. CASE \E s \in Source, v \in Voices : InitVoice(s, v)
  BY <1>4, InitVoiceEffect
<1>5. CASE UpdateAllSourceProps
  BY <1>5, UpdateAllEffect
<1>6. CASE UpdateDeviceParams
  BY <1>6, ResetEffect
<1>7. CASE deferUpdates \/ HoldUpdates \/ AwaitUpdate \/ ReleaseUpdates \/ Done
  BY <1>7 DEF deferUpdates, HoldUpdates, AwaitUpdate, ReleaseUpdates, Done
<1> QED
  BY <1>1, <1>2, <1>3, <1>4, <1>5, <1>6, <1>7
  DEF Next, Call, CallGoesOn, UpdateSourceProps, SupplySteps

(* What a voice is to play with passes on to it unchanged, unless a call   *)
(* replaces it.                                                            *)
LEMMA CurrentKept ==
  ASSUME IInv, Next, ~UpdateDeviceParams, NEW v \in Voices, ~(SupplySwap /\ v = call.v)
  PROVE  Current(v)' = Current(v)
<1> USE DEF IInv, Types
<1>1. CASE UNCHANGED <<update, mixer>> /\ voice'[v].props = voice[v].props
  BY <1>1, ContentsKept DEF Current, Copying, Attached
<1>2. CASE SupplySwap
  <2>1. UNCHANGED <<holds, mixer, voice>> /\ update'[v] = update[v]
    BY <1>2, SwapEffect DEF SupplySwap, List
  <2> QED
    BY <2>1 DEF Current, Copying
<1>3. CASE CalcSourceParams
  <2>1. /\ mixer.pc = "take" /\ mixer.v \in Voices /\ holds' = holds
        /\ voice'[v].props = voice[v].props
        /\ \/ update' = update /\ mixer'.pc = "take"
           \/ /\ update' = [update EXCEPT ![mixer.v] = Null] /\ update[mixer.v] # Null
              /\ mixer'.pc = "copy" /\ mixer'.v = mixer.v /\ mixer'.c = update[mixer.v]
    BY <1>3, CalcEffect DEF CalcSourceParams, Taking, Take
  <2> QED
    BY <2>1 DEF Current, Copying
<1>4. CASE Copy
  <2>1. /\ mixer.pc = "copy" /\ mixer'.pc = "link" /\ UNCHANGED <<holds, update>>
        /\ v # mixer.v => voice'[v].props = voice[v].props
        /\ v = mixer.v => voice'[v].props = holds[mixer.c]
    BY <1>4, CopyEffect DEF Copy, Taking
  <2> QED
    BY <2>1 DEF Current, Copying
<1>5. CASE UpdateBegins \/ UpdateHeld \/ GiveBackLink \/ GiveBackPush \/ UpdateEnds \/ MixVoices
  <2>1. /\ mixer.pc # "copy" /\ mixer'.pc # "copy" /\ update' = update
    BY <1>5 DEF UpdateBegins, UpdateHeld, GiveBackLink, GiveBackPush, UpdateEnds, MixVoices,
                Take, Taking, Idle
  <2>2. voice'[v].props = voice[v].props
    <3>1. CASE MixVoices
      BY <3>1, MixVoicesEffect
    <3>2. CASE voice' = voice
      BY <3>2
    <3> QED
      BY <1>5, <3>1, <3>2 DEF UpdateBegins, UpdateHeld, GiveBackLink, GiveBackPush, UpdateEnds
  <2> QED
    BY <2>1, <2>2, ContentsKept DEF Current, Copying, Attached
<1>6. CASE SupplySteps /\ ~SupplySwap
  <2>1. update' = update
    BY <1>6 DEF SupplySteps, SupplyLoad, allocVoiceProps, SupplyPop, SupplyLink, SupplyPush
  <2> QED
    BY <1>1, <1>6, <2>1, SupplyEffect
<1>7. CASE \/ \E s \in Source : SetSource(s)
           \/ \E s \in Source, w \in Voices : InitVoice(s, w)
           \/ VoiceStarted \/ UpdateAllSourceProps
  BY <1>1, <1>7, SetSourceEffect, InitVoiceEffect, StartedEffect, UpdateAllEffect
<1>8. CASE deferUpdates \/ HoldUpdates \/ AwaitUpdate \/ ReleaseUpdates \/ Done
  BY <1>1, <1>8 DEF deferUpdates, HoldUpdates, AwaitUpdate, ReleaseUpdates, Done
<1> QED
  BY <1>2, <1>3, <1>4, <1>5, <1>6, <1>7, <1>8
  DEF Next, Call, CallGoesOn, UpdateSourceProps, Mix, SupplySteps

(* A voice plays one source, and a source one voice.                       *)
LEMMA VoiceIsKnownNext == ASSUME IInv, HeardInv, Next PROVE VoiceIsKnown'
<1> USE DEF IInv, Types, HeardInv, VoiceIsKnown
<1>1. CASE ~VoiceStarted
  BY <1>1, PlayedKept
<1>2. CASE VoiceStarted
  <2>1. voice[call.v].sid = NoSource /\ ~HasVoice(call.s)
    BY <1>2 DEF VoiceStarted, CallFits
  <2>2. \A w \in Voices : voice[w].sid # call.s
    BY <1>2, <2>1, StartedEffect DEF HasVoice, Null, Voices
  <2> SUFFICES ASSUME NEW w \in Voices, voice'[w].sid # NoSource
      PROVE  source'[voice'[w].sid].vidx = w
    OBVIOUS
  <2>3. CASE w = call.v
    BY <1>2, <2>3, StartedEffect
  <2>4. CASE w # call.v
    BY <1>2, <2>2, <2>4, StartedEffect
  <2> QED
    BY <2>3, <2>4
<1> QED
  BY <1>1, <1>2

LEMMA MixesPlayedNext == ASSUME IInv, HeardInv, Next PROVE MixesPlayed'
<1> USE DEF IInv, Types, HeardInv, MixesPlayed, MixerFields
<1>1. CASE mixer' = mixer
  <2> SUFFICES ASSUME mixer.pc \in {"copy", "link", "push"}
      PROVE  /\ voice'[mixer.v].sid = voice[mixer.v].sid
             /\ mixer.pc = "copy" => holds'[mixer.c] = holds[mixer.c]
    BY <1>1
  <2>1. ~UpdateDeviceParams /\ ~MixVoices
    BY DEF UpdateDeviceParams, MixVoices
  <2>2. CASE VoiceStarted
    <3>1. mixer.v # call.v
      BY <2>2 DEF VoiceStarted, CallFits
    <3> QED
      BY <2>1, <2>2, <3>1, StartedEffect, ContentsKept
  <2>3. CASE ~VoiceStarted
    <3>1. voice'[mixer.v].sid = voice[mixer.v].sid
      <4>1. CASE SupplySteps
        BY <4>1, SupplyEffect
      <4>2. CASE CalcSourceParams \/ Copy
        BY <4>2, CalcEffect, CopyEffect
      <4>3. CASE \/ \E s \in Source : SetSource(s)
                 \/ \E s \in Source, w \in Voices : InitVoice(s, w)
                 \/ UpdateAllSourceProps
        BY <4>3, SetSourceEffect, InitVoiceEffect, UpdateAllEffect
      <4>4. CASE voice' = voice
        BY <4>4
      <4> QED
        BY <2>1, <2>3, <4>1, <4>2, <4>3, <4>4
        DEF Next, Call, CallGoesOn, UpdateSourceProps, Mix, SupplySteps, deferUpdates,
            HoldUpdates, AwaitUpdate, ReleaseUpdates, Done, UpdateBegins, UpdateHeld,
            GiveBackLink, GiveBackPush, UpdateEnds
    <3> QED
      BY <2>1, <3>1, ContentsKept
  <2> QED
    BY <2>2, <2>3
<1>2. CASE CalcSourceParams
  <2> SUFFICES ASSUME mixer'.pc \in {"copy", "link", "push"} PROVE MixesPlayed'
    OBVIOUS
  <2>1. /\ mixer.v \in Voices /\ mixer.pc = "take" /\ update[mixer.v] # Null
        /\ voice[mixer.v].sid # NoSource
        /\ mixer'.pc = "copy" /\ mixer'.v = mixer.v /\ mixer'.c = update[mixer.v]
    BY <1>2 DEF CalcSourceParams, Take, Taking
  <2>2. holds[update[mixer.v]].s = voice[mixer.v].sid
    BY <2>1 DEF OwnComes, Current
  <2> QED
    BY <1>2, <2>1, <2>2, CalcEffect
<1>3. CASE Copy
  BY <1>3, CopyEffect DEF Copy, Taking
<1>4. CASE GiveBackLink \/ GiveBackPush
  BY <1>4 DEF GiveBackLink, GiveBackPush, Take, Taking
<1>5. CASE UpdateBegins \/ UpdateHeld \/ UpdateEnds \/ MixVoices
  BY <1>5 DEF UpdateBegins, UpdateHeld, UpdateEnds, MixVoices, Take, Idle
<1>6. CASE SupplySteps \/ UpdateAllSourceProps
  BY <1>1, <1>6, SupplyEffect, UpdateAllEffect
<1>7. CASE Call \/ VoiceStarted \/ Done \/ AwaitUpdate \/ ReleaseUpdates
  BY <1>1, <1>7 DEF Call, SetSource, InitVoice, deferUpdates, HoldUpdates, UpdateDeviceParams,
     VoiceStarted, Done, AwaitUpdate, ReleaseUpdates
<1> QED
  BY <1>2, <1>3, <1>4, <1>5, <1>6, <1>7
  DEF Next, CallGoesOn, UpdateSourceProps, Mix, SupplySteps

LEMMA StartFitsNext == ASSUME IInv, HeardInv, Next PROVE StartFits'
<1> USE DEF IInv, Types, HeardInv, StartFits, Starting, CallFields
<1>1. CASE SupplySteps
  <2> SUFFICES ASSUME Starting'
      PROVE  /\ ~voice'[call'.v].step
             /\ call'.pc \notin Gathering =>
                  /\ update'[call'.v] # Null
                  /\ holds'[update'[call'.v]] = [s |-> call'.s, n |-> source'[call'.s].n]
    BY DEF Settings
  <2>1. /\ Starting /\ call'.v = call.v /\ call'.s = call.s /\ UNCHANGED <<voice, source>>
        /\ call.v \in Voices
    BY <1>1, SupplyEffect DEF Supplies, Gathering
  <2>2. CASE SupplySwap
    <3>1. holds[call.c] = Settings(call.s) /\ holds' = holds /\ call.c # Null
      BY <2>2 DEF SupplySwap, CallFits, List, Supplies, Gathering, Null, Container
    <3>2. update'[call.v] = call.c
      BY <2>2, SwapEffect
    <3> QED
      BY <2>1, <3>1, <3>2 DEF Settings
  <2>3. CASE SupplyLoad \/ allocVoiceProps \/ SupplyPop
    <3>1. call'.pc \in Gathering
      BY <2>3 DEF SupplyLoad, allocVoiceProps, SupplyPop, Supplying, Gathering
    <3> QED
      BY <2>1, <3>1
  <2>4. CASE SupplyLink \/ SupplyPush
    <3>1. call.pc \notin Gathering /\ update' = update
      BY <2>4 DEF SupplyLink, SupplyPush, Gathering
    <3>2. ~UpdateDeviceParams
      BY <2>4 DEF SupplyLink, SupplyPush, UpdateDeviceParams
    <3> QED
      BY <2>1, <3>1, <3>2, ContentsKept DEF Settings, Attached
  <2> QED
    BY <1>1, <2>2, <2>3, <2>4 DEF SupplySteps
<1>2. CASE Mix
  <2> SUFFICES ASSUME Starting
      PROVE  /\ voice'[call.v].step = voice[call.v].step
             /\ update'[call.v] = update[call.v]
             /\ update[call.v] # Null => holds'[update[call.v]] = holds[update[call.v]]
    BY <1>2, MixEffect DEF Settings
  <2>1. call.v \in Voices /\ voice[call.v].sid = NoSource /\ ~UpdateDeviceParams
    BY DEF CallFits, UpdateDeviceParams, Supplies, Gathering
  <2>2. CASE CalcSourceParams
    <3>1. \/ voice' = voice /\ update' = update
          \/ mixer.v # call.v /\ voice' = [voice EXCEPT ![mixer.v].step = TRUE]
             /\ update' = update
          \/ mixer.v # call.v /\ voice' = voice /\ update' = [update EXCEPT ![mixer.v] = Null]
      BY <2>1, <2>2 DEF CalcSourceParams
    <3> QED
      BY <2>1, <3>1, ContentsKept DEF Attached
  <2>3. CASE Copy
    <3>1. mixer.v # call.v
      BY <2>1, <2>3 DEF Copy, MixesPlayed
    <3> QED
      BY <2>1, <2>3, <3>1, ContentsKept DEF Copy, Attached
  <2>4. CASE MixVoices
    BY <2>1, <2>4, ContentsKept DEF MixVoices, Attached
  <2>5. CASE UpdateBegins \/ UpdateHeld \/ GiveBackLink \/ GiveBackPush \/ UpdateEnds
    <3>1. UNCHANGED <<voice, update>>
      BY <2>5 DEF UpdateBegins, UpdateHeld, GiveBackLink, GiveBackPush, UpdateEnds
    <3> QED
      BY <2>1, <3>1, ContentsKept DEF Attached
  <2> QED
    BY <1>2, <2>2, <2>3, <2>4, <2>5 DEF Mix
<1>3. CASE \E s \in Source : SetSource(s)
  <2>1. ~Starting'
    BY <1>3 DEF SetSource, Supply, Supplies, Gathering
  <2> QED
    BY <2>1
<1>4. CASE \E s \in Source, w \in Voices : InitVoice(s, w)
  <2>1. PICK s \in Source, w \in Voices : InitVoice(s, w)
    BY <1>4
  <2>2. call' = Supply(s, w, "started", 0) /\ ~voice'[w].step
    BY <2>1 DEF InitVoice
  <2> QED
    BY <2>2 DEF Supply, Gathering, Supplies
<1>5. CASE UpdateAllSourceProps
  <2>1. ~Starting'
    BY <1>5, UpdateAllEffect DEF Supply, Idle, Supplies, Gathering
  <2> QED
    BY <2>1
<1>6. CASE UpdateDeviceParams \/ AwaitUpdate \/ VoiceStarted \/ Done
  <2>1. ~Starting'
    BY <1>6 DEF UpdateDeviceParams, AwaitUpdate, VoiceStarted, Done, Idle, Supplies, Gathering
  <2> QED
    BY <2>1
<1>7. CASE deferUpdates \/ HoldUpdates \/ ReleaseUpdates
  BY <1>7 DEF deferUpdates, HoldUpdates, ReleaseUpdates, List, Settings
<1> QED
  BY <1>1, <1>2, <1>3, <1>4, <1>5, <1>6, <1>7
  DEF Next, Call, CallGoesOn, UpdateSourceProps, SupplySteps

LEMMA MixedAsItsSourceNext == ASSUME IInv, HeardInv, Next PROVE MixedAsItsSource'
<1> USE DEF IInv, Types, HeardInv, MixedAsItsSource
<1>1. CASE \A v \in Voices : /\ voice'[v].sid = voice[v].sid \/ voice'[v].sid = NoSource
                             /\ voice'[v].step => voice[v].step
                             /\ voice'[v].props = voice[v].props
  BY <1>1
<1>2. CASE CalcSourceParams
  <2> SUFFICES ASSUME NEW v \in Voices, voice'[v].step, voice[v].sid # NoSource
      PROVE  voice[v].props.s = voice[v].sid
    BY <1>2, CalcEffect
  <2>1. CASE voice[v].step
    BY <2>1
  <2>2. CASE ~voice[v].step
    <3>1. v = mixer.v /\ update[v] = Null /\ mixer.pc = "take"
      BY <1>2, <2>2 DEF CalcSourceParams
    <3>2. ~Awaited(v) /\ ~Copying(v)
      BY <3>1 DEF Awaited, Copying, Phases
    <3> QED
      BY <3>1, <3>2 DEF OwnComes, Current
  <2> QED
    BY <2>1, <2>2
<1>3. CASE Copy
  BY <1>3, CopyEffect DEF Copy, MixesPlayed
<1>4. CASE VoiceStarted
  <2>1. /\ ~voice[call.v].step
        /\ \A w \in Voices : voice'[w].step = voice[w].step
    BY <1>4 DEF VoiceStarted, StartFits, Starting
  <2> QED
    BY <1>4, <2>1, StartedEffect
<1>5. CASE MixVoices
  BY <1>5 DEF MixVoices
<1>6. CASE UpdateDeviceParams
  BY <1>6 DEF UpdateDeviceParams
<1>7. CASE \E s \in Source, w \in Voices : InitVoice(s, w)
  BY <1>7 DEF InitVoice
<1>8. CASE voice' = voice
  BY <1>8
<1>9. CASE SupplySteps \/ \E s \in Source : SetSource(s)
  BY <1>8, <1>9, SupplyEffect DEF SetSource
<1> QED
  BY <1>2, <1>3, <1>4, <1>5, <1>6, <1>7, <1>8, <1>9
  DEF Next, Call, CallGoesOn, UpdateSourceProps, SupplySteps, Mix, deferUpdates, HoldUpdates,
      AwaitUpdate, ReleaseUpdates, Done, UpdateBegins, UpdateHeld, GiveBackLink, GiveBackPush,
      UpdateEnds, UpdateAllSourceProps

LEMMA ResetDirtyNext == ASSUME IInv, HeardInv, Next PROVE ResetDirty'
<1> USE DEF IInv, Types, HeardInv, ResetDirty
<1> SUFFICES ASSUME apply' = "reset", NEW v \in Voices, v >= call'.at, voice'[v].sid # NoSource
    PROVE  source'[voice'[v].sid].dirty
  OBVIOUS
<1>1. CASE UpdateDeviceParams
  BY <1>1, ResetEffect
<1>2. CASE ~UpdateDeviceParams
  <2>1. apply = "reset"
    <3>1. CASE SupplySteps \/ Mix
      BY <3>1, SupplyEffect, MixEffect
    <3>2. CASE UpdateAllSourceProps
      BY <3>2, UpdateAllEffect
    <3> QED
      BY <1>2, <3>1, <3>2
      DEF Next, Call, CallGoesOn, UpdateSourceProps, SupplySteps, SetSource, InitVoice,
          deferUpdates, HoldUpdates, AwaitUpdate, ReleaseUpdates, VoiceStarted, Done, Flags
  <2>2. SuppliesAll /\ mixer.pc = "idle"
    BY <2>1 DEF Phases
  <2>3. CASE SupplySteps
    <3>1. call'.at = call.at /\ UNCHANGED <<source, voice>>
      BY <2>3, SupplyEffect
    <3> QED
      BY <2>1, <3>1
  <2>4. CASE UpdateAllSourceProps
    <3>1. call.at \in Voices /\ voice' = voice /\ call'.at = call.at + 1 /\ call.at \in Nat
      BY <2>1, <2>4, UpdateAllEffect DEF Supply, Voices
    <3>2. v >= call.at /\ v # call.at
      BY <3>1 DEF Voices
    <3>3. source[voice[v].sid].dirty /\ source[voice[v].sid].vidx = v
      BY <2>1, <3>1, <3>2 DEF VoiceIsKnown
    <3> QED
      BY <2>4, <3>1, <3>2, <3>3, UpdateAllEffect
  <2>5. ~Call /\ ~VoiceStarted /\ ~Done /\ ~AwaitUpdate /\ ~ReleaseUpdates /\ ~Mix
    BY <1>2, <2>1, <2>2
    DEF Call, SetSource, InitVoice, deferUpdates, HoldUpdates, VoiceStarted, Done, AwaitUpdate,
        ReleaseUpdates, SuppliesAll, Supplies, Gathering, Mix, UpdateBegins, UpdateHeld,
        CalcSourceParams, Copy, GiveBackLink, GiveBackPush, UpdateEnds, MixVoices
  <2> QED
    BY <2>3, <2>4, <2>5 DEF Next, CallGoesOn, UpdateSourceProps, SupplySteps
<1> QED
  BY <1>1, <1>2

(* What a call supplies is what its voice is to play with.                 *)
LEMMA SwapComes ==
  ASSUME IInv, HeardInv, SupplySwap
  PROVE  /\ call.v \in Voices /\ call.s \in Source
         /\ \A v \in Voices : v = call.v => Current(v)' = Settings(call.s)
         /\ voice[call.v].sid \in {call.s, NoSource}
         /\ \A v \in Voices : v # call.v => voice[v].sid # call.s
<1> USE DEF IInv, Types, HeardInv
<1>1. /\ call.pc = "swap" /\ call.v \in Voices /\ call.s \in Source /\ call.c # Null
      /\ holds' = holds
  BY DEF SupplySwap, CallFields, Supplies, Gathering, Container, Null, List
<1>2. update'[call.v] = call.c
  BY SwapEffect
<1>3. holds[call.c] = Settings(call.s)
  BY <1>1 DEF CallFits
<1>4. voice[call.v].sid \in {call.s, NoSource}
  BY <1>1 DEF CallFits, Supplies, Gathering
<1>5. ASSUME NEW v \in Voices, v # call.v PROVE voice[v].sid # call.s
  <2> SUFFICES ASSUME voice[v].sid = call.s PROVE FALSE
    OBVIOUS
  <2>1. source[call.s].vidx = v /\ HasVoice(call.s)
    BY <1>1 DEF VoiceIsKnown, HasVoice, Null, Voices
  <2> QED
    BY <1>1, <1>5, <2>1 DEF CallFits, Supplies, Gathering
<1>6. \A v \in Voices : v = call.v => Current(v)' = Settings(call.s)
  BY <1>1, <1>2, <1>3 DEF Current
<1> QED
  BY <1>1, <1>4, <1>5, <1>6

(* What a voice starts with was supplied to it before it has its source.   *)
LEMMA StartedComes ==
  ASSUME IInv, HeardInv, VoiceStarted
  PROVE  Current(call.v) = Settings(call.s) /\ Settings(call.s).s = call.s
  BY DEF IInv, Types, HeardInv, VoiceStarted, StartFits, Starting, Current, Gathering, Settings

LEMMA OwnComesNext == ASSUME IInv, HeardInv, Next PROVE OwnComes'
<1> USE DEF IInv, Types, HeardInv, OwnComes
<1> SUFFICES ASSUME NEW v \in Voices, voice'[v].sid # NoSource
    PROVE  Current(v)'.s = voice'[v].sid \/ (Awaited(v)' /\ update'[v] = Null)
  OBVIOUS
<1>1. CASE UpdateDeviceParams
  BY <1>1, ResetEffect DEF Awaited, Voices
<1>2. CASE VoiceStarted
  <2>1. Current(v)' = Current(v)
    BY <1>2, CurrentKept DEF VoiceStarted, SupplySwap, UpdateDeviceParams
  <2>2. CASE v = call.v
    BY <1>2, <2>1, <2>2, StartedComes, StartedEffect
  <2>3. CASE v # call.v
    <3>1. ~Awaited(v)
      BY <1>2 DEF VoiceStarted, Awaited, Phases, SuppliesAll, Supplies, Gathering
    <3> QED
      BY <1>2, <2>1, <2>3, <3>1, StartedEffect
  <2> QED
    BY <2>2, <2>3
<1>3. CASE SupplySwap
  <2>1. CASE v = call.v
    <3>1. voice' = voice
      BY <1>3 DEF SupplySwap
    <3>2. voice[v].sid = call.s
      BY <1>3, <2>1, <3>1, SwapComes
    <3>3. Settings(call.s).s = call.s
      BY DEF Settings
    <3> QED
      BY <1>3, <2>1, <3>1, <3>2, <3>3, SwapComes
  <2>2. CASE v # call.v
    <3>1. /\ voice' = voice /\ apply' = apply /\ update'[v] = update[v] /\ call'.at = call.at
          /\ Awaited(v) => Awaited(v)'
      BY <1>3, <2>2, SwapEffect DEF SupplySwap, Supplying, Supplied, Flags, Awaited
    <3> QED
      BY <1>3, <2>2, <3>1, CurrentKept DEF UpdateDeviceParams, SupplySwap
  <2> QED
    BY <2>1, <2>2
<1>4. CASE ~UpdateDeviceParams /\ ~VoiceStarted /\ ~SupplySwap
  <2>1. Current(v)' = Current(v) /\ voice'[v].sid = voice[v].sid
    BY <1>4, CurrentKept, PlayedKept
  <2> SUFFICES ASSUME Awaited(v), update[v] = Null PROVE Awaited(v)' /\ update'[v] = Null
    BY <2>1
  <2>2. SuppliesAll /\ mixer.pc = "idle" /\ apply = "reset"
    BY DEF Phases, Awaited
  <2>3. CASE SupplyLoad \/ allocVoiceProps \/ SupplyPop
    <3>1. /\ UNCHANGED <<update, apply>> /\ call'.pc \in Gathering /\ call'.at = call.at
          /\ call'.v = call.v
      BY <2>3 DEF SupplyLoad, allocVoiceProps, SupplyPop, Supplying, Gathering, Flags
    <3> QED
      BY <3>1 DEF Awaited
  <2>4. CASE SupplyLink \/ SupplyPush
    <3>1. UNCHANGED <<update, apply>> /\ call.pc \notin Gathering /\ call'.at = call.at
      BY <2>4 DEF SupplyLink, SupplyPush, Supplying, Supplied, Gathering, Flags
    <3> QED
      BY <3>1 DEF Awaited
  <2>5. CASE UpdateAllSourceProps
    <3>1. v >= call.at /\ call.at \in Voices /\ update' = update
      BY <2>5, UpdateAllEffect DEF Awaited, UpdateAllSourceProps, Gathering, Voices, CallFields
    <3>2. apply' = apply /\ (call'.at = call.at + 1)
      BY <2>5, <3>1, UpdateAllEffect DEF Supply
    <3>3. CASE v # call.at
      BY <2>2, <3>1, <3>2, <3>3 DEF Awaited, Voices
    <3>4. CASE v = call.at
      <4>1. source[voice[v].sid].dirty /\ source[voice[v].sid].vidx = v
            /\ voice[v].sid # NoSource
        BY <2>1, <2>2, <3>1 DEF ResetDirty, VoiceIsKnown
      <4>2. call' = Supply(voice[v].sid, v, "all", v + 1)
        BY <2>5, <3>1, <3>4, <4>1, UpdateAllEffect
      <4> QED
        BY <2>2, <3>1, <3>2, <4>2 DEF Awaited, Supply, Gathering
    <3> QED
      BY <3>3, <3>4
  <2>6. ~Call /\ ~Done /\ ~AwaitUpdate /\ ~ReleaseUpdates /\ ~Mix
    BY <1>4, <2>2
    DEF Call, SetSource, InitVoice, deferUpdates, HoldUpdates, Done, AwaitUpdate,
        ReleaseUpdates, SuppliesAll, Supplies, Gathering, Mix, UpdateBegins, UpdateHeld,
        CalcSourceParams, Copy, GiveBackLink, GiveBackPush, UpdateEnds, MixVoices
  <2> QED
    BY <1>4, <2>3, <2>4, <2>5, <2>6 DEF Next, CallGoesOn, UpdateSourceProps
<1> QED
  BY <1>1, <1>2, <1>3, <1>4

LEMMA LatestComesNext == ASSUME IInv, HeardInv, Next PROVE LatestComes'
<1> USE DEF IInv, Types, HeardInv
<1> DEFINE Owed(v) == /\ voice[v].sid # NoSource /\ ~source[voice[v].sid].dirty
                      /\ ~(call.pc \in Gathering /\ call.s = voice[v].sid)
<1> SUFFICES ASSUME NEW v \in Voices, Owed(v)'
    PROVE  Current(v)' = Settings(voice[v].sid)'
  BY DEF LatestComes
<1>1. ASSUME ~UpdateDeviceParams, ~(SupplySwap /\ v = call.v), voice'[v].sid = voice[v].sid,
             source'[voice[v].sid].n = source[voice[v].sid].n, Owed(v)
      PROVE  Current(v)' = Settings(voice[v].sid)'
  <2>1. Current(v)' = Current(v)
    BY <1>1, CurrentKept
  <2>2. Current(v) = Settings(voice[v].sid)
    BY <1>1 DEF LatestComes
  <2> QED
    BY <1>1, <2>1, <2>2 DEF Settings
<1>2. CASE UpdateDeviceParams
  BY <1>2, ResetEffect
<1>3. CASE VoiceStarted
  <2>1. CASE v = call.v
    <3>1. Current(v)' = Current(v) /\ ~UpdateDeviceParams
      BY <1>3, CurrentKept DEF VoiceStarted, SupplySwap, UpdateDeviceParams
    <3>2. Current(v) = Settings(call.s)
      BY <1>3, <2>1, StartedComes
    <3>3. voice'[v].sid = call.s /\ source'[call.s].n = source[call.s].n
      BY <1>3, <2>1, StartedEffect
    <3> QED
      BY <3>1, <3>2, <3>3 DEF Settings
  <2>2. CASE v # call.v
    <3>1. /\ voice'[v].sid = voice[v].sid
          /\ source'[voice[v].sid].n = source[voice[v].sid].n
          /\ source'[voice[v].sid].dirty = source[voice[v].sid].dirty
      BY <1>3, <2>2, StartedEffect
    <3>2. call.pc \notin Gathering /\ ~UpdateDeviceParams /\ ~SupplySwap
      BY <1>3 DEF VoiceStarted, Gathering, UpdateDeviceParams, SupplySwap
    <3> QED
      BY <1>1, <3>1, <3>2
  <2> QED
    BY <2>1, <2>2
<1>4. CASE SupplySwap
  <2>1. UNCHANGED <<voice, source>> /\ ~UpdateDeviceParams
    BY <1>4 DEF SupplySwap, UpdateDeviceParams
  <2>2. CASE v = call.v
    <3>1. voice[v].sid = call.s /\ Current(v)' = Settings(call.s)
      BY <1>4, <2>1, <2>2, SwapComes
    <3> QED
      BY <2>1, <3>1 DEF Settings
  <2>3. CASE v # call.v
    <3>1. voice[v].sid # call.s
      BY <1>4, <2>3, SwapComes
    <3> QED
      BY <1>1, <2>1, <2>3, <3>1
  <2> QED
    BY <2>2, <2>3
<1>5. CASE SupplySteps /\ ~SupplySwap
  <2>1. UNCHANGED <<voice, source>> /\ ~UpdateDeviceParams /\ call'.s = call.s
    BY <1>5, SupplyEffect DEF UpdateDeviceParams, Supplies, Gathering
  <2>2. call.pc \in Gathering => call'.pc \in Gathering
    BY <1>5 DEF SupplySteps, SupplyLoad, allocVoiceProps, SupplyPop, SupplyLink, SupplyPush,
                Supplying, Gathering
  <2> QED
    BY <1>1, <1>5, <2>1, <2>2
<1>6. CASE Mix
  <2>1. voice'[v].sid = voice[v].sid /\ UNCHANGED <<source, call>>
    BY <1>6, MixEffect
  <2>2. ~UpdateDeviceParams /\ (SupplySwap => call' # call)
    BY <1>6, MixEffect DEF UpdateDeviceParams, SupplySwap, Supplying, Supplied, CallFields,
                           Supplies, Gathering
  <2> QED
    BY <1>1, <2>1, <2>2
<1>7. CASE \E s \in Source : SetSource(s)
  <2>1. PICK s \in Source : SetSource(s)
    BY <1>7
  <2>2. voice' = voice /\ call.pc = "idle"
    BY <2>1 DEF SetSource
  <2>3. voice[v].sid # s
    <3> SUFFICES ASSUME voice[v].sid = s PROVE ~Owed(v)'
      OBVIOUS
    <3>1. CASE ~defer /\ HasVoice(s)
      <4>1. call' = Supply(s, source[s].vidx, "done", 0)
        BY <2>1, <3>1, SetSourceEffect
      <4> QED
        BY <2>2, <4>1 DEF Supply, Gathering
    <3>2. CASE ~(~defer /\ HasVoice(s))
      <4>1. source'[s].dirty
        BY <2>1, <3>2 DEF SetSource
      <4> QED
        BY <2>2, <4>1
    <3> QED
      BY <3>1, <3>2
  <2>4. source'[voice[v].sid] = source[voice[v].sid]
    BY <2>1, <2>2, <2>3, SetSourceEffect
  <2> QED
    BY <1>1, <2>2, <2>4 DEF UpdateDeviceParams, SupplySwap, Gathering, SetSource
<1>8. CASE \E s \in Source, w \in Voices : InitVoice(s, w)
  <2>1. PICK s \in Source, w \in Voices : InitVoice(s, w)
    BY <1>8
  <2>2. call.pc = "idle" /\ ~HasVoice(s) /\ apply' = apply /\ voice'[v].sid = voice[v].sid
    BY <2>1, InitVoiceEffect DEF InitVoice
  <2>3. voice[v].sid # s
    BY <2>2 DEF VoiceIsKnown, HasVoice, Null, Voices
  <2>4. source'[voice[v].sid] = source[voice[v].sid]
    BY <2>1, <2>2, <2>3, InitVoiceEffect
  <2>5. ~UpdateDeviceParams
    BY <2>1, ResetEffect, InitVoiceEffect DEF Supply
  <2> QED
    BY <1>1, <2>2, <2>4, <2>5 DEF SupplySwap, Gathering
<1>9. CASE UpdateAllSourceProps
  <2>1. voice' = voice /\ call.pc = "all"
    BY <1>9 DEF UpdateAllSourceProps
  <2>2. source'[voice[v].sid] = source[voice[v].sid]
    <3>1. CASE source' = source
      BY <3>1
    <3>2. CASE source' # source
      <4>1. /\ call' = Supply(voice[call.at].sid, call.at, "all", call.at + 1)
            /\ source' = [source EXCEPT ![voice[call.at].sid].dirty = FALSE]
        BY <1>9, <3>2 DEF UpdateAllSourceProps
      <4>2. voice[v].sid # voice[call.at].sid
        BY <2>1, <4>1 DEF Supply, Gathering
      <4> QED
        BY <4>1, <4>2
    <3> QED
      BY <3>1, <3>2
  <2> QED
    BY <1>1, <2>1, <2>2 DEF UpdateDeviceParams, SupplySwap, Gathering
<1>10. CASE deferUpdates \/ HoldUpdates \/ AwaitUpdate \/ ReleaseUpdates \/ Done
  <2>1. /\ UNCHANGED <<source, voice, update>>
        /\ call' = call \/ call.pc \notin Gathering
    BY <1>10 DEF deferUpdates, HoldUpdates, AwaitUpdate, ReleaseUpdates, Done, Gathering
  <2>2. ~UpdateDeviceParams /\ ~SupplySwap
    BY <1>10, ResetEffect, SwapEffect
    DEF deferUpdates, HoldUpdates, AwaitUpdate, ReleaseUpdates, Done, SupplySwap,
        UpdateDeviceParams, Idle, Supplying, Supplied, CallFields, Supplies, Gathering
  <2> QED
    BY <1>1, <2>1, <2>2
<1> QED
  BY <1>2, <1>3, <1>4, <1>5, <1>6, <1>7, <1>8, <1>9, <1>10
  DEF Next, Call, CallGoesOn, UpdateSourceProps, SupplySteps

LEMMA NextHeard == ASSUME IInv, HeardInv, [Next]_vars PROVE HeardInv'
<1>1. CASE Next
  BY <1>1, VoiceIsKnownNext, StartFitsNext, MixesPlayedNext, MixedAsItsSourceNext, OwnComesNext,
     ResetDirtyNext, LatestComesNext DEF HeardInv
<1>2. CASE UNCHANGED vars
  BY <1>2 DEF vars, HeardInv, VoiceIsKnown, StartFits, Starting, MixesPlayed, MixedAsItsSource,
     OwnComes, Awaited, ResetDirty, LatestComes, Current, Copying, Settings
<1> QED
  BY <1>1, <1>2

LEMMA LatestComesIsHeard == IInv /\ HeardInv => LatestIsHeard
<1> SUFFICES ASSUME IInv, HeardInv, NEW s \in Source, HasVoice(s), ~source[s].dirty,
                    update[source[s].vidx] = Null, call.pc = "idle" \/ call.pc = "all",
                    ~(mixer.pc = "copy" /\ mixer.v = source[s].vidx)
    PROVE  voice[source[s].vidx].props = Settings(s)
  BY DEF LatestIsHeard
<1>1. source[s].vidx \in Voices
  BY DEF IInv, Types, HasVoice
<1> QED
  BY <1>1 DEF HeardInv, LatestComes, HasVoice, Current, Copying, Gathering

-----------------------------------------------------------------------------
(* The list as the walk along it, and its length.                          *)

(* The least of some numbers.                                              *)
LEMMA Least ==
  ASSUME NEW K, K \subseteq Nat, K # {}
  PROVE  \E x \in K : \A y \in K : x <= y
<1>1. PICK x \in K : \A y \in K : ~(<<y, x>> \in OpToRel(<, Nat))
  BY NatLessThanWellFounded, WFMin
<1>2. ASSUME NEW y \in K PROVE x <= y
  <2>1. <<y, x>> \in Nat \X Nat /\ <<y, x>> \notin OpToRel(<, Nat)
    BY <1>1
  <2>2. ~(y < x)
    BY <2>1 DEF OpToRel
  <2> QED
    BY <2>2
<1> QED
  BY <1>2

Longest == Cardinality(Container)

LEMMA LongestIs == Longest = NVoices + 2 + Cluster /\ Longest \in Nat
  BY FS_Interval DEF Longest, Container

Walks(walk) ==
  walk = [k \in 0..Longest |->
           IF k = 0 THEN <<free>>
           ELSE LET w == walk[k - 1]
                IN IF w[Len(w)] = Null THEN w ELSE Append(w, next[w[Len(w)]])]

LEMMA FreeIsWalk ==
  ASSUME NEW W, Walks(W)
  PROVE  \E walk : Walks(walk) /\ FreeContainers = SubSeq(walk[Longest], 1, Len(walk[Longest]) - 1)
<1> DEFINE V == CHOOSE walk : Walks(walk)
<1>1. Walks(V)
  OBVIOUS
<1>2. FreeContainers = SubSeq(V[Longest], 1, Len(V[Longest]) - 1)
  BY DEF FreeContainers, Walks, Longest
<1> QED
  BY <1>1, <1>2

LEMMA FreeIsWalked ==
  ASSUME NEW F, Null \notin F, NEW l \in Nat, NEW p, Along(l, p, F, next, free), l <= Longest
  PROVE  /\ Len(FreeContainers) = l /\ DOMAIN FreeContainers = 1..l
         /\ \A i \in 1..l : FreeContainers[i] = p[i]
<1> USE LongestIs
<1> DEFINE size(k) == IF k < l THEN k + 1 ELSE l + 1
           at(i) == IF i <= l THEN p[i] ELSE Null
           prefix(k) == [i \in 1..size(k) |-> at(i)]
           S == F \cup {Null}
<1>1. /\ p \in [1..l -> F]
      /\ free = at(1)
      /\ \A i \in 1..l : at(i) \in F /\ at(i) # Null /\ next[at(i)] = at(i + 1)
      /\ at(l + 1) = Null
  BY DEF Along, Strung
<1>2. \A i \in 1..(l + 1) : at(i) \in S
  BY <1>1
<1> HIDE DEF at
<1>3. ASSUME NEW k \in Nat
      PROVE  /\ size(k) \in Nat /\ size(k) <= l + 1 /\ size(k) >= 1
             /\ prefix(k) \in Seq(S) /\ Len(prefix(k)) = size(k)
             /\ \A i \in 1..size(k) : prefix(k)[i] = at(i)
  <2>1. size(k) \in Nat /\ size(k) <= l + 1 /\ size(k) >= 1
    OBVIOUS
  <2> DEFINE n == size(k)
  <2> HIDE DEF n
  <2>2. n \in Nat /\ n <= l + 1
    BY <2>1 DEF n
  <2>3. [i \in 1..n |-> at(i)] \in [1..n -> S]
    BY <1>2, <2>2
  <2>4. [i \in 1..n |-> at(i)] \in Seq(S) /\ Len([i \in 1..n |-> at(i)]) = n
    BY <2>2, <2>3
  <2> QED
    BY <2>1, <2>4 DEF n
<1>4. prefix(0) = <<free>>
  <2>1. prefix(0) \in Seq(S) /\ Len(prefix(0)) = 1 /\ prefix(0)[1] = at(1)
    BY <1>3
  <2>2. <<free>> \in Seq(S) /\ Len(<<free>>) = 1 /\ <<free>>[1] = free
    BY <1>1, <1>2
  <2> HIDE DEF prefix
  <2> QED
    BY <1>1, <2>1, <2>2, SeqEqual
<1>5. ASSUME NEW k \in Nat \ {0}
      PROVE  prefix(k) = IF prefix(k - 1)[Len(prefix(k - 1))] = Null THEN prefix(k - 1)
                         ELSE Append(prefix(k - 1), next[prefix(k - 1)[Len(prefix(k - 1))]])
  <2>1. k - 1 \in Nat /\ k \in Nat
    OBVIOUS
  <2>2. prefix(k - 1)[Len(prefix(k - 1))] = at(size(k - 1))
    BY <1>3, <2>1
  <2>3. CASE k - 1 >= l
    <3>1. size(k - 1) = l + 1 /\ size(k) = l + 1
      BY <2>3
    <3> QED
      BY <1>1, <2>2, <3>1
  <2>4. CASE k - 1 < l
    <3>1. size(k - 1) = k /\ size(k) = k + 1 /\ k \in 1..l
      BY <2>4
    <3>2. at(k) # Null /\ next[at(k)] = at(k + 1) /\ at(k + 1) \in S
      BY <1>1, <1>2, <3>1
    <3>3. /\ prefix(k) \in Seq(S) /\ prefix(k - 1) \in Seq(S)
          /\ Len(prefix(k)) = k + 1 /\ Len(prefix(k - 1)) = k
          /\ \A i \in 1..(k + 1) : prefix(k)[i] = at(i)
          /\ \A i \in 1..k : prefix(k - 1)[i] = at(i)
      BY <1>3, <2>1, <3>1
    <3> HIDE DEF prefix, size
    <3> DEFINE a == Append(prefix(k - 1), at(k + 1))
    <3>4. /\ a \in Seq(S) /\ Len(a) = k + 1 /\ a[k + 1] = at(k + 1)
          /\ \A i \in 1..k : a[i] = at(i)
      BY <3>2, <3>3
    <3>5. \A i \in 1..(k + 1) : a[i] = prefix(k)[i]
      BY <3>3, <3>4
    <3> HIDE DEF a
    <3>6. prefix(k) = a
      BY <3>3, <3>4, <3>5, SeqEqual
    <3> QED
      BY <2>2, <3>1, <3>2, <3>6 DEF a
  <2> QED
    BY <2>3, <2>4
<1> HIDE DEF prefix
<1>6. ASSUME NEW walk, Walks(walk) PROVE walk[Longest] = prefix(Longest)
  <2> DEFINE K == {k \in 0..Longest : walk[k] # prefix(k)}
  <2> SUFFICES ASSUME K # {} PROVE FALSE
    OBVIOUS
  <2>1. PICK k \in K : \A j \in K : k <= j
    <3>1. K \subseteq Nat
      OBVIOUS
    <3> HIDE DEF K
    <3> QED
      BY <3>1, Least
  <2>2. k # 0
    BY <1>4, <1>6 DEF Walks
  <2>3. k \in Nat \ {0} /\ k - 1 \in 0..Longest /\ walk[k - 1] = prefix(k - 1)
    BY <2>1, <2>2
  <2>4. walk[k] = LET w == walk[k - 1]
                  IN IF w[Len(w)] = Null THEN w ELSE Append(w, next[w[Len(w)]])
    BY <1>6, <2>2 DEF Walks
  <2>5. walk[k] = prefix(k)
    BY <1>5, <2>3, <2>4
  <2> QED
    BY <2>5
<1>7. Walks([k \in 0..Longest |-> prefix(k)])
  <2> DEFINE W == [k \in 0..Longest |-> prefix(k)]
  <2>1. \A k \in 0..Longest : k # 0 => k \in Nat \ {0} /\ k - 1 \in 0..Longest /\ W[k - 1] = prefix(k - 1)
    OBVIOUS
  <2>2. \A k \in 0..Longest :
          prefix(k) = IF k = 0 THEN <<free>>
                      ELSE LET w == W[k - 1]
                           IN IF w[Len(w)] = Null THEN w ELSE Append(w, next[w[Len(w)]])
    BY <1>4, <1>5, <2>1
  <2> QED
    BY <2>2 DEF Walks
<1>8. FreeContainers = SubSeq(prefix(Longest), 1, Len(prefix(Longest)) - 1)
  BY <1>6, <1>7, FreeIsWalk
<1>9. /\ Len(prefix(Longest)) = l + 1
      /\ \A i \in 1..l : prefix(Longest)[i] = at(i)
  <2>1. size(Longest) = l + 1
    OBVIOUS
  <2> QED
    BY <1>3, <2>1 DEF prefix
<1>10. /\ FreeContainers \in Seq(F) /\ Len(FreeContainers) = l
       /\ \A i \in 1..l : FreeContainers[i] = prefix(Longest)[i]
  <2> DEFINE s == prefix(Longest)
  <2>1. \A i \in 1..l : s[i] \in F
    BY <1>1, <1>9
  <2> HIDE DEF s
  <2>2. /\ SubSeq(s, 1, l) \in Seq(F)
        /\ Len(SubSeq(s, 1, l)) = IF 1 <= l THEN l - 1 + 1 ELSE 0
        /\ \A i \in 1..(l - 1 + 1) : SubSeq(s, 1, l)[i] = s[1 + i - 1]
    BY <2>1, SubSeqProperties
  <2> QED
    BY <1>8, <1>9, <2>2 DEF s
<1> QED
  BY <1>9, <1>10 DEF at

(* Every container that was made is counted once.                          *)
LEMMA MadeIsCounted ==
  ASSUME IInv, NEW l \in Nat, NEW p, Along(l, p, Free, next, free)
  PROVE  /\ made = l + Cardinality(Attached) + Cardinality(InCall) + Cardinality(InMixer)
         /\ Cardinality(Attached) \in 0..NVoices
         /\ Cardinality(InCall) \in 0..1 /\ Cardinality(InMixer) \in 0..1
<1> DEFINE A == {update[v] : v \in Attached}
           H == InCall \cup InMixer
<1>1. made \in Nat /\ Apart
  BY DEF IInv, Types, OneOwner
<1>2. /\ IsFiniteSet(InCall) /\ Cardinality(InCall) \in 0..1
      /\ IsFiniteSet(InMixer) /\ Cardinality(InMixer) \in 0..1
  <2>1. (InCall = {} \/ InCall = {call.c}) /\ (InMixer = {} \/ InMixer = {mixer.c})
    BY DEF InCall, InMixer
  <2>2. ASSUME NEW S, NEW x, S = {} \/ S = {x}
        PROVE  IsFiniteSet(S) /\ (Cardinality(S) = 0 \/ Cardinality(S) = 1)
    <3>1. CASE S = {}
      BY <3>1, FS_EmptySet, Zenon
    <3>2. CASE S = {x}
      <4>1. IsFiniteSet({x}) /\ Cardinality({x}) = 1
        BY FS_Singleton, Zenon
      <4> QED
        BY <3>2, <4>1, Zenon
    <3> QED
      BY <2>2, <3>1, <3>2, Zenon
  <2>3. /\ IsFiniteSet(InCall) /\ (Cardinality(InCall) = 0 \/ Cardinality(InCall) = 1)
        /\ IsFiniteSet(InMixer) /\ (Cardinality(InMixer) = 0 \/ Cardinality(InMixer) = 1)
    <3>1. IsFiniteSet(InCall) /\ (Cardinality(InCall) = 0 \/ Cardinality(InCall) = 1)
      <4>1. InCall = {} \/ InCall = {call.c}
        BY <2>1
      <4> QED
        BY <2>2, <4>1, Zenon
    <3>2. IsFiniteSet(InMixer) /\ (Cardinality(InMixer) = 0 \/ Cardinality(InMixer) = 1)
      <4>1. InMixer = {} \/ InMixer = {mixer.c}
        BY <2>1
      <4> QED
        BY <2>2, <4>1, Zenon
    <3> QED
      BY <3>1, <3>2
  <2> QED
    BY <2>3
<1>3. IsFiniteSet(Attached) /\ Cardinality(Attached) \in 0..NVoices
  <2>1. IsFiniteSet(Voices) /\ Cardinality(Voices) = NVoices
    BY FS_Interval DEF Voices
  <2>2. Attached \in SUBSET Voices
    BY DEF Attached
  <2>3. IsFiniteSet(Attached) /\ Cardinality(Attached) <= Cardinality(Voices)
    BY <2>1, <2>2, FS_Subset
  <2>4. Cardinality(Attached) \in Nat
    BY <2>3, FS_CardinalityType
  <2> QED
    BY <2>1, <2>3, <2>4
<1>4. IsFiniteSet(A) /\ Cardinality(A) = Cardinality(Attached)
  <2> DEFINE f == [v \in Attached |-> update[v]]
  <2>1. f \in Bijection(Attached, A)
    BY <1>1 DEF Apart, Bijection, Injection, Surjection, IsInjective
  <2> QED
    BY <1>3, <2>1, FS_Bijection DEF ExistsBijection
<1>5. IsFiniteSet(Free) /\ Cardinality(Free) = l
  <2>1. p \in Bijection(1..l, Free)
    BY DEF Along, Strung, Bijection, Injection, Surjection, IsInjective
  <2>2. ExistsBijection(1..l, Free)
    BY <2>1 DEF ExistsBijection
  <2> QED
    BY <2>2, FS_CountingElements, FS_NatBijection
<1>6. IsFiniteSet(H) /\ Cardinality(H) = Cardinality(InCall) + Cardinality(InMixer)
  <2>1. InCall \cap InMixer = {}
    BY <1>1 DEF Apart
  <2> QED
    BY <1>2, <2>1, FS_Union, FS_EmptySet
<1>7. IsFiniteSet(Places) /\ Cardinality(Places) = Cardinality(H) + Cardinality(A)
  <2>1. H \cap A = {} /\ Places = H \cup A
    BY <1>1 DEF Apart, Places
  <2> HIDE DEF H, A
  <2>2. Cardinality(H) \in Nat /\ Cardinality(A) \in Nat
    BY <1>4, <1>6, FS_CardinalityType
  <2> QED
    BY <1>4, <1>6, <2>1, <2>2, FS_Union, FS_EmptySet
<1>8. Cardinality(1..made) = Cardinality(Places) + Cardinality(Free)
  <2>1. Places \cap Free = {} /\ 1..made = Places \cup Free
    BY <1>1 DEF Free, Apart
  <2>2. Cardinality(Places) \in Nat /\ Cardinality(Free) \in Nat
    BY <1>5, <1>7, FS_CardinalityType
  <2> QED
    <3> HIDE DEF A, H
    <3>1. Cardinality(Places \cup Free)
          = Cardinality(Places) + Cardinality(Free) - Cardinality(Places \cap Free)
      BY <1>5, <1>7, FS_Union
    <3>2. Cardinality(Places \cap Free) = 0
      BY <2>1, FS_EmptySet
    <3>3. Cardinality(1..made) = Cardinality(Places \cup Free)
      BY <2>1, Zenon
    <3> QED
      BY <2>2, <3>1, <3>2, <3>3
<1>9. Cardinality(1..made) = made
  BY <1>1, FS_Interval
<1> HIDE DEF A, H
<1> QED
  BY <1>2, <1>3, <1>4, <1>5, <1>6, <1>7, <1>8, <1>9

LEMMA FreeHasPath ==
  ASSUME IInv
  PROVE  \E l \in Nat : \E p : Along(l, p, Free, next, free)
  BY DEF IInv, OneOwner, Linked, Chain, Path

LEMMA InitFew == Init => FewMade
  BY DEF Init, FewMade

LEMMA FewMadeNext == ASSUME IInv, FewMade, Next PROVE FewMade'
<1> USE DEF IInv, Types, FewMade
<1>1. CASE SupplyLoad
  <2>1. made' = made
    BY <1>1 DEF SupplyLoad, List
  <2> SUFFICES ASSUME call'.pc = "grow" PROVE made <= NVoices + 1
    BY <2>1
  <2>2. free = Null /\ call.pc = "supply"
    BY <1>1 DEF SupplyLoad, Supplying
  <2>a. PICK l \in Nat : \E p : Along(l, p, Free, next, free)
    BY FreeHasPath
  <2>3. PICK p : Along(l, p, Free, next, free)
    BY <2>a
  <2>4. l = 0
    BY <2>2, <2>3, FreeFacts DEF Along, Strung
  <2>5. InCall = {}
    BY <2>2 DEF InCall
  <2>6. Cardinality(InCall) = 0
    BY <2>5, FS_EmptySet
  <2> HIDE DEF IInv, Types, FewMade
  <2> QED
    BY <2>3, <2>4, <2>6, MadeIsCounted
<1>2. CASE allocVoiceProps
  BY <1>2 DEF allocVoiceProps, Supplying
<1>3. CASE UpdateDeviceParams
  BY <1>3 DEF UpdateDeviceParams
<1>4. CASE made' = made /\ (call' = call \/ call'.pc # "grow")
  BY <1>4
<1>5. CASE SupplyPop \/ SupplySwap \/ SupplyLink \/ SupplyPush
  <2>1. call.then # "grow" /\ call'.pc # "grow"
    BY <1>5 DEF SupplyPop, SupplySwap, SupplyLink, SupplyPush, Supplying, Supplied, CallFields,
                Supplies, Gathering
  <2> QED
    BY <1>4, <1>5, <2>1 DEF SupplyPop, SupplySwap, SupplyLink, SupplyPush, List
<1>6. CASE Mix
  <2>1. made' = made
    BY <1>6 DEF Mix, UpdateBegins, UpdateHeld, CalcSourceParams, Copy, GiveBackLink, GiveBackPush,
                UpdateEnds, MixVoices, List
  <2> QED
    BY <1>4, <1>6, <2>1, MixEffect
<1>7. CASE \E s \in Source : SetSource(s) \/ \E w \in Voices : InitVoice(s, w)
  BY <1>4, <1>7 DEF SetSource, InitVoice, Supply, List
<1>8. CASE UpdateAllSourceProps
  BY <1>4, <1>8 DEF UpdateAllSourceProps, Supply, Idle, List
<1>9. CASE \/ deferUpdates \/ HoldUpdates \/ AwaitUpdate \/ ReleaseUpdates \/ VoiceStarted \/ Done
  BY <1>4, <1>9 DEF deferUpdates, HoldUpdates, AwaitUpdate, ReleaseUpdates, VoiceStarted, Done,
                    Idle, List
<1> QED
  BY <1>1, <1>2, <1>3, <1>5, <1>6, <1>7, <1>8, <1>9
  DEF Next, Call, CallGoesOn, UpdateSourceProps

LEMMA FewMadeStep == ASSUME IInv, FewMade, [Next]_vars PROVE FewMade'
  BY FewMadeNext DEF FewMade, vars

LEMMA ContainersAreCounted == IInv /\ FewMade => EachInOnePlace
<1> SUFFICES ASSUME IInv, FewMade PROVE EachInOnePlace
  OBVIOUS
<1>a. PICK l \in Nat : \E p : Along(l, p, Free, next, free)
  BY FreeHasPath
<1>1. PICK p : Along(l, p, Free, next, free)
  BY <1>a
<1>2. /\ made = l + Cardinality(Attached) + Cardinality(InCall) + Cardinality(InMixer)
      /\ Cardinality(Attached) \in 0..NVoices
      /\ Cardinality(InCall) \in 0..1 /\ Cardinality(InMixer) \in 0..1
  BY <1>1, MadeIsCounted
<1>3. made <= NVoices + 1 + Cluster
  BY DEF FewMade
<1>4. l <= Longest
  BY <1>2, <1>3, LongestIs
<1>5. /\ Len(FreeContainers) = l /\ DOMAIN FreeContainers = 1..l
      /\ \A i \in 1..l : FreeContainers[i] = p[i]
  BY <1>1, <1>4, FreeFacts, FreeIsWalked
<1>6. {FreeContainers[i] : i \in DOMAIN FreeContainers} = Free
  BY <1>1, <1>5 DEF Along, Strung
<1>7. Places \cup Free = 1..made
  BY DEF IInv, OneOwner, Apart, Free
<1>8. Places \cup {FreeContainers[i] : i \in DOMAIN FreeContainers} = 1..made
  BY <1>6, <1>7
<1> HIDE DEF FreeContainers
<1> QED
  BY <1>2, <1>3, <1>5, <1>8 DEF EachInOnePlace, Places

-----------------------------------------------------------------------------
(* For every number of sources, voices and calls, a container of settings  *)
(* is in one place at a time and the list links exactly the free ones,     *)
(* although a call takes from it and gives back to it while the mixer      *)
(* gives back (al/source.cpp, alc/alu.cpp, common/atomic.h).               *)
THEOREM ContainersHaveOneOwner == Spec => []OneOwner
<1>1. IInv => OneOwner
  BY DEF IInv
<1> QED
  BY InitInv, NextInv, <1>1, PTL DEF Spec

(* Settings that applyAllUpdates applied are heard in one mix by all       *)
(* voices it found changed, or by none (alc/context.cpp, alc/alu.cpp).     *)
THEOREM AppliedIsHeardTogether == Spec => []HeardTogether
<1>1. IInv => HeardTogether
  <2> SUFFICES ASSUME IInv, mixer.pc = "mix"
      PROVE  LET waiting == {v \in Voices : batch[v] # Nothing}
                 heard == {v \in waiting : voice[v].props.s = batch[v].s
                                            /\ voice[v].props.n >= batch[v].n}
             IN heard \in {{}, waiting}
    BY DEF HeardTogether
  <2>1. \A v \in Voices : batch[v] # Nothing <=> Waits(v)
    BY DEF IInv, BatchArrives, BatchOwned, Waits, Nothing
  <2>2. \/ \A v \in Voices : Waits(v) => Heard(v)
        \/ \A v \in Voices : Waits(v) => ~Heard(v)
    BY DEF IInv, AllOrNone, QuietAllOrNone, Quiet
  <2> QED
    BY <2>1, <2>2 DEF Heard, Fits
<1> QED
  BY InitInv, NextInv, <1>1, PTL DEF Spec

(* Every container is in one place and none is lost, a voice is mixed with *)
(* settings of the source it plays, and where nothing is on its way it has *)
(* the latest of them, for every number of sources, voices and calls       *)
(* (al/source.cpp, alc/alu.cpp).                                           *)
THEOREM LatestSettingsAreHeard == Spec => []Inv
<1>1. Init => IInv /\ HeardInv /\ FewMade
  BY InitInv, InitHeard, InitFew
<1>2. IInv /\ HeardInv /\ FewMade /\ [Next]_vars => (IInv /\ HeardInv /\ FewMade)'
  BY NextInv, NextHeard, FewMadeStep
<1>3. IInv /\ HeardInv /\ FewMade => Inv
  BY ContainersAreCounted, LatestComesIsHeard DEF Inv, HeardInv
<1> QED
  BY <1>1, <1>2, <1>3, PTL DEF Spec

-----------------------------------------------------------------------------
(* Effect slots: the inductive invariant, in parts.                        *)

Targets == Slot \cup {None}
States == Effect \cup {NoEffect}
SlotProps == [target : Targets, effect : States]
SlotState == [used : BOOLEAN, state : {"Initial", "Playing", "Stopped"}, target : Targets,
              effect : States, dirty : BOOLEAN]
Arrays == [slots : Seq(Slot), sorted : Seq(Slot)]
Mixes == [pc : {"hold", "updated", "update", "sort", "partition", "process"}, array : Arrays,
          same : BOOLEAN, held : BOOLEAN, todo : Seq(Slot), left : Nat, next : Nat]
Waiting == [pc : {"wait"}, slot : Slot, then : {"Playing", "Stopped", "deleted"}]

SlotTypes ==
  /\ api \in [Slot -> SlotState]
  /\ core \in [Slot -> [target : Targets, effect : States \cup {None}]]
  /\ slotUpdate \in [Slot -> SlotProps \cup {None}]
  /\ freeProps \in Seq(States)
  /\ events \subseteq Effect
  /\ activeSlots \in Arrays
  /\ slotMixer \in {[pc |-> "idle"], [pc |-> "load"]} \cup Mixes
  /\ slotCall \in {[pc |-> "idle"]} \cup Waiting

(* The mixer has read an array, which calls may have replaced since.       *)
Mixing == "array" \in DOMAIN slotMixer
Mixed == Slots!Range(slotMixer.array.slots)
Active == Slots!Range(activeSlots.slots)

(* What is targeted is in use, until the call that deletes it has made     *)
(* sure that nothing leads to it.                                          *)
Owned ==
  /\ \A s \in Slot : api[s].used => core[s].effect # None
  /\ \A s \in Slot : api[s].used => api[s].target \in Slots!Used \cup {None}
  /\ Slots!IsInjective(activeSlots.slots) /\ Active \subseteq Slots!Used
  /\ slotCall.pc = "wait" /\ slotCall.then = "deleted" =>
       /\ slotCall.slot \notin Active
       /\ \A x \in Slot : api[x].used => api[x].target # slotCall.slot

(* What is processed is in use until the mix ends.                         *)
MixedOwned ==
  Mixing => /\ Mixed \subseteq Slots!Used
            /\ Slots!Range(slotMixer.todo) \subseteq Mixed
            /\ IF slotMixer.same THEN slotMixer.array.slots = activeSlots.slots
                                 ELSE activeSlots.sorted = <<>>
            /\ slotMixer.pc \in {"sort", "partition", "process"} => slotMixer.todo = <<>>
            /\ slotMixer.pc = "updated" => slotMixer.held

(* What the mixer knows, or will when it has applied what waits.           *)
Coming(s) == IF slotUpdate[s] = None THEN core[s] ELSE slotUpdate[s]

Plays(s) == api[s].state = "Playing"
            \/ (slotCall.pc = "wait" /\ slotCall.slot = s /\ slotCall.then = "Playing")

PlayedAsSet ==
  \A s \in Slot : api[s].used /\ Plays(s) /\ ~api[s].dirty => Coming(s) = Slots!Settings(api, s)

(* A target that goes is made known at once, one that comes may wait.      *)
TargetKnown(s) == Coming(s).target \in {api[s].target, None}

TargetsKnown ==
  /\ \A s \in Active : TargetKnown(s)
  /\ Mixing => \A s \in Mixed : TargetKnown(s)
  /\ Mixing /\ ~slotMixer.held /\ slotMixer.pc \in {"update", "sort", "partition", "process"} =>
       \A s \in Mixed : s \in Slots!Range(slotMixer.todo)
                        \/ core[s].target \in Slots!Used \cup {None}

(* Of slots that target as t says.                                         *)
Leads(t, s, S) ==
  \A C \in SUBSET S : s \in C => \E x \in C : t[x] = None \/ t[x] \in S \ C

Ordered(t, o) ==
  \A i, j \in DOMAIN o : t[o[i]] = o[j] /\ Leads(t, o[j], Slots!Range(o)) => i < j

(* The first k of the order o are still to be sorted: none has no target   *)
(* or one after the n-th.  The others are sorted.                          *)
Parted(t, o, k, n) ==
  /\ Slots!IsInjective(o)
  /\ k <= n /\ n <= Len(o)
  /\ \A i \in DOMAIN o : i <= k =>
       t[o[i]] # None /\ \A m \in DOMAIN o : m > n => t[o[i]] # o[m]
  /\ \A i, j \in DOMAIN o : i > k /\ t[o[i]] = o[j] => i < j

TargetOf == [s \in Slot |-> core[s].target]

Sorted ==
  /\ ~Mixing => Ordered(TargetOf, activeSlots.sorted)
  /\ Mixing => IF slotMixer.pc = "partition"
               THEN Parted(TargetOf, slotMixer.array.sorted, slotMixer.left, slotMixer.next)
               ELSE Ordered(TargetOf, slotMixer.array.sorted)

SlotIInv == SlotTypes /\ Owned /\ MixedOwned /\ PlayedAsSet /\ TargetsKnown /\ Sorted

-----------------------------------------------------------------------------
(* Sequences of slots.                                                     *)

(* A slot that is taken out is out, and what is left is as it was. *)
LEMMA WithoutFacts ==
  ASSUME NEW slots \in Seq(Slot), Slots!IsInjective(slots), NEW s
  PROVE  /\ Slots!Without(slots, s) \in Seq(Slot)
         /\ Slots!IsInjective(Slots!Without(slots, s))
         /\ Slots!Range(Slots!Without(slots, s)) = Slots!Range(slots) \ {s}
<1>1. CASE s \notin Slots!Range(slots)
  BY <1>1 DEF Slots!Without
<1>2. CASE s \in Slots!Range(slots)
  <2> DEFINE k == CHOOSE i \in DOMAIN slots : slots[i] = s
             n == Len(slots)
             a == SubSeq(slots, 1, k - 1)
             b == SubSeq(slots, k + 1, n)
             w == Slots!Without(slots, s)
  <2>1. k \in 1..n /\ slots[k] = s /\ n \in Nat /\ DOMAIN slots = 1..n
    <3>1. DOMAIN slots = 1..n /\ n \in Nat
      OBVIOUS
    <3>2. \E i \in DOMAIN slots : slots[i] = s
      BY <1>2 DEF Slots!Range
    <3> QED
      BY <3>1, <3>2
  <2>2. w = a \o b
    BY <1>2 DEF Slots!Without, Slots!RemoveAt
  <2> HIDE DEF k, n
  <2>3. \A i \in 1..n : slots[i] \in Slot
    BY DEF n
  <2>4. a \in Seq(Slot) /\ Len(a) = k - 1 /\ \A i \in 1..k - 1 : a[i] = slots[i]
    BY <2>1, <2>3, SubSeqProperties
  <2>5. b \in Seq(Slot) /\ Len(b) = n - k /\ \A i \in 1..n - k : b[i] = slots[k + i]
    BY <2>1, <2>3, SubSeqProperties
  <2> HIDE DEF a, b, w
  <2>6. /\ w \in Seq(Slot) /\ Len(w) = n - 1
        /\ \A i \in 1..n - 1 : w[i] = IF i < k THEN slots[i] ELSE slots[i + 1]
    <3>1. w \in Seq(Slot) /\ Len(w) = n - 1
      BY <2>1, <2>2, <2>4, <2>5
    <3>2. ASSUME NEW i \in 1..n - 1 PROVE w[i] = IF i < k THEN slots[i] ELSE slots[i + 1]
      <4>1. CASE i < k
        <5>1. i \in 1..k - 1
          BY <2>1, <4>1
        <5>2. w[i] = a[i]
          BY <2>1, <2>2, <2>4, <2>5, <5>1
        <5> QED  BY <2>4, <4>1, <5>1, <5>2
      <4>2. CASE ~(i < k)
        <5>1. i - (k - 1) \in 1..n - k /\ k + (i - (k - 1)) = i + 1
          BY <2>1, <4>2
        <5>2. w[i] = b[i - (k - 1)]
          BY <2>1, <2>2, <2>4, <2>5, <4>2, <5>1
        <5> QED  BY <2>5, <4>2, <5>1, <5>2
      <4> QED
        BY <4>1, <4>2
    <3> QED
      BY <3>1, <3>2
  <2>7. \A i, j \in 1..n : slots[i] = slots[j] => i = j
    BY <2>1 DEF Slots!IsInjective
  <2>8. DOMAIN w = 1..n - 1
    BY <2>1, <2>6
  <2>9. Slots!IsInjective(w)
    <3> SUFFICES ASSUME NEW i \in 1..n - 1, NEW j \in 1..n - 1, w[i] = w[j] PROVE i = j
      BY <2>8 DEF Slots!IsInjective
    <3>1. /\ i \in 1..n /\ i + 1 \in 1..n /\ j \in 1..n /\ j + 1 \in 1..n
      BY <2>1
    <3>2. /\ w[i] = IF i < k THEN slots[i] ELSE slots[i + 1]
          /\ w[j] = IF j < k THEN slots[j] ELSE slots[j + 1]
      BY <2>6
    <3>3. (IF i < k THEN i ELSE i + 1) = (IF j < k THEN j ELSE j + 1)
      BY <2>7, <3>1, <3>2
    <3> QED
      BY <2>1, <3>3
  <2>10. Slots!Range(w) = Slots!Range(slots) \ {s}
    <3>1. ASSUME NEW i \in 1..n - 1 PROVE w[i] \in Slots!Range(slots) \ {s}
      <4> DEFINE j == IF i < k THEN i ELSE i + 1
      <4>1. j \in 1..n /\ j # k /\ w[i] = slots[j]
        BY <2>1, <2>6
      <4> HIDE DEF j
      <4>2. slots[j] # s
        BY <2>1, <2>7, <4>1
      <4> QED
        BY <2>1, <4>1, <4>2 DEF Slots!Range
    <3>2. ASSUME NEW x \in Slots!Range(slots) \ {s} PROVE \E i \in 1..n - 1 : w[i] = x
      <4>1. PICK j \in 1..n : slots[j] = x
        BY <2>1 DEF Slots!Range
      <4>2. CASE j < k
        BY <2>1, <2>6, <4>1, <4>2
      <4>3. CASE j > k
        <5>1. j - 1 \in 1..n - 1 /\ w[j - 1] = x
          BY <2>1, <2>6, <4>1, <4>3
        <5> QED  BY <5>1
      <4>4. j # k
        BY <2>1, <4>1
      <4> QED
        BY <2>1, <4>2, <4>3, <4>4
    <3> QED
      BY <2>8, <3>1, <3>2 DEF Slots!Range
  <2> QED
    BY <2>6, <2>9, <2>10 DEF w
<1> QED
  BY <1>1, <1>2

(* So is one that is put before the others. *)
LEMMA FirstFacts ==
  ASSUME NEW slots \in Seq(Slot), Slots!IsInjective(slots), NEW s \in Slot,
         s \notin Slots!Range(slots)
  PROVE  /\ <<s>> \o slots \in Seq(Slot)
         /\ Slots!IsInjective(<<s>> \o slots)
         /\ Slots!Range(<<s>> \o slots) = Slots!Range(slots) \cup {s}
<1> DEFINE w == <<s>> \o slots
           n == Len(slots)
<1>1. /\ n \in Nat /\ w \in Seq(Slot) /\ DOMAIN w = 1..n + 1 /\ DOMAIN slots = 1..n
      /\ w[1] = s /\ \A i \in 1..n : w[i + 1] = slots[i]
  OBVIOUS
<1> HIDE DEF w, n
<1>2. \A i \in 1..n + 1 : i = 1 \/ (i - 1 \in 1..n /\ w[i] = slots[i - 1])
  BY <1>1
<1>3. \A i \in 1..n : slots[i] # s
  BY <1>1 DEF Slots!Range
<1>4. Slots!IsInjective(w)
  <2> SUFFICES ASSUME NEW i \in 1..n + 1, NEW j \in 1..n + 1, w[i] = w[j] PROVE i = j
    BY <1>1 DEF Slots!IsInjective
  <2>1. i = 1 <=> w[i] = s
    BY <1>1, <1>2, <1>3
  <2>2. j = 1 <=> w[j] = s
    BY <1>1, <1>2, <1>3
  <2>3. CASE i # 1 /\ j # 1
    <3>1. i - 1 \in 1..n /\ j - 1 \in 1..n /\ slots[i - 1] = slots[j - 1]
      BY <1>2, <2>3
    <3>2. i - 1 = j - 1
      BY <1>1, <3>1 DEF Slots!IsInjective
    <3> QED
      BY <1>1, <3>2
  <2> QED
    BY <2>1, <2>2, <2>3
<1>5. Slots!Range(w) = Slots!Range(slots) \cup {s}
  <2>1. ASSUME NEW i \in 1..n + 1 PROVE w[i] \in Slots!Range(slots) \cup {s}
    BY <1>1, <1>2 DEF Slots!Range
  <2>2. 1 \in 1..n + 1 /\ \A i \in 1..n : i + 1 \in 1..n + 1 /\ w[i + 1] = slots[i]
    BY <1>1
  <2>3. ASSUME NEW x \in Slots!Range(slots) \cup {s} PROVE \E i \in 1..n + 1 : w[i] = x
    BY <1>1, <2>2 DEF Slots!Range
  <2>4. Slots!Range(w) = {w[i] : i \in 1..n + 1}
    BY <1>1 DEF Slots!Range
  <2> QED
    BY <2>1, <2>3, <2>4
<1> QED
  BY <1>1, <1>4, <1>5 DEF w

(* A partition has the slots of the order, each once.                      *)
LEMMA PartitionFacts ==
  ASSUME NEW o \in Seq(Slot), NEW k \in Nat, NEW P, NEW r \in Slots!Partitions(o, k, P)
  PROVE  /\ r.order \in Seq(Slot) /\ Len(r.order) = Len(o)
         /\ r.split \in Nat /\ r.split <= k
         /\ \A i \in DOMAIN o : r.order[i] \in Slots!Range(o)
         /\ Slots!IsInjective(r.order)
         /\ \A i \in DOMAIN o : i > k => r.order[i] = o[i]
         /\ \A i \in 1..k : r.order[i] \in P <=> i <= r.split
<1> DEFINE n == Len(o)
<1>1. DOMAIN o = 1..n /\ n \in Nat
  OBVIOUS
<1>2. Slots!Range(o) \subseteq Slot
  BY DEF Slots!Range
<1>3. r.order \in [1..n -> Slots!Range(o)] /\ r.split \in 0..k
  BY <1>1 DEF Slots!Partitions
<1>4. r.order \in Seq(Slot) /\ Len(r.order) = n
  BY <1>1, <1>2, <1>3
<1> QED
  BY <1>1, <1>3, <1>4 DEF Slots!Partitions

(* A step of the sorting: those that target the n-th go before what is     *)
(* sorted.                                                                 *)
LEMMA PartedStep ==
  ASSUME NEW t \in [Slot -> Targets], NEW o \in Seq(Slot), NEW k \in Nat, NEW n \in Nat,
         Parted(t, o, k, n), k > 1, n # k,
         NEW r \in Slots!Partitions(o, k, {s \in Slots!Range(o) : t[s] # o[n]})
  PROVE  Parted(t, r.order, r.split, n - 1)
<1> DEFINE P == {s \in Slots!Range(o) : t[s] # o[n]}
<1> HIDE DEF P
<1>1. /\ r.order \in Seq(Slot) /\ Len(r.order) = Len(o)
      /\ r.split \in Nat /\ r.split <= k
      /\ \A i \in DOMAIN o : r.order[i] \in Slots!Range(o)
      /\ Slots!IsInjective(r.order)
      /\ \A i \in DOMAIN o : i > k => r.order[i] = o[i]
      /\ \A i \in 1..k : r.order[i] \in P <=> i <= r.split
  BY PartitionFacts DEF P
<1> DEFINE q == r.order
           l == r.split
           N == Len(o)
<1>2. /\ N \in Nat /\ DOMAIN o = 1..N /\ DOMAIN q = 1..N /\ l \in Nat /\ l <= k
      /\ k < n /\ n <= N
  BY <1>1 DEF Parted
<1>3. \A i \in 1..N : i > k => q[i] = o[i]
  BY <1>1, <1>2
<1>4. \A i, j \in 1..N : q[i] = q[j] => i = j
  BY <1>1, <1>2 DEF Slots!IsInjective
<1>5. \A i \in 1..N : q[i] \in Slots!Range(o)
  BY <1>1, <1>2
<1>6. \A i \in 1..k : i <= l <=> t[q[i]] # o[n]
  BY <1>1, <1>2, <1>5 DEF P
<1> HIDE DEF q, l, N
<1>7. ASSUME NEW i \in 1..N, i <= k PROVE \E x \in 1..N : x <= k /\ q[i] = o[x]
  <2>1. PICK x \in 1..N : q[i] = o[x]
    BY <1>2, <1>5 DEF Slots!Range
  <2>2. x > k => q[x] = q[i]
    BY <1>3, <2>1
  <2> QED
    BY <1>2, <1>4, <1>7, <2>1, <2>2
<1>8. ASSUME NEW i \in 1..N, i <= l, NEW m \in 1..N, m > n - 1
      PROVE  t[q[i]] # None /\ t[q[i]] # q[m]
  <2>1. i \in 1..k /\ i <= k
    BY <1>2, <1>8
  <2>2. PICK x \in 1..N : x <= k /\ q[i] = o[x]
    BY <1>7, <2>1
  <2>3. t[o[x]] # None /\ (m > n => t[o[x]] # o[m])
    BY <1>2, <2>2 DEF Parted
  <2>4. q[m] = o[m] /\ (m = n \/ m > n)
    BY <1>2, <1>3, <1>8
  <2> QED
    BY <1>6, <1>8, <2>1, <2>2, <2>3, <2>4
<1>9. ASSUME NEW i \in 1..N, NEW j \in 1..N, i > l, t[q[i]] = q[j] PROVE i < j
  <2>1. CASE i <= k
    <3>1. i \in 1..k
      BY <1>2, <2>1
    <3>2. q[n] = o[n] /\ n \in 1..N
      BY <1>2, <1>3
    <3>3. t[q[i]] = o[n]
      BY <1>2, <1>6, <1>9, <3>1
    <3>4. j = n
      BY <1>4, <1>9, <3>2, <3>3
    <3> QED
      BY <1>2, <2>1, <3>4
  <2>2. CASE i > k
    <3>1. q[i] = o[i]
      BY <1>3, <2>2
    <3>2. CASE j > k
      <4>1. t[o[i]] = o[j]
        BY <1>3, <1>9, <3>1, <3>2
      <4> QED
        BY <1>2, <2>2, <4>1 DEF Parted
    <3>3. CASE j <= k
      <4>1. PICK x \in 1..N : x <= k /\ q[j] = o[x]
        BY <1>7, <3>3
      <4>2. i < x
        BY <1>2, <1>9, <2>2, <3>1, <4>1 DEF Parted
      <4> QED
        BY <1>2, <2>2, <4>1, <4>2
    <3> QED
      BY <1>2, <3>2, <3>3
  <2> QED
    BY <1>2, <2>1, <2>2
<1>10. Len(q) = N /\ Slots!IsInjective(q) /\ l <= n - 1 /\ n - 1 <= N
  BY <1>1, <1>2 DEF q, l, N
<1>11. \A i \in 1..N : i <= l => t[q[i]] # None
  <2> SUFFICES ASSUME NEW i \in 1..N, i <= l PROVE t[q[i]] # None
    OBVIOUS
  <2>1. n \in 1..N /\ n > n - 1
    BY <1>2
  <2> QED
    BY <1>8, <2>1
<1>12. Parted(t, q, l, n - 1)
  BY <1>2, <1>8, <1>9, <1>10, <1>11 DEF Parted
<1> QED
  BY <1>12 DEF q, l

(* The first one: those without a target go last. *)
LEMMA PartedFirst ==
  ASSUME NEW t \in [Slot -> Targets], NEW o \in Seq(Slot),
         NEW r \in Slots!Partitions(o, Len(o), {s \in Slots!Range(o) : t[s] # None})
  PROVE  Parted(t, r.order, r.split, Len(o))
<1> DEFINE P == {s \in Slots!Range(o) : t[s] # None}
           N == Len(o)
<1> HIDE DEF P
<1>0. N \in Nat
  OBVIOUS
<1>1. /\ r.order \in Seq(Slot) /\ Len(r.order) = Len(o)
      /\ r.split \in Nat /\ r.split <= N
      /\ \A i \in DOMAIN o : r.order[i] \in Slots!Range(o)
      /\ Slots!IsInjective(r.order)
      /\ \A i \in 1..N : r.order[i] \in P <=> i <= r.split
  BY <1>0, PartitionFacts DEF P
<1>2. N \in Nat /\ DOMAIN o = 1..N /\ DOMAIN r.order = 1..N
  BY <1>1
<1>3. \A i \in 1..N : i <= r.split <=> t[r.order[i]] # None
  BY <1>1, <1>2 DEF P
<1>4. \A i \in 1..N : r.order[i] # None
  BY <1>1, <1>2, SlotsAssumptions
<1> QED
  BY <1>1, <1>2, <1>3, <1>4 DEF Parted

(* What is left unsorted at the end leads to no output. *)
LEMMA PartedLast ==
  ASSUME NEW t \in [Slot -> Targets], NEW o \in Seq(Slot), NEW k \in Nat, NEW n \in Nat,
         Parted(t, o, k, n), k <= 1 \/ n = k
  PROVE  Ordered(t, o)
<1> DEFINE N == Len(o)
<1>1. N \in Nat /\ DOMAIN o = 1..N
  OBVIOUS
<1> HIDE DEF N
<1> SUFFICES ASSUME NEW i \in 1..N, NEW j \in 1..N,
                    t[o[i]] = o[j], Leads(t, o[j], Slots!Range(o))
             PROVE  i < j
  BY <1>1 DEF Ordered
<1>2. CASE i > k
  BY <1>1, <1>2 DEF Parted
<1>3. CASE i <= k /\ j > k
  BY <1>1, <1>3
<1>4. CASE i <= k /\ j <= k
  <2> DEFINE C == {x \in Slots!Range(o) : \E a \in 1..N : a <= k /\ o[a] = x}
  <2>1. o[j] \in C /\ C \in SUBSET Slots!Range(o)
    BY <1>1, <1>4 DEF Slots!Range
  <2>2. PICK x \in C : t[x] = None \/ t[x] \in Slots!Range(o) \ C
    <3> HIDE DEF C
    <3> QED  BY <2>1 DEF Leads
  <2>3. PICK a \in 1..N : a <= k /\ o[a] = x
    OBVIOUS
  <2>4. t[x] # None
    BY <1>1, <2>3 DEF Parted
  <2>5. PICK m \in 1..N : t[x] = o[m] /\ m > k
    <3>1. PICK m \in 1..N : t[x] = o[m]
      BY <1>1, <2>2, <2>4 DEF Slots!Range
    <3>2. o[m] \notin C /\ o[m] \in Slots!Range(o)
      BY <2>2, <2>4, <3>1
    <3> QED
      BY <1>1, <3>1, <3>2
  <2>6. CASE n = k
    BY <1>1, <2>3, <2>5, <2>6 DEF Parted
  <2>7. CASE k <= 1
    <3>1. a = j /\ a = i
      BY <1>1, <1>4, <2>3, <2>7
    <3>2. t[x] = x
      BY <2>3, <3>1
    <3> QED
      BY <2>2, <2>4, <3>2
  <2> QED
    BY <2>6, <2>7
<1> QED
  BY <1>1, <1>2, <1>3, <1>4

-----------------------------------------------------------------------------
(* What the steps are made of.                                             *)

Empty == [used |-> FALSE, state |-> "Initial", target |-> None, effect |-> NoEffect,
          dirty |-> FALSE]

LEMMA UnusedSlot == Slots!Unused = Empty /\ Empty \in SlotState /\ Slots!Idle = [pc |-> "idle"]
  BY DEF Slots!Unused, Empty, SlotState, Targets, States, Slots!Idle

LEMMA MixerShape ==
  ASSUME SlotTypes
  PROVE  /\ Mixing <=> slotMixer \in Mixes
         /\ Mixing <=> slotMixer.pc \notin {"idle", "load"}
         /\ Mixing <=> "same" \in DOMAIN slotMixer
<1>1. CASE slotMixer = [pc |-> "idle"]
  BY <1>1 DEF Mixing, Mixes
<1>2. CASE slotMixer = [pc |-> "load"]
  BY <1>2 DEF Mixing, Mixes
<1>3. CASE slotMixer \in Mixes
  BY <1>3 DEF Mixing, Mixes
<1> QED
  BY <1>1, <1>2, <1>3 DEF SlotTypes

(* Settings provided wait for the mixer; what is left of the free list is  *)
(* free containers.                                                        *)
LEMMA Provided ==
  ASSUME SlotTypes, NEW a \in [Slot -> SlotState], NEW S \in SUBSET Slot,
         NEW freed \in Seq(States), Slots!Provide(a, S, freed)
  PROVE  /\ slotUpdate' \in [Slot -> SlotProps \cup {None}]
         /\ freeProps' \in Seq(States)
         /\ \A s \in S : slotUpdate'[s] = Slots!Settings(a, s) /\ slotUpdate'[s] # None
         /\ \A s \in Slot \ S : slotUpdate'[s] = slotUpdate[s]
<1>1. \A s \in Slot : Slots!Settings(a, s) \in SlotProps
  BY DEF Slots!Settings, SlotProps, SlotState
<1>2. None \notin SlotProps
  BY SlotsAssumptions DEF SlotProps, Targets, States
<1>3. slotUpdate' = [s \in Slot |-> IF s \in S THEN Slots!Settings(a, s) ELSE slotUpdate[s]]
  BY DEF Slots!Provide
<1>4. /\ slotUpdate' \in [Slot -> SlotProps \cup {None}]
      /\ \A s \in S : slotUpdate'[s] = Slots!Settings(a, s) /\ slotUpdate'[s] # None
      /\ \A s \in Slot \ S : slotUpdate'[s] = slotUpdate[s]
  BY <1>1, <1>2, <1>3 DEF SlotTypes
<1>5. freeProps' \in Seq(States)
  <2> DEFINE D == {s \in S : slotUpdate[s] = None}
             k == Slots!Cardinality(D)
             n == Len(freed)
  <2>1. k \in Nat
    <3>1. IsFiniteSet(D)
      BY SlotsAssumptions, FS_Subset
    <3>2. k = Cardinality(D)
      BY DEF Slots!Cardinality, Cardinality
    <3> QED
      BY <3>1, <3>2, FS_CardinalityType
  <2>2. freeProps' = IF S = {} THEN freed
                     ELSE IF slotUpdate[Slots!Max(S)] = None THEN SubSeq(freed, k + 1, n)
                     ELSE <<NoEffect>> \o SubSeq(freed, k + 2, n)
    BY DEF Slots!Provide, Slots!Left
  <2> HIDE DEF k
  <2>3. n \in Nat /\ \A i \in 1..n : freed[i] \in States
    OBVIOUS
  <2>4. SubSeq(freed, k + 1, n) \in Seq(States)
    BY <2>1, <2>3, SubSeqProperties
  <2>5. SubSeq(freed, k + 2, n) \in Seq(States)
    BY <2>1, <2>3, SubSeqProperties
  <2>6. <<NoEffect>> \in Seq(States)
    BY DEF States
  <2> QED
    BY <2>2, <2>4, <2>5, <2>6
<1> QED
  BY <1>4, <1>5

(* A call that replaced the array left the mixer what it has.              *)
LEMMA Swapped ==
  ASSUME SlotTypes, NEW x \in Seq(Slot), Slots!Swaps(Slots!Array(x))
  PROVE  /\ activeSlots' = [slots |-> x, sorted |-> <<>>] /\ activeSlots' \in Arrays
         /\ slotMixer' \in {[pc |-> "idle"], [pc |-> "load"]} \cup Mixes
         /\ Mixing' <=> Mixing
         /\ slotMixer'.pc = slotMixer.pc
         /\ Mixing => /\ slotMixer'.array = slotMixer.array /\ slotMixer'.held = slotMixer.held
                      /\ slotMixer'.todo = slotMixer.todo /\ slotMixer'.left = slotMixer.left
                      /\ slotMixer'.next = slotMixer.next /\ ~slotMixer'.same
<1>1. activeSlots' = [slots |-> x, sorted |-> <<>>] /\ activeSlots' \in Arrays
  BY DEF Slots!Swaps, Slots!Array, Arrays
<1>2. slotMixer' = IF Mixing THEN [slotMixer EXCEPT !.same = FALSE] ELSE slotMixer
  BY MixerShape DEF Slots!Swaps
<1>3. CASE ~Mixing
  BY <1>1, <1>2, <1>3 DEF Mixing, SlotTypes
<1>4. CASE Mixing
  <2>1. slotMixer \in Mixes
    BY <1>4, MixerShape
  <2>2. slotMixer' \in Mixes /\ Mixing'
    BY <1>2, <1>4, <2>1 DEF Mixes, Mixing
  <2> QED
    BY <1>1, <1>2, <1>4, <2>1, <2>2 DEF Mixes
<1> QED
  BY <1>3, <1>4

LEMMA OrderedNone == ASSUME NEW t PROVE Ordered(t, <<>>)
  BY DEF Ordered

(* What the mixer has to do with stays right.                              *)
LEMMA SwapKeeps ==
  ASSUME SlotIInv, NEW x \in Seq(Slot), Slots!Swaps(Slots!Array(x)), core' = core,
         \A s \in Slot : api[s].used => api'[s].used
  PROVE  MixedOwned' /\ Sorted'
<1>1. SlotTypes /\ MixedOwned /\ Sorted
  BY DEF SlotIInv
<1>2. /\ activeSlots' = [slots |-> x, sorted |-> <<>>]
      /\ Mixing' <=> Mixing
      /\ slotMixer'.pc = slotMixer.pc
      /\ Mixing => /\ slotMixer'.array = slotMixer.array /\ slotMixer'.held = slotMixer.held
                   /\ slotMixer'.todo = slotMixer.todo /\ slotMixer'.left = slotMixer.left
                   /\ slotMixer'.next = slotMixer.next /\ ~slotMixer'.same
  BY <1>1, Swapped
<1>3. Slots!Used \subseteq Slots!Used'
  BY DEF Slots!Used
<1>4. MixedOwned'
  <2> SUFFICES ASSUME Mixing' PROVE MixedOwned'
    BY DEF MixedOwned
  <2>1. Mixed' = Mixed
    BY <1>2 DEF Mixed
  <2> QED
    BY <1>1, <1>2, <1>3, <2>1 DEF MixedOwned
<1>5. TargetOf' = TargetOf
  BY DEF TargetOf
<1>6. Sorted'
  BY <1>1, <1>2, <1>5, OrderedNone DEF Sorted
<1> QED
  BY <1>4, <1>6

LEMMA CallKeeps ==
  ASSUME SlotIInv, slotMixer' = slotMixer, activeSlots' = activeSlots, TargetOf' = TargetOf,
         \A s \in Slot : api[s].used => api'[s].used
  PROVE  MixedOwned' /\ Sorted'
<1>1. SlotTypes /\ MixedOwned /\ Sorted
  BY DEF SlotIInv
<1>2. Slots!Used \subseteq Slots!Used'
  BY DEF Slots!Used
<1>3. MixedOwned'
  BY <1>1, <1>2 DEF MixedOwned, Mixing, Mixed
<1>4. Sorted'
  BY <1>1 DEF Sorted, Mixing
<1> QED
  BY <1>3, <1>4

LEMMA TargetsKept ==
  ASSUME SlotIInv, TargetOf' = TargetOf, \A s \in Slot : api[s].used => api'[s].used,
         Mixing' <=> Mixing, slotMixer'.pc = slotMixer.pc,
         Mixing => /\ slotMixer'.array = slotMixer.array /\ slotMixer'.held = slotMixer.held
                   /\ slotMixer'.todo = slotMixer.todo
                   /\ \A s \in Mixed : TargetKnown(s)',
         \A s \in Active' : TargetKnown(s)'
  PROVE  TargetsKnown'
<1>1. SlotTypes /\ TargetsKnown
  BY DEF SlotIInv
<1>2. Slots!Used \subseteq Slots!Used'
  BY DEF Slots!Used
<1>3. \A s \in Slot : core'[s].target = core[s].target
  BY DEF TargetOf
<1>4. Mixing => Mixed' = Mixed /\ Mixed \subseteq Slot
  <2>1. Mixing => slotMixer.array.slots \in Seq(Slot)
    BY <1>1, MixerShape DEF Mixes, Arrays
  <2> QED
    BY <2>1 DEF Mixed, Slots!Range
<1> QED
  BY <1>1, <1>2, <1>3, <1>4 DEF TargetsKnown

(* A target that was known is, where its slot has not changed. *)
LEMMA KnownKept ==
  ASSUME NEW s, core'[s] = core[s], slotUpdate'[s] = slotUpdate[s],
         api'[s].target = api[s].target, TargetKnown(s)
  PROVE  TargetKnown(s)'
BY DEF TargetKnown, Coming

(* Which slots are active and mixed. *)
LEMMA AreSlots ==
  ASSUME SlotIInv
  PROVE  /\ Active \subseteq Slots!Used /\ Slots!Used \subseteq Slot
         /\ activeSlots.slots \in Seq(Slot) /\ Slots!IsInjective(activeSlots.slots)
         /\ Mixing => Mixed \subseteq Slots!Used
         /\ \A s \in Active : TargetKnown(s)
         /\ Mixing => \A s \in Mixed : TargetKnown(s)
BY DEF SlotIInv, SlotTypes, Owned, MixedOwned, TargetsKnown, Slots!Used, Arrays

-----------------------------------------------------------------------------
(* The calls.                                                              *)

LEMMA GenKeeps ==
  ASSUME SlotIInv, Slots!Gen
  PROVE  SlotIInv'
<1> DEFINE s0 == CHOOSE x \in Slot \ Slots!Used : \A y \in Slot \ Slots!Used : x <= y
<1>1. s0 \in Slot \ Slots!Used
  <2>1. Slot \in SUBSET Nat
    BY SlotsAssumptions, FS_CardinalityType
  <2>2. Slot \ Slots!Used # {}
    BY DEF Slots!Gen, Slots!Used
  <2> QED
    BY <2>1, <2>2, Least
<1>2. /\ api' = [api EXCEPT ![s0] = [Empty EXCEPT !.used = TRUE]]
      /\ core' = [core EXCEPT ![s0].effect = NoEffect]
      /\ slotCall = [pc |-> "idle"]
      /\ UNCHANGED <<slotUpdate, freeProps, events, activeSlots, slotMixer, slotCall>>
  BY UnusedSlot DEF Slots!Gen, Slots!Supply, Slots!Free
<1> HIDE DEF s0
<1>3. PICK s \in Slot \ Slots!Used : s = s0
  BY <1>1
<1>4. SlotTypes /\ Owned /\ PlayedAsSet
  BY DEF SlotIInv
<1>5. /\ api'[s] = [used |-> TRUE, state |-> "Initial", target |-> None, effect |-> NoEffect,
                    dirty |-> FALSE]
      /\ core'[s] = [target |-> core[s].target, effect |-> NoEffect]
      /\ \A x \in Slot \ {s} : api'[x] = api[x] /\ core'[x] = core[x]
      /\ api' \in [Slot -> SlotState]
      /\ core' \in [Slot -> [target : Targets, effect : States \cup {None}]]
      /\ ~api[s].used
  <2>1. api \in [Slot -> SlotState] /\ s \in Slot /\ ~api[s].used
    BY <1>3, <1>4 DEF SlotTypes, Slots!Used
  <2>2. core \in [Slot -> [target : Targets, effect : States \cup {None}]]
    BY <1>4 DEF SlotTypes
  <2>3. PICK fresh : fresh = [Empty EXCEPT !.used = TRUE]
    OBVIOUS
  <2>4. fresh = [used |-> TRUE, state |-> "Initial", target |-> None, effect |-> NoEffect,
                 dirty |-> FALSE] /\ fresh \in SlotState
    BY <2>3 DEF Empty, SlotState, Targets, States
  <2>5. api' = [api EXCEPT ![s] = fresh] /\ core' = [core EXCEPT ![s].effect = NoEffect]
    BY <1>2, <1>3, <2>3
  <2>6. /\ api' \in [Slot -> SlotState] /\ api'[s] = fresh
        /\ \A x \in Slot \ {s} : api'[x] = api[x]
    BY <2>1, <2>4, <2>5
  <2>7. /\ core' \in [Slot -> [target : Targets, effect : States \cup {None}]]
        /\ core'[s] = [target |-> core[s].target, effect |-> NoEffect]
        /\ \A x \in Slot \ {s} : core'[x] = core[x]
    BY <2>1, <2>2, <2>5 DEF States
  <2> QED
    BY <2>1, <2>4, <2>6, <2>7
<1>6. SlotTypes'
  BY <1>2, <1>4, <1>5 DEF SlotTypes
<1>7. /\ TargetOf' = TargetOf
      /\ \A x \in Slot : api[x].used => api'[x].used
  <2>1. \A x \in Slot : core'[x].target = core[x].target
    BY <1>5
  <2> QED
    BY <1>5, <2>1 DEF TargetOf
<1>8. Owned'
  <2>1. NoEffect # None
    BY SlotsAssumptions
  <2>2. Slots!Used \subseteq Slots!Used'
    BY <1>7 DEF Slots!Used
  <2>3. Active' = Active
    BY <1>2 DEF Active
  <2> QED
    BY <1>2, <1>4, <1>5, <2>1, <2>2, <2>3 DEF Owned
<1>9. MixedOwned' /\ Sorted'
  BY <1>2, <1>7, CallKeeps
<1>10. PlayedAsSet'
  BY <1>2, <1>4, <1>5 DEF PlayedAsSet, Plays, Coming, Slots!Settings
<1>11. TargetsKnown'
  <2>1. \A x \in Slots!Used : x # s /\ (TargetKnown(x) => TargetKnown(x)')
    BY <1>2, <1>5, KnownKept DEF Slots!Used
  <2>2. Mixing' = Mixing /\ Active' = Active
    BY <1>2 DEF Mixing, Active
  <2> QED
    BY <1>2, <1>7, <2>1, <2>2, AreSlots, TargetsKept
<1> QED
  BY <1>6, <1>8, <1>9, <1>10, <1>11 DEF SlotIInv

(* A call that gives the slots of S updates with their settings, and makes *)
(* those of the others that it changes dirty.                              *)
LEMMA ChangeKeeps ==
  ASSUME SlotIInv, NEW S \in SUBSET Slot,
         api' \in [Slot -> SlotState], slotUpdate' \in [Slot -> SlotProps \cup {None}],
         freeProps' \in Seq(States),
         core' = core, events' = events, slotMixer' = slotMixer,
         slotCall.pc = "idle", slotCall' = slotCall,
         activeSlots' = activeSlots
           \/ (~Mixing /\ activeSlots' = [slots |-> activeSlots.slots, sorted |-> <<>>]),
         \A s \in Slot : /\ api'[s].used = api[s].used
                         /\ api[s].used => api'[s].target \in Slots!Used \cup {None},
         \A s \in S : slotUpdate'[s] = Slots!Settings(api', s) /\ slotUpdate'[s] # None,
         \A s \in Slot \ S : /\ slotUpdate'[s] = slotUpdate[s]
                             /\ api'[s].target = api[s].target \/ api[s].target = None
                             /\ api'[s] = api[s] \/ api'[s].dirty \/ api'[s].state # "Playing"
  PROVE  SlotIInv'
<1>1. SlotTypes /\ Owned /\ MixedOwned /\ PlayedAsSet /\ TargetsKnown /\ Sorted
  BY DEF SlotIInv
<1>2. /\ activeSlots' \in Arrays /\ activeSlots'.slots = activeSlots.slots
      /\ activeSlots'.sorted \in {activeSlots.sorted, <<>>}
      /\ Mixing => activeSlots' = activeSlots
  <2>1. activeSlots \in Arrays
    BY <1>1 DEF SlotTypes
  <2>2. CASE activeSlots' = activeSlots
    BY <2>1, <2>2
  <2>3. CASE ~Mixing /\ activeSlots' = [slots |-> activeSlots.slots, sorted |-> <<>>]
    BY <2>1, <2>3 DEF Arrays
  <2> QED
    BY <2>2, <2>3
<1>3. SlotTypes'
  BY <1>1, <1>2 DEF SlotTypes
<1>4. TargetOf' = TargetOf /\ Slots!Used' = Slots!Used /\ Active' = Active
      /\ Mixing' = Mixing /\ Mixed' = Mixed
  BY <1>2 DEF TargetOf, Slots!Used, Active, Mixing, Mixed
<1>5. Owned'
  BY <1>1, <1>2, <1>4 DEF Owned
<1>6. MixedOwned'
  BY <1>1, <1>2, <1>4 DEF MixedOwned
<1>7. Sorted'
  BY <1>1, <1>2, <1>4, OrderedNone DEF Sorted
<1>8. PlayedAsSet'
  <2> SUFFICES ASSUME NEW s \in Slot, api'[s].used, Plays(s)', ~api'[s].dirty
               PROVE  Coming(s)' = Slots!Settings(api', s)
    BY DEF PlayedAsSet
  <2>1. CASE s \in S
    BY <2>1 DEF Coming
  <2>2. CASE s \notin S
    <3>1. api'[s] = api[s] /\ Plays(s)
      BY <2>2 DEF Plays
    <3> QED
      BY <1>1, <2>2, <3>1 DEF PlayedAsSet, Coming, Slots!Settings
  <2> QED
    BY <2>1, <2>2
<1>9. ASSUME NEW s \in Slots!Used, TargetKnown(s) PROVE TargetKnown(s)'
  <2>1. s \in Slot
    BY DEF Slots!Used
  <2>2. CASE s \in S
    <3>1. slotUpdate'[s] # None /\ slotUpdate'[s].target = api'[s].target
      <4>1. slotUpdate'[s] # None /\ slotUpdate'[s] = Slots!Settings(api', s)
        BY <2>2
      <4>2. Slots!Settings(api', s).target = api'[s].target
        BY DEF Slots!Settings
      <4> QED
        BY <4>1, <4>2
    <3>2. Coming(s)' = slotUpdate'[s]
      BY <3>1 DEF Coming
    <3> QED
      BY <3>1, <3>2 DEF TargetKnown
  <2>3. CASE s \notin S
    BY <1>9, <2>1, <2>3 DEF TargetKnown, Coming
  <2> QED
    BY <2>2, <2>3
<1>10. TargetsKnown'
  BY <1>4, <1>9, AreSlots, TargetsKept
<1> QED
  BY <1>3, <1>5, <1>6, <1>7, <1>8, <1>10 DEF SlotIInv

(* UpdateProps gives an update, or makes the slot dirty.                   *)
LEMMA UpdatedProps ==
  ASSUME SlotTypes, NEW a \in [Slot -> SlotState], NEW s \in Slot, NEW freed \in Seq(States),
         Slots!UpdateProps(a, s, freed)
  PROVE  \E S \in SUBSET {s} :
           /\ slotUpdate' \in [Slot -> SlotProps \cup {None}]
           /\ freeProps' \in Seq(States)
           /\ api' \in [Slot -> SlotState]
           /\ api' = IF S = {} THEN [a EXCEPT ![s].dirty = TRUE] ELSE a
           /\ \A x \in S : slotUpdate'[x] = Slots!Settings(a, x) /\ slotUpdate'[x] # None
           /\ \A x \in Slot \ S : slotUpdate'[x] = slotUpdate[x]
<1>1. CASE ~deferred /\ a[s].state = "Playing"
  <2>1. api' = a /\ Slots!Provide(a, {s}, freed)
    BY <1>1 DEF Slots!UpdateProps
  <2> WITNESS {s} \in SUBSET {s}
  <2> QED
    BY <2>1, Provided
<1>2. CASE ~(~deferred /\ a[s].state = "Playing")
  <2>1. api' = [a EXCEPT ![s].dirty = TRUE] /\ freeProps' = freed /\ slotUpdate' = slotUpdate
    BY <1>2 DEF Slots!UpdateProps
  <2>2. api' \in [Slot -> SlotState]
    BY <2>1 DEF SlotState
  <2> WITNESS {} \in SUBSET {s}
  <2> QED
    BY <2>1, <2>2 DEF SlotTypes
<1> QED
  BY <1>1, <1>2

LEMMA SetTargetKeeps ==
  ASSUME SlotIInv, NEW s \in Slot, NEW t \in Targets, Slots!SetTarget(s, t)
  PROVE  SlotIInv'
<1> DEFINE a0 == [api EXCEPT ![s].target = t]
<1>1. SlotTypes /\ Owned
  BY DEF SlotIInv
<1>2. /\ s \in Slots!Used /\ t \in Slots!Used \cup {None}
      /\ UNCHANGED <<core, events, activeSlots, slotMixer, slotCall>>
      /\ slotCall.pc = "idle"
      /\ IF api[s].target # None THEN api' = a0 /\ Slots!Provide(a0, {s}, freeProps)
                                 ELSE Slots!UpdateProps(a0, s, freeProps)
  BY UnusedSlot DEF Slots!SetTarget, Slots!Free, Slots!updateProps
<1>3. PICK a : a = a0
  OBVIOUS
<1>4. /\ a \in [Slot -> SlotState]
      /\ a[s].target = t /\ a[s].used = api[s].used
      /\ \A x \in Slot \ {s} : a[x] = api[x]
  BY <1>1, <1>3 DEF SlotTypes, SlotState
<1>5. PICK freed : freed = freeProps
  OBVIOUS
<1>6. freed \in Seq(States)
  BY <1>1, <1>5 DEF SlotTypes
<1>7. \A x \in Slot : /\ a[x].used = api[x].used
                      /\ api[x].used => a[x].target \in Slots!Used \cup {None}
  BY <1>1, <1>2, <1>4 DEF Owned, Slots!Used
<1> HIDE DEF a0
<1>8. CASE api[s].target # None
  <2>1. api' = a /\ Slots!Provide(a, {s}, freed)
    BY <1>2, <1>3, <1>5, <1>8
  <2>2. /\ slotUpdate' \in [Slot -> SlotProps \cup {None}]
        /\ freeProps' \in Seq(States)
        /\ \A x \in {s} : slotUpdate'[x] = Slots!Settings(a, x) /\ slotUpdate'[x] # None
        /\ \A x \in Slot \ {s} : slotUpdate'[x] = slotUpdate[x]
    BY <1>1, <1>4, <1>6, <2>1, Provided
  <2>3. PICK S \in SUBSET Slot : S = {s}
    OBVIOUS
  <2>4. /\ \A x \in Slot : /\ api'[x].used = api[x].used
                           /\ api[x].used => api'[x].target \in Slots!Used \cup {None}
        /\ \A x \in S : slotUpdate'[x] = Slots!Settings(api', x) /\ slotUpdate'[x] # None
        /\ \A x \in Slot \ S : slotUpdate'[x] = slotUpdate[x] /\ api'[x] = api[x]
    BY <1>4, <1>7, <2>1, <2>2, <2>3 DEF Slots!Settings
  <2>5. api' \in [Slot -> SlotState]
    BY <1>4, <2>1
  <2> QED
    BY <1>2, <2>2, <2>4, <2>5, ChangeKeeps
<1>9. CASE api[s].target = None
  <2>1. Slots!UpdateProps(a, s, freed)
    BY <1>2, <1>3, <1>5, <1>9
  <2>2. PICK S \in SUBSET {s} :
           /\ slotUpdate' \in [Slot -> SlotProps \cup {None}]
           /\ freeProps' \in Seq(States)
           /\ api' \in [Slot -> SlotState]
           /\ api' = IF S = {} THEN [a EXCEPT ![s].dirty = TRUE] ELSE a
           /\ \A x \in S : slotUpdate'[x] = Slots!Settings(a, x) /\ slotUpdate'[x] # None
           /\ \A x \in Slot \ S : slotUpdate'[x] = slotUpdate[x]
    BY <1>1, <1>4, <1>6, <2>1, UpdatedProps
  <2>3. /\ \A x \in Slot : api'[x].used = a[x].used /\ api'[x].target = a[x].target
                          /\ api'[x].effect = a[x].effect
        /\ \A x \in Slot \ {s} : api'[x] = a[x]
        /\ s \notin S => api'[s].dirty
    BY <1>4, <2>2 DEF SlotState
  <2>4. \A x \in S : slotUpdate'[x] = Slots!Settings(api', x) /\ slotUpdate'[x] # None
    BY <2>2, <2>3 DEF Slots!Settings
  <2>5. \A x \in Slot \ S : /\ api'[x].target = api[x].target \/ api[x].target = None
                            /\ api'[x] = api[x] \/ api'[x].dirty \/ api'[x].state # "Playing"
    BY <1>4, <1>9, <2>3
  <2>6. S \in SUBSET Slot
    OBVIOUS
  <2> QED
    <3>1. \A x \in Slot : /\ api'[x].used = api[x].used
                          /\ api[x].used => api'[x].target \in Slots!Used \cup {None}
      BY <1>7, <2>3
    <3> QED
      BY <1>2, <2>2, <2>4, <2>5, <2>6, <3>1, ChangeKeeps
<1> QED
  BY <1>8, <1>9

(* The call gives a slot that was added its settings; it is in the array   *)
(* from now on.                                                            *)
LEMMA AddKeeps ==
  ASSUME SlotIInv, NEW s \in Slots!Used, slotCall.pc = "idle",
         api' \in [Slot -> SlotState], slotUpdate' \in [Slot -> SlotProps \cup {None}],
         freeProps' \in Seq(States),
         core' = core, events' = events,
         Slots!AddActiveEffectSlots(s), Slots!Waits(s, "Playing"),
         api'[s].target = api[s].target, api'[s].used,
         slotUpdate'[s] = Slots!Settings(api', s), slotUpdate'[s] # None,
         \A x \in Slot \ {s} : slotUpdate'[x] = slotUpdate[x] /\ api'[x] = api[x]
  PROVE  SlotIInv'
<1>1. SlotTypes /\ Owned /\ MixedOwned /\ PlayedAsSet /\ TargetsKnown /\ Sorted
  BY DEF SlotIInv
<1>2. s \in Slot /\ api[s].used
  BY DEF Slots!Used
<1>3. slotCall' = [pc |-> "wait", slot |-> s, then |-> "Playing"] /\ slotCall' \in Waiting
  BY <1>2 DEF Slots!Waits, Waiting
<1>4. PICK w : w = <<s>> \o Slots!Without(activeSlots.slots, s)
  OBVIOUS
<1>5. w \in Seq(Slot) /\ Slots!IsInjective(w) /\ Slots!Range(w) = Active \cup {s}
  <2>1. PICK a : a = activeSlots.slots
    OBVIOUS
  <2>2. a \in Seq(Slot) /\ Slots!IsInjective(a) /\ Slots!Range(a) = Active
    BY <2>1, AreSlots DEF Active
  <2>3. PICK b : b = Slots!Without(a, s)
    OBVIOUS
  <2>4. b \in Seq(Slot) /\ Slots!IsInjective(b) /\ Slots!Range(b) = Active \ {s}
    BY <2>2, <2>3, WithoutFacts
  <2>5. w = <<s>> \o b
    BY <1>4, <2>1, <2>3
  <2>6. s \notin Slots!Range(b)
    BY <2>4
  <2>7. /\ <<s>> \o b \in Seq(Slot)
        /\ Slots!IsInjective(<<s>> \o b)
        /\ Slots!Range(<<s>> \o b) = Slots!Range(b) \cup {s}
    BY <1>2, <2>4, <2>6, FirstFacts
  <2> QED
    BY <2>4, <2>5, <2>7
<1>6. Slots!Swaps(Slots!Array(w))
  BY <1>4 DEF Slots!AddActiveEffectSlots
<1>7. /\ activeSlots' = [slots |-> w, sorted |-> <<>>] /\ activeSlots' \in Arrays
      /\ slotMixer' \in {[pc |-> "idle"], [pc |-> "load"]} \cup Mixes
      /\ Mixing' <=> Mixing
      /\ slotMixer'.pc = slotMixer.pc
      /\ Mixing => /\ slotMixer'.array = slotMixer.array /\ slotMixer'.held = slotMixer.held
                   /\ slotMixer'.todo = slotMixer.todo
  BY <1>1, <1>5, <1>6, Swapped
<1>8. SlotTypes'
  BY <1>1, <1>3, <1>7 DEF SlotTypes
<1>9. \A x \in Slot : api'[x].used = api[x].used /\ api'[x].target = api[x].target
  BY <1>1, <1>2 DEF SlotTypes, SlotState
<1>10. MixedOwned' /\ Sorted'
  BY <1>5, <1>6, <1>9, SwapKeeps
<1>11. Active' = Active \cup {s} /\ Slots!Used' = Slots!Used /\ TargetOf' = TargetOf
  BY <1>5, <1>7, <1>9 DEF Active, Slots!Used, TargetOf
<1>12. Owned'
  BY <1>1, <1>3, <1>5, <1>7, <1>9, <1>11 DEF Owned
<1>13. PlayedAsSet'
  <2> SUFFICES ASSUME NEW x \in Slot, api'[x].used, Plays(x)', ~api'[x].dirty
               PROVE  Coming(x)' = Slots!Settings(api', x)
    BY DEF PlayedAsSet
  <2>1. CASE x = s
    BY <2>1 DEF Coming
  <2>2. CASE x # s
    <3>1. api'[x] = api[x] /\ slotUpdate'[x] = slotUpdate[x] /\ Plays(x)
      BY <1>3, <2>2 DEF Plays
    <3> QED
      BY <1>1, <3>1 DEF PlayedAsSet, Coming, Slots!Settings
  <2> QED
    BY <2>1, <2>2
<1>14. ASSUME NEW x \in Slots!Used, x = s \/ TargetKnown(x) PROVE TargetKnown(x)'
  <2>1. x \in Slot
    BY DEF Slots!Used
  <2>2. CASE x = s
    <3>1. Slots!Settings(api', s).target = api'[s].target
      BY DEF Slots!Settings
    <3>2. Coming(s)' = slotUpdate'[s]
      BY DEF Coming
    <3>3. Coming(s)'.target = api'[s].target
      BY <3>1, <3>2
    <3> QED
      BY <2>2, <3>3 DEF TargetKnown
  <2>3. CASE x # s
    BY <1>14, <2>1, <2>3, KnownKept
  <2> QED
    BY <2>2, <2>3
<1>15. TargetsKnown'
  <2>1. \A x \in Active' : TargetKnown(x)'
    BY <1>11, <1>14, AreSlots
  <2>2. Mixing => \A x \in Mixed : TargetKnown(x)'
    BY <1>14, AreSlots
  <2> QED
    BY <1>7, <1>9, <1>11, <2>1, <2>2, TargetsKept
<1> QED
  BY <1>8, <1>10, <1>12, <1>13, <1>15 DEF SlotIInv

LEMMA PlayKeeps ==
  ASSUME SlotIInv, NEW s \in Slot, Slots!Play(s)
  PROVE  SlotIInv'
<1>1. SlotTypes
  BY DEF SlotIInv
<1>2. /\ s \in Slots!Used /\ slotCall.pc = "idle"
      /\ api' = [api EXCEPT ![s].dirty = FALSE]
      /\ Slots!Provide(api, {s}, freeProps)
      /\ core' = core /\ events' = events
      /\ Slots!AddActiveEffectSlots(s) /\ Slots!Waits(s, "Playing")
  BY UnusedSlot DEF Slots!Play, Slots!Free, Slots!updateProps
<1>3. PICK a, freed : a = api /\ freed = freeProps
  OBVIOUS
<1>4. /\ slotUpdate' \in [Slot -> SlotProps \cup {None}]
      /\ freeProps' \in Seq(States)
      /\ \A x \in {s} : slotUpdate'[x] = Slots!Settings(a, x) /\ slotUpdate'[x] # None
      /\ \A x \in Slot \ {s} : slotUpdate'[x] = slotUpdate[x]
  <2>1. a \in [Slot -> SlotState] /\ freed \in Seq(States) /\ Slots!Provide(a, {s}, freed)
    BY <1>1, <1>2, <1>3 DEF SlotTypes
  <2> QED
    BY <1>1, <2>1, Provided
<1>5. /\ api' \in [Slot -> SlotState]
      /\ api'[s].target = api[s].target /\ api'[s].effect = api[s].effect
      /\ api'[s].used = api[s].used
      /\ \A x \in Slot \ {s} : api'[x] = api[x]
  BY <1>1, <1>2 DEF SlotTypes, SlotState
<1>6. slotUpdate'[s] = Slots!Settings(api', s)
  BY <1>3, <1>4, <1>5 DEF Slots!Settings
<1>7. api[s].used
  BY <1>2 DEF Slots!Used
<1> QED
  BY <1>2, <1>4, <1>5, <1>6, <1>7, AddKeeps

LEMMA SetEffectKeeps ==
  ASSUME SlotIInv, NEW s \in Slot, NEW e \in States, Slots!SetEffect(s, e)
  PROVE  SlotIInv'
<1>1. SlotTypes /\ Owned
  BY DEF SlotIInv
<1>2. PICK a : a = [api EXCEPT ![s].effect = e]
  OBVIOUS
<1>3. PICK emptied : emptied = [i \in DOMAIN freeProps |-> NoEffect]
  OBVIOUS
<1>4. /\ s \in Slots!Used /\ slotCall.pc = "idle"
      /\ core' = core /\ events' = events
      /\ IF api[s].state = "Initial"
         THEN /\ api' = [a EXCEPT ![s].dirty = FALSE]
              /\ Slots!Provide(a, {s}, emptied)
              /\ Slots!AddActiveEffectSlots(s) /\ Slots!Waits(s, "Playing")
         ELSE /\ Slots!UpdateProps(a, s, emptied)
              /\ UNCHANGED <<activeSlots, slotMixer, slotCall>>
  BY <1>2, <1>3, UnusedSlot DEF Slots!SetEffect, Slots!Free
<1>5. emptied \in Seq(States)
  <2>1. DOMAIN freeProps = 1..Len(freeProps) /\ Len(freeProps) \in Nat
    BY <1>1 DEF SlotTypes
  <2>2. NoEffect \in States
    BY DEF States
  <2> QED
    BY <1>3, <2>1, <2>2
<1>6. /\ a \in [Slot -> SlotState]
      /\ a[s].target = api[s].target /\ a[s].used = api[s].used
      /\ \A x \in Slot \ {s} : a[x] = api[x]
  BY <1>1, <1>2 DEF SlotTypes, SlotState
<1>7. api[s].used
  BY <1>4 DEF Slots!Used
<1>8. CASE api[s].state = "Initial"
  <2>1. /\ api' = [a EXCEPT ![s].dirty = FALSE]
        /\ Slots!Provide(a, {s}, emptied)
        /\ Slots!AddActiveEffectSlots(s) /\ Slots!Waits(s, "Playing")
    BY <1>4, <1>8
  <2>2. /\ slotUpdate' \in [Slot -> SlotProps \cup {None}]
        /\ freeProps' \in Seq(States)
        /\ \A x \in {s} : slotUpdate'[x] = Slots!Settings(a, x) /\ slotUpdate'[x] # None
        /\ \A x \in Slot \ {s} : slotUpdate'[x] = slotUpdate[x]
    BY <1>1, <1>5, <1>6, <2>1, Provided
  <2>3. /\ api' \in [Slot -> SlotState]
        /\ api'[s].target = a[s].target /\ api'[s].effect = a[s].effect
        /\ api'[s].used = a[s].used
        /\ \A x \in Slot \ {s} : api'[x] = a[x]
    BY <1>6, <2>1 DEF SlotState
  <2>4. slotUpdate'[s] = Slots!Settings(api', s)
    BY <2>2, <2>3 DEF Slots!Settings
  <2> QED
    BY <1>4, <1>6, <1>7, <2>1, <2>2, <2>3, <2>4, AddKeeps
<1>9. CASE api[s].state # "Initial"
  <2>1. /\ Slots!UpdateProps(a, s, emptied)
        /\ UNCHANGED <<activeSlots, slotMixer, slotCall>>
    BY <1>4, <1>9
  <2>2. PICK S \in SUBSET {s} :
           /\ slotUpdate' \in [Slot -> SlotProps \cup {None}]
           /\ freeProps' \in Seq(States)
           /\ api' \in [Slot -> SlotState]
           /\ api' = IF S = {} THEN [a EXCEPT ![s].dirty = TRUE] ELSE a
           /\ \A x \in S : slotUpdate'[x] = Slots!Settings(a, x) /\ slotUpdate'[x] # None
           /\ \A x \in Slot \ S : slotUpdate'[x] = slotUpdate[x]
    BY <1>1, <1>5, <1>6, <2>1, UpdatedProps
  <2>3. /\ \A x \in Slot : api'[x].used = a[x].used /\ api'[x].target = a[x].target
                          /\ api'[x].effect = a[x].effect
        /\ \A x \in Slot \ {s} : api'[x] = a[x]
        /\ s \notin S => api'[s].dirty
    BY <1>6, <2>2 DEF SlotState
  <2>4. \A x \in S : slotUpdate'[x] = Slots!Settings(api', x) /\ slotUpdate'[x] # None
    BY <2>2, <2>3 DEF Slots!Settings
  <2>5. \A x \in Slot : /\ api'[x].used = api[x].used
                        /\ api'[x].target = api[x].target
                        /\ x \notin S => api'[x] = api[x] \/ api'[x].dirty
    BY <1>6, <2>3
  <2>6. \A x \in Slot : api[x].used => api'[x].target \in Slots!Used \cup {None}
    BY <1>1, <2>5 DEF Owned, Slots!Used
  <2>7. S \in SUBSET Slot
    OBVIOUS
  <2> QED
    BY <1>4, <2>1, <2>2, <2>4, <2>5, <2>6, <2>7, ChangeKeeps
<1> QED
  BY <1>8, <1>9

(* The call takes a slot out of the array, to stop it or to delete it.     *)
LEMMA RemoveKeeps ==
  ASSUME SlotIInv, NEW s \in Slots!Used, NEW then \in {"Stopped", "deleted"},
         slotCall.pc = "idle",
         Slots!RemoveActiveEffectSlots(s), Slots!Waits(s, then),
         UNCHANGED <<api, slotUpdate, freeProps, core, events>>,
         then = "deleted" => \A x \in Slots!Used : api[x].target # s
  PROVE  SlotIInv'
<1>1. SlotTypes /\ Owned /\ MixedOwned /\ PlayedAsSet /\ TargetsKnown /\ Sorted
  BY DEF SlotIInv
<1>2. slotCall' = [pc |-> "wait", slot |-> s, then |-> then] /\ slotCall' \in Waiting
  BY DEF Slots!Waits, Waiting, Slots!Used
<1>3. PICK w : w = Slots!Without(activeSlots.slots, s)
  OBVIOUS
<1>4. w \in Seq(Slot) /\ Slots!IsInjective(w) /\ Slots!Range(w) = Active \ {s}
  <2>1. PICK a : a = activeSlots.slots
    OBVIOUS
  <2>2. a \in Seq(Slot) /\ Slots!IsInjective(a) /\ Slots!Range(a) = Active
    BY <2>1, AreSlots DEF Active
  <2>3. w = Slots!Without(a, s)
    BY <1>3, <2>1
  <2> QED
    BY <2>2, <2>3, WithoutFacts
<1>5. Slots!Swaps(Slots!Array(w))
  BY <1>3 DEF Slots!RemoveActiveEffectSlots
<1>6. /\ activeSlots' = [slots |-> w, sorted |-> <<>>] /\ activeSlots' \in Arrays
      /\ slotMixer' \in {[pc |-> "idle"], [pc |-> "load"]} \cup Mixes
      /\ Mixing' <=> Mixing
      /\ slotMixer'.pc = slotMixer.pc
      /\ Mixing => /\ slotMixer'.array = slotMixer.array /\ slotMixer'.held = slotMixer.held
                   /\ slotMixer'.todo = slotMixer.todo
  BY <1>1, <1>4, <1>5, Swapped
<1>7. SlotTypes'
  BY <1>1, <1>2, <1>6 DEF SlotTypes
<1>8. MixedOwned' /\ Sorted'
  BY <1>4, <1>5, SwapKeeps
<1>9. Active' = Active \ {s} /\ Slots!Used' = Slots!Used /\ TargetOf' = TargetOf
  BY <1>4, <1>6 DEF Active, Slots!Used, TargetOf
<1>10. Owned'
  <2>1. then = "deleted" => \A x \in Slot : api[x].used => api[x].target # s
    BY DEF Slots!Used
  <2> QED
    BY <1>1, <1>2, <1>4, <1>6, <1>9, <2>1 DEF Owned
<1>11. PlayedAsSet'
  <2>1. \A x \in Slot : Plays(x)' => Plays(x)
    BY <1>2 DEF Plays
  <2> QED
    BY <1>1, <2>1 DEF PlayedAsSet, Coming, Slots!Settings
<1>12. TargetsKnown'
  <2>1. \A x : TargetKnown(x) => TargetKnown(x)'
    BY KnownKept
  <2> QED
    BY <1>6, <1>9, <2>1, AreSlots, TargetsKept
<1> QED
  BY <1>7, <1>8, <1>10, <1>11, <1>12 DEF SlotIInv

LEMMA StopKeeps ==
  ASSUME SlotIInv, NEW s \in Slot, Slots!Stop(s) \/ Slots!Delete(s)
  PROVE  SlotIInv'
<1>1. PICK then \in {"Stopped", "deleted"} :
        /\ s \in Slots!Used /\ slotCall.pc = "idle"
        /\ Slots!RemoveActiveEffectSlots(s) /\ Slots!Waits(s, then)
        /\ UNCHANGED <<api, slotUpdate, freeProps, core, events>>
        /\ then = "deleted" => \A x \in Slots!Used : api[x].target # s
  BY UnusedSlot DEF Slots!Stop, Slots!Delete, Slots!Free, Slots!Supply
<1> QED
  BY <1>1, RemoveKeeps

(* A slot that goes is one that nothing leads to and that no mix has.      *)
LEMMA CallEndsKeeps ==
  ASSUME SlotIInv, Slots!CallEnds
  PROVE  SlotIInv'
<1>1. SlotTypes /\ Owned /\ MixedOwned /\ PlayedAsSet /\ TargetsKnown /\ Sorted
  BY DEF SlotIInv
<1>2. /\ slotCall.pc = "wait" /\ slotMixer.pc = "idle"
      /\ IF slotCall.then = "deleted"
         THEN /\ api' = [api EXCEPT ![slotCall.slot] = Empty]
              /\ slotUpdate' = [slotUpdate EXCEPT ![slotCall.slot] = None]
              /\ core' = [core EXCEPT ![slotCall.slot].effect = None]
         ELSE /\ api' = [api EXCEPT ![slotCall.slot].state = slotCall.then]
              /\ UNCHANGED <<slotUpdate, core>>
      /\ slotCall' = [pc |-> "idle"]
      /\ UNCHANGED <<freeProps, events, activeSlots, slotMixer>>
  BY UnusedSlot DEF Slots!CallEnds, Slots!Mixed
<1>3. PICK s, then : s = slotCall.slot /\ then = slotCall.then
  OBVIOUS
<1>4. s \in Slot /\ then \in {"Playing", "Stopped", "deleted"}
  BY <1>1, <1>2, <1>3 DEF SlotTypes, Waiting
<1>5. ~Mixing /\ ~Mixing'
  BY <1>1, <1>2, MixerShape DEF Mixing
<1>6. Active' = Active /\ Active \subseteq Slots!Used /\ Slots!Used \subseteq Slot
  BY <1>2, AreSlots DEF Active
<1>7. MixedOwned'
  BY <1>5 DEF MixedOwned
<1>8. CASE then = "deleted"
  <2>1. /\ \A x \in Slot \ {s} : /\ api'[x] = api[x] /\ core'[x] = core[x]
                                 /\ slotUpdate'[x] = slotUpdate[x]
        /\ api'[s] = Empty /\ core'[s] = [core[s] EXCEPT !.effect = None]
        /\ slotUpdate'[s] = None
        /\ s \notin Active
        /\ \A x \in Slot : api[x].used => api[x].target # s
    BY <1>1, <1>2, <1>3, <1>4, <1>8 DEF SlotTypes, Owned
  <2>2. SlotTypes'
    <3>1. api' \in [Slot -> SlotState]
      BY <1>1, <1>2, <1>3, <1>8, UnusedSlot DEF SlotTypes
    <3>2. core' \in [Slot -> [target : Targets, effect : States \cup {None}]]
      BY <1>1, <1>2, <1>3, <1>8 DEF SlotTypes
    <3>3. slotUpdate' \in [Slot -> SlotProps \cup {None}]
      BY <1>1, <1>2, <1>3, <1>8 DEF SlotTypes
    <3> QED
      BY <1>1, <1>2, <3>1, <3>2, <3>3 DEF SlotTypes
  <2>3. TargetOf' = TargetOf
    <3>1. \A x \in Slot : core'[x].target = core[x].target
      BY <1>1, <2>1 DEF SlotTypes
    <3> QED
      BY <3>1 DEF TargetOf
  <2>4. Slots!Used' = Slots!Used \ {s}
    BY <2>1 DEF Slots!Used, Empty
  <2>5. Owned'
    <3>1. ~api'[s].used
      BY <2>1 DEF Empty
    <3>2. \A x \in Slot : api'[x].used => core'[x].effect # None
      BY <1>1, <2>1, <3>1 DEF Owned
    <3>3. \A x \in Slot : api'[x].used => api'[x].target \in Slots!Used' \cup {None}
      BY <1>1, <2>1, <2>4, <3>1 DEF Owned
    <3> QED
      BY <1>1, <1>2, <1>6, <2>1, <2>4, <3>2, <3>3 DEF Owned
  <2>6. PlayedAsSet'
    <3> SUFFICES ASSUME NEW x \in Slot, api'[x].used, Plays(x)', ~api'[x].dirty
                 PROVE  Coming(x)' = Slots!Settings(api', x)
      BY DEF PlayedAsSet
    <3>1. x # s
      BY <2>1 DEF Empty
    <3>2. Plays(x)
      BY <1>2, <2>1, <3>1 DEF Plays
    <3> QED
      BY <1>1, <2>1, <3>1, <3>2 DEF PlayedAsSet, Coming, Slots!Settings
  <2>7. TargetsKnown'
    <3>1. \A x \in Active : TargetKnown(x)'
      BY <1>6, <2>1, AreSlots, KnownKept
    <3> QED
      BY <1>5, <1>6, <3>1 DEF TargetsKnown
  <2>8. Sorted'
    BY <1>1, <1>2, <1>5, <2>3 DEF Sorted
  <2> QED
    BY <1>7, <2>2, <2>5, <2>6, <2>7, <2>8 DEF SlotIInv
<1>9. CASE then # "deleted"
  <2>1. then \in {"Playing", "Stopped"}
    BY <1>4, <1>9
  <2>2. api' = [api EXCEPT ![s].state = then] /\ UNCHANGED <<slotUpdate, core>>
    BY <1>2, <1>3, <1>9
  <2>3. /\ api' \in [Slot -> SlotState]
        /\ \A x \in Slot : /\ api'[x].used = api[x].used /\ api'[x].target = api[x].target
                           /\ api'[x].effect = api[x].effect /\ api'[x].dirty = api[x].dirty
        /\ \A x \in Slot \ {s} : api'[x] = api[x]
        /\ api'[s].state = then
    BY <1>1, <1>4, <2>1, <2>2 DEF SlotTypes, SlotState
  <2>4. SlotTypes'
    BY <1>1, <1>2, <2>2, <2>3 DEF SlotTypes
  <2>5. Slots!Used' = Slots!Used /\ TargetOf' = TargetOf
    BY <2>2, <2>3 DEF Slots!Used, TargetOf
  <2>6. Owned'
    BY <1>1, <1>2, <1>6, <2>2, <2>3, <2>5 DEF Owned
  <2>7. PlayedAsSet'
    <3> SUFFICES ASSUME NEW x \in Slot, api'[x].used, Plays(x)', ~api'[x].dirty
                 PROVE  Coming(x)' = Slots!Settings(api', x)
      BY DEF PlayedAsSet
    <3>1. Plays(x)
      BY <1>2, <1>3, <2>3 DEF Plays
    <3> QED
      BY <1>1, <2>2, <2>3, <3>1 DEF PlayedAsSet, Coming, Slots!Settings
  <2>8. TargetsKnown'
    <3>1. \A x \in Active : TargetKnown(x)'
      BY <1>6, <2>2, <2>3, AreSlots, KnownKept
    <3> QED
      BY <1>5, <1>6, <3>1 DEF TargetsKnown
  <2>9. Sorted'
    BY <1>1, <1>2, <1>5, <2>5 DEF Sorted
  <2> QED
    BY <1>7, <2>4, <2>6, <2>7, <2>8, <2>9 DEF SlotIInv
<1> QED
  BY <1>8, <1>9

LEMMA ResetDeviceKeeps ==
  ASSUME SlotIInv, Slots!ResetDevice
  PROVE  SlotIInv'
<1>1. SlotTypes /\ Owned
  BY DEF SlotIInv
<1>2. PICK a, freed : a = api /\ freed = freeProps
  OBVIOUS
<1>3. PICK S \in SUBSET Slot : S = Slots!Used
  BY DEF Slots!Used
<1>4. /\ slotCall.pc = "idle" /\ slotMixer.pc = "idle"
      /\ activeSlots' = [slots |-> activeSlots.slots, sorted |-> <<>>]
      /\ Slots!Provide(a, S, freed)
      /\ UNCHANGED <<api, core, events, slotMixer, slotCall>>
  BY <1>2, <1>3, UnusedSlot DEF Slots!ResetDevice, Slots!Free, Slots!Mixed, Slots!Array
<1>5. a \in [Slot -> SlotState] /\ freed \in Seq(States)
  BY <1>1, <1>2 DEF SlotTypes
<1>6. /\ slotUpdate' \in [Slot -> SlotProps \cup {None}]
      /\ freeProps' \in Seq(States)
      /\ \A x \in S : slotUpdate'[x] = Slots!Settings(a, x) /\ slotUpdate'[x] # None
      /\ \A x \in Slot \ S : slotUpdate'[x] = slotUpdate[x]
  BY <1>1, <1>4, <1>5, Provided
<1>7. \A x \in S : slotUpdate'[x] = Slots!Settings(api', x)
  BY <1>2, <1>4, <1>6
<1>8. ~Mixing
  BY <1>1, <1>4, MixerShape
<1>9. api' \in [Slot -> SlotState]
  BY <1>1, <1>4 DEF SlotTypes
<1>10. \A x \in Slot : api'[x] = api[x] /\ (api[x].used => api'[x].target \in Slots!Used \cup {None})
  BY <1>1, <1>4 DEF Owned
<1> QED
  BY <1>4, <1>6, <1>7, <1>8, <1>9, <1>10, ChangeKeeps

LEMMA UpdateAllKeeps ==
  ASSUME SlotIInv, Slots!UpdateAllEffectSlotProps
  PROVE  SlotIInv'
<1>1. SlotTypes /\ Owned
  BY DEF SlotIInv
<1>2. PICK a, freed : a = api /\ freed = freeProps
  OBVIOUS
<1>3. PICK S \in SUBSET Slot :
        S = {s \in Slots!Used : api[s].state # "Stopped" /\ api[s].dirty}
  BY DEF Slots!Used
<1>4. /\ slotCall.pc = "idle"
      /\ api' = [s \in Slot |-> IF s \in S THEN [api[s] EXCEPT !.dirty = FALSE] ELSE api[s]]
      /\ Slots!Provide(a, S, freed)
      /\ UNCHANGED <<core, events, activeSlots, slotMixer, slotCall>>
  BY <1>2, <1>3, UnusedSlot DEF Slots!UpdateAllEffectSlotProps, Slots!Free
<1>5. a \in [Slot -> SlotState] /\ freed \in Seq(States)
  BY <1>1, <1>2 DEF SlotTypes
<1>6. /\ slotUpdate' \in [Slot -> SlotProps \cup {None}]
      /\ freeProps' \in Seq(States)
      /\ \A x \in S : slotUpdate'[x] = Slots!Settings(a, x) /\ slotUpdate'[x] # None
      /\ \A x \in Slot \ S : slotUpdate'[x] = slotUpdate[x]
  BY <1>1, <1>4, <1>5, Provided
<1>7. /\ api' \in [Slot -> SlotState]
      /\ \A x \in Slot : /\ api'[x].used = api[x].used /\ api'[x].target = api[x].target
                         /\ api'[x].effect = api[x].effect
      /\ \A x \in Slot \ S : api'[x] = api[x]
  <2>1. \A x \in Slot : api[x] \in SlotState
    BY <1>1 DEF SlotTypes
  <2>2. \A x \in S : api'[x] = [api[x] EXCEPT !.dirty = FALSE]
    BY <1>4
  <2>3. ASSUME NEW x \in S
        PROVE  /\ api'[x] \in SlotState /\ api'[x].used = api[x].used
               /\ api'[x].target = api[x].target /\ api'[x].effect = api[x].effect
    BY <2>1, <2>2 DEF SlotState
  <2>4. \A x \in Slot \ S : api'[x] = api[x]
    BY <1>4
  <2>5. \A x \in Slot : api'[x] \in SlotState
    BY <2>1, <2>3, <2>4
  <2>6. api' \in [Slot -> SlotState]
    BY <1>4, <2>5
  <2> QED
    BY <2>3, <2>4, <2>6
<1>8. \A x \in S : slotUpdate'[x] = Slots!Settings(api', x)
  BY <1>2, <1>6, <1>7 DEF Slots!Settings
<1>9. \A x \in Slot : api[x].used => api'[x].target \in Slots!Used \cup {None}
  BY <1>1, <1>7 DEF Owned
<1> QED
  BY <1>4, <1>6, <1>7, <1>8, <1>9, ChangeKeeps

(* What only the events or the flags change stays right. *)
LEMMA OthersKeep ==
  ASSUME SlotIInv, events' \subseteq events,
         UNCHANGED <<api, core, slotUpdate, freeProps, activeSlots, slotMixer, slotCall>>
  PROVE  SlotIInv'
<1>1. SlotTypes /\ Owned /\ MixedOwned /\ PlayedAsSet /\ TargetsKnown /\ Sorted
  BY DEF SlotIInv
<1>2. SlotTypes'
  BY <1>1 DEF SlotTypes
<1>3. /\ Active' = Active /\ Slots!Used' = Slots!Used /\ TargetOf' = TargetOf
      /\ Mixing' = Mixing /\ Mixed' = Mixed
  BY DEF Active, Slots!Used, TargetOf, Mixing, Mixed
<1>4. Owned' /\ MixedOwned'
  BY <1>1, <1>3 DEF Owned, MixedOwned
<1>5. PlayedAsSet'
  BY <1>1 DEF PlayedAsSet, Plays, Coming, Slots!Settings
<1>6. TargetsKnown'
  BY <1>1, <1>3 DEF TargetsKnown, TargetKnown, Coming
<1>7. Sorted'
  BY <1>1, <1>3 DEF Sorted
<1> QED
  BY <1>2, <1>4, <1>5, <1>6, <1>7 DEF SlotIInv

-----------------------------------------------------------------------------
(* The mixer.                                                              *)

(* A step that only moves the mixer keeps what calls see.                  *)
LEMMA MoveKeeps ==
  ASSUME SlotIInv, UNCHANGED <<api, core, slotUpdate, freeProps, events, slotCall>>,
         activeSlots'.slots = activeSlots.slots
  PROVE  /\ Owned' /\ PlayedAsSet'
         /\ Slots!Used' = Slots!Used /\ TargetOf' = TargetOf /\ Active' = Active
         /\ \A s : TargetKnown(s) => TargetKnown(s)'
<1>1. Owned /\ PlayedAsSet
  BY DEF SlotIInv
<1>2. Active' = Active /\ Slots!Used' = Slots!Used /\ TargetOf' = TargetOf
  BY DEF Active, Slots!Used, TargetOf
<1>3. Owned'
  BY <1>1, <1>2 DEF Owned
<1>4. PlayedAsSet'
  BY <1>1 DEF PlayedAsSet, Plays, Coming, Slots!Settings
<1>5. \A s : TargetKnown(s) => TargetKnown(s)'
  BY KnownKept
<1> QED
  BY <1>2, <1>3, <1>4, <1>5

LEMMA MixBeginsKeeps ==
  ASSUME SlotIInv, Slots!MixBegins
  PROVE  SlotIInv'
<1>1. SlotTypes /\ TargetsKnown /\ Sorted
  BY DEF SlotIInv
<1>2. /\ slotMixer.pc = "idle" /\ slotMixer' = [pc |-> "load"]
      /\ UNCHANGED <<api, core, slotUpdate, freeProps, events, activeSlots, slotCall>>
  BY DEF Slots!MixBegins, Slots!Supply
<1>3. ~Mixing
  BY <1>1, <1>2, MixerShape
<1>4. ~Mixing'
  BY <1>2 DEF Mixing
<1>5. SlotTypes'
  BY <1>1, <1>2 DEF SlotTypes
<1>6. /\ Owned' /\ PlayedAsSet' /\ TargetOf' = TargetOf /\ Active' = Active
      /\ \A s : TargetKnown(s) => TargetKnown(s)'
  BY <1>2, MoveKeeps
<1> QED
  BY <1>1, <1>2, <1>3, <1>4, <1>5, <1>6 DEF SlotIInv, MixedOwned, TargetsKnown, Sorted

LEMMA MixLoadsKeeps ==
  ASSUME SlotIInv, Slots!MixLoads
  PROVE  SlotIInv'
<1>1. SlotTypes /\ Owned /\ TargetsKnown /\ Sorted
  BY DEF SlotIInv
<1>2. /\ slotMixer.pc = "load"
      /\ slotMixer' = [pc |-> "hold", array |-> activeSlots, same |-> TRUE, held |-> FALSE,
                       todo |-> <<>>, left |-> 0, next |-> 0]
      /\ UNCHANGED <<api, core, slotUpdate, freeProps, events, activeSlots, slotCall>>
  BY DEF Slots!MixLoads, Slots!Supply
<1>3. ~Mixing
  BY <1>1, <1>2, MixerShape
<1>4. Mixing' /\ Mixed' = Active
  BY <1>2 DEF Mixing, Mixed, Active
<1>5. SlotTypes'
  <2>1. slotMixer' \in Mixes
    BY <1>1, <1>2 DEF SlotTypes, Mixes
  <2> QED
    BY <1>1, <1>2, <2>1 DEF SlotTypes
<1>6. /\ Owned' /\ PlayedAsSet' /\ Slots!Used' = Slots!Used /\ TargetOf' = TargetOf
      /\ Active' = Active /\ \A s : TargetKnown(s) => TargetKnown(s)'
  BY <1>2, MoveKeeps
<1>7. Slots!Range(<<>>) = {}
  BY DEF Slots!Range
<1>8. MixedOwned'
  BY <1>1, <1>2, <1>4, <1>6, <1>7 DEF MixedOwned, Owned
<1>9. TargetsKnown'
  BY <1>1, <1>2, <1>4, <1>6 DEF TargetsKnown
<1>10. Sorted'
  BY <1>1, <1>2, <1>3, <1>4, <1>6 DEF Sorted
<1> QED
  BY <1>5, <1>6, <1>8, <1>9, <1>10 DEF SlotIInv

LEMMA MixLooksKeeps ==
  ASSUME SlotIInv, Slots!MixLooks
  PROVE  SlotIInv'
<1>1. SlotTypes /\ MixedOwned /\ TargetsKnown /\ Sorted
  BY DEF SlotIInv
<1>2. /\ slotMixer.pc = "hold"
      /\ slotMixer' = IF slotHold THEN [slotMixer EXCEPT !.pc = "updated", !.held = TRUE]
                      ELSE [slotMixer EXCEPT !.pc = "update", !.todo = slotMixer.array.slots]
      /\ UNCHANGED <<api, core, slotUpdate, freeProps, events, activeSlots, slotCall>>
  BY DEF Slots!MixLooks, Slots!Supply
<1>3. Mixing /\ slotMixer \in Mixes
  BY <1>1, <1>2, MixerShape
<1>4. /\ slotMixer' \in Mixes /\ slotMixer'.array = slotMixer.array
      /\ slotMixer'.same = slotMixer.same
      /\ \/ /\ slotMixer'.pc = "updated" /\ slotMixer'.held /\ slotMixer'.todo = slotMixer.todo
         \/ /\ slotMixer'.pc = "update" /\ slotMixer'.todo = slotMixer.array.slots
  BY <1>2, <1>3 DEF Mixes, Arrays
<1>5. SlotTypes'
  BY <1>1, <1>2, <1>4 DEF SlotTypes
<1>6. Mixing' /\ Mixed' = Mixed
  BY <1>4, <1>5, MixerShape DEF Mixing, Mixed, Mixes
<1>7. /\ Owned' /\ PlayedAsSet' /\ Slots!Used' = Slots!Used /\ TargetOf' = TargetOf
      /\ Active' = Active /\ \A s : TargetKnown(s) => TargetKnown(s)'
  BY <1>2, MoveKeeps
<1>8. MixedOwned'
  BY <1>1, <1>2, <1>3, <1>4, <1>6, <1>7 DEF MixedOwned, Mixed
<1>9. TargetsKnown'
  BY <1>1, <1>3, <1>4, <1>6, <1>7 DEF TargetsKnown, Mixed
<1>10. Sorted'
  BY <1>1, <1>2, <1>3, <1>4, <1>6, <1>7 DEF Sorted
<1> QED
  BY <1>5, <1>7, <1>8, <1>9, <1>10 DEF SlotIInv

LEMMA MixUpdatedKeeps ==
  ASSUME SlotIInv, Slots!MixUpdated
  PROVE  SlotIInv'
<1>1. SlotTypes /\ MixedOwned /\ TargetsKnown /\ Sorted
  BY DEF SlotIInv
<1>2. /\ slotMixer.pc \in {"update", "updated"} /\ slotMixer.todo = <<>>
      /\ slotMixer' = [slotMixer EXCEPT !.pc = "sort"]
      /\ UNCHANGED <<api, core, slotUpdate, freeProps, events, activeSlots, slotCall>>
  BY DEF Slots!MixUpdated, Slots!Supply
<1>3. Mixing /\ slotMixer \in Mixes
  BY <1>1, <1>2, MixerShape
<1>4. /\ slotMixer' \in Mixes /\ slotMixer'.array = slotMixer.array
      /\ slotMixer'.same = slotMixer.same /\ slotMixer'.held = slotMixer.held
      /\ slotMixer'.pc = "sort" /\ slotMixer'.todo = slotMixer.todo
  BY <1>2, <1>3 DEF Mixes
<1>5. SlotTypes'
  BY <1>1, <1>2, <1>4 DEF SlotTypes
<1>6. Mixing' /\ Mixed' = Mixed
  BY <1>4, <1>5, MixerShape DEF Mixing, Mixed, Mixes
<1>7. /\ Owned' /\ PlayedAsSet' /\ Slots!Used' = Slots!Used /\ TargetOf' = TargetOf
      /\ Active' = Active /\ \A s : TargetKnown(s) => TargetKnown(s)'
  BY <1>2, MoveKeeps
<1>8. MixedOwned'
  BY <1>1, <1>2, <1>3, <1>4, <1>6, <1>7 DEF MixedOwned
<1>9. TargetsKnown'
  <2>1. ~slotMixer.held => slotMixer.pc = "update"
    BY <1>1, <1>2, <1>3 DEF MixedOwned
  <2>2. \A s \in Slot : core'[s].target = core[s].target
    BY <1>2
  <2> QED
    BY <1>1, <1>2, <1>3, <1>4, <1>6, <1>7, <2>1 DEF TargetsKnown
<1>10. Sorted'
  BY <1>1, <1>2, <1>3, <1>4, <1>6, <1>7 DEF Sorted
<1> QED
  BY <1>5, <1>7, <1>8, <1>9, <1>10 DEF SlotIInv

LEMMA HeadOrTail ==
  ASSUME NEW q \in Seq(Slot), q # <<>>
  PROVE  /\ Head(q) \in Slot /\ Head(q) \in Slots!Range(q)
         /\ Tail(q) \in Seq(Slot) /\ Slots!Range(Tail(q)) \subseteq Slots!Range(q)
         /\ \A x \in Slots!Range(q) : x = Head(q) \/ x \in Slots!Range(Tail(q))
<1> DEFINE n == Len(q)
           p == Tail(q)
<1>1. n \in Nat /\ n > 0 /\ DOMAIN q = 1..n /\ Head(q) = q[1] /\ q[1] \in Slot
  OBVIOUS
<1>2. p \in Seq(Slot) /\ DOMAIN p = 1..n - 1 /\ \A i \in 1..n - 1 : p[i] = q[i + 1]
  OBVIOUS
<1> HIDE DEF n, p
<1>3. Head(q) \in Slots!Range(q)
  BY <1>1 DEF Slots!Range
<1>4. Slots!Range(p) \subseteq Slots!Range(q)
  <2>1. \A i \in 1..n - 1 : i + 1 \in 1..n
    BY <1>1
  <2> QED
    BY <1>1, <1>2, <2>1 DEF Slots!Range
<1>5. ASSUME NEW x \in Slots!Range(q) PROVE x = Head(q) \/ x \in Slots!Range(p)
  <2>1. PICK i \in 1..n : x = q[i]
    BY <1>1 DEF Slots!Range
  <2>2. CASE i = 1
    BY <1>1, <2>1, <2>2
  <2>3. CASE i # 1
    <3>1. i - 1 \in 1..n - 1 /\ p[i - 1] = x
      BY <1>1, <1>2, <2>1, <2>3
    <3> QED
      BY <1>2, <3>1 DEF Slots!Range
  <2> QED
    BY <2>2, <2>3
<1> QED
  BY <1>1, <1>2, <1>3, <1>4, <1>5 DEF p

(* The state that a slot had goes to the event thread or into the free     *)
(* container unless it is held elsewhere or is none that is counted.       *)
LEMMA ReleasedState ==
  ASSUME SlotTypes, NEW s \in Slot, slotUpdate[s] # None, Slots!CalcEffectSlotParams(s)
  PROVE  /\ events' \subseteq Effect /\ events \subseteq events'
         /\ \E e \in States : freeProps' = <<e>> \o freeProps
<1>1. PICK released \in Slots!Released(s, slotUpdate[s]) :
        /\ events' = events \cup IF released = "event" THEN {core[s].effect} ELSE {}
        /\ freeProps' = <<IF released = "kept" THEN core[s].effect ELSE NoEffect>> \o freeProps
  BY DEF Slots!CalcEffectSlotParams
<1>2. released \in {"event", "kept"} => core[s].effect \in Effect
  BY DEF Slots!Released
<1> QED
  BY <1>1, <1>2 DEF SlotTypes, States

LEMMA MixUpdatesKeeps ==
  ASSUME SlotIInv, Slots!MixUpdates
  PROVE  SlotIInv'
<1>1. SlotTypes /\ Owned /\ MixedOwned /\ PlayedAsSet /\ TargetsKnown /\ Sorted
  BY DEF SlotIInv
<1>2. /\ slotMixer.pc = "update" /\ slotMixer.todo # <<>>
      /\ IF slotUpdate[Head(slotMixer.todo)] # None
         THEN Slots!CalcEffectSlotParams(Head(slotMixer.todo))
         ELSE /\ slotMixer' = [slotMixer EXCEPT !.todo = Tail(@)]
              /\ UNCHANGED <<slotUpdate, core, events, freeProps>>
      /\ UNCHANGED <<api, activeSlots, slotCall>>
  BY DEF Slots!MixUpdates
<1>3. Mixing /\ slotMixer \in Mixes
  BY <1>1, <1>2, MixerShape
<1>4. PICK q : q = slotMixer.todo
  OBVIOUS
<1>5. q \in Seq(Slot) /\ q # <<>>
  BY <1>2, <1>3, <1>4 DEF Mixes
<1>6. PICK s : s = Head(q)
  OBVIOUS
<1>7. /\ s \in Slot /\ s \in Slots!Range(q) /\ Tail(q) \in Seq(Slot)
      /\ Slots!Range(Tail(q)) \subseteq Slots!Range(q)
      /\ \A x \in Slots!Range(q) : x = s \/ x \in Slots!Range(Tail(q))
  BY <1>5, <1>6, HeadOrTail
<1>8. /\ core' \in [Slot -> [target : Targets, effect : States \cup {None}]]
      /\ slotUpdate' \in [Slot -> SlotProps \cup {None}]
      /\ freeProps' \in Seq(States) /\ events' \subseteq Effect
      /\ \A x \in Slot : Coming(x)' = Coming(x)
      /\ core'[s] = Coming(s) /\ \A x \in Slot \ {s} : core'[x] = core[x]
      /\ slotMixer' \in Mixes /\ slotMixer'.todo = Tail(q)
      /\ slotMixer'.pc = "update" /\ slotMixer'.held = slotMixer.held
      /\ slotMixer'.same = slotMixer.same /\ slotMixer'.array.slots = slotMixer.array.slots
      /\ \/ slotMixer'.array.sorted = <<>>
         \/ TargetOf' = TargetOf /\ slotMixer'.array.sorted = slotMixer.array.sorted
  <2>1. CASE slotUpdate[s] # None
    <3>1. Slots!CalcEffectSlotParams(s)
      BY <1>2, <1>4, <1>6, <2>1
    <3>2. /\ slotUpdate' = [slotUpdate EXCEPT ![s] = None]
          /\ core' = [core EXCEPT ![s] = slotUpdate[s]]
          /\ slotMixer' = [slotMixer EXCEPT !.todo = Tail(@), !.array.sorted =
                             IF core[s].target # slotUpdate[s].target THEN <<>> ELSE @]
      BY <3>1 DEF Slots!CalcEffectSlotParams
    <3>3. slotUpdate[s] \in SlotProps
      BY <1>1, <1>7, <2>1 DEF SlotTypes
    <3>4. core' \in [Slot -> [target : Targets, effect : States \cup {None}]]
      BY <1>1, <1>7, <3>2, <3>3 DEF SlotTypes, SlotProps
    <3>5. slotUpdate' \in [Slot -> SlotProps \cup {None}]
      BY <1>1, <3>2 DEF SlotTypes
    <3>6. freeProps' \in Seq(States) /\ events' \subseteq Effect
      <4>1. events' \subseteq Effect /\ \E e \in States : freeProps' = <<e>> \o freeProps
        BY <1>1, <1>7, <2>1, <3>1, ReleasedState
      <4> QED
        BY <1>1, <4>1 DEF SlotTypes
    <3>7. /\ core'[s] = slotUpdate[s] /\ slotUpdate'[s] = None
          /\ \A x \in Slot \ {s} : core'[x] = core[x] /\ slotUpdate'[x] = slotUpdate[x]
      BY <1>1, <1>7, <3>2 DEF SlotTypes
    <3>8. Coming(s) = slotUpdate[s] /\ \A x \in Slot : Coming(x)' = Coming(x)
      BY <2>1, <3>7 DEF Coming
    <3>9. /\ slotMixer' \in Mixes /\ slotMixer'.todo = Tail(q)
          /\ slotMixer'.pc = "update" /\ slotMixer'.held = slotMixer.held
          /\ slotMixer'.same = slotMixer.same
          /\ slotMixer'.array.slots = slotMixer.array.slots
          /\ slotMixer'.array.sorted = IF core[s].target # slotUpdate[s].target THEN <<>>
                                       ELSE slotMixer.array.sorted
      <4>1. PICK o : o = IF core[s].target # slotUpdate[s].target THEN <<>>
                         ELSE slotMixer.array.sorted
        OBVIOUS
      <4>2. PICK a : a = [slots |-> slotMixer.array.slots, sorted |-> o]
        OBVIOUS
      <4>3. slotMixer.array \in Arrays
        BY <1>3 DEF Mixes
      <4>4. o \in Seq(Slot)
        BY <4>1, <4>3 DEF Arrays
      <4>5. a \in Arrays /\ [slotMixer.array EXCEPT !.sorted = o] = a
        BY <4>2, <4>3, <4>4 DEF Arrays
      <4>6. slotMixer' = [slotMixer EXCEPT !.todo = Tail(q), !.array = a]
        BY <1>3, <1>4, <3>2, <4>1, <4>5 DEF Mixes
      <4>7. /\ slotMixer' \in Mixes /\ slotMixer'.todo = Tail(q) /\ slotMixer'.array = a
            /\ slotMixer'.pc = slotMixer.pc /\ slotMixer'.held = slotMixer.held
            /\ slotMixer'.same = slotMixer.same
        BY <1>3, <1>7, <4>5, <4>6 DEF Mixes
      <4> QED
        BY <1>2, <4>1, <4>2, <4>7
    <3>10. core[s].target = slotUpdate[s].target => TargetOf' = TargetOf
      <4> SUFFICES ASSUME core[s].target = slotUpdate[s].target PROVE TargetOf' = TargetOf
        OBVIOUS
      <4>1. \A x \in Slot : core'[x].target = core[x].target
        BY <3>7
      <4> QED
        BY <4>1 DEF TargetOf
    <3> QED
      BY <3>4, <3>5, <3>6, <3>7, <3>8, <3>9, <3>10
  <2>2. CASE slotUpdate[s] = None
    <3>1. /\ slotMixer' = [slotMixer EXCEPT !.todo = Tail(@)]
          /\ UNCHANGED <<slotUpdate, core, events, freeProps>>
      BY <1>2, <1>4, <1>6, <2>2
    <3>2. Coming(s) = core[s] /\ \A x \in Slot : Coming(x)' = Coming(x)
      BY <2>2, <3>1 DEF Coming
    <3>3. TargetOf' = TargetOf
      BY <3>1 DEF TargetOf
    <3>4. /\ slotMixer' \in Mixes /\ slotMixer'.todo = Tail(q)
          /\ slotMixer'.pc = "update" /\ slotMixer'.held = slotMixer.held
          /\ slotMixer'.same = slotMixer.same /\ slotMixer'.array = slotMixer.array
      BY <1>2, <1>3, <1>4, <1>7, <3>1 DEF Mixes
    <3> QED
      BY <1>1, <3>1, <3>2, <3>3, <3>4 DEF SlotTypes
  <2> QED
    BY <2>1, <2>2
<1>9. SlotTypes'
  BY <1>1, <1>2, <1>8 DEF SlotTypes
<1>10. Mixing' /\ Mixed' = Mixed /\ Active' = Active /\ Slots!Used' = Slots!Used
  <2>1. Mixing'
    BY <1>8 DEF Mixing, Mixes
  <2> QED
    BY <1>2, <1>8, <2>1 DEF Mixed, Active, Slots!Used
<1>11. \A x \in Slot : TargetKnown(x) => TargetKnown(x)'
  BY <1>2, <1>8 DEF TargetKnown
<1>12. Mixed \subseteq Slots!Used /\ Slots!Used \subseteq Slot /\ Active \subseteq Slots!Used
       /\ s \in Mixed
  <2>1. s \in Mixed
    BY <1>1, <1>3, <1>4, <1>7 DEF MixedOwned
  <2> QED
    BY <1>3, <2>1, AreSlots
<1>13. Owned'
  <2>1. core'[s].effect # None
    <3>1. CASE slotUpdate[s] = None
      BY <1>1, <1>8, <1>12, <3>1 DEF Coming, Owned, Slots!Used
    <3>2. CASE slotUpdate[s] # None
      <4>1. slotUpdate[s].effect \in States /\ None \notin States
        BY <1>1, <1>7, <3>2, SlotsAssumptions DEF SlotTypes, SlotProps, States
      <4> QED
        BY <1>8, <3>2, <4>1 DEF Coming
    <3> QED
      BY <3>1, <3>2
  <2>2. \A x \in Slot : api'[x].used => core'[x].effect # None
    BY <1>1, <1>2, <1>8, <2>1 DEF Owned
  <2> QED
    BY <1>1, <1>2, <1>10, <2>2 DEF Owned
<1>14. MixedOwned'
  BY <1>1, <1>2, <1>3, <1>4, <1>7, <1>8, <1>10 DEF MixedOwned
<1>15. PlayedAsSet'
  BY <1>1, <1>2, <1>8 DEF PlayedAsSet, Plays, Slots!Settings
<1>16. TargetsKnown'
  <2>1. core'[s].target \in Slots!Used \cup {None}
    <3>1. TargetKnown(s) /\ api[s].used
      BY <1>3, <1>12, AreSlots DEF Slots!Used
    <3> QED
      BY <1>1, <1>7, <1>8, <3>1 DEF TargetKnown, Owned
  <2>2. ASSUME ~slotMixer.held, NEW x \in Mixed
        PROVE  x \in Slots!Range(Tail(q)) \/ core'[x].target \in Slots!Used \cup {None}
    <3>1. x \in Slots!Range(q) \/ core[x].target \in Slots!Used \cup {None}
      BY <1>1, <1>2, <1>3, <1>4, <2>2 DEF TargetsKnown
    <3>2. x \in Slot
      BY <1>12
    <3> QED
      BY <1>7, <1>8, <2>1, <3>1, <3>2
  <2>3. (\A x \in Active : TargetKnown(x)') /\ (\A x \in Mixed : TargetKnown(x)')
    BY <1>3, <1>11, <1>12, AreSlots
  <2> QED
    BY <1>8, <1>10, <2>2, <2>3 DEF TargetsKnown
<1>17. Sorted'
  BY <1>1, <1>2, <1>3, <1>8, <1>10, OrderedNone DEF Sorted
<1> QED
  BY <1>9, <1>13, <1>14, <1>15, <1>16, <1>17 DEF SlotIInv

(* Sorting changes no more than the order. *)
LEMMA SortingKeeps ==
  ASSUME SlotIInv, slotMixer.pc \in {"sort", "partition"},
         slotMixer' \in Mixes, slotMixer'.pc \in {"partition", "process"},
         slotMixer'.array.slots = slotMixer.array.slots, slotMixer'.todo = slotMixer.todo,
         slotMixer'.same = slotMixer.same, slotMixer'.held = slotMixer.held,
         UNCHANGED <<api, core, slotUpdate, freeProps, events, activeSlots, slotCall>>,
         Sorted'
  PROVE  SlotIInv'
<1>1. SlotTypes /\ MixedOwned /\ TargetsKnown
  BY DEF SlotIInv
<1>2. Mixing /\ slotMixer \in Mixes
  BY <1>1, MixerShape
<1>3. Mixing' /\ Mixed' = Mixed
  BY DEF Mixing, Mixes, Mixed
<1>4. SlotTypes'
  BY <1>1 DEF SlotTypes
<1>5. /\ Owned' /\ PlayedAsSet' /\ Slots!Used' = Slots!Used /\ Active' = Active
      /\ \A s : TargetKnown(s) => TargetKnown(s)'
  BY MoveKeeps
<1>6. MixedOwned'
  BY <1>1, <1>2, <1>3, <1>5 DEF MixedOwned
<1>7. TargetsKnown'
  BY <1>1, <1>2, <1>3, <1>5 DEF TargetsKnown
<1> QED
  BY <1>4, <1>5, <1>6, <1>7 DEF SlotIInv

LEMMA TargetOfType == ASSUME SlotTypes PROVE TargetOf \in [Slot -> Targets]
  BY DEF SlotTypes, TargetOf

LEMMA MixSortsKeeps ==
  ASSUME SlotIInv, Slots!MixSorts
  PROVE  SlotIInv'
<1>1. SlotTypes /\ Sorted
  BY DEF SlotIInv
<1>2. /\ slotMixer.pc = "sort"
      /\ UNCHANGED <<api, core, slotUpdate, freeProps, events, activeSlots, slotCall>>
  BY DEF Slots!MixSorts, Slots!Supply
<1>3. Mixing /\ slotMixer \in Mixes /\ slotMixer.array \in Arrays
  <2>1. Mixing /\ slotMixer \in Mixes
    BY <1>1, <1>2, MixerShape
  <2> QED
    BY <2>1 DEF Mixes
<1>4. TargetOf' = TargetOf
  BY <1>2 DEF TargetOf
<1>5. CASE slotMixer' = [slotMixer EXCEPT !.pc = "process"]
  <2>1. /\ slotMixer' \in Mixes /\ slotMixer'.pc = "process"
        /\ slotMixer'.array = slotMixer.array /\ slotMixer'.todo = slotMixer.todo
        /\ slotMixer'.same = slotMixer.same /\ slotMixer'.held = slotMixer.held
    BY <1>3, <1>5 DEF Mixes
  <2>2. Mixing'
    BY <2>1 DEF Mixing, Mixes
  <2>3. Sorted'
    BY <1>1, <1>2, <1>3, <1>4, <2>1, <2>2 DEF Sorted
  <2> QED
    BY <1>2, <2>1, <2>3, SortingKeeps
<1>6. CASE slotMixer' # [slotMixer EXCEPT !.pc = "process"]
  <2>1. PICK o, t : o = slotMixer.array.slots /\ t = TargetOf
    OBVIOUS
  <2>2. o \in Seq(Slot) /\ Len(o) \in Nat /\ t \in [Slot -> Targets]
    BY <1>1, <1>3, <2>1, TargetOfType DEF Arrays
  <2>3. PICK P : P = {s \in Slots!Range(o) : core[s].target # None}
    OBVIOUS
  <2>4. P = {s \in Slots!Range(o) : t[s] # None}
    <3>1. Slots!Range(o) \subseteq Slot
      BY <2>2 DEF Slots!Range
    <3> QED
      BY <2>1, <2>3, <3>1 DEF TargetOf
  <2>5. PICK r \in Slots!Partitions(o, Len(o), P) :
          slotMixer' = [slotMixer EXCEPT !.pc = "partition", !.array.sorted = r.order,
                                         !.left = r.split, !.next = Len(o)]
    BY <1>6, <2>1, <2>3 DEF Slots!MixSorts
  <2>6. r.order \in Seq(Slot) /\ r.split \in Nat
    BY <2>2, PartitionFacts
  <2>7. Parted(t, r.order, r.split, Len(o))
    BY <2>2, <2>4, PartedFirst
  <2>8. PICK a : a = [slotMixer.array EXCEPT !.sorted = r.order]
    OBVIOUS
  <2>9. a \in Arrays /\ a.slots = slotMixer.array.slots /\ a.sorted = r.order
    BY <1>3, <2>6, <2>8 DEF Arrays
  <2>10. slotMixer' = [slotMixer EXCEPT !.pc = "partition", !.array = a, !.left = r.split,
                                       !.next = Len(o)]
    BY <1>3, <2>5, <2>8 DEF Mixes
  <2>11. /\ slotMixer' \in Mixes /\ slotMixer'.pc = "partition"
         /\ slotMixer'.array = a /\ slotMixer'.todo = slotMixer.todo
         /\ slotMixer'.same = slotMixer.same /\ slotMixer'.held = slotMixer.held
         /\ slotMixer'.left = r.split /\ slotMixer'.next = Len(o)
    BY <1>3, <2>2, <2>6, <2>9, <2>10 DEF Mixes
  <2>12. Mixing'
    BY <2>11 DEF Mixing, Mixes
  <2>13. Sorted'
    BY <1>4, <2>1, <2>7, <2>9, <2>11, <2>12 DEF Sorted
  <2> QED
    BY <1>2, <2>9, <2>11, <2>13, SortingKeeps
<1> QED
  BY <1>5, <1>6

LEMMA MixPartitionsKeeps ==
  ASSUME SlotIInv, Slots!MixPartitions
  PROVE  SlotIInv'
<1>1. SlotTypes /\ Sorted
  BY DEF SlotIInv
<1>2. /\ slotMixer.pc = "partition"
      /\ slotMixer.left > 1 /\ slotMixer.next # slotMixer.left
      /\ UNCHANGED <<api, core, slotUpdate, freeProps, events, activeSlots, slotCall>>
  BY DEF Slots!MixPartitions, Slots!Unsorted, Slots!Supply
<1>3. Mixing /\ slotMixer \in Mixes /\ slotMixer.array \in Arrays
  <2>1. Mixing /\ slotMixer \in Mixes
    BY <1>1, <1>2, MixerShape
  <2> QED
    BY <2>1 DEF Mixes
<1>4. TargetOf' = TargetOf
  BY <1>2 DEF TargetOf
<1>5. PICK o, t, k, n : /\ o = slotMixer.array.sorted /\ t = TargetOf
                        /\ k = slotMixer.left /\ n = slotMixer.next
  OBVIOUS
<1>6. o \in Seq(Slot) /\ t \in [Slot -> Targets] /\ k \in Nat /\ n \in Nat /\ k > 1 /\ n # k
  BY <1>1, <1>2, <1>3, <1>5, TargetOfType DEF Arrays, Mixes
<1>7. Parted(t, o, k, n)
  BY <1>1, <1>2, <1>3, <1>5 DEF Sorted
<1>8. PICK P : P = {s \in Slots!Range(o) : core[s].target # o[n]}
  OBVIOUS
<1>9. P = {s \in Slots!Range(o) : t[s] # o[n]}
  <2>1. Slots!Range(o) \subseteq Slot
    BY <1>6 DEF Slots!Range
  <2> QED
    BY <1>5, <1>8, <2>1 DEF TargetOf
<1>10. PICK r \in Slots!Partitions(o, k, P) :
         slotMixer' = [slotMixer EXCEPT !.array.sorted = r.order, !.left = r.split, !.next = @ - 1]
  BY <1>5, <1>8 DEF Slots!MixPartitions
<1>11. r.order \in Seq(Slot) /\ r.split \in Nat
  BY <1>6, PartitionFacts
<1>12. Parted(t, r.order, r.split, n - 1)
  BY <1>6, <1>7, <1>9, PartedStep
<1>13. n - 1 \in Nat
  BY <1>6, <1>7 DEF Parted
<1>14. PICK a : a = [slotMixer.array EXCEPT !.sorted = r.order]
  OBVIOUS
<1>15. a \in Arrays /\ a.slots = slotMixer.array.slots /\ a.sorted = r.order
  BY <1>3, <1>11, <1>14 DEF Arrays
<1>16. slotMixer' = [slotMixer EXCEPT !.array = a, !.left = r.split, !.next = n - 1]
  BY <1>3, <1>5, <1>10, <1>14 DEF Mixes
<1>17. /\ slotMixer' \in Mixes /\ slotMixer'.pc = "partition"
       /\ slotMixer'.array = a /\ slotMixer'.todo = slotMixer.todo
       /\ slotMixer'.same = slotMixer.same /\ slotMixer'.held = slotMixer.held
       /\ slotMixer'.left = r.split /\ slotMixer'.next = n - 1
  BY <1>2, <1>3, <1>11, <1>13, <1>15, <1>16 DEF Mixes
<1>18. Mixing'
  BY <1>17 DEF Mixing, Mixes
<1>19. Sorted'
  BY <1>4, <1>5, <1>12, <1>15, <1>17, <1>18 DEF Sorted
<1> QED
  BY <1>2, <1>15, <1>17, <1>19, SortingKeeps

LEMMA MixSortedKeeps ==
  ASSUME SlotIInv, Slots!MixSorted
  PROVE  SlotIInv'
<1>1. SlotTypes /\ Sorted
  BY DEF SlotIInv
<1>2. /\ slotMixer.pc = "partition"
      /\ ~(slotMixer.left > 1 /\ slotMixer.next # slotMixer.left)
      /\ slotMixer' = [slotMixer EXCEPT !.pc = "process", !.left = 0, !.next = 0]
      /\ UNCHANGED <<api, core, slotUpdate, freeProps, events, activeSlots, slotCall>>
  BY DEF Slots!MixSorted, Slots!Unsorted, Slots!Supply
<1>3. Mixing /\ slotMixer \in Mixes /\ slotMixer.array \in Arrays
  <2>1. Mixing /\ slotMixer \in Mixes
    BY <1>1, <1>2, MixerShape
  <2> QED
    BY <2>1 DEF Mixes
<1>4. PICK o, t, k, n : /\ o = slotMixer.array.sorted /\ t = TargetOf
                        /\ k = slotMixer.left /\ n = slotMixer.next
  OBVIOUS
<1>5. /\ o \in Seq(Slot) /\ t \in [Slot -> Targets] /\ k \in Nat /\ n \in Nat
      /\ k <= 1 \/ n = k
  BY <1>1, <1>2, <1>3, <1>4, TargetOfType DEF Arrays, Mixes
<1>6. Ordered(t, o)
  <2>1. Parted(t, o, k, n)
    BY <1>1, <1>2, <1>3, <1>4 DEF Sorted
  <2> QED
    BY <1>5, <2>1, PartedLast
<1>7. /\ slotMixer' \in Mixes /\ slotMixer'.pc = "process"
      /\ slotMixer'.array = slotMixer.array /\ slotMixer'.todo = slotMixer.todo
      /\ slotMixer'.same = slotMixer.same /\ slotMixer'.held = slotMixer.held
  BY <1>2, <1>3 DEF Mixes
<1>8. Sorted'
  <2>1. Mixing' /\ TargetOf' = TargetOf
    BY <1>2, <1>7 DEF Mixing, Mixes, TargetOf
  <2> QED
    BY <1>4, <1>6, <1>7, <2>1 DEF Sorted
<1> QED
  BY <1>2, <1>7, <1>8, SortingKeeps

LEMMA MixEndsKeeps ==
  ASSUME SlotIInv, Slots!MixEnds
  PROVE  SlotIInv'
<1>1. SlotTypes /\ MixedOwned /\ TargetsKnown /\ Sorted
  BY DEF SlotIInv
<1>2. /\ slotMixer.pc = "process" /\ slotMixer' = [pc |-> "idle"]
      /\ activeSlots' = IF slotMixer.same THEN slotMixer.array ELSE activeSlots
      /\ UNCHANGED <<api, core, slotUpdate, freeProps, events, slotCall>>
  BY UnusedSlot DEF Slots!MixEnds, Slots!Supply
<1>3. Mixing /\ slotMixer \in Mixes /\ slotMixer.array \in Arrays
  <2>1. Mixing /\ slotMixer \in Mixes
    BY <1>1, <1>2, MixerShape
  <2> QED
    BY <2>1 DEF Mixes
<1>4. activeSlots' \in Arrays /\ activeSlots'.slots = activeSlots.slots
  BY <1>1, <1>2, <1>3 DEF SlotTypes, MixedOwned
<1>5. ~Mixing'
  BY <1>2 DEF Mixing
<1>6. SlotTypes'
  BY <1>1, <1>2, <1>4 DEF SlotTypes
<1>7. /\ Owned' /\ PlayedAsSet' /\ TargetOf' = TargetOf /\ Active' = Active
      /\ \A s : TargetKnown(s) => TargetKnown(s)'
  BY <1>2, <1>4, MoveKeeps
<1>8. MixedOwned' /\ TargetsKnown'
  BY <1>1, <1>5, <1>7 DEF MixedOwned, TargetsKnown
<1>9. Sorted'
  <2>1. CASE slotMixer.same
    BY <1>1, <1>2, <1>3, <1>5, <1>7, <2>1 DEF Sorted
  <2>2. CASE ~slotMixer.same
    <3>1. activeSlots'.sorted = <<>>
      BY <1>1, <1>2, <1>3, <2>2 DEF MixedOwned
    <3> QED
      BY <1>5, <3>1, OrderedNone DEF Sorted
  <2> QED
    BY <2>1, <2>2
<1> QED
  BY <1>6, <1>7, <1>8, <1>9 DEF SlotIInv

-----------------------------------------------------------------------------
(* The initial state, and all steps.                                       *)

LEMMA SlotsInit ==
  ASSUME Slots!Init
  PROVE  SlotIInv
<1>1. PICK n \in 0..Slots!Cardinality(Slot) : \E to \in [1..n -> 0..n] :
       /\ \A s \in 1..n : to[s] < s
       /\ LET target(s) == IF to[s] = 0 THEN None ELSE to[s]
          IN /\ api = [s \in Slot |-> IF s > n THEN Slots!Unused
                        ELSE [Slots!Unused EXCEPT !.used = TRUE, !.state = "Playing",
                                                  !.target = target(s)]]
             /\ core = [s \in Slot |-> IF s > n THEN [target |-> None, effect |-> None]
                                       ELSE [target |-> target(s), effect |-> NoEffect]]
       /\ activeSlots = Slots!Array([i \in 1..n |-> n + 1 - i])
       /\ freeProps = IF n = 0 THEN <<>> ELSE <<NoEffect>>
  BY DEF Slots!Init
<1>2. PICK to \in [1..n -> 0..n] :
       /\ \A s \in 1..n : to[s] < s
       /\ LET target(s) == IF to[s] = 0 THEN None ELSE to[s]
          IN /\ api = [s \in Slot |-> IF s > n THEN Slots!Unused
                        ELSE [Slots!Unused EXCEPT !.used = TRUE, !.state = "Playing",
                                                  !.target = target(s)]]
             /\ core = [s \in Slot |-> IF s > n THEN [target |-> None, effect |-> None]
                                       ELSE [target |-> target(s), effect |-> NoEffect]]
       /\ activeSlots = Slots!Array([i \in 1..n |-> n + 1 - i])
       /\ freeProps = IF n = 0 THEN <<>> ELSE <<NoEffect>>
  BY <1>1
<1>3. /\ slotUpdate = [s \in Slot |-> None] /\ events = {}
      /\ slotMixer = [pc |-> "idle"] /\ slotCall = [pc |-> "idle"]
  BY UnusedSlot DEF Slots!Init
<1>4. Cardinality(Slot) \in Nat /\ Slot = 1..Cardinality(Slot) /\ n \in 0..Cardinality(Slot)
  <2>1. Slots!Cardinality(Slot) = Cardinality(Slot)
    BY DEF Slots!Cardinality, Cardinality
  <2> QED
    BY <2>1, SlotsAssumptions, FS_CardinalityType
<1>5. 1..n \subseteq Slot /\ Slot \subseteq Nat /\ n \in Nat /\ \A s \in Slot : ~(s > n) <=> s \in 1..n
  BY <1>4
<1> DEFINE T(s) == IF to[s] = 0 THEN None ELSE to[s]
<1>6. \A s \in 1..n : T(s) \in 1..n \cup {None}
  <2>1. \A s \in 1..n : to[s] = 0 \/ to[s] \in 1..n
    BY <1>4
  <2> QED
    BY <2>1
<1> DEFINE Playing(v) == [Empty EXCEPT !.used = TRUE, !.state = "Playing", !.target = v]
<1>7. ASSUME NEW v \in Targets
      PROVE  /\ Playing(v) \in SlotState /\ Playing(v).used
             /\ Playing(v).target = v /\ Playing(v).effect = NoEffect
  BY UnusedSlot DEF Empty, SlotState
<1>8. /\ api = [s \in Slot |-> IF s > n THEN Empty ELSE Playing(T(s))]
      /\ core = [s \in Slot |-> IF s > n THEN [target |-> None, effect |-> None]
                              ELSE [target |-> T(s), effect |-> NoEffect]]
      /\ activeSlots = [slots |-> [i \in 1..n |-> n + 1 - i], sorted |-> <<>>]
      /\ freeProps = IF n = 0 THEN <<>> ELSE <<NoEffect>>
  BY <1>2, UnusedSlot DEF Slots!Array
<1>9. /\ \A s \in Slot \ (1..n) : api[s] = Empty /\ ~api[s].used
      /\ \A s \in 1..n : /\ api[s] \in SlotState /\ api[s].used
                         /\ api[s].target = T(s) /\ api[s].effect = NoEffect
      /\ \A s \in 1..n : core[s] = [target |-> T(s), effect |-> NoEffect]
  <2>1. \A s \in 1..n : T(s) \in Targets
    BY <1>5, <1>6 DEF Targets
  <2> HIDE DEF T, Playing
  <2>2. ~Empty.used
    BY DEF Empty
  <2> QED
    BY <1>5, <1>7, <1>8, <2>1, <2>2
<1> HIDE DEF T, Playing
<1>10. SlotTypes
  <2>1. api \in [Slot -> SlotState]
    <3>1. \A s \in Slot : api[s] \in SlotState
      BY <1>9, UnusedSlot
    <3> QED
      BY <1>8, <3>1
  <2>2. core \in [Slot -> [target : Targets, effect : States \cup {None}]]
    BY <1>5, <1>6, <1>8 DEF Targets, States
  <2>3. activeSlots \in Arrays
    <3>1. [i \in 1..n |-> n + 1 - i] \in Seq(Slot)
      <4>1. \A i \in 1..n : n + 1 - i \in Slot
        BY <1>5
      <4> QED
        BY <1>5, <4>1
    <3>2. <<>> \in Seq(Slot)
      OBVIOUS
    <3> QED
      BY <1>8, <3>1, <3>2 DEF Arrays
  <2>4. freeProps \in Seq(States)
    <3>1. <<>> \in Seq(States) /\ <<NoEffect>> \in Seq(States)
      BY DEF States
    <3> QED
      BY <1>8, <3>1
  <2> QED
    BY <1>3, <2>1, <2>2, <2>3, <2>4 DEF SlotTypes
<1>11. Slots!Used = 1..n
  <2> DEFINE U == {s \in Slot : api[s].used}
  <2>1. \A s : s \in U <=> s \in 1..n
    BY <1>5, <1>9
  <2>2. U = 1..n
    BY <2>1
  <2> QED
    BY <2>2 DEF Slots!Used
<1>12. Active = 1..n
  <2>1. activeSlots.slots = [i \in 1..n |-> n + 1 - i]
    BY <1>8
  <2>2. Active = {n + 1 - i : i \in 1..n}
    BY <2>1 DEF Active, Slots!Range
  <2>3. \A s \in 1..n : n + 1 - s \in 1..n /\ n + 1 - (n + 1 - s) = s
    BY <1>5
  <2> QED
    BY <2>2, <2>3
<1>13. Owned
  <2>1. NoEffect # None
    BY SlotsAssumptions
  <2>2. \A s \in Slot : api[s].used => s \in 1..n
    BY <1>11 DEF Slots!Used
  <2>3. Slots!IsInjective(activeSlots.slots)
    BY <1>5, <1>8 DEF Slots!IsInjective
  <2>4. slotCall.pc # "wait"
    BY <1>3
  <2>5. \A s \in 1..n : core[s].effect # None /\ api[s].target \in 1..n \cup {None}
    <3> SUFFICES ASSUME NEW s \in 1..n
                 PROVE  core[s].effect # None /\ api[s].target \in 1..n \cup {None}
      OBVIOUS
    <3>1. core[s] = [target |-> T(s), effect |-> NoEffect] /\ api[s].target = T(s)
      BY <1>9
    <3>2. T(s) \in 1..n \cup {None}
      BY <1>6
    <3> QED
      BY <2>1, <3>1, <3>2
  <2> QED
    BY <1>11, <1>12, <2>2, <2>3, <2>4, <2>5 DEF Owned
<1>14. ~Mixing
  BY <1>3 DEF Mixing
<1>15. PlayedAsSet
  <2> SUFFICES ASSUME NEW s \in Slot, api[s].used PROVE Coming(s) = Slots!Settings(api, s)
    BY DEF PlayedAsSet
  <2>1. s \in 1..n
    BY <1>11 DEF Slots!Used
  <2>2. Coming(s) = core[s]
    BY <1>3 DEF Coming
  <2> QED
    BY <1>9, <2>1, <2>2 DEF Slots!Settings
<1>16. TargetsKnown
  <2>1. ASSUME NEW s \in 1..n PROVE TargetKnown(s)
    <3>1. Coming(s) = core[s]
      BY <1>3, <1>5 DEF Coming
    <3>2. core[s] = [target |-> T(s), effect |-> NoEffect] /\ api[s].target = T(s)
      BY <1>9
    <3> QED
      BY <3>1, <3>2 DEF TargetKnown
  <2> QED
    BY <1>12, <1>14, <2>1 DEF TargetsKnown
<1>17. Sorted
  BY <1>8, <1>14, OrderedNone DEF Sorted
<1> QED
  BY <1>10, <1>13, <1>14, <1>15, <1>16, <1>17 DEF SlotIInv, MixedOwned

LEMMA SlotsNext ==
  ASSUME SlotIInv, Slots!Next
  PROVE  SlotIInv'
<1>1. CASE Slots!Calls
  <2>1. CASE Slots!Gen \/ Slots!CallEnds \/ Slots!ResetDevice
    BY <2>1, GenKeeps, CallEndsKeeps, ResetDeviceKeeps
  <2>2. CASE \E s \in Slot : Slots!Play(s) \/ Slots!Stop(s) \/ Slots!Delete(s)
    BY <2>2, PlayKeeps, StopKeeps
  <2>3. CASE \E s \in Slot : \E e \in Effect \cup {NoEffect} : Slots!SetEffect(s, e)
    BY <2>3, SetEffectKeeps DEF States
  <2>4. CASE \E s \in Slot : \E t \in Slot \cup {None} : Slots!SetTarget(s, t)
    BY <2>4, SetTargetKeeps DEF Targets
  <2> QED
    BY <1>1, <2>1, <2>2, <2>3, <2>4 DEF Slots!Calls
<1>2. CASE Slots!Deferring
  <2>1. CASE Slots!UpdateAllEffectSlotProps
    BY <2>1, UpdateAllKeeps
  <2>2. CASE ~Slots!UpdateAllEffectSlotProps
    <3>1. UNCHANGED <<api, core, slotUpdate, freeProps, events, activeSlots, slotMixer, slotCall>>
      BY <1>2, <2>2 DEF Slots!Deferring, Slots!deferUpdates, Slots!HoldUpdates,
         Slots!AwaitUpdate, Slots!ReleaseUpdates, Slots!Supply
    <3> QED
      BY <3>1, OthersKeep
  <2> QED
    BY <2>1, <2>2
<1>3. CASE Slots!Mix
  BY <1>3, MixBeginsKeeps, MixLoadsKeeps, MixLooksKeeps, MixUpdatesKeeps, MixUpdatedKeeps,
     MixSortsKeeps, MixPartitionsKeeps, MixSortedKeeps, MixEndsKeeps DEF Slots!Mix
<1>4. CASE Slots!EventThread
  <2>1. /\ events' \subseteq events
        /\ UNCHANGED <<api, core, slotUpdate, freeProps, activeSlots, slotMixer, slotCall>>
    BY <1>4 DEF Slots!EventThread, Slots!Supply
  <2> QED
    BY <2>1, OthersKeep
<1> QED
  BY <1>1, <1>2, <1>3, <1>4 DEF Slots!Next

LEMMA SlotsInvariant == MCSpec => []SlotIInv
<1>1. MCInit => SlotIInv
  BY SlotsInit DEF MCInit
<1>2. SlotIInv /\ [MCNext]_<<vars, slotVars, part>> => SlotIInv'
  <2> SUFFICES ASSUME SlotIInv, [MCNext]_<<vars, slotVars, part>> PROVE SlotIInv'
    OBVIOUS
  <2>1. CASE Slots!Next
    BY <2>1, SlotsNext
  <2>2. CASE UNCHANGED slotVars
    <3>1. /\ events' \subseteq events
          /\ UNCHANGED <<api, core, slotUpdate, freeProps, activeSlots, slotMixer, slotCall>>
      BY <2>2 DEF slotVars
    <3> QED
      BY <3>1, OthersKeep
  <2> QED
    BY <2>1, <2>2 DEF MCNext
<1> QED
  BY <1>1, <1>2, PTL DEF MCSpec

(* What a mix drops is still held: by a call, a slot, an update, a free    *)
(* container or the event thread.                                          *)
LEMMA MixKeepsStates ==
  ASSUME SlotTypes, Slots!Mix
  PROVE  Slots!Live \cap Effect \subseteq Slots!Live'
<1>1. CASE UNCHANGED <<api, core, slotUpdate, events, freeProps>>
  BY <1>1 DEF Slots!Live
<1>2. CASE ~UNCHANGED <<api, core, slotUpdate, events, freeProps>>
  <2>1. Slots!MixUpdates
    BY <1>2 DEF Slots!Mix, Slots!MixBegins, Slots!MixLoads, Slots!MixLooks, Slots!MixUpdated,
       Slots!MixSorts, Slots!MixPartitions, Slots!MixSorted, Slots!MixEnds, Slots!Supply
  <2>2. PICK s : /\ s = Head(slotMixer.todo) /\ slotUpdate[s] # None
                 /\ Slots!CalcEffectSlotParams(s) /\ api' = api
    BY <1>2, <2>1 DEF Slots!MixUpdates
  <2>3. s \in Slot
    <3>1. slotMixer \in Mixes /\ slotMixer.todo # <<>>
      BY <2>1, MixerShape DEF Slots!MixUpdates
    <3>2. PICK q : q = slotMixer.todo
      OBVIOUS
    <3>3. q \in Seq(Slot) /\ q # <<>>
      BY <3>1, <3>2 DEF Mixes
    <3> QED
      BY <2>2, <3>2, <3>3, HeadOrTail
  <2>4. PICK given : given = slotUpdate[s]
    OBVIOUS
  <2>5. PICK released \in Slots!Released(s, given) :
          /\ slotUpdate' = [slotUpdate EXCEPT ![s] = None]
          /\ core' = [core EXCEPT ![s] = given]
          /\ events' = events \cup IF released = "event" THEN {core[s].effect} ELSE {}
          /\ freeProps' = <<IF released = "kept" THEN core[s].effect ELSE NoEffect>> \o freeProps
    BY <2>2, <2>4 DEF Slots!CalcEffectSlotParams
  <2>6. /\ core'[s] = given /\ \A x \in Slot \ {s} : /\ core'[x] = core[x]
                                                     /\ slotUpdate'[x] = slotUpdate[x]
    BY <2>3, <2>5 DEF SlotTypes
  <2>7. PICK f, v : /\ f = freeProps /\ v = IF released = "kept" THEN core[s].effect ELSE NoEffect
                    /\ freeProps' = <<v>> \o f
    BY <2>5
  <2>8. Slots!Range(f) \cup {v} \subseteq Slots!Range(<<v>> \o f)
    <3>1. f \in Seq(States)
      BY <2>7 DEF SlotTypes
    <3>2. PICK n \in Nat : n = Len(f)
      BY <3>1
    <3>3. /\ DOMAIN f = 1..n /\ DOMAIN (<<v>> \o f) = 1..n + 1
          /\ (<<v>> \o f)[1] = v /\ \A i \in 1..n : (<<v>> \o f)[i + 1] = f[i]
      BY <3>1, <3>2
    <3>4. 1 \in 1..n + 1 /\ \A i \in 1..n : i + 1 \in 1..n + 1
      OBVIOUS
    <3> QED
      BY <3>3, <3>4 DEF Slots!Range
  <2>9. Slots!Range(freeProps) \cup {v} \subseteq Slots!Range(freeProps')
    BY <2>7, <2>8
  <2> SUFFICES ASSUME NEW e \in Effect, e \in Slots!Live PROVE e \in Slots!Live'
    OBVIOUS
  <2>10. /\ \A x \in Slot : api[x].effect = e => e \in Slots!Live'
         /\ \A x \in Slot : core'[x].effect = e => e \in Slots!Live'
         /\ \A x \in Slot : slotUpdate'[x] # None /\ slotUpdate'[x].effect = e => e \in Slots!Live'
         /\ e \in events' \cup Slots!Range(freeProps') => e \in Slots!Live'
    BY <2>2 DEF Slots!Live
  <2>11. CASE e = core[s].effect
    <3>1. CASE released \in {"event", "kept"}
      BY <2>5, <2>7, <2>9, <2>10, <2>11, <3>1
    <3>2. CASE released \notin {"event", "kept"}
      <4>1. \/ e \notin Effect \/ e = given.effect
            \/ \E x \in Slot : \/ api[x].effect = e
                               \/ x # s /\ core[x].effect = e
                               \/ x # s /\ slotUpdate[x] # None /\ slotUpdate[x].effect = e
            \/ e \in events \/ \E i \in DOMAIN freeProps : freeProps[i] = e
        BY <2>11, <3>2 DEF Slots!Released
      <4>2. (\E i \in DOMAIN freeProps : freeProps[i] = e) => e \in Slots!Range(freeProps')
        BY <2>9 DEF Slots!Range
      <4> QED
        BY <2>3, <2>5, <2>6, <2>10, <4>1, <4>2
    <3> QED
      BY <3>1, <3>2
  <2>12. CASE e # core[s].effect
    <3>1. \/ \E x \in Slot : api[x].effect = e \/ core[x].effect = e
          \/ \E x \in Slot : slotUpdate[x] # None /\ slotUpdate[x].effect = e
          \/ e \in events \/ e \in Slots!Range(freeProps)
      BY DEF Slots!Live
    <3> QED
      BY <2>3, <2>4, <2>5, <2>6, <2>9, <2>10, <2>12, <3>1
  <2> QED
    BY <2>11, <2>12
<1> QED
  BY <1>1, <1>2

(* The mixer processes a slot before the one it targets. *)
LEMMA TargetsComeLater ==
  ASSUME SlotIInv
  PROVE  Slots!BeforeItsTarget
<1> SUFFICES ASSUME slotMixer.pc = "process" PROVE Slots!BeforeItsTarget
  BY DEF Slots!BeforeItsTarget
<1>1. SlotTypes /\ Sorted
  BY DEF SlotIInv
<1>2. PICK o, t : o = slotMixer.array.sorted /\ t = TargetOf
  OBVIOUS
<1>3. Mixing /\ slotMixer \in Mixes
  BY <1>1, MixerShape
<1>4. Ordered(t, o) /\ o \in Seq(Slot)
  BY <1>1, <1>2, <1>3 DEF Sorted, Mixes, Arrays
<1>5. \A i \in DOMAIN o : o[i] \in Slot
  BY <1>4
<1>6. Slots!Range(o) \subseteq Slot
  BY <1>5 DEF Slots!Range
<1>7. \A x \in Slot : t[x] = core[x].target
  BY <1>2 DEF TargetOf
<1>8. \A x : Slots!Reaches(x, Slots!Range(o)) => Leads(t, x, Slots!Range(o))
  BY <1>6, <1>7 DEF Slots!Reaches, Leads
<1>9. \A i, j \in DOMAIN o :
        core[o[i]].target = o[j] /\ Slots!Reaches(o[j], Slots!Range(o)) => i < j
  BY <1>4, <1>5, <1>7, <1>8 DEF Ordered
<1> QED
  BY <1>2, <1>9 DEF Slots!BeforeItsTarget

-----------------------------------------------------------------------------
(* For every number of slots, effects and calls: what the mixer comes      *)
(* across is in use and has an effect, a slot that plays is known to it as *)
(* calls have set it but for what is on its way, a slot leads it to one    *)
(* that was deleted only while updates are held from the mix, and with an  *)
(* update on its way that leads elsewhere, and one that leads to the       *)
(* output is processed after those that target it (al/auxeffectslot.cpp,   *)
(* alc/alu.cpp).                                                           *)
THEOREM SlotsStayKnown == MCSpec => []SlotsInv
<1>1. SlotIInv => SlotsInv
  <2> SUFFICES ASSUME SlotIInv
      PROVE  /\ Slots!TypeOK /\ Slots!ProcessedIsUsed /\ Slots!NoneForgotten
             /\ Slots!TargetsAreUsed /\ Slots!BeforeItsTarget
    BY DEF SlotsInv, Slots!Inv
  <2>1. SlotTypes /\ Owned /\ MixedOwned /\ PlayedAsSet /\ TargetsKnown
    BY DEF SlotIInv
  <2>2. Slots!TypeOK
    <3>1. \A s \in Slot : /\ api[s].target \in Slot \cup {None}
                          /\ core[s].target \in Slot \cup {None}
                          /\ core[s].effect \in Effect \cup {NoEffect, None}
      BY <2>1 DEF SlotTypes, SlotState, Targets, States
    <3>2. Slots!Range(activeSlots.slots) \subseteq Slots!Used
      BY <2>1 DEF Owned, Active
    <3> QED
      BY <2>1, <3>1, <3>2 DEF Slots!TypeOK, SlotTypes, Owned
  <2>3. Slots!ProcessedIsUsed
    BY <2>1, AreSlots DEF Slots!ProcessedIsUsed, Mixing, Mixed, Owned, Slots!Used
  <2>4. Slots!NoneForgotten
    BY <2>1 DEF Slots!NoneForgotten, PlayedAsSet, Coming, Plays, Slots!Settings, Slots!Used
  <2>5. Slots!TargetsAreUsed
    <3> SUFFICES ASSUME Slots!Processing, NEW s \in Mixed
        PROVE  \/ Slots!TargetIsUsed(s)
               \/ /\ slotMixer.held /\ slotUpdate[s] # None
                  /\ slotUpdate[s].target \in Slots!Used \cup {None}
      BY DEF Slots!TargetsAreUsed, Mixed
    <3>1. Mixing /\ slotMixer.pc \in {"sort", "partition", "process"}
      BY DEF Slots!Processing, Mixing
    <3>2. s \in Slot /\ api[s].used
      BY <2>1, <3>1 DEF MixedOwned, Slots!Used
    <3>3. CASE slotMixer.held
      <4>1. Coming(s).target \in {api[s].target, None}
        BY <2>1, <3>1 DEF TargetsKnown, TargetKnown
      <4>2. api[s].target \in Slots!Used \cup {None}
        BY <2>1, <3>2 DEF Owned
      <4>3. Coming(s).target \in Slots!Used \cup {None}
        BY <4>1, <4>2
      <4> QED
        BY <3>3, <4>3 DEF Coming, Slots!TargetIsUsed
    <3>4. CASE ~slotMixer.held
      <4>1. s \notin Slots!Range(slotMixer.todo)
        BY <2>1, <3>1 DEF MixedOwned, Slots!Range
      <4> QED
        BY <2>1, <3>1, <3>4, <4>1 DEF TargetsKnown, Slots!TargetIsUsed
    <3> QED
      BY <3>3, <3>4
  <2> QED
    BY <2>2, <2>3, <2>4, <2>5, TargetsComeLater
<1> QED
  BY <1>1, SlotsInvariant, PTL

(* The mixer frees no state of an effect: what it drops is held elsewhere  *)
(* (alc/alu.cpp, al/auxeffectslot.cpp).                                    *)
THEOREM MixLetsNothingGo == MCSpec => MixFreesNothing
<1>1. SlotIInv => (Slots!Mix => Slots!Live \cap Effect \subseteq Slots!Live')
  BY MixKeepsStates DEF SlotIInv
<1> QED
  BY <1>1, SlotsInvariant, PTL DEF MixFreesNothing, Slots!MixFreesNothing

=============================================================================
