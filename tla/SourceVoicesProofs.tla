------------------------- MODULE SourceVoicesProofs --------------------------
(***************************************************************************)
(* Proofs about SourceVoices: for any number of sources, voices, items and *)
(* pending changes, what calls and mixes promise one another.  The         *)
(* theorems, at the end, are of the specification that MCVoices composes.  *)
(*                                                                         *)
(* The invariant is Whole.  One half of it (Always) holds at all times:    *)
(* types, bounds, what a call under way knows of its source and its voice, *)
(* and how far the mixer is.  The other half (Kept) holds until the device *)
(* is lost, when the changes that are pending no longer count: a voice     *)
(* changes iff a pending change or the call under way ends it, no two of   *)
(* them do and none comes back to it later, a voice that holds a source is *)
(* the voice that source knows, what it reads is in that source's queue,   *)
(* and a source that is paused is silent once what is pending is done.     *)
(*                                                                         *)
(* Every step keeps it.  What a step does to a source, to a voice and to   *)
(* the list of changes is said once for each step (the lemmas that end in  *)
(* Does or Is); then each part of the invariant is proved of each kind of  *)
(* step from these: a call that begins or gives a voice, one that appends  *)
(* its change or waits for the mix, a mixer that works a change off, that  *)
(* ends a voice or lets it go, and a device that is lost.                  *)
(*                                                                         *)
(* The invariant lasts until a seek takes for its new voice the one it is  *)
(* to replace, which retaken records.  What follows then is not as the     *)
(* code means it: see VoiceIsFound.  So a step is looked at with the       *)
(* hypothesis ~TakesItsOwn, and the theorems are of the time before.       *)
(***************************************************************************)
EXTENDS MCVoices, Sequences, FiniteSetTheorems, WellFoundedInduction, TLAPS

(* SourceVoices brings the cardinality of its own library.                 *)
LEMMA SameCardinality == ASSUME NEW S PROVE Voices!Cardinality(S) = Cardinality(S)
  BY DEF Voices!Cardinality, Cardinality, Voices!IsFiniteSet, IsFiniteSet

Later == {"new", "new, after a mix", "let go"}
Sends == {"append", "load", "wait", "drop", "sent"} \cup Later
Names == {"play", "pause", "stop", "rewind", "delete", "seek"}
Sids == Source \cup {Voices!NoSource}
MaybeItem == Voices!Items \cup {Voices!NoItem}
MaybeVoice == 0..NVoices

SourceRecords ==
  [alive: BOOLEAN, state: {"INITIAL", "PLAYING", "PAUSED", "STOPPED"}, vidx: MaybeVoice,
   type: {"UNDETERMINED", "STATIC", "STREAMING"}, head: Nat, tail: Nat, looping: BOOLEAN]
VoiceRecords ==
  [sid: Sids, play: {"Stopped", "Playing", "Stopping", "Pending"}, change: BOOLEAN,
   buffer: MaybeItem, loop: MaybeItem, static: BOOLEAN]
ChangeRecords ==
  [state: {"Play", "Pause", "Stop", "Reset", "Restart"}, s: Source, v: MaybeVoice, old: MaybeVoice]
OpRecords ==
  [pc: {"idle", "looped"}] \cup [pc: {"start", "seek"}, s: Source, old: MaybeVoice]
  \cup [pc: {"loop"}, s: Source] \cup [pc: Sends, call: Names, change: ChangeRecords]
MixRecords ==
  [pc: {"idle", "off", "gone, changes"}] \cup [pc: {"changes", "gone"}, last: Voices!Voices]
  \cup [pc: {"voices", "ended", "gone, voices"}, v: 1..(NVoices + 1), last: Voices!Voices]
  \cup [pc: {"reading"}, v: Voices!Voices, last: Voices!Voices, play: {"Playing", "Stopping"},
        buffer: MaybeItem, loop: MaybeItem]

(* The parts of the invariant.  First those that hold on a device that is  *)
(* gone as well: types and bounds, and where the threads can be.           *)
Typed ==
  /\ source \in [Source -> SourceRecords]
  /\ voice \in [Voices!Voices -> VoiceRecords]
  /\ active \in Voices!Voices
  /\ pending \in Seq(ChangeRecords)
  /\ op \in OpRecords
  /\ mix \in MixRecords
  /\ connected \in BOOLEAN
  /\ reset \in {"no", "connect", "prepare"}

InBounds ==
  /\ \A s \in Source :
       /\ 1 <= source[s].head /\ source[s].head <= source[s].tail
       /\ source[s].tail <= MaxItem[s] + 1
       /\ source[s].vidx <= active
       /\ ~source[s].alive => source[s].vidx = Voices!NoVoice
  /\ Len(pending) <= MaxPending
  /\ op.pc \in {"start", "seek", "append"} => Len(pending) < MaxPending
  /\ mixing = (mix.pc \notin {"idle", "off"})

Sweeping == mix.pc \in {"voices", "reading", "ended"}

InPhase ==
  /\ mix.pc \in {"idle", "changes", "gone"} \/ Sweeping => connected /\ reset = "no"
  /\ mix.pc = "gone, voices" => ~connected /\ StopOnDisconnect /\ reset = "no"
  /\ mix.pc = "gone, changes" => ~connected /\ ~StopOnDisconnect /\ reset = "no"
  /\ reset = "connect" => ~connected
  /\ reset = "prepare" => connected
  /\ mix.pc \in {"changes", "gone", "gone, voices"} \/ Sweeping => mix.last <= active
  /\ mix.pc \in {"reading", "ended"} => mix.v <= mix.last

(* A device that is gone with its voices, until it is reset.               *)
Lost == ~connected /\ StopOnDisconnect /\ reset # "connect"

Positions == 1..Len(pending)

(* The changes that end a voice, and those that start one.                 *)
Ends(c, v) ==
  /\ v # Voices!NoVoice
  /\ \/ c.state \in {"Stop", "Reset"} /\ c.v = v
     \/ c.state \in {"Play", "Restart"} /\ c.old = v
Plays(c, v) == c.state = "Play" /\ c.v = v
Restarts(c, v) == c.state = "Restart" /\ c.v = v

(* What each call has found out, as long as it relies on it.               *)
CallKnows ==
  /\ op.pc \in Later =>
       op.call = "seek" /\ voice[op.change.old].sid = Voices!NoSource
  /\ op.pc = "start" =>
       /\ source[op.s].alive
       /\ source[op.s].state = "PLAYING" => op.old # Voices!NoVoice
       /\ op.old # Voices!NoVoice => source[op.s].vidx = op.old /\ voice[op.old].change
       /\ Voices!FreeVoices # {}
  /\ op.pc = "seek" => source[op.s].alive /\ op.old # Voices!NoVoice /\ source[op.s].vidx = op.old
  /\ op.pc = "loop" => source[op.s].vidx # Voices!NoVoice
  /\ op.pc \in Sends =>
       /\ op.change.v <= active /\ op.change.old <= active
       /\ op.change.state # "Reset" => op.change.v # Voices!NoVoice
       /\ op.change.state = "Restart" => op.change.old # Voices!NoVoice
       /\ op.call = "seek" => op.change.state = "Restart"
       /\ op.call = "pause" => op.change.state = "Pause"
       /\ op.pc = "append" /\ op.change.state = "Play" => source[op.change.s].state = "PLAYING"

(* On a device that is gone a voice has a source only until the thread of  *)
(* the backend comes by, or the call that has just given it one.           *)
GoneIsLetGo ==
  /\ Lost => \A v \in Voices!Voices : voice[v].sid # Voices!NoSource =>
       \/ mix.pc = "gone, voices" /\ mix.v <= v /\ v <= mix.last
       \/ op.pc = "append" /\ op.change.v = v
       \/ op.pc \in {"load", "drop"} /\ \E i \in Positions : pending[i].v = v
  /\ StopOnDisconnect /\ reset = "connect" =>
       /\ \A v \in Voices!Voices : voice[v].sid = Voices!NoSource
       /\ \A i \in Positions : pending[i].v = Voices!NoVoice
       /\ op.pc \notin {"start", "seek"}
       /\ op.pc \in Sends => op.change.v = Voices!NoVoice
  /\ op.pc = "drop" =>
       /\ StopOnDisconnect
       /\ \/ Lost
          \/ /\ reset \in {"connect", "prepare"}
             /\ \A v \in Voices!Voices : voice[v].sid = Voices!NoSource
             /\ \A i \in Positions : pending[i].v = Voices!NoVoice

Always == Typed /\ InBounds /\ InPhase /\ CallKnows /\ GoneIsLetGo

(* Those that hold while there is a device.  The changes: a voice is       *)
(* marked exactly while a change that ends it is pending or about to be    *)
(* sent; there is one such change, and none behind it starts the voice.    *)
Ahead(v) ==
  \/ op.pc = "start" /\ op.old = v /\ v # Voices!NoVoice
  \/ op.pc = "append" /\ Ends(op.change, v)
EndPending(v) == \E i \in Positions : Ends(pending[i], v)

ChangeIsAhead == \A v \in Voices!Voices : voice[v].change <=> EndPending(v) \/ Ahead(v)
EndsOnce ==
  /\ \A v \in Voices!Voices : Ahead(v) => ~EndPending(v)
  /\ \A v \in Voices!Voices : \A i, j \in Positions : Ends(pending[i], v) /\ Ends(pending[j], v) => i = j
EndIsLast ==
  /\ \A v \in Voices!Voices : \A i, j \in Positions :
       Ends(pending[i], v) /\ (Plays(pending[j], v) \/ Restarts(pending[j], v)) => j < i
  /\ op.pc = "append" /\ op.change.state \in {"Play", "Restart"} => ~voice[op.change.v].change
RestartIsFirst ==
  \A i, j \in Positions : i < j /\ Restarts(pending[j], pending[i].v) =>
    /\ pending[i].state # "Play"
    /\ pending[i].state = "Restart" => voice[pending[i].old].sid = Voices!NoSource

(* The voices a change names are still those of its source.                *)
ChangeOK(c) ==
  /\ c.v <= active /\ c.old <= active
  /\ c.v = Voices!NoVoice => c.state = "Reset"
  /\ \A v \in Voices!Voices : Ends(c, v) => voice[v].sid \in {c.s, Voices!NoSource}
  /\ c.state = "Play" => voice[c.v].sid = c.s
  /\ c.state = "Restart" =>
       /\ c.old # Voices!NoVoice /\ c.v # c.old
       /\ voice[c.old].sid # Voices!NoSource => voice[c.v].sid = c.s /\ voice[c.v].play = "Pending"
ChangesOK ==
  /\ \A i \in Positions : ChangeOK(pending[i])
  /\ op.pc = "append" => ChangeOK(op.change)

(* Sources and voices name each other, but for voices that will end.       *)
VoiceIsKnown ==
  \A v \in Voices!Voices : voice[v].sid # Voices!NoSource /\ ~voice[v].change => source[voice[v].sid].vidx = v
EndIsByCall ==
  \A s \in Source : Voices!HasVoice(s) /\ voice[source[s].vidx].change =>
    \/ op.pc = "start" /\ op.s = s
    \/ op.pc \in {"append", "load", "wait", "sent"} /\ op.call = "delete" /\ op.change.s = s
VoiceHasState ==
  \A s \in Source : Voices!HasVoice(s) /\ ~voice[source[s].vidx].change =>
    source[s].state \in {"PLAYING", "PAUSED"}
BeyondIsFresh == \A v \in Voices!Voices : v > active => voice[v] = Voices!Fresh

(* A voice stands at an item of the queue, and with samples ahead of it,   *)
(* up to when the mixer has learnt that it ends.                           *)
MayLoop(s) == source[s].looping \/ (op.pc = "loop" /\ op.s = s)
InQueue(v, s) ==
  /\ voice[v].buffer \in Voices!Queue(s)
  /\ \E j \in Voices!Playable(s) : j[2] >= voice[v].buffer[2]
  /\ voice[v].loop # Voices!NoItem => voice[v].loop \in Voices!Queue(s) /\ MayLoop(s)
ItemIsQueued ==
  \A v \in Voices!Voices :
    /\ voice[v].sid = Voices!NoSource => voice[v].buffer = Voices!NoItem
    /\ voice[v].sid # Voices!NoSource /\ (Sweeping \/ ~EndPending(v)) => InQueue(v, voice[v].sid)

(* What the mixer has loaded is still so when it uses it.                  *)
LoadedIsSo ==
  /\ mix.pc = "reading" =>
       /\ voice[mix.v].play = mix.play /\ voice[mix.v].buffer = mix.buffer
       /\ mix.buffer # Voices!NoItem /\ mix.loop # Voices!NoItem =>
            /\ mix.loop \in Voices!Queue(voice[mix.v].sid)
            /\ MayLoop(voice[mix.v].sid) \/ op.pc = "looped"
  /\ mix.pc = "ended" => voice[mix.v].play = "Playing" /\ voice[mix.v].sid = Voices!NoSource

(* While the mixer is at the voices the one change that can be pending is  *)
(* that of the call, which waits, and it does not start what sounds.       *)
WaitsForMix ==
  /\ Sweeping => pending = <<>> \/ (op.pc \in {"load", "wait"} /\ Len(pending) = 1)
  /\ op.pc \in Sends \ {"append"} => pending = <<>> \/ pending[Len(pending)] = op.change
  /\ Sweeping => \A i \in Positions : pending[i].state = "Play" => voice[pending[i].v].play # "Playing"

(* A paused source is silent once what is pending is done: it is by now    *)
(* and what is pending will not start it, or it is paused by a change with *)
(* which all that sounds of it ends or has ended.                          *)
Wakes(c, v) == Plays(c, v) \/ (Restarts(c, v) /\ voice[c.old].sid # Voices!NoSource)
NotPlayed(s, k) == \A j \in Positions : j > k /\ pending[j].s = s => pending[j].state # "Play"
Quiet(s) ==
  /\ NotPlayed(s, 0)
  /\ \A w \in Voices!Voices : voice[w].sid = s => voice[w].play # "Playing"
PausedAt(s, k) ==
  /\ pending[k].state = "Pause" /\ pending[k].s = s
  /\ NotPlayed(s, k)
  /\ \A w \in Voices!Voices : voice[w].sid = s /\ w # pending[k].v =>
       \/ \E i \in Positions : i < k /\ Ends(pending[i], w)
       \/ /\ voice[w].play # "Playing"
          /\ \A i \in Positions : i < k => ~Wakes(pending[i], w)
Hushed(s) == Quiet(s) \/ \E k \in Positions : PausedAt(s, k)
Asleep(v) == voice[v].play # "Playing" /\ \A i \in Positions : ~Wakes(pending[i], v)

PausedIsHushed ==
  /\ \A s \in Source : source[s].state = "PAUSED" => Hushed(s)
  /\ op.pc = "append" /\ op.change.state = "Play" => Asleep(op.change.v) \/ Hushed(op.change.s)

(* What a call knows of the voices of its source, as long as none is lost. *)
CallIsRight ==
  /\ op.pc = "start" =>
       /\ Voices!Playable(op.s) # {}
       /\ op.old # Voices!NoVoice => voice[op.old].sid \in {op.s, Voices!NoSource}
       /\ \A v \in Voices!Voices : voice[v].sid = op.s => voice[v].change
  /\ op.pc = "loop" => voice[source[op.s].vidx].sid \in {op.s, Voices!NoSource}
  /\ op.pc = "seek" =>
       /\ voice[op.old].sid \in {op.s, Voices!NoSource} /\ ~voice[op.old].change
       /\ source[op.s].state \in {"PLAYING", "PAUSED"}
  /\ op.pc \in Sends /\ op.call = "delete" =>
       \A v \in Voices!Voices : voice[v].sid = op.change.s => voice[v].change
  /\ op.pc \in Sends /\ op.change.state = "Restart" =>
       \A i \in Positions :
         /\ ~Plays(pending[i], op.change.v)
         /\ Restarts(pending[i], op.change.v) /\ pending[i].old # op.change.old =>
              voice[pending[i].old].sid = Voices!NoSource
  /\ op.pc \in Sends /\ op.call = "pause" =>
       /\ op.change.v = source[op.change.s].vidx
       /\ op.pc # "append" /\ pending = <<>> /\ voice[op.change.v].sid = op.change.s =>
            voice[op.change.v].play # "Playing"

Kept ==
  /\ ChangeIsAhead /\ EndsOnce /\ EndIsLast /\ RestartIsFirst /\ ChangesOK
  /\ VoiceIsKnown /\ EndIsByCall /\ VoiceHasState /\ BeyondIsFresh
  /\ ItemIsQueued /\ LoadedIsSo /\ WaitsForMix /\ PausedIsHushed /\ CallIsRight

Whole == Always /\ (~Lost => Kept)

-----------------------------------------------------------------------------
(* What the operators are, and how records and sequences change.           *)
LEMMA LaterIs ==
  /\ "new" \in Later /\ "let go" \in Later
  /\ {"idle", "looped", "start", "seek", "loop"} \cap Later = {}
  /\ {"append", "load", "wait", "drop", "sent"} \cap Later = {}
  BY DEF Later
LEMMA LaterStill == "new, after a mix" \in Later
  BY DEF Later

LEMMA SomeFirst ==
  ASSUME NEW X \in SUBSET Nat, X # {}
  PROVE  \E x \in X : \A y \in X : x <= y
<1> DEFINE R == {p \in Nat \X Nat : p[1] < p[2]}
<1>1. OpToRel(<, Nat) = R
  BY DEF OpToRel
<1>2. IsWellFoundedOn(R, Nat)
  BY NatLessThanWellFounded, <1>1
<1>3. \E x \in X : \A y \in X : ~(<<y, x>> \in R)
  BY <1>2, WFMin
<1>4. \A x, y \in Nat : <<y, x>> \in R <=> y < x
  OBVIOUS
<1> HIDE DEF R
<1>5. PICK x \in X : \A y \in X : ~(<<y, x>> \in R)
  BY <1>3
<1>6. ASSUME NEW y \in X PROVE x <= y
  <2>1. x \in Nat /\ y \in Nat /\ ~(<<y, x>> \in R)
    BY <1>5
  <2>2. ~(y < x)
    BY <1>4, <2>1
  <2> QED BY <2>1, <2>2
<1> QED BY <1>6

LEMMA FirstFreeIsFree ==
  ASSUME active \in Voices!Voices, Voices!FreeVoices # {}
  PROVE  Voices!FirstFree \in Voices!Voices /\ Voices!FirstFree <= active /\ Voices!Free(Voices!FirstFree)
<1>1. Voices!FreeVoices \in SUBSET Nat
  BY DEF Voices!FreeVoices, Voices!Voices
<1>2. \E x \in Voices!FreeVoices : \A y \in Voices!FreeVoices : x <= y
  BY <1>1, SomeFirst
<1>3. Voices!FirstFree \in Voices!FreeVoices
  BY <1>2 DEF Voices!FirstFree
<1> QED BY <1>3, VoicesAssumptions DEF Voices!FreeVoices, Voices!Voices

LEMMA Appended ==
  ASSUME NEW q \in Seq(ChangeRecords), NEW c \in ChangeRecords
  PROVE  /\ Append(q, c) \in Seq(ChangeRecords)
         /\ Len(Append(q, c)) = Len(q) + 1 /\ Len(q) \in Nat
         /\ Append(q, c)[Len(q) + 1] = c
         /\ \A i \in 1..Len(q) : Append(q, c)[i] = q[i]
  OBVIOUS

LEMMA Tailed ==
  ASSUME NEW q \in Seq(ChangeRecords), q # <<>>
  PROVE  /\ Tail(q) \in Seq(ChangeRecords) /\ Head(q) \in ChangeRecords
         /\ Head(q) = q[1]
         /\ Len(Tail(q)) = Len(q) - 1 /\ Len(q) \in Nat /\ Len(q) >= 1
         /\ \A i \in 1..Len(Tail(q)) : Tail(q)[i] = q[i + 1]
  OBVIOUS

LEMMA PlacesTyped ==
  ASSUME Typed
  PROVE  Len(pending) \in Nat /\ \A i \in Positions : pending[i] \in ChangeRecords
  BY DEF Typed, Positions

(* A record of each kind has the fields of its kind.                       *)
LEMMA SourceFields ==
  ASSUME Typed, NEW s \in Source
  PROVE  /\ source[s] \in SourceRecords
         /\ source[s].vidx \in MaybeVoice /\ source[s].vidx \in Int
         /\ source[s].head \in Nat /\ source[s].tail \in Nat
         /\ source[s].state \in {"INITIAL", "PLAYING", "PAUSED", "STOPPED"}
  BY VoicesAssumptions DEF Typed, SourceRecords, MaybeVoice

LEMMA VoiceFields ==
  ASSUME Typed, NEW v \in Voices!Voices
  PROVE  /\ voice[v] \in VoiceRecords
         /\ voice[v].sid \in Sids /\ voice[v].change \in BOOLEAN
         /\ voice[v].play \in {"Stopped", "Playing", "Stopping", "Pending"}
         /\ voice[v].buffer \in MaybeItem /\ voice[v].loop \in MaybeItem
  BY DEF Typed, VoiceRecords

LEMMA OpFields ==
  ASSUME Typed
  PROVE  /\ op.pc \in Sends \cup {"idle", "looped", "start", "seek", "loop"}
         /\ op.pc \in Sends => op.change \in ChangeRecords /\ op.call \in Names
         /\ op.pc \in {"start", "seek"} => op.s \in Source /\ op.old \in MaybeVoice
         /\ op.pc = "loop" => op.s \in Source
  BY LaterIs DEF Typed, OpRecords, Sends

LEMMA MixFields ==
  ASSUME Typed
  PROVE  /\ mix.pc \in {"idle", "off", "gone, changes", "changes", "gone", "voices", "ended",
                        "gone, voices", "reading"}
         /\ mix.pc \in {"changes", "gone", "gone, voices"} \/ Sweeping => mix.last \in Voices!Voices
         /\ mix.pc = "gone, voices" \/ Sweeping => mix.v \in 1..(NVoices + 1)
         /\ mix.pc = "reading" => /\ mix.v \in Voices!Voices /\ mix.play \in {"Playing", "Stopping"}
                                  /\ mix.buffer \in MaybeItem /\ mix.loop \in MaybeItem
<1>1. CASE mix \in [pc: {"idle", "off", "gone, changes"}]
  BY <1>1 DEF Sweeping
<1>2. CASE mix \in [pc: {"changes", "gone"}, last: Voices!Voices]
  BY <1>2 DEF Sweeping
<1>3. CASE mix \in [pc: {"voices", "ended", "gone, voices"}, v: 1..(NVoices + 1), last: Voices!Voices]
  BY <1>3 DEF Sweeping
<1>4. CASE mix \in [pc: {"reading"}, v: Voices!Voices, last: Voices!Voices, play: {"Playing", "Stopping"},
                   buffer: MaybeItem, loop: MaybeItem]
  <2>1. mix.pc = "reading" /\ mix.v \in Voices!Voices /\ mix.last \in Voices!Voices
        /\ mix.play \in {"Playing", "Stopping"} /\ mix.buffer \in MaybeItem /\ mix.loop \in MaybeItem
    BY <1>4
  <2>2. mix.v \in 1..(NVoices + 1)
    BY <2>1, VoicesAssumptions DEF Voices!Voices
  <2> QED BY <2>1, <2>2
<1> QED BY <1>1, <1>2, <1>3, <1>4 DEF Typed, MixRecords

(* The send of a change goes on to its next place.                         *)
LEMMA OpGoes ==
  ASSUME Typed, op.pc \in Sends, NEW q \in Sends
  PROVE  LET r == [op EXCEPT !.pc = q] IN
         r \in OpRecords /\ r.pc = q /\ r.call = op.call /\ r.change = op.change
<1>1. op \in [pc: Sends, call: Names, change: ChangeRecords]
  BY LaterIs DEF Typed, OpRecords, Sends
<1> QED BY <1>1 DEF OpRecords

LEMMA ChangeFields ==
  ASSUME NEW c \in ChangeRecords
  PROVE  /\ c.state \in {"Play", "Pause", "Stop", "Reset", "Restart"} /\ c.s \in Source
         /\ c.v \in MaybeVoice /\ c.old \in MaybeVoice
         /\ c.v # Voices!NoVoice => c.v \in Voices!Voices
         /\ c.old # Voices!NoVoice => c.old \in Voices!Voices
         /\ Voices!NoVoice \notin Voices!Voices
  BY VoicesAssumptions DEF ChangeRecords, MaybeVoice, Voices!Voices, Voices!NoVoice

LEMMA MaybeIs ==
  ASSUME NEW v \in MaybeVoice
  PROVE  v \in Voices!Voices <=> v # Voices!NoVoice
  BY VoicesAssumptions DEF MaybeVoice, Voices!Voices, Voices!NoVoice

-----------------------------------------------------------------------------
(* What the steps do to sources and voices, field by field.                *)
SourcesTyped == source' \in [Source -> SourceRecords]
VoicesTyped == voice' \in [Voices!Voices -> VoiceRecords]

(* A call on s: its state, its voice and whether it loops may change, and  *)
(* no other source.                                                        *)
Touches(s) ==
  /\ SourcesTyped
  /\ source'[s].alive = source[s].alive /\ source'[s].type = source[s].type
  /\ source'[s].head = source[s].head /\ source'[s].tail = source[s].tail
  /\ \A u \in Source : u # s => source'[u] = source[u]
Sets(s, state, v) ==
  Touches(s) /\ source'[s].state = state /\ source'[s].vidx = v /\ source'[s].looping = source[s].looping

(* Voice v is marked as about to end; or none is, when v is NoVoice.       *)
Marks(v) ==
  /\ VoicesTyped
  /\ \A w \in Voices!Voices :
       /\ voice'[w].sid = voice[w].sid /\ voice'[w].play = voice[w].play
       /\ voice'[w].buffer = voice[w].buffer /\ voice'[w].loop = voice[w].loop
       /\ voice'[w].change <=> voice[w].change \/ w = v
       /\ w # v => voice'[w] = voice[w]

(* Voice v is given to source s, at one of the items that play.            *)
Gives(v, s, play) ==
  /\ VoicesTyped
  /\ voice'[v].sid = s /\ voice'[v].play = play /\ voice'[v].change = voice[v].change
  /\ voice'[v].buffer \in {Voices!Front(s)} \cup Voices!Playable(s)
  /\ voice'[v].loop = IF source[s].looping THEN Voices!Front(s) ELSE Voices!NoItem

LEMMA SeenIs ==
  ASSUME Typed, NEW s \in Source, active \in Voices!Voices
  PROVE  /\ Voices!Seen(s) \in SourceRecords
         /\ Voices!Seen(s).vidx = Voices!GetSourceVoice(s) /\ Voices!Seen(s).state = Voices!GetSourceState(s)
         /\ Voices!GetSourceVoice(s) \in MaybeVoice
         /\ Voices!GetSourceState(s) \in {"INITIAL", "PLAYING", "PAUSED", "STOPPED"}
         /\ Voices!Seen(s).alive = source[s].alive /\ Voices!Seen(s).type = source[s].type
         /\ Voices!Seen(s).head = source[s].head /\ Voices!Seen(s).tail = source[s].tail
         /\ Voices!Seen(s).looping = source[s].looping
<1>1. source[s] \in SourceRecords
  BY DEF Typed
<1>2. Voices!GetSourceVoice(s) \in MaybeVoice
  BY <1>1, VoicesAssumptions DEF Voices!GetSourceVoice, SourceRecords, MaybeVoice,
      Voices!NoVoice
<1>3. Voices!GetSourceState(s) \in {"INITIAL", "PLAYING", "PAUSED", "STOPPED"}
  BY <1>1 DEF Voices!GetSourceState, SourceRecords
<1> QED BY <1>1, <1>2, <1>3 DEF Voices!Seen, SourceRecords

LEMMA SeesAgain ==
  ASSUME Typed, NEW s \in Source, source' = [source EXCEPT ![s] = Voices!Seen(s)]
  PROVE  Sets(s, Voices!GetSourceState(s), Voices!GetSourceVoice(s))
<1>1. source \in [Source -> SourceRecords] /\ active \in Voices!Voices
  BY DEF Typed
<1>2. source'[s] = Voices!Seen(s) /\ \A u \in Source : u # s => source'[u] = source[u]
  BY <1>1
<1>3. SourcesTyped
  BY <1>1, SeenIs DEF SourcesTyped
<1> QED BY <1>1, <1>2, <1>3, SeenIs DEF Sets, Touches

LEMMA MarksVoice ==
  ASSUME Typed, NEW v \in Voices!Voices, voice' = [voice EXCEPT ![v].change = TRUE]
  PROVE  Marks(v)
  BY DEF Typed, Marks, VoicesTyped, VoiceRecords

LEMMA MarksNone ==
  ASSUME Typed, NEW v, v \notin Voices!Voices, UNCHANGED voice
  PROVE  Marks(v)
  BY VoiceFields DEF Typed, Marks, VoicesTyped

LEMMA MarksMaybe ==
  ASSUME Typed, NEW v \in MaybeVoice, voice' = Voices!Changing(v)
  PROVE  Marks(v)
<1>1. CASE v = Voices!NoVoice
  BY <1>1, MarksNone DEF Voices!Changing, Voices!NoVoice, Voices!Voices
<1>2. CASE v # Voices!NoVoice
  <2>1. v \in Voices!Voices
    BY <1>2, VoicesAssumptions DEF MaybeVoice, Voices!Voices, Voices!NoVoice
  <2> QED BY <1>2, <2>1, MarksVoice DEF Voices!Changing
<1> QED BY <1>1, <1>2

(* Where an item is, in numbers.                                           *)
LEMMA QueueIs ==
  ASSUME Typed, NEW s \in Source, NEW j
  PROVE  /\ j \in Voices!Queue(s) <=> \E n \in Nat : /\ j = <<s, n>>
                                             /\ source[s].head <= n /\ n < source[s].tail
         /\ j \in Voices!Queue(s) => j # Voices!NoItem /\ j[1] = s /\ j[2] \in Nat
         /\ j \in Voices!Playable(s) => j \in Voices!Queue(s)
<1>1. source[s].head \in Nat /\ source[s].tail \in Nat
  BY SourceFields
<1>2. j \in Voices!Queue(s) <=> \E n \in Nat : /\ j = <<s, n>>
                                             /\ source[s].head <= n /\ n < source[s].tail
  BY <1>1 DEF Voices!Queue
<1>3. j \in Voices!Queue(s) => j # Voices!NoItem /\ j[1] = s /\ j[2] \in Nat
  <2> SUFFICES ASSUME NEW n \in Nat, j = <<s, n>> PROVE j # Voices!NoItem /\ j[1] = s /\ j[2] \in Nat
    BY <1>2
  <2> QED BY DEF Voices!NoItem
<1>4. j \in Voices!Playable(s) => j \in Voices!Queue(s)
  BY DEF Voices!Playable
<1> QED BY <1>2, <1>3, <1>4

LEMMA QueuedIsItem ==
  ASSUME Typed, InBounds, NEW s \in Source
  PROVE  Voices!Queue(s) \subseteq Voices!Items /\ Voices!Playable(s) \subseteq Voices!Items /\ Voices!Front(s) \in Voices!Items
<1>1. /\ source[s].head \in Nat /\ source[s].tail \in Nat /\ MaxItem[s] \in Nat
      /\ 1 <= source[s].head /\ source[s].head <= source[s].tail /\ source[s].tail <= MaxItem[s] + 1
  BY SourceFields, VoicesAssumptions DEF InBounds
<1>2. \A n \in Nat : 1 <= n /\ n <= MaxItem[s] + 1 => <<s, n>> \in Voices!Items
  BY <1>1 DEF Voices!Items
<1>3. Voices!Queue(s) \subseteq Voices!Items
  BY <1>1, <1>2 DEF Voices!Queue
<1>4. Voices!Front(s) \in Voices!Items
  BY <1>1, <1>2 DEF Voices!Front
<1> QED BY <1>3, <1>4 DEF Voices!Playable

-----------------------------------------------------------------------------
(* The calls that begin.                                                   *)
Elsewhere == UNCHANGED <<pending, mixing, mix, connected, reset>>

LEMMA GenDoes ==
  ASSUME Typed, Voices!alGenSources
  PROVE  \E s \in Source :
           /\ ~source[s].alive /\ source[s].tail <= MaxItem[s]
           /\ SourcesTyped
           /\ source'[s].alive /\ source'[s].state = "INITIAL" /\ source'[s].vidx = Voices!NoVoice
           /\ source'[s].head = source[s].tail /\ source'[s].tail = source[s].tail
           /\ ~source'[s].looping
           /\ \A u \in Source : u # s => source'[u] = source[u]
           /\ op.pc = "idle" /\ UNCHANGED <<voice, active, op>> /\ Elsewhere
<1>1. PICK s \in Source :
        /\ ~source[s].alive /\ source[s].tail <= MaxItem[s]
        /\ source' = [source EXCEPT ![s] = [Voices!Ungiven EXCEPT !.alive = TRUE, !.head = source[s].tail,
                                                           !.tail = source[s].tail]]
  BY DEF Voices!alGenSources
<1>2. source \in [Source -> SourceRecords]
  BY DEF Typed
<1>3. LET r == [Voices!Ungiven EXCEPT !.alive = TRUE, !.head = source[s].tail, !.tail = source[s].tail] IN
      /\ r \in SourceRecords
      /\ r.alive /\ r.state = "INITIAL" /\ r.vidx = Voices!NoVoice /\ ~r.looping
      /\ r.head = source[s].tail /\ r.tail = source[s].tail
  <2>1. source[s].tail \in Nat /\ Voices!NoVoice \in MaybeVoice
    BY SourceFields, VoicesAssumptions DEF MaybeVoice, Voices!NoVoice
  <2> QED BY <2>1 DEF Voices!Ungiven, SourceRecords
<1>4. SourcesTyped
  BY <1>1, <1>2, <1>3 DEF SourcesTyped
<1>5. op.pc = "idle" /\ UNCHANGED <<voice, active, op>> /\ Elsewhere
  BY DEF Voices!alGenSources, Voices!Mixer, Elsewhere
<1> QED BY <1>1, <1>2, <1>3, <1>4, <1>5

LEMMA QueueDoes ==
  ASSUME Typed, NEW s \in Source, Voices!alSourceQueueBuffers(s)
  PROVE  /\ source[s].tail <= MaxItem[s]
         /\ SourcesTyped
         /\ source'[s].alive = source[s].alive /\ source'[s].state = source[s].state
         /\ source'[s].vidx = source[s].vidx /\ source'[s].looping = source[s].looping
         /\ source'[s].head = source[s].head /\ source'[s].tail = source[s].tail + 1
         /\ \A u \in Source : u # s => source'[u] = source[u]
         /\ op.pc = "idle" /\ source[s].alive /\ UNCHANGED <<voice, active, op>> /\ Elsewhere
<1>1. source \in [Source -> SourceRecords]
  BY DEF Typed
<1> QED BY <1>1 DEF Voices!alSourceQueueBuffers, Voices!CanCall, Voices!Mixer, Elsewhere,
    SourcesTyped, SourceRecords

LEMMA UnqueueDoes ==
  ASSUME Typed, NEW s \in Source, Voices!alSourceUnqueueBuffers(s)
  PROVE  \E n \in 1..Cardinality(Voices!Processed(s)) :
           /\ n \in Nat /\ n <= Cardinality(Voices!Processed(s))
           /\ SourcesTyped
           /\ source'[s].alive = source[s].alive /\ source'[s].state = source[s].state
           /\ source'[s].looping = source[s].looping /\ ~source[s].looping
           /\ source'[s].vidx = IF source[s].state = "INITIAL" THEN source[s].vidx ELSE Voices!GetSourceVoice(s)
           /\ source'[s].head = source[s].head + n /\ source'[s].tail = source[s].tail
           /\ \A u \in Source : u # s => source'[u] = source[u]
           /\ op.pc = "idle" /\ source[s].alive /\ UNCHANGED <<voice, active, op>> /\ Elsewhere
<1>1. source \in [Source -> SourceRecords] /\ active \in Voices!Voices
  BY DEF Typed
<1>2. PICK n \in 1..Cardinality(Voices!Processed(s)) :
        source' = [source EXCEPT ![s].head = @ + n,
                                 ![s].vidx = IF source[s].state = "INITIAL" THEN @
                                             ELSE Voices!GetSourceVoice(s)]
  BY SameCardinality DEF Voices!alSourceUnqueueBuffers
<1>3. Voices!GetSourceVoice(s) \in MaybeVoice
  BY <1>1, SeenIs
<1>4. n \in Nat /\ n <= Cardinality(Voices!Processed(s))
  OBVIOUS
<1>6. source[s].head + n \in Nat
  BY <1>4, SourceFields
<1>7. SourcesTyped
  <2> DEFINE h == source[s].head + n
             v == IF source[s].state = "INITIAL" THEN source[s].vidx ELSE Voices!GetSourceVoice(s)
  <2>1. source' = [source EXCEPT ![s].head = h, ![s].vidx = v]
    BY <1>2
  <2>2. h \in Nat /\ v \in MaybeVoice
    BY <1>3, <1>6, SourceFields
  <2> HIDE DEF h, v
  <2>3. source' = [source EXCEPT ![s] = [source[s] EXCEPT !.head = h, !.vidx = v]]
    BY <1>1, <2>1 DEF SourceRecords
  <2>4. [source[s] EXCEPT !.head = h, !.vidx = v] \in SourceRecords
    BY <1>1, <2>2 DEF SourceRecords
  <2> QED BY <1>1, <2>3, <2>4 DEF SourcesTyped
<1>5. /\ source'[s].alive = source[s].alive /\ source'[s].state = source[s].state
      /\ source'[s].looping = source[s].looping
      /\ source'[s].vidx = IF source[s].state = "INITIAL" THEN source[s].vidx ELSE Voices!GetSourceVoice(s)
      /\ source'[s].head = source[s].head + n /\ source'[s].tail = source[s].tail
      /\ \A u \in Source : u # s => source'[u] = source[u]
  BY <1>1, <1>2 DEF SourceRecords
<1> QED BY <1>4, <1>5, <1>7 DEF Voices!alSourceUnqueueBuffers, Voices!CanCall,
    Voices!Mixer, Elsewhere

LEMMA SetBufferDoes ==
  ASSUME Typed, NEW s \in Source, Voices!SetBuffer(s)
  PROVE  /\ Voices!GetSourceState(s) \notin {"PLAYING", "PAUSED"}
         /\ SourcesTyped
         /\ source'[s].alive = source[s].alive /\ source'[s].looping = source[s].looping
         /\ source'[s].state = Voices!GetSourceState(s) /\ source'[s].vidx = Voices!GetSourceVoice(s)
         /\ source'[s].head = source[s].tail
         /\ \/ source'[s].tail = source[s].tail
            \/ source'[s].tail = source[s].tail + 1 /\ source[s].tail <= MaxItem[s]
         /\ \A u \in Source : u # s => source'[u] = source[u]
         /\ op.pc = "idle" /\ source[s].alive /\ UNCHANGED <<voice, active, op>> /\ Elsewhere
<1>1. source \in [Source -> SourceRecords] /\ active \in Voices!Voices /\ source[s].tail \in Nat
  BY SourceFields DEF Typed
<1>2. Voices!Seen(s) \in SourceRecords /\ Voices!Seen(s).tail = source[s].tail
  BY <1>1, SeenIs
<1>3. CASE /\ source[s].tail <= MaxItem[s]
           /\ source' = [source EXCEPT ![s] = [Voices!Seen(s) EXCEPT !.type = "STATIC",
                                                 !.head = source[s].tail, !.tail = @ + 1]]
  <2>1. [Voices!Seen(s) EXCEPT !.type = "STATIC", !.head = source[s].tail, !.tail = @ + 1] \in SourceRecords
    <3>1. Voices!Seen(s).tail + 1 \in Nat
      BY <1>1, <1>2
    <3> QED BY <1>1, <1>2, <3>1 DEF SourceRecords
  <2>2. SourcesTyped
    BY <1>1, <1>3, <2>1 DEF SourcesTyped
  <2>3. /\ source'[s].alive = Voices!Seen(s).alive /\ source'[s].looping = Voices!Seen(s).looping
        /\ source'[s].state = Voices!Seen(s).state /\ source'[s].vidx = Voices!Seen(s).vidx
        /\ source'[s].head = source[s].tail /\ source'[s].tail = Voices!Seen(s).tail + 1
        /\ \A u \in Source : u # s => source'[u] = source[u]
    BY <1>1, <1>2, <1>3 DEF SourceRecords
  <2> QED BY <1>1, <1>2, <1>3, <2>2, <2>3, SeenIs DEF Voices!SetBuffer, Voices!CanCall,
      Voices!Mixer, Elsewhere
<1>4. CASE source' = [source EXCEPT ![s] = [Voices!Seen(s) EXCEPT !.type = "UNDETERMINED",
                                              !.head = source[s].tail]]
  <2>1. [Voices!Seen(s) EXCEPT !.type = "UNDETERMINED", !.head = source[s].tail] \in SourceRecords
    BY <1>1, <1>2 DEF SourceRecords
  <2>2. SourcesTyped
    BY <1>1, <1>4, <2>1 DEF SourcesTyped
  <2>3. /\ source'[s].alive = Voices!Seen(s).alive /\ source'[s].looping = Voices!Seen(s).looping
        /\ source'[s].state = Voices!Seen(s).state /\ source'[s].vidx = Voices!Seen(s).vidx
        /\ source'[s].head = source[s].tail /\ source'[s].tail = Voices!Seen(s).tail
        /\ \A u \in Source : u # s => source'[u] = source[u]
    BY <1>1, <1>2, <1>4 DEF SourceRecords
  <2> QED BY <1>1, <1>2, <1>4, <2>2, <2>3, SeenIs DEF Voices!SetBuffer, Voices!CanCall,
      Voices!Mixer, Elsewhere
<1> QED BY <1>3, <1>4 DEF Voices!SetBuffer

Sending(name, state, s, v, old) ==
  op' = [pc |-> "append", call |-> name,
         change |-> [state |-> state, s |-> s, v |-> v, old |-> old]]

LEMMA SetsState ==
  ASSUME Typed, NEW s \in Source, source' = [source EXCEPT ![s].state = "STOPPED"]
  PROVE  Sets(s, "STOPPED", source[s].vidx)
  BY DEF Typed, Sets, Touches, SourcesTyped, SourceRecords

LEMMA SetsPlaying ==
  ASSUME Typed, NEW s \in Source, source' = [source EXCEPT ![s].state = "PLAYING"]
  PROVE  Sets(s, "PLAYING", source[s].vidx)
  BY DEF Typed, Sets, Touches, SourcesTyped, SourceRecords

LEMMA GrowDoes ==
  ASSUME Typed, Voices!Grow
  PROVE  /\ active' \in Voices!Voices /\ active' \in {active, active + 1}
         /\ Voices!FreeVoices # {} => active' = active
         /\ Voices!FreeVoices = {} => active' = active + 1 /\ active < NVoices
  BY VoicesAssumptions DEF Typed, Voices!Grow, Voices!Voices

LEMMA PlayLookDoes ==
  ASSUME Typed, NEW s \in Source, Voices!PlayLook(s)
  PROVE  /\ op.pc = "idle" /\ source[s].alive /\ Elsewhere
         /\ \/ ~connected /\ StopOnDisconnect /\ UNCHANGED active
            \/ (connected \/ ~StopOnDisconnect) /\ Voices!Grow
         /\ \/ /\ ~(connected \/ ~StopOnDisconnect) \/ Voices!Playable(s) = {}
               /\ Sets(s, "STOPPED", source[s].vidx) /\ op'.pc = "idle" /\ UNCHANGED voice
               /\ op' \in OpRecords
            \/ /\ connected \/ ~StopOnDisconnect
               /\ Voices!HasVoice(s) /\ source[s].state = "PAUSED"
               /\ Sets(s, "PLAYING", source[s].vidx) /\ UNCHANGED voice
               /\ Sending("play", "Play", s, source[s].vidx, Voices!NoVoice)
            \/ /\ connected \/ ~StopOnDisconnect
               /\ Voices!Playable(s) # {}
               /\ ~(Voices!GetSourceState(s) = "PAUSED" /\ Voices!HasVoice(s))
               /\ Sets(s, Voices!GetSourceState(s), Voices!GetSourceVoice(s))
               /\ op'.pc = "start" /\ op'.s = s /\ op' \in OpRecords
               /\ op'.old = IF Voices!GetSourceState(s) = "PLAYING" THEN source[s].vidx ELSE Voices!NoVoice
               /\ Voices!GetSourceState(s) = "PLAYING" => Voices!HasVoice(s)
               /\ Marks(op'.old)
<1>0. op.pc = "idle" /\ source[s].alive /\ Elsewhere
  BY DEF Voices!PlayLook, Voices!CanCall, Voices!Mixer, Elsewhere
<1>1. CASE ~connected /\ StopOnDisconnect
  BY <1>0, <1>1, SetsState DEF Voices!PlayLook, Voices!Return, Voices!Idle, OpRecords
<1>2. CASE (connected \/ ~StopOnDisconnect) /\ Voices!Playable(s) = {}
  BY <1>0, <1>2, SetsState DEF Voices!PlayLook, Voices!Return, Voices!Idle, OpRecords
<1>3. CASE (connected \/ ~StopOnDisconnect) /\ Voices!Playable(s) # {}
  <2> DEFINE v == Voices!GetSourceVoice(s)
             was == Voices!GetSourceState(s)
             old == IF was = "PLAYING" THEN v ELSE Voices!NoVoice
  <2>1. Voices!HasVoice(s) => v = source[s].vidx /\ was = source[s].state
    BY DEF Voices!GetSourceVoice, Voices!GetSourceState
  <2>2. v # Voices!NoVoice <=> Voices!HasVoice(s)
    BY SourceFields DEF Voices!GetSourceVoice, Voices!HasVoice, Voices!NoVoice
  <2>3. was = "PLAYING" => Voices!HasVoice(s)
    BY DEF Voices!GetSourceState
  <2>4. v \in MaybeVoice /\ old \in MaybeVoice
    BY SeenIs, VoicesAssumptions DEF Typed, MaybeVoice, Voices!NoVoice
  <2>5. CASE was = "PAUSED" /\ v # Voices!NoVoice
    <3>1. /\ source' = [source EXCEPT ![s].state = "PLAYING"]
          /\ Voices!Send("play", Voices!VoiceChange("Play", s, v, Voices!NoVoice)) /\ UNCHANGED voice /\ Voices!Grow
      BY <1>3, <2>5 DEF Voices!PlayLook
    <3>2. Sending("play", "Play", s, source[s].vidx, Voices!NoVoice)
      BY <2>1, <2>2, <2>5, <3>1 DEF Voices!Send, Voices!VoiceChange, Sending
    <3> QED BY <1>0, <1>3, <2>1, <2>2, <2>5, <3>1, <3>2, SetsPlaying
  <2>6. CASE ~(was = "PAUSED" /\ v # Voices!NoVoice)
    <3>1. /\ source' = [source EXCEPT ![s] = Voices!Seen(s)]
          /\ voice' = Voices!Changing(old)
          /\ op' = [pc |-> "start", s |-> s, old |-> old] /\ Voices!Grow
      BY <1>3, <2>6 DEF Voices!PlayLook
    <3>2. Sets(s, Voices!GetSourceState(s), Voices!GetSourceVoice(s))
      BY <3>1, SeesAgain
    <3>3. Marks(old)
      BY <2>4, <3>1, MarksMaybe
    <3>4. op' \in OpRecords /\ op'.pc = "start" /\ op'.s = s /\ op'.old = old
      BY <2>4, <3>1 DEF OpRecords
    <3>5. old = IF Voices!GetSourceState(s) = "PLAYING" THEN source[s].vidx ELSE Voices!NoVoice
      BY <2>1, <2>3
    <3>6. ~(Voices!GetSourceState(s) = "PAUSED" /\ Voices!HasVoice(s))
      BY <2>2, <2>6
    <3> HIDE DEF v, was, old
    <3>7. was = Voices!GetSourceState(s)
      BY DEF was
    <3> QED BY <1>0, <1>3, <2>3, <3>1, <3>2, <3>3, <3>4, <3>5, <3>6, <3>7
  <2> QED BY <2>5, <2>6
<1> QED BY <1>1, <1>2, <1>3, VoicesAssumptions DEF Typed

LEMMA PauseLookDoes ==
  ASSUME Typed, NEW s \in Source, Voices!PauseLook(s)
  PROVE  /\ op.pc = "idle" /\ source[s].alive /\ UNCHANGED <<voice, active>> /\ Elsewhere
         /\ Sets(s, Voices!GetSourceState(s), Voices!GetSourceVoice(s))
         /\ IF Voices!GetSourceState(s) = "PLAYING"
            THEN Sending("pause", "Pause", s, source[s].vidx, Voices!NoVoice) /\ Voices!HasVoice(s)
            ELSE op' = Voices!Idle
<1>1. Sets(s, Voices!GetSourceState(s), Voices!GetSourceVoice(s))
  BY SeesAgain DEF Voices!PauseLook
<1> QED BY <1>1 DEF Voices!PauseLook, Voices!CanCall, Voices!Mixer, Elsewhere, Voices!Send,
    Voices!VoiceChange, Sending, Voices!Return,
                    Voices!GetSourceState

LEMMA StopLookDoes ==
  ASSUME Typed, NEW s \in Source, Voices!StopLook(s)
  PROVE  /\ op.pc = "idle" /\ source[s].alive /\ UNCHANGED active /\ Elsewhere
         /\ IF Voices!HasVoice(s)
            THEN /\ Sets(s, "STOPPED", Voices!NoVoice) /\ Marks(source[s].vidx)
                 /\ Sending("stop", "Stop", s, source[s].vidx, Voices!NoVoice)
            ELSE Sets(s, source[s].state, Voices!NoVoice) /\ UNCHANGED voice /\ op' = Voices!Idle
<1>1. source[s].vidx \in MaybeVoice /\ source \in [Source -> SourceRecords] /\ Voices!NoVoice \in MaybeVoice
  BY SourceFields, VoicesAssumptions DEF Typed, MaybeVoice, Voices!NoVoice
<1>2. Voices!HasVoice(s) => Sets(s, "STOPPED", Voices!NoVoice)
  BY <1>1 DEF Voices!StopLook, Sets, Touches, SourcesTyped, SourceRecords
<1>3. ~Voices!HasVoice(s) => Sets(s, source[s].state, Voices!NoVoice)
  BY <1>1 DEF Voices!StopLook, Sets, Touches, SourcesTyped, SourceRecords
<1>4. Voices!HasVoice(s) => Marks(source[s].vidx)
  BY <1>1, MarksMaybe DEF Voices!StopLook
<1> QED BY <1>2, <1>3, <1>4 DEF Voices!StopLook, Voices!CanCall, Voices!Mixer, Elsewhere,
    Voices!Send, Voices!VoiceChange, Sending,
                                Voices!Return

LEMMA RewindLookDoes ==
  ASSUME Typed, NEW s \in Source, Voices!RewindLook(s)
  PROVE  /\ op.pc = "idle" /\ source[s].alive /\ UNCHANGED active /\ Elsewhere
         /\ Sets(s, "INITIAL", Voices!NoVoice)
         /\ IF source[s].state # "INITIAL"
            THEN /\ Marks(Voices!GetSourceVoice(s)) /\ Voices!GetSourceVoice(s) \in MaybeVoice
                 /\ Sending("rewind", "Reset", s, Voices!GetSourceVoice(s), Voices!NoVoice)
            ELSE UNCHANGED voice /\ op' = Voices!Idle
<1>1. source \in [Source -> SourceRecords] /\ Voices!NoVoice \in MaybeVoice /\ Voices!GetSourceVoice(s) \in MaybeVoice
  BY SeenIs, VoicesAssumptions DEF Typed, MaybeVoice, Voices!NoVoice
<1>2. Sets(s, "INITIAL", Voices!NoVoice)
  BY <1>1 DEF Voices!RewindLook, Sets, Touches, SourcesTyped, SourceRecords
<1>3. source[s].state # "INITIAL" => Marks(Voices!GetSourceVoice(s))
  BY <1>1, MarksMaybe DEF Voices!RewindLook
<1> QED BY <1>1, <1>2, <1>3 DEF Voices!RewindLook, Voices!CanCall, Voices!Mixer, Elsewhere,
    Voices!Send, Voices!VoiceChange, Sending,
                                Voices!Return

LEMMA DestroyDoes ==
  ASSUME Typed, NEW s \in Source, source' = [source EXCEPT ![s] = Voices!Destroyed(s)]
  PROVE  /\ SourcesTyped
         /\ ~source'[s].alive /\ source'[s].state = "INITIAL" /\ source'[s].vidx = Voices!NoVoice
         /\ source'[s].head = source[s].tail /\ source'[s].tail = source[s].tail
         /\ ~source'[s].looping
         /\ \A u \in Source : u # s => source'[u] = source[u]
<1>1. source \in [Source -> SourceRecords]
  BY DEF Typed
<1>2. /\ Voices!Destroyed(s) \in SourceRecords
      /\ ~Voices!Destroyed(s).alive /\ Voices!Destroyed(s).state = "INITIAL" /\ Voices!Destroyed(s).vidx = Voices!NoVoice
      /\ Voices!Destroyed(s).head = source[s].tail /\ Voices!Destroyed(s).tail = source[s].tail
      /\ ~Voices!Destroyed(s).looping
  <2>1. source[s].tail \in Nat /\ Voices!NoVoice \in MaybeVoice
    BY SourceFields, VoicesAssumptions DEF MaybeVoice, Voices!NoVoice
  <2> QED BY <2>1 DEF Voices!Destroyed, Voices!Ungiven, SourceRecords
<1> QED BY <1>1, <1>2 DEF SourcesTyped

LEMMA DeleteLookDoes ==
  ASSUME Typed, NEW s \in Source, Voices!DeleteLook(s)
  PROVE  /\ op.pc = "idle" /\ source[s].alive /\ UNCHANGED active /\ Elsewhere
         /\ IF Voices!HasVoice(s)
            THEN /\ Marks(source[s].vidx) /\ UNCHANGED source
                 /\ Sending("delete", "Stop", s, source[s].vidx, Voices!NoVoice)
            ELSE /\ UNCHANGED voice /\ op' = Voices!Idle
                 /\ source' = [source EXCEPT ![s] = Voices!Destroyed(s)]
<1>1. source[s].vidx \in MaybeVoice
  BY SourceFields
<1>2. Voices!HasVoice(s) => Marks(source[s].vidx)
  BY <1>1, MarksMaybe DEF Voices!DeleteLook
<1> QED BY <1>2 DEF Voices!DeleteLook, Voices!CanCall, Voices!Mixer, Elsewhere,
    Voices!Send, Voices!VoiceChange, Sending, Voices!Return

LEMMA LoopLookDoes ==
  ASSUME Typed, NEW s \in Source, Voices!LoopLook(s)
  PROVE  /\ op.pc = "idle" /\ source[s].alive /\ UNCHANGED <<voice, active>> /\ Elsewhere
         /\ Touches(s)
         /\ source'[s].state = source[s].state /\ source'[s].vidx = Voices!GetSourceVoice(s)
         /\ source'[s].looping <=> ~source[s].looping
         /\ IF Voices!HasVoice(s) THEN op' = [pc |-> "loop", s |-> s] ELSE op' = Voices!Idle
<1>1. source \in [Source -> SourceRecords] /\ Voices!GetSourceVoice(s) \in MaybeVoice
  BY SeenIs DEF Typed
<1>2. /\ Touches(s)
      /\ source'[s].state = source[s].state /\ source'[s].vidx = Voices!GetSourceVoice(s)
      /\ source'[s].looping <=> ~source[s].looping
  BY <1>1 DEF Voices!LoopLook, Touches, SourcesTyped, SourceRecords
<1> QED BY <1>2 DEF Voices!LoopLook, Voices!CanCall, Voices!Mixer, Elsewhere, Voices!Return

-----------------------------------------------------------------------------
(* The calls that go on.                                                   *)
Others(v) == \A w \in Voices!Voices : w # v => voice'[w] = voice[w]

LEMMA GivenVoice ==
  ASSUME Typed, InBounds, NEW v \in Voices!Voices, NEW s \in Source,
         NEW item \in {Voices!Front(s)} \cup Voices!Playable(s)
  PROVE  LET r == Voices!InitVoice(v, s, item) IN
         /\ r \in VoiceRecords
         /\ r.sid = s /\ r.play = voice[v].play /\ r.change = voice[v].change /\ r.buffer = item
         /\ r.loop = IF source[s].looping THEN Voices!Front(s) ELSE Voices!NoItem
<1>1. item \in MaybeItem /\ Voices!NoItem \in MaybeItem /\ Voices!Front(s) \in MaybeItem
  BY QueuedIsItem DEF MaybeItem
<1>2. voice[v] \in VoiceRecords /\ s \in Sids
  BY VoiceFields DEF Sids
<1>3. (source[s].type = "STATIC") \in BOOLEAN
  OBVIOUS
<1> QED BY <1>1, <1>2, <1>3 DEF Voices!InitVoice, VoiceRecords

LEMMA PlayStartDoes ==
  ASSUME Typed, InBounds, Voices!PlayStart
  PROVE  \E s \in Source, v \in Voices!Voices :
           /\ op.pc = "start" /\ op.s = s /\ v <= active /\ Voices!Free(v)
           /\ Gives(v, s, "Stopped") /\ Others(v)
           /\ Sets(s, "PLAYING", v)
           /\ Sending("play", "Play", s, v, op.old)
           /\ UNCHANGED active /\ Elsewhere
<1> DEFINE s == op.s
           v == Voices!FirstFree
<1>1. op.pc = "start" /\ s \in Source /\ op.old \in MaybeVoice
  BY OpFields DEF Voices!PlayStart
<1>2. v \in Voices!Voices /\ v <= active /\ Voices!Free(v)
  BY FirstFreeIsFree DEF Typed, Voices!PlayStart
<1>3. PICK item \in {Voices!Front(s)} \cup Voices!Playable(s) : voice' = [voice EXCEPT ![v] = Voices!InitVoice(v, s, item)]
  BY DEF Voices!PlayStart
<1>4. source' = [source EXCEPT ![s].vidx = v, ![s].state = "PLAYING"]
  BY DEF Voices!PlayStart
<1>5. Voices!Send("play", Voices!VoiceChange("Play", s, v, op.old)) /\ UNCHANGED active /\ Elsewhere
  BY DEF Voices!PlayStart, Voices!Mixer, Elsewhere
<1> HIDE DEF s, v
<1>6. Gives(v, s, "Stopped") /\ Others(v)
  <2>1. voice' = [voice EXCEPT ![v] = Voices!InitVoice(v, s, item)] /\ voice \in [Voices!Voices -> VoiceRecords]
    BY <1>3 DEF Typed
  <2>2. Voices!InitVoice(v, s, item) \in VoiceRecords
    BY <1>1, <1>2, GivenVoice
  <2>3. voice'[v] = Voices!InitVoice(v, s, item) /\ Others(v) /\ VoicesTyped
    BY <1>2, <2>1, <2>2 DEF Others, VoicesTyped
  <2>4. voice[v].play = "Stopped"
    BY <1>2 DEF Voices!Free
  <2> QED BY <1>1, <1>2, <2>3, <2>4, GivenVoice DEF Gives
<1>7. Sets(s, "PLAYING", v)
  <2>1. v \in MaybeVoice /\ source \in [Source -> SourceRecords]
    BY <1>2, VoicesAssumptions DEF MaybeVoice, Voices!Voices, Typed
  <2> QED BY <1>1, <1>4, <2>1 DEF Sets, Touches, SourcesTyped, SourceRecords
<1>8. Sending("play", "Play", s, v, op.old)
  BY <1>5 DEF Voices!Send, Voices!VoiceChange, Sending
<1>9. op.s = s
  BY DEF s
<1> QED BY <1>1, <1>2, <1>5, <1>6, <1>7, <1>8, <1>9

LEMMA SeekLookDoes ==
  ASSUME Typed, NEW s \in Source, Voices!SeekLook(s)
  PROVE  /\ op.pc = "idle" /\ source[s].alive /\ Voices!HasVoice(s)
         /\ op'.pc = "seek" /\ op'.s = s /\ op'.old = source[s].vidx /\ op' \in OpRecords
         /\ UNCHANGED <<source, voice, active>> /\ Elsewhere
<1>1. source[s].vidx \in MaybeVoice
  BY SourceFields
<1> QED BY <1>1 DEF Voices!SeekLook, Voices!CanCall, Voices!Mixer, Elsewhere, OpRecords

LEMMA SeekStartDoes ==
  ASSUME Typed, InBounds, CallKnows, ~Voices!TakesItsOwn, Voices!SeekStart
  PROVE  \E s \in Source, v \in Voices!Voices :
           /\ op.pc = "seek" /\ op.s = s /\ op.old \in Voices!Voices /\ op.old <= active /\ op.old # v
           /\ active' \in Voices!Voices /\ v <= active'
           /\ \/ v <= active /\ Voices!Free(v) /\ active' = active
              \/ v = active + 1 /\ active' = active + 1
           /\ Gives(v, s, "Pending")
           /\ voice'[op.old] = [voice[op.old] EXCEPT !.change = TRUE]
           /\ \A w \in Voices!Voices : w # v /\ w # op.old => voice'[w] = voice[w]
           /\ Sets(s, source[s].state, v)
           /\ Voices!Playable(s) # {} /\ voice'[v].buffer \in Voices!Playable(s)
           /\ Sending("seek", "Restart", s, v, op.old)
           /\ Elsewhere
<1> DEFINE s == op.s
           v == IF Voices!FreeVoices = {} THEN active + 1 ELSE Voices!FirstFree
<1>0. op.old # v
  <2>1. op' = [pc |-> "append", call |-> "seek",
               change |-> [state |-> "Restart", s |-> s, v |-> v, old |-> op.old]]
    BY DEF Voices!SeekStart, Voices!Send, Voices!VoiceChange
  <2>2. op'.pc = "append" /\ op'.change.v = v /\ op'.change.old = op.old
    BY <2>1
  <2> QED BY <2>2 DEF Voices!TakesItsOwn, Voices!SeekStart
<1>1. op.pc = "seek" /\ s \in Source /\ op.old \in MaybeVoice /\ op.old # Voices!NoVoice
      /\ source[s].vidx = op.old
  BY OpFields DEF Voices!SeekStart, CallKnows
<1>2. op.old \in Voices!Voices /\ op.old <= active
  BY <1>1, VoicesAssumptions DEF InBounds, MaybeVoice, Voices!Voices, Voices!NoVoice
<1>3. active \in Voices!Voices /\ active' \in Voices!Voices /\ active' \in {active, active + 1}
      /\ (Voices!FreeVoices # {} => active' = active) /\ (Voices!FreeVoices = {} => active' = active + 1)
  BY GrowDoes DEF Voices!SeekStart, Typed
<1>4. /\ v \in Voices!Voices /\ v <= active' /\ op.old # v
      /\ \/ v <= active /\ Voices!Free(v) /\ active' = active
         \/ v = active + 1 /\ active' = active + 1
  <2>1. CASE Voices!FreeVoices = {}
    <3>1. v = active' /\ active' = active + 1
      BY <1>3, <2>1
    <3> HIDE DEF v
    <3> QED BY <1>0, <1>3, <3>1, VoicesAssumptions DEF Voices!Voices
  <2>2. CASE Voices!FreeVoices # {}
    <3>1. v = Voices!FirstFree /\ Voices!FirstFree \in Voices!Voices /\ Voices!FirstFree <= active /\ Voices!Free(Voices!FirstFree)
      BY <1>3, <2>2, FirstFreeIsFree
    <3> HIDE DEF v
    <3> QED BY <1>0, <1>3, <2>2, <3>1
  <2> QED BY <2>1, <2>2
<1>5. PICK item \in Voices!Playable(s) :
        voice' = [[voice EXCEPT ![v] = [Voices!InitVoice(v, s, item) EXCEPT !.play = "Pending"]]
                    EXCEPT ![op.old].change = TRUE]
  BY DEF Voices!SeekStart
<1>6. source' = [source EXCEPT ![s].vidx = v]
  BY DEF Voices!SeekStart
<1>7. Voices!Send("seek", Voices!VoiceChange("Restart", s, v, op.old)) /\ Elsewhere
  BY DEF Voices!SeekStart, Voices!Mixer, Elsewhere
<1>8. op.s = s
  OBVIOUS
<1> HIDE DEF s, v
<1>9. /\ Gives(v, s, "Pending")
      /\ voice'[op.old] = [voice[op.old] EXCEPT !.change = TRUE]
      /\ \A w \in Voices!Voices : w # v /\ w # op.old => voice'[w] = voice[w]
      /\ voice'[v].buffer \in Voices!Playable(s)
  <2> DEFINE g == Voices!InitVoice(v, s, item)
             r == [g EXCEPT !.play = "Pending"]
             o == [voice[op.old] EXCEPT !.change = TRUE]
  <2>1. g \in VoiceRecords
        /\ g.sid = s /\ g.change = voice[v].change /\ g.buffer = item
        /\ g.loop = IF source[s].looping THEN Voices!Front(s) ELSE Voices!NoItem
    BY <1>1, <1>4, GivenVoice
  <2> HIDE DEF g
  <2>2. r \in VoiceRecords /\ r.play = "Pending"
        /\ r.sid = s /\ r.change = voice[v].change /\ r.buffer = item
        /\ r.loop = IF source[s].looping THEN Voices!Front(s) ELSE Voices!NoItem
    BY <2>1 DEF VoiceRecords
  <2>3. voice' = [[voice EXCEPT ![v] = r] EXCEPT ![op.old].change = TRUE]
    BY <1>5 DEF g
  <2> HIDE DEF r
  <2>4. o \in VoiceRecords
    BY <1>2, VoiceFields DEF VoiceRecords
  <2>5. /\ voice'[v] = r /\ voice'[op.old] = o
        /\ \A w \in Voices!Voices : w # v /\ w # op.old => voice'[w] = voice[w]
        /\ voice' \in [Voices!Voices -> VoiceRecords]
    <3>1. voice \in [Voices!Voices -> VoiceRecords]
      BY DEF Typed
    <3>2. [voice EXCEPT ![v] = r][op.old] = voice[op.old]
      BY <1>2, <1>4, <3>1
    <3>3. voice' = [[voice EXCEPT ![v] = r] EXCEPT ![op.old] = o]
      BY <1>2, <2>3, <3>1, <3>2
    <3> HIDE DEF o
    <3> QED BY <1>2, <1>4, <2>2, <2>4, <3>1, <3>3
  <2> QED BY <2>2, <2>5 DEF Gives, VoicesTyped
<1>10. Sets(s, source[s].state, v)
  <2>1. v \in MaybeVoice /\ source \in [Source -> SourceRecords]
    BY <1>4, VoicesAssumptions DEF MaybeVoice, Voices!Voices, Typed
  <2> QED BY <1>1, <1>6, <2>1 DEF Sets, Touches, SourcesTyped, SourceRecords
<1>11. Sending("seek", "Restart", s, v, op.old)
  BY <1>7 DEF Voices!Send, Voices!VoiceChange, Sending
<1> QED BY <1>1, <1>2, <1>3, <1>4, <1>5, <1>7, <1>8, <1>9, <1>10, <1>11

LEMMA LoopStoreDoes ==
  ASSUME Typed, InBounds, CallKnows, Voices!LoopStore
  PROVE  \E s \in Source, v \in Voices!Voices :
           /\ op.pc = "loop" /\ op.s = s /\ v = source[s].vidx /\ v <= active
           /\ op' = [pc |-> "looped"]
           /\ VoicesTyped
           /\ \A w \in Voices!Voices :
                /\ voice'[w].sid = voice[w].sid /\ voice'[w].play = voice[w].play
                /\ voice'[w].buffer = voice[w].buffer /\ voice'[w].change = voice[w].change
                /\ w # v => voice'[w] = voice[w]
           /\ voice'[v].loop = IF source[s].looping THEN Voices!Front(s) ELSE Voices!NoItem
           /\ UNCHANGED <<source, active>> /\ Elsewhere
<1> DEFINE s == op.s
           v == source[op.s].vidx
           i == IF source[s].looping THEN Voices!Front(s) ELSE Voices!NoItem
<1>1. op.pc = "loop" /\ s \in Source /\ v \in MaybeVoice /\ v # Voices!NoVoice /\ v <= active
  BY OpFields, SourceFields DEF Voices!LoopStore, CallKnows, InBounds
<1>2. v \in Voices!Voices
  BY <1>1, VoicesAssumptions DEF MaybeVoice, Voices!NoVoice, Voices!Voices
<1>3. i \in MaybeItem
  BY <1>1, QueuedIsItem DEF MaybeItem
<1>4. voice' = [voice EXCEPT ![v].loop = i] /\ op' = [pc |-> "looped"]
      /\ UNCHANGED <<source, active>> /\ Elsewhere
  BY DEF Voices!LoopStore, Voices!Mixer, Elsewhere
<1>5. op.s = s /\ v = source[s].vidx /\ i = IF source[s].looping THEN Voices!Front(s) ELSE Voices!NoItem
  OBVIOUS
<1> HIDE DEF s, v, i
<1>6. /\ VoicesTyped
      /\ \A w \in Voices!Voices :
           /\ voice'[w].sid = voice[w].sid /\ voice'[w].play = voice[w].play
           /\ voice'[w].buffer = voice[w].buffer /\ voice'[w].change = voice[w].change
           /\ w # v => voice'[w] = voice[w]
      /\ voice'[v].loop = i
  BY <1>2, <1>3, <1>4 DEF Typed, VoicesTyped, VoiceRecords
<1> QED BY <1>1, <1>2, <1>4, <1>5, <1>6

LEMMA SendAppendDoes ==
  ASSUME Typed, Voices!SendAppend
  PROVE  /\ op.pc = "append" /\ op.change \in ChangeRecords
         /\ op' \in OpRecords /\ op'.pc = "load" /\ op'.call = op.call /\ op'.change = op.change
         /\ pending' \in Seq(ChangeRecords)
         /\ Len(pending') = Len(pending) + 1 /\ Len(pending) \in Nat
         /\ pending'[Len(pending) + 1] = op.change
         /\ \A i \in Positions : pending'[i] = pending[i] /\ pending[i] \in ChangeRecords
         /\ UNCHANGED <<source, voice, active, mixing, mix, connected, reset>>
<1>1. op.pc = "append" /\ op.change \in ChangeRecords
  BY OpFields DEF Voices!SendAppend, Sends
<1>2. op' = [op EXCEPT !.pc = "load"] /\ pending' = Append(pending, op.change)
  BY DEF Voices!SendAppend
<1>3. op' \in OpRecords /\ op'.pc = "load" /\ op'.call = op.call /\ op'.change = op.change
  BY <1>1, <1>2, OpGoes DEF Sends
<1>4. pending \in Seq(ChangeRecords)
  BY DEF Typed
<1> QED BY <1>1, <1>2, <1>3, <1>4, Appended, PlacesTyped DEF Voices!SendAppend,
    Voices!Mixer, Positions

(* A send that goes on, and no more; or a call that is over.               *)
Goes(pcs) ==
  /\ op.pc \in Sends /\ op' \in OpRecords /\ op'.pc \in pcs
  /\ op'.call = op.call /\ op'.change = op.change
Over == op' = Voices!Idle
StillOp == UNCHANGED <<source, voice, active>> /\ Elsewhere

LEMMA SendGoes ==
  ASSUME Typed
  PROVE  /\ Voices!SendLoad => /\ op.pc = "load" /\ StillOp /\ Goes({"wait", "drop"})
                               /\ op'.pc = IF connected \/ ~StopOnDisconnect THEN "wait" ELSE "drop"
         /\ Voices!SendWait => /\ op.pc = "wait" /\ ~mixing /\ StillOp /\ (Goes({"sent"}) \/ Over)
                               /\ op.call \in {"pause", "delete", "seek"} => Goes({"sent"})
         /\ Voices!SeekFails => op.pc = "seek" /\ StillOp /\ Over
         /\ Voices!LoopWait => op.pc = "looped" /\ ~mixing /\ StillOp /\ Over
         /\ Voices!SeekOld => /\ op.pc = "sent" /\ op.call = "seek" /\ StillOp
                              /\ Over \/ (Goes({"new"}) /\ voice[op.change.old].sid = Voices!NoSource)
         /\ Voices!SeekNew => op.pc \in Later /\ StillOp /\ (Over \/ Goes(Later))
         /\ Voices!SeekLast => op.pc \in Later /\ ~mixing /\ StillOp /\ Goes(Later)
<1>1. \A q \in Sends : op.pc \in Sends /\ op' = [op EXCEPT !.pc = q] => Goes({q}) /\ op'.pc = q
  BY OpGoes DEF Goes
<1>2. Voices!SendLoad => /\ op.pc = "load" /\ StillOp /\ Goes({"wait", "drop"})
                         /\ op'.pc = IF connected \/ ~StopOnDisconnect THEN "wait" ELSE "drop"
  <2> SUFFICES ASSUME Voices!SendLoad
               PROVE  /\ op.pc = "load" /\ StillOp /\ Goes({"wait", "drop"})
                      /\ op'.pc = IF connected \/ ~StopOnDisconnect THEN "wait" ELSE "drop"
    OBVIOUS
  <2> DEFINE q == IF connected \/ ~StopOnDisconnect THEN "wait" ELSE "drop"
  <2>1. q \in Sends /\ q \in {"wait", "drop"}
    BY DEF Sends
  <2>2. op.pc = "load" /\ op' = [op EXCEPT !.pc = q] /\ StillOp
    BY DEF Voices!SendLoad, StillOp, Voices!Mixer, Elsewhere
  <2>3. op.pc \in Sends
    BY <2>2 DEF Sends
  <2>4. q = IF connected \/ ~StopOnDisconnect THEN "wait" ELSE "drop"
    OBVIOUS
  <2> HIDE DEF q
  <2> QED BY <1>1, <2>1, <2>2, <2>3, <2>4 DEF Goes
<1>3. Voices!SendWait => /\ op.pc = "wait" /\ ~mixing /\ StillOp /\ (Goes({"sent"}) \/ Over)
                         /\ op.call \in {"pause", "delete", "seek"} => Goes({"sent"})
  BY <1>1 DEF Voices!SendWait, Voices!Sent, StillOp, Voices!Mixer, Elsewhere, Sends, Over
<1>4. Voices!SeekFails => op.pc = "seek" /\ StillOp /\ Over
  BY DEF Voices!SeekFails, StillOp, Voices!Mixer, Elsewhere, Over, Voices!Return
<1>5. Voices!LoopWait => op.pc = "looped" /\ ~mixing /\ StillOp /\ Over
  BY DEF Voices!LoopWait, StillOp, Voices!Mixer, Elsewhere, Over, Voices!Return
<1>6. Voices!SeekOld => /\ op.pc = "sent" /\ op.call = "seek" /\ StillOp
                        /\ Over \/ (Goes({"new"}) /\ voice[op.change.old].sid = Voices!NoSource)
  <2>1. Voices!SeekOld => op.pc \in Sends /\ "new" \in Sends
    BY LaterIs DEF Voices!SeekOld, Sends
  <2> QED BY <1>1, <2>1 DEF Voices!SeekOld, StillOp, Voices!Mixer, Elsewhere, Over,
      Voices!Return
<1>7. Voices!SeekNew => op.pc \in Later /\ StillOp /\ (Over \/ Goes(Later))
  <2> SUFFICES ASSUME Voices!SeekNew PROVE op.pc \in Later /\ StillOp /\ (Over \/ Goes(Later))
    OBVIOUS
  <2>1. op.pc = "new" /\ StillOp
    BY DEF Voices!SeekNew, StillOp, Voices!Mixer, Elsewhere
  <2>2. op.pc \in Later /\ op.pc \in Sends
    BY <2>1, LaterIs DEF Sends
  <2>3. Over \/ \E q \in Later : op' = [op EXCEPT !.pc = q]
    BY LaterStill DEF Voices!SeekNew, Over, Voices!Return
  <2>4. \A q \in Later : op' = [op EXCEPT !.pc = q] => Goes(Later)
    BY <1>1, <2>2 DEF Sends, Goes
  <2> QED BY <2>1, <2>2, <2>3, <2>4
<1>8. Voices!SeekLast => op.pc \in Later /\ ~mixing /\ StillOp /\ Goes(Later)
  <2> SUFFICES ASSUME Voices!SeekLast PROVE op.pc \in Later /\ ~mixing /\ StillOp /\ Goes(Later)
    OBVIOUS
  <2>1. op.pc \in Later /\ ~mixing /\ StillOp
    BY LaterStill DEF Voices!SeekLast, StillOp, Voices!Mixer, Elsewhere
  <2>2. op.pc \in Sends
    BY <2>1 DEF Sends
  <2>3. \E q \in Later : op' = [op EXCEPT !.pc = q]
    BY LaterIs DEF Voices!SeekLast
  <2>4. \A q \in Later : op' = [op EXCEPT !.pc = q] => Goes(Later)
    BY <1>1, <2>2 DEF Sends, Goes
  <2> QED BY <2>1, <2>3, <2>4
<1> QED BY <1>2, <1>3, <1>4, <1>5, <1>6, <1>7, <1>8

LEMMA SendDropDoes ==
  ASSUME Typed, Voices!SendDrop
  PROVE  /\ op.pc = "drop" /\ ~mixing /\ pending' = <<>> /\ (Goes({"sent"}) \/ Over)
         /\ op.call \in {"pause", "delete", "seek"} => Goes({"sent"})
         /\ VoicesTyped
         /\ \A w \in Voices!Voices :
              voice'[w].sid = IF \E i \in Positions : pending[i].v = w THEN Voices!NoSource ELSE voice[w].sid
         /\ UNCHANGED <<source, active, mixing, mix, connected, reset>>
<1>1. op.pc = "drop" /\ op.pc \in Sends
  BY DEF Voices!SendDrop, Sends
<1>2. Goes({"sent"}) \/ Over
  <2>1. CASE op.call \in {"pause", "delete", "seek"}
    BY <1>1, <2>1, OpGoes DEF Voices!SendDrop, Voices!Sent, Goes, Sends
  <2>2. CASE op.call \notin {"pause", "delete", "seek"}
    BY <2>2 DEF Voices!SendDrop, Voices!Sent, Over
  <2> QED BY <2>1, <2>2
<1>3. op.call \in {"pause", "delete", "seek"} => Goes({"sent"})
  BY <1>1, OpGoes DEF Voices!SendDrop, Voices!Sent, Goes, Sends
<1>4. voice' = [w \in Voices!Voices |-> IF \E i \in Positions : pending[i].v = w
                                 THEN [voice[w] EXCEPT !.sid = Voices!NoSource] ELSE voice[w]]
  BY DEF Voices!SendDrop, Positions, Typed
<1>5. \A w \in Voices!Voices : voice[w] \in VoiceRecords /\ [voice[w] EXCEPT !.sid = Voices!NoSource] \in VoiceRecords
  BY DEF Typed, VoiceRecords, Sids
<1>6. VoicesTyped
  BY <1>4, <1>5 DEF VoicesTyped
<1>7. \A w \in Voices!Voices :
        voice'[w].sid = IF \E i \in Positions : pending[i].v = w THEN Voices!NoSource ELSE voice[w].sid
  BY <1>4, <1>5 DEF VoiceRecords
<1> QED BY <1>1, <1>2, <1>3, <1>6, <1>7 DEF Voices!SendDrop, Voices!Mixer

LEMMA PauseEndsDoes ==
  ASSUME Typed, Voices!PauseEnds
  PROVE  \E s \in Source :
           /\ op.pc = "sent" /\ op.call = "pause" /\ op.change.s = s
           /\ Sets(s, IF Voices!GetSourceState(s) = "PLAYING" THEN "PAUSED" ELSE Voices!GetSourceState(s),
                   Voices!GetSourceVoice(s))
           /\ Over /\ UNCHANGED <<voice, active>> /\ Elsewhere
<1> DEFINE s == op.change.s
           q == IF Voices!GetSourceState(s) = "PLAYING" THEN "PAUSED" ELSE Voices!GetSourceState(s)
<1>1. op.pc = "sent" /\ op.call = "pause" /\ s \in Source
  BY OpFields DEF Voices!PauseEnds, Sends, ChangeRecords
<1>2. source' = [source EXCEPT ![s] = [Voices!Seen(s) EXCEPT !.state = IF @ = "PLAYING" THEN "PAUSED" ELSE @]]
  BY DEF Voices!PauseEnds
<1>3. /\ Voices!Seen(s) \in SourceRecords
      /\ Voices!Seen(s).vidx = Voices!GetSourceVoice(s) /\ Voices!Seen(s).state = Voices!GetSourceState(s)
      /\ Voices!Seen(s).alive = source[s].alive /\ Voices!Seen(s).type = source[s].type
      /\ Voices!Seen(s).head = source[s].head /\ Voices!Seen(s).tail = source[s].tail
      /\ Voices!Seen(s).looping = source[s].looping
      /\ Voices!GetSourceState(s) \in {"INITIAL", "PLAYING", "PAUSED", "STOPPED"}
  BY <1>1, SeenIs DEF Typed
<1>4. Over /\ UNCHANGED <<voice, active>> /\ Elsewhere
  BY DEF Voices!PauseEnds, Voices!Mixer, Elsewhere, Over, Voices!Return
<1> HIDE DEF s
<1>5. Sets(s, q, Voices!GetSourceVoice(s))
  <2>1. source' = [source EXCEPT ![s] = [Voices!Seen(s) EXCEPT !.state = q]]
    BY <1>2, <1>3
  <2>2. q \in {"INITIAL", "PLAYING", "PAUSED", "STOPPED"}
    BY <1>3
  <2> HIDE DEF q
  <2> DEFINE r == [Voices!Seen(s) EXCEPT !.state = q]
  <2>3. /\ r \in SourceRecords /\ r.state = q
        /\ r.vidx = Voices!GetSourceVoice(s)
        /\ r.alive = source[s].alive /\ r.type = source[s].type
        /\ r.head = source[s].head /\ r.tail = source[s].tail
        /\ r.looping = source[s].looping
    BY <1>3, <2>2 DEF SourceRecords
  <2>4. source' = [source EXCEPT ![s] = r]
    BY <2>1
  <2> HIDE DEF r
  <2>5. source'[s] = r /\ \A u \in Source : u # s => source'[u] = source[u]
    BY <1>1, <2>4 DEF Typed
  <2>6. SourcesTyped
    BY <2>3, <2>4 DEF Typed, SourcesTyped
  <2> QED BY <2>3, <2>5, <2>6 DEF Sets, Touches
<1>6. op.change.s = s
  BY DEF s
<1> QED BY <1>1, <1>4, <1>5, <1>6

LEMMA DeleteEndsDoes ==
  ASSUME Typed, Voices!DeleteEnds
  PROVE  \E s \in Source :
           /\ op.pc = "sent" /\ op.call = "delete" /\ op.change.s = s
           /\ source' = [source EXCEPT ![s] = Voices!Destroyed(s)]
           /\ Over /\ UNCHANGED <<voice, active>> /\ Elsewhere
<1>1. op.pc = "sent" /\ op.call = "delete" /\ op.change.s \in Source
  BY OpFields DEF Voices!DeleteEnds, Sends, ChangeRecords
<1> QED BY <1>1 DEF Voices!DeleteEnds, Voices!Mixer, Elsewhere, Over, Voices!Return

LEMMA SeekLetGoDoes ==
  ASSUME Typed, CallKnows, Voices!SeekLetGo
  PROVE  \E v \in Voices!Voices :
           /\ op.pc = "let go" /\ op.change.v = v
           /\ Over /\ VoicesTyped /\ Others(v)
           /\ \/ UNCHANGED voice
              \/ /\ voice[v].play = "Pending"
                 /\ voice'[v].sid = Voices!NoSource /\ voice'[v].play = "Stopped"
                 /\ voice'[v].buffer = Voices!NoItem /\ voice'[v].loop = Voices!NoItem
                 /\ voice'[v].change = voice[v].change
           /\ UNCHANGED <<source, active>> /\ Elsewhere
<1>1. op.pc = "let go" /\ op.pc \in Sends /\ op.call = "seek"
  BY LaterIs DEF Voices!SeekLetGo, Sends, CallKnows
<1>2. op.change \in ChangeRecords /\ op.change.v # Voices!NoVoice
  BY <1>1, OpFields DEF CallKnows
<1>3. op.change.v \in Voices!Voices
  BY <1>2, VoicesAssumptions DEF ChangeRecords, MaybeVoice, Voices!NoVoice, Voices!Voices
<1> DEFINE v == op.change.v
<1>4. CASE voice[v].play # "Pending"
  BY <1>1, <1>3, <1>4 DEF Voices!SeekLetGo, Voices!Mixer, Elsewhere, Over, Voices!Return,
      VoicesTyped, Others, Typed
<1>5. CASE voice[v].play = "Pending"
  <2> DEFINE r == [voice[v] EXCEPT !.buffer = Voices!NoItem, !.loop = Voices!NoItem, !.sid = Voices!NoSource,
                                   !.play = "Stopped"]
  <2>1. voice' = [voice EXCEPT ![v] = r] /\ voice \in [Voices!Voices -> VoiceRecords]
    BY <1>5 DEF Voices!SeekLetGo, Typed
  <2>2. /\ r \in VoiceRecords /\ r.sid = Voices!NoSource /\ r.play = "Stopped"
        /\ r.buffer = Voices!NoItem /\ r.loop = Voices!NoItem /\ r.change = voice[v].change
    <3>1. voice[v] \in VoiceRecords /\ Voices!NoSource \in Sids /\ Voices!NoItem \in MaybeItem
      BY <1>3, <2>1 DEF Sids, MaybeItem
    <3> HIDE DEF v
    <3> QED BY <3>1 DEF VoiceRecords
  <2>3. Over /\ UNCHANGED <<source, active>> /\ Elsewhere
    BY DEF Voices!SeekLetGo, Voices!Mixer, Elsewhere, Over, Voices!Return
  <2>4. op.change.v = v
    OBVIOUS
  <2> HIDE DEF r, v
  <2>5. VoicesTyped /\ Others(v) /\ voice'[v] = r
    BY <1>3, <2>1, <2>2, <2>4 DEF VoicesTyped, Others
  <2> QED BY <1>1, <1>3, <1>5, <2>2, <2>3, <2>4, <2>5
<1> QED BY <1>4, <1>5

-----------------------------------------------------------------------------
(* The thread of the backend.                                              *)
Fades ==
  /\ VoicesTyped
  /\ \A w \in Voices!Voices :
       /\ voice'[w].sid = voice[w].sid /\ voice'[w].change = voice[w].change
       /\ voice'[w].buffer = voice[w].buffer /\ voice'[w].loop = voice[w].loop
       /\ \/ voice'[w].play = voice[w].play
          \/ voice[w].play \in {"Playing", "Stopping"} /\ voice'[w].play \in {"Stopping", "Stopped"}
       /\ voice[w] = Voices!Fresh => voice'[w] = Voices!Fresh
StillCalls == UNCHANGED <<source, active, pending, op>>

LEMMA FadesOne ==
  ASSUME Typed, NEW v \in Voices!Voices, NEW p \in {"Stopping", "Stopped"},
         voice[v].play \in {"Playing", "Stopping"}, voice' = [voice EXCEPT ![v].play = p]
  PROVE  Fades
<1>1. voice[v] # Voices!Fresh
  BY DEF Voices!Fresh
<1> QED BY <1>1 DEF Typed, Fades, VoicesTyped, VoiceRecords

LEMMA FadesNone ==
  ASSUME Typed, UNCHANGED voice
  PROVE  Fades
  BY VoiceFields DEF Typed, Fades, VoicesTyped

LEMMA SweepIs ==
  ASSUME Whole, Sweeping
  PROVE  /\ Kept /\ connected /\ reset = "no" /\ ~Lost /\ mix.last \in Voices!Voices /\ mix.last <= active
         /\ mix.v \in Nat /\ 1 <= mix.v
         /\ mix.v <= mix.last => mix.v \in Voices!Voices
         /\ mix.pc \in {"reading", "ended"} => mix.v <= mix.last
<1>1. Typed /\ InPhase
  BY DEF Whole, Always
<1>2. connected /\ reset = "no" /\ mix.last <= active
      /\ (mix.pc \in {"reading", "ended"} => mix.v <= mix.last)
  BY <1>1 DEF InPhase
<1>3. ~Lost
  BY <1>2 DEF Lost
<1>4. mix.last \in Voices!Voices /\ mix.v \in 1..(NVoices + 1)
  BY <1>1, MixFields
<1>5. mix.v \in Nat /\ 1 <= mix.v /\ (mix.v <= mix.last => mix.v \in Voices!Voices)
  BY <1>4, VoicesAssumptions DEF Voices!Voices
<1> QED BY <1>2, <1>3, <1>4, <1>5 DEF Whole

LEMMA MixSkipDoes ==
  ASSUME Whole, Voices!MixSkip
  PROVE  Fades /\ StillCalls
<1>1. Typed /\ mix.v \in Voices!Voices
  BY SweepIs DEF Whole, Always, Voices!MixSkip, Sweeping
<1>2. CASE voice[mix.v].play = "Stopping"
  <2>1. voice' = [voice EXCEPT ![mix.v].play = "Stopped"]
    BY <1>1, <1>2 DEF Voices!MixSkip, Typed
  <2> QED BY <1>1, <1>2, <2>1, FadesOne DEF Voices!MixSkip, Voices!Calls, StillCalls
<1>3. CASE voice[mix.v].play # "Stopping"
  <2>1. voice' = [voice EXCEPT ![mix.v].play = voice[mix.v].play]
    BY <1>1, <1>3 DEF Voices!MixSkip, Typed
  <2>2. voice' = voice
    BY <1>1, <2>1 DEF Typed, VoiceRecords
  <2> QED BY <1>1, <2>2, FadesNone DEF Voices!MixSkip, Voices!Calls, StillCalls
<1> QED BY <1>2, <1>3

LEMMA MixFadedDoes ==
  ASSUME Whole, Voices!MixFaded
  PROVE  Fades /\ StillCalls
<1>1. Typed /\ mix.v \in Voices!Voices /\ voice[mix.v].play = "Stopping"
  BY SweepIs DEF Whole, Always, Voices!MixFaded, Sweeping, Kept, LoadedIsSo
<1> QED BY <1>1, FadesOne DEF Voices!MixFaded, Voices!Calls, StillCalls

LEMMA MixEndedDoes ==
  ASSUME Whole, Voices!MixEnded
  PROVE  Fades /\ StillCalls
<1>1. Typed /\ mix.v \in Voices!Voices /\ voice[mix.v].play = "Playing"
  BY SweepIs DEF Whole, Always, Voices!MixEnded, Sweeping, Kept, LoadedIsSo
<1> QED BY <1>1, FadesOne DEF Voices!MixEnded, Voices!Calls, StillCalls

LEMMA UpdateDoes ==
  ASSUME Whole, Voices!UpdateDeviceParams
  PROVE  Fades /\ StillCalls
<1>1. Typed
  BY DEF Whole, Always
<1>2. voice' = [v \in Voices!Voices |-> [voice[v] EXCEPT !.play = IF @ = "Stopping" THEN "Stopped" ELSE @]]
  BY DEF Voices!UpdateDeviceParams
<1>3. ASSUME NEW v \in Voices!Voices
      PROVE  /\ voice'[v] = [voice[v] EXCEPT !.play = IF @ = "Stopping" THEN "Stopped" ELSE @]
             /\ voice[v] \in VoiceRecords
  BY <1>1, <1>2 DEF Typed
<1>4. ASSUME NEW v \in Voices!Voices
      PROVE  /\ voice'[v] \in VoiceRecords
             /\ voice'[v].sid = voice[v].sid /\ voice'[v].change = voice[v].change
             /\ voice'[v].buffer = voice[v].buffer /\ voice'[v].loop = voice[v].loop
             /\ \/ voice'[v].play = voice[v].play
                \/ voice[v].play \in {"Playing", "Stopping"} /\ voice'[v].play \in {"Stopping", "Stopped"}
             /\ voice[v] = Voices!Fresh => voice'[v] = Voices!Fresh
  <2>1. CASE voice[v].play = "Stopping"
    <3>1. voice[v] # Voices!Fresh
      BY <2>1 DEF Voices!Fresh
    <3> QED BY <1>3, <2>1, <3>1 DEF VoiceRecords
  <2>2. CASE voice[v].play # "Stopping"
    <3>1. voice'[v] = voice[v]
      <4>1. voice'[v] = [voice[v] EXCEPT !.play = voice[v].play]
        BY <1>3, <2>2
      <4>2. voice[v] \in VoiceRecords
        BY <1>3
      <4> QED BY <4>1, <4>2 DEF VoiceRecords
    <3> QED BY <1>3, <3>1 DEF VoiceRecords
  <2> QED BY <2>1, <2>2
<1> QED BY <1>2, <1>4 DEF Fades, VoicesTyped, Voices!UpdateDeviceParams, StillCalls

(* A step of the mixer that changes no voice, no change and no call.       *)
Waits ==
  \/ Voices!MixBegin \/ Voices!ChangesDone \/ Voices!MixLoad \/ Voices!MixEnd
  \/ Voices!Disconnect \/ Voices!Disconnected \/ Voices!DisconnectEnds
  \/ Voices!Halt \/ Voices!Start \/ Voices!ResetConnect
LEMMA WaitsDoes ==
  ASSUME Whole, Waits
  PROVE  Fades /\ StillCalls /\ UNCHANGED voice
<1>1. UNCHANGED voice /\ StillCalls
  BY DEF Waits, Voices!MixBegin, Voices!ChangesDone, Voices!MixLoad, Voices!MixEnd,
      Voices!Disconnect, Voices!Disconnected, Voices!DisconnectEnds,
         Voices!Halt, Voices!Start, Voices!ResetConnect, StillCalls, Voices!Calls
<1> QED BY <1>1, FadesNone DEF Whole, Always

LEMMA MixStoreDoes ==
  ASSUME Whole, Voices!MixStore
  PROVE  \E v \in Voices!Voices :
           /\ mix.pc = "reading" /\ mix.v = v /\ v <= active /\ Kept /\ ~Lost
           /\ VoicesTyped /\ Others(v)
           /\ voice[v].play = "Playing" /\ voice'[v].play = "Playing"
           /\ voice'[v].change = voice[v].change
           /\ \/ /\ voice[v].sid # Voices!NoSource /\ voice'[v].sid = voice[v].sid
                 /\ voice'[v].loop = voice[v].loop
                 /\ voice'[v].buffer \in Voices!Queue(voice[v].sid)
                 /\ \E j \in Voices!Playable(voice[v].sid) : j[2] >= voice'[v].buffer[2]
                 /\ mix' = Voices!At("voices", v + 1)
              \/ /\ voice'[v].sid = Voices!NoSource
                 /\ voice'[v].loop = Voices!NoItem /\ voice'[v].buffer = Voices!NoItem
                 /\ mix' = Voices!At("ended", v)
           /\ StillCalls /\ UNCHANGED <<mixing, connected, reset>>
<1> DEFINE v == mix.v
<1>1. Typed /\ InBounds
  BY DEF Whole, Always
<1>2. Sweeping /\ mix.pc = "reading" /\ mix.play = "Playing"
  BY DEF Voices!MixStore, Sweeping
<1>3. v \in Voices!Voices /\ v <= active /\ Kept /\ ~Lost
  <2>1. mix.v \in Voices!Voices /\ mix.last \in Voices!Voices /\ active \in Voices!Voices
    BY <1>1, <1>2, SweepIs, MixFields DEF Typed
  <2> QED BY <1>2, <2>1, SweepIs, VoicesAssumptions DEF Voices!Voices
<1>4. voice[v].play = "Playing" /\ voice[v].buffer = mix.buffer
  BY <1>2, <1>3 DEF Kept, LoadedIsSo
<1>5. mix.buffer # Voices!NoItem =>
        voice[v].sid \in Source /\ InQueue(v, voice[v].sid)
  BY <1>1, <1>2, <1>3, <1>4, VoiceFields DEF Kept, ItemIsQueued, Sids
<1>6. StillCalls /\ UNCHANGED <<mixing, connected, reset>>
  BY DEF Voices!MixStore, Voices!Calls, StillCalls
<1>7. PICK item \in Voices!Reached :
        IF item = Voices!NoItem
        THEN voice' = [voice EXCEPT ![v] = Voices!Silenced(v)] /\ mix' = Voices!At("ended", v)
        ELSE voice' = [voice EXCEPT ![v].buffer = item] /\ Voices!NextVoice
  BY DEF Voices!MixStore
<1>8. mix.v = v
  OBVIOUS
<1> HIDE DEF v
<1>9. CASE item = Voices!NoItem
  <2>1. /\ Voices!Silenced(v) \in VoiceRecords /\ Voices!Silenced(v).sid = Voices!NoSource /\ Voices!Silenced(v).play = voice[v].play
        /\ Voices!Silenced(v).loop = Voices!NoItem /\ Voices!Silenced(v).buffer = Voices!NoItem
        /\ Voices!Silenced(v).change = voice[v].change
    <3>1. voice[v] \in VoiceRecords /\ Voices!NoSource \in Sids /\ Voices!NoItem \in MaybeItem
      BY <1>1, <1>3, VoiceFields DEF Sids, MaybeItem
    <3> QED BY <3>1 DEF Voices!Silenced, VoiceRecords
  <2>2. voice' = [voice EXCEPT ![v] = Voices!Silenced(v)] /\ mix' = Voices!At("ended", v)
    BY <1>7, <1>9
  <2>3. voice'[v] = Voices!Silenced(v) /\ VoicesTyped /\ Others(v)
    BY <1>1, <1>3, <2>1, <2>2 DEF Typed, VoicesTyped, Others
  <2> QED BY <1>2, <1>3, <1>4, <1>6, <1>8, <2>1, <2>2, <2>3
<1>10. CASE item # Voices!NoItem
  <2>1. mix.buffer # Voices!NoItem
    BY <1>7, <1>10 DEF Voices!Reached
  <2>2. voice[v].sid \in Source /\ InQueue(v, voice[v].sid)
    BY <1>5, <2>1
  <2> DEFINE s == voice[v].sid
  <2>3. mix.buffer \in Voices!Queue(s) /\ mix.buffer[1] = s
        /\ \E j \in Voices!Playable(s) : j[2] >= mix.buffer[2]
    BY <1>1, <1>4, <2>2, QueueIs DEF InQueue
  <2>4. item = mix.buffer \/ item \in Voices!Playable(s)
    BY <1>7, <1>10, <2>1, <2>3 DEF Voices!Reached
  <2>5. item \in Voices!Queue(s) /\ \E j \in Voices!Playable(s) : j[2] >= item[2]
    <3>1. CASE item = mix.buffer
      BY <2>3, <3>1
    <3>2. CASE item \in Voices!Playable(s)
      <4>1. item \in Voices!Queue(s) /\ item[2] \in Nat
        BY <1>1, <2>2, <3>2, QueueIs
      <4>2. item[2] >= item[2]
        BY <4>1
      <4> QED BY <3>2, <4>1, <4>2
    <3> QED BY <2>4, <3>1, <3>2
  <2>6. item \in MaybeItem
    BY <1>1, <2>2, <2>5, QueuedIsItem DEF MaybeItem
  <2>7. voice' = [voice EXCEPT ![v].buffer = item] /\ mix' = Voices!At("voices", v + 1)
    BY <1>7, <1>8, <1>10 DEF Voices!NextVoice
  <2> HIDE DEF s
  <2>8. /\ VoicesTyped /\ Others(v)
        /\ voice'[v].play = voice[v].play /\ voice'[v].sid = voice[v].sid
        /\ voice'[v].change = voice[v].change /\ voice'[v].loop = voice[v].loop
        /\ voice'[v].buffer = item
    BY <1>1, <1>3, <2>6, <2>7 DEF Typed, VoicesTyped, Others, VoiceRecords
  <2>9. voice[v].sid # Voices!NoSource /\ s = voice[v].sid
    BY <2>2, VoicesAssumptions DEF s
  <2> QED BY <1>2, <1>3, <1>4, <1>6, <1>8, <2>5, <2>7, <2>8, <2>9
<1> QED BY <1>9, <1>10

LEMMA StopVoiceDoes ==
  ASSUME Whole, Voices!StopVoice
  PROVE  \E v \in Voices!Voices :
           /\ mix.pc = "gone, voices" /\ mix.v = v /\ Lost
           /\ VoicesTyped /\ Others(v) /\ voice'[v].sid = Voices!NoSource
           /\ voice'[v].change = voice[v].change
           /\ mix' = Voices!At("gone, voices", v + 1) /\ mix.last \in Voices!Voices
           /\ StillCalls /\ UNCHANGED <<mixing, connected, reset>>
<1> DEFINE v == mix.v
           r == [Voices!Silenced(v) EXCEPT !.play = "Stopped"]
<1>1. Typed /\ InPhase
  BY DEF Whole, Always
<1>2. mix.pc = "gone, voices" /\ mix.v <= mix.last
  BY DEF Voices!StopVoice
<1>3. v \in Voices!Voices /\ mix.last \in Voices!Voices
  <2>1. mix.v \in 1..(NVoices + 1) /\ mix.last \in Voices!Voices
    BY <1>1, <1>2, MixFields
  <2>2. mix.v \in Nat /\ 1 <= mix.v /\ mix.last \in Nat /\ mix.last <= NVoices
    BY <2>1, VoicesAssumptions DEF Voices!Voices
  <2>3. mix.v <= mix.last
    BY <1>2
  <2> HIDE DEF v, r
  <2>4. mix.v \in Voices!Voices
    BY <2>2, <2>3, VoicesAssumptions DEF Voices!Voices
  <2> QED BY <2>1, <2>4 DEF v
<1>4. Lost
  BY <1>1, <1>2 DEF InPhase, Lost
<1>5. r \in VoiceRecords /\ r.sid = Voices!NoSource /\ r.change = voice[v].change
  <2>1. voice[v] \in VoiceRecords /\ Voices!NoSource \in Sids /\ Voices!NoItem \in MaybeItem
    BY <1>1, <1>3, VoiceFields DEF Sids, MaybeItem
  <2> QED BY <2>1 DEF Voices!Silenced, VoiceRecords
<1>6. voice' = [voice EXCEPT ![v] = r] /\ mix' = Voices!At("gone, voices", v + 1)
  BY DEF Voices!StopVoice
<1>7. StillCalls /\ UNCHANGED <<mixing, connected, reset>>
  BY DEF Voices!StopVoice, Voices!Calls, StillCalls
<1>8. mix.v = v
  OBVIOUS
<1> HIDE DEF v, r
<1>9. voice'[v] = r /\ VoicesTyped /\ Others(v)
  BY <1>1, <1>3, <1>5, <1>6 DEF Typed, VoicesTyped, Others
<1> QED BY <1>2, <1>3, <1>4, <1>5, <1>6, <1>7, <1>8, <1>9

(* One change is worked off: a voice that it ends is let go, and every     *)
(* other keeps all but, perhaps, its state.                                *)
Ended(w) ==
  /\ voice'[w].sid = Voices!NoSource /\ ~voice'[w].change
  /\ voice'[w].buffer = Voices!NoItem /\ voice'[w].loop = Voices!NoItem
  /\ \/ voice'[w].play = voice[w].play
     \/ voice[w].play = "Playing" /\ voice'[w].play = "Stopping"
Lasts(w) ==
  /\ voice'[w].sid = voice[w].sid /\ voice'[w].change = voice[w].change
  /\ voice'[w].buffer = voice[w].buffer /\ voice'[w].loop = voice[w].loop
Replays(c, w) ==
  \/ voice'[w].play = voice[w].play
  \/ voice[w].play = "Playing" /\ voice'[w].play = "Stopping"
  \/ Plays(c, w) /\ voice'[w].play = "Playing"
  \/ Restarts(c, w) /\ voice[c.old].sid # Voices!NoSource /\ voice'[w].play \in {"Playing", "Stopped"}
Worked(c) ==
  /\ VoicesTyped
  /\ \A w \in Voices!Voices :
       /\ Ends(c, w) => Ended(w)
       /\ ~Ends(c, w) => Lasts(w) /\ Replays(c, w)
       /\ w # c.v /\ w # c.old => voice'[w] = voice[w]

LEMMA LetGoIs ==
  ASSUME Typed, NEW v \in Voices!Voices
  PROVE  /\ Voices!LetGo(v) \in VoiceRecords
         /\ Voices!LetGo(v).sid = Voices!NoSource /\ Voices!LetGo(v).change = FALSE
         /\ Voices!LetGo(v).buffer = Voices!NoItem /\ Voices!LetGo(v).loop = Voices!NoItem
         /\ \/ Voices!LetGo(v).play = voice[v].play
            \/ voice[v].play = "Playing" /\ Voices!LetGo(v).play = "Stopping"
<1>1. voice[v] \in VoiceRecords /\ Voices!NoSource \in Sids /\ Voices!NoItem \in MaybeItem
  BY VoiceFields DEF Sids, MaybeItem
<1>2. CASE voice[v].play = "Playing"
  <2>1. Voices!LetGo(v) = [[voice[v] EXCEPT !.buffer = Voices!NoItem, !.loop = Voices!NoItem, !.sid = Voices!NoSource]
                      EXCEPT !.play = "Stopping", !.change = FALSE]
    BY <1>1, <1>2 DEF Voices!LetGo, Voices!Silenced, Voices!Stopping, VoiceRecords
  <2> QED BY <1>1, <1>2, <2>1 DEF VoiceRecords
<1>3. CASE voice[v].play # "Playing"
  <2>1. Voices!LetGo(v) = [[voice[v] EXCEPT !.buffer = Voices!NoItem, !.loop = Voices!NoItem, !.sid = Voices!NoSource]
                      EXCEPT !.play = voice[v].play, !.change = FALSE]
    BY <1>1, <1>3 DEF Voices!LetGo, Voices!Silenced, Voices!Stopping, VoiceRecords
  <2> QED BY <1>1, <2>1 DEF VoiceRecords
<1> QED BY <1>2, <1>3

(* A voice with no more than its state changed.                            *)
LEMMA ReplaysOne ==
  ASSUME Typed, NEW c, NEW w \in Voices!Voices,
         NEW p \in {"Stopped", "Playing", "Stopping", "Pending"},
         voice'[w] = [voice[w] EXCEPT !.play = p],
         \/ p = voice[w].play
         \/ voice[w].play = "Playing" /\ p = "Stopping"
         \/ Plays(c, w) /\ p = "Playing"
         \/ Restarts(c, w) /\ voice[c.old].sid # Voices!NoSource /\ p \in {"Playing", "Stopped"}
  PROVE  voice'[w] \in VoiceRecords /\ Lasts(w) /\ Replays(c, w)
<1>1. voice[w] \in VoiceRecords
  BY VoiceFields
<1>2. /\ voice'[w] \in VoiceRecords /\ Lasts(w) /\ voice'[w].play = p
  BY <1>1 DEF VoiceRecords, Lasts
<1> QED BY <1>2 DEF Replays

LEMMA ReplaysNone ==
  ASSUME Typed, NEW c, NEW w \in Voices!Voices, voice'[w] = voice[w]
  PROVE  voice'[w] \in VoiceRecords /\ Lasts(w) /\ Replays(c, w)
  BY VoiceFields DEF Lasts, Replays

LEMMA EndedOne ==
  ASSUME Typed, NEW w \in Voices!Voices, voice'[w] = Voices!LetGo(w)
  PROVE  voice'[w] \in VoiceRecords /\ Ended(w)
  BY LetGoIs DEF Ended

LEMMA ChangeDoes ==
  ASSUME Typed, NEW c \in ChangeRecords, ChangeOK(c), voice' = Voices!Change(c),
         c.state = "Play" => ~Ends(c, c.v)
  PROVE  Worked(c)
<1> DEFINE Right(w) ==
             /\ voice'[w] \in VoiceRecords
             /\ Ends(c, w) => Ended(w)
             /\ ~Ends(c, w) => Lasts(w) /\ Replays(c, w)
             /\ w # c.v /\ w # c.old => voice'[w] = voice[w]
<1>0. /\ voice \in [Voices!Voices -> VoiceRecords]
      /\ c.state \in {"Play", "Pause", "Stop", "Reset", "Restart"}
      /\ c.v \in MaybeVoice /\ c.old \in MaybeVoice
      /\ c.v # Voices!NoVoice => c.v \in Voices!Voices
      /\ c.old # Voices!NoVoice => c.old \in Voices!Voices
      /\ Voices!NoVoice \notin Voices!Voices
  BY VoicesAssumptions DEF Typed, ChangeRecords, MaybeVoice, Voices!Voices, Voices!NoVoice
<1>1. CASE c.state \in {"Reset", "Stop"}
  <2>1. voice' = IF c.v = Voices!NoVoice THEN voice ELSE [voice EXCEPT ![c.v] = Voices!LetGo(c.v)]
    BY <1>1 DEF Voices!Change
  <2>2. ASSUME NEW w \in Voices!Voices PROVE Right(w)
    <3>1. Ends(c, w) <=> w = c.v
      BY <1>0, <1>1 DEF Ends
    <3>2. CASE w = c.v
      <4>1. voice'[w] = Voices!LetGo(w)
        BY <1>0, <2>1, <3>2
      <4> QED BY <3>1, <3>2, <4>1, EndedOne
    <3>3. CASE w # c.v
      <4>1. voice'[w] = voice[w]
        BY <1>0, <2>1, <3>3
      <4> QED BY <3>1, <3>3, <4>1, ReplaysNone
    <3> QED BY <3>2, <3>3
  <2>3. voice' = [w \in Voices!Voices |-> voice'[w]]
    BY <1>0, <2>1
  <2> QED BY <2>2, <2>3 DEF Worked, VoicesTyped
<1>2. CASE c.state = "Pause"
  <2>1. voice' = [voice EXCEPT ![c.v].play = Voices!Stopping(voice[c.v].play)] /\ c.v \in Voices!Voices
    BY <1>0, <1>2 DEF Voices!Change, ChangeOK
  <2>2. ASSUME NEW w \in Voices!Voices PROVE Right(w)
    <3>1. ~Ends(c, w)
      BY <1>2 DEF Ends
    <3>2. CASE w = c.v
      <4> DEFINE p == Voices!Stopping(voice[w].play)
      <4>1. voice'[w] = [voice[w] EXCEPT !.play = p]
        BY <1>0, <2>1, <3>2
      <4>2. p \in {"Stopped", "Playing", "Stopping", "Pending"}
            /\ (p = voice[w].play \/ (voice[w].play = "Playing" /\ p = "Stopping"))
        BY VoiceFields DEF Voices!Stopping
      <4> HIDE DEF p
      <4> QED BY <3>1, <3>2, <4>1, <4>2, ReplaysOne
    <3>3. CASE w # c.v
      <4>1. voice'[w] = voice[w]
        BY <1>0, <2>1, <3>3
      <4> QED BY <3>1, <3>3, <4>1, ReplaysNone
    <3> QED BY <3>2, <3>3
  <2>3. voice' = [w \in Voices!Voices |-> voice'[w]]
    BY <1>0, <2>1
  <2> QED BY <2>2, <2>3 DEF Worked, VoicesTyped
<1>3. CASE c.state = "Play"
  <2>1. voice' = [v \in Voices!Voices |-> IF v = c.v THEN [voice[v] EXCEPT !.play = "Playing"]
                                   ELSE IF v = c.old THEN Voices!LetGo(v) ELSE voice[v]]
    BY <1>3 DEF Voices!Change
  <2>2. ASSUME NEW w \in Voices!Voices PROVE Right(w)
    <3>1. (Ends(c, w) <=> w = c.old) /\ (w = c.v => w # c.old)
      BY <1>0, <1>3 DEF Ends
    <3>2. CASE w = c.v
      <4>1. voice'[w] = [voice[w] EXCEPT !.play = "Playing"] /\ Plays(c, w)
        BY <1>3, <2>1, <3>2 DEF Plays
      <4> QED BY <3>1, <3>2, <4>1, ReplaysOne
    <3>3. CASE w # c.v /\ w = c.old
      <4>1. voice'[w] = Voices!LetGo(w)
        BY <2>1, <3>3
      <4> QED BY <3>1, <3>3, <4>1, EndedOne
    <3>4. CASE w # c.v /\ w # c.old
      <4>1. voice'[w] = voice[w]
        BY <2>1, <3>4
      <4> QED BY <3>1, <3>4, <4>1, ReplaysNone
    <3> QED BY <3>2, <3>3, <3>4
  <2>3. voice' = [w \in Voices!Voices |-> voice'[w]]
    BY <2>1
  <2> QED BY <2>2, <2>3 DEF Worked, VoicesTyped
<1>4. CASE c.state = "Restart"
  <2>0. c.v \in Voices!Voices /\ c.old \in Voices!Voices /\ c.v # c.old
    BY <1>0, <1>4 DEF ChangeOK
  <2>a. \A w \in Voices!Voices : (Ends(c, w) <=> w = c.old) /\ (Restarts(c, w) <=> w = c.v)
    BY <1>0, <1>4 DEF Ends, Restarts
  <2>1. CASE voice[c.old].sid = Voices!NoSource
    <3> DEFINE r == [voice[c.old] EXCEPT !.buffer = Voices!NoItem, !.loop = Voices!NoItem, !.change = FALSE]
    <3>1. voice' = [voice EXCEPT ![c.old] = r]
      BY <1>4, <2>1 DEF Voices!Change
    <3>2. r \in VoiceRecords /\ r.sid = Voices!NoSource /\ r.change = FALSE /\ r.buffer = Voices!NoItem
          /\ r.loop = Voices!NoItem /\ r.play = voice[c.old].play
      <4>1. voice[c.old] \in VoiceRecords /\ Voices!NoItem \in MaybeItem
        BY <1>0, <2>0 DEF MaybeItem
      <4> QED BY <2>1, <4>1 DEF VoiceRecords
    <3> HIDE DEF r
    <3>3. ASSUME NEW w \in Voices!Voices PROVE Right(w)
      <4>1. CASE w = c.old
        <5>1. voice'[w] = r
          BY <1>0, <3>1, <4>1
        <5>2. Ended(w)
          BY <3>2, <4>1, <5>1 DEF Ended
        <5> QED BY <2>a, <3>2, <4>1, <5>1, <5>2
      <4>2. CASE w # c.old
        <5>1. voice'[w] = voice[w]
          BY <1>0, <3>1, <4>2
        <5> QED BY <2>a, <4>2, <5>1, ReplaysNone
      <4> QED BY <4>1, <4>2
    <3>4. voice' = [w \in Voices!Voices |-> voice'[w]]
      BY <1>0, <3>1
    <3> QED BY <3>3, <3>4 DEF Worked, VoicesTyped
  <2>2. CASE voice[c.old].sid # Voices!NoSource
    <3> DEFINE p == IF voice[c.old].play = "Playing" THEN "Playing" ELSE "Stopped"
    <3>1. voice' = [[voice EXCEPT ![c.old] = Voices!LetGo(c.old)] EXCEPT ![c.v].play = p]
      BY <1>4, <2>2 DEF Voices!Change
    <3>2. p \in {"Playing", "Stopped"}
      OBVIOUS
    <3> HIDE DEF p
    <3>3. ASSUME NEW w \in Voices!Voices PROVE Right(w)
      <4>1. CASE w = c.old
        <5>1. voice'[w] = Voices!LetGo(w)
          BY <1>0, <2>0, <3>1, <4>1
        <5> QED BY <2>a, <4>1, <5>1, EndedOne
      <4>2. CASE w = c.v
        <5>1. voice'[w] = [voice[w] EXCEPT !.play = p]
          BY <1>0, <2>0, <3>1, <4>2
        <5> QED BY <2>a, <2>0, <2>2, <3>2, <4>2, <5>1, ReplaysOne
      <4>3. CASE w # c.v /\ w # c.old
        <5>1. voice'[w] = voice[w]
          BY <1>0, <2>0, <3>1, <4>3
        <5> QED BY <2>a, <4>3, <5>1, ReplaysNone
      <4> QED BY <4>1, <4>2, <4>3
    <3>4. voice' = [w \in Voices!Voices |-> voice'[w]]
      BY <1>0, <3>1
    <3> QED BY <3>3, <3>4 DEF Worked, VoicesTyped
  <2> QED BY <2>1, <2>2
<1> QED BY <1>0, <1>1, <1>2, <1>3, <1>4

LEMMA ProcessDoes ==
  ASSUME Whole, Voices!ProcessChange
  PROVE  /\ Worked(pending[1]) /\ pending[1] \in ChangeRecords /\ ChangeOK(pending[1])
         /\ Kept /\ ~Lost /\ ~Sweeping
         /\ pending' \in Seq(ChangeRecords) /\ Len(pending) \in Nat /\ Len(pending) >= 1
         /\ Len(pending') = Len(pending) - 1
         /\ \A i \in Positions' : pending'[i] = pending[i + 1] /\ i + 1 \in Positions
         /\ \A i \in Positions : i # 1 => i - 1 \in Positions' /\ pending'[i - 1] = pending[i]
         /\ 1 \in Positions
         /\ UNCHANGED <<source, active, op, mix, mixing, connected, reset>>
<1>1. Typed /\ InPhase
  BY DEF Whole, Always
<1>2. ~Lost /\ ~Sweeping
  BY <1>1 DEF Voices!ProcessChange, InPhase, Lost, Sweeping
<1>3. Kept
  BY <1>2 DEF Whole
<1>4. pending # <<>> /\ pending \in Seq(ChangeRecords)
  BY <1>1 DEF Voices!ProcessChange, Typed
<1>5. pending' = Tail(pending) /\ voice' = Voices!Change(Head(pending))
  BY DEF Voices!ProcessChange
<1>6. /\ pending' \in Seq(ChangeRecords) /\ Head(pending) = pending[1]
      /\ pending[1] \in ChangeRecords
      /\ Len(pending') = Len(pending) - 1 /\ Len(pending) \in Nat /\ Len(pending) >= 1
      /\ \A i \in 1..Len(pending') : pending'[i] = pending[i + 1]
  BY <1>4, <1>5, Tailed
<1>7. \A i \in Positions' : i + 1 \in Positions
  BY <1>6 DEF Positions
<1>8. \A i \in Positions : i # 1 => i - 1 \in Positions' /\ pending'[i - 1] = pending[i]
  BY <1>6 DEF Positions
<1>9. 1 \in Positions
  BY <1>6 DEF Positions
<1>10. ChangeOK(pending[1])
  BY <1>3, <1>9 DEF Kept, ChangesOK
<1>11. pending[1].state = "Play" => ~Ends(pending[1], pending[1].v)
  <2> SUFFICES ASSUME pending[1].state = "Play", Ends(pending[1], pending[1].v) PROVE FALSE
    OBVIOUS
  <2>1. Plays(pending[1], pending[1].v) /\ pending[1].v \in Voices!Voices
    BY <1>6, VoicesAssumptions DEF Plays, Ends, ChangeRecords, MaybeVoice, Voices!NoVoice,
        Voices!Voices
  <2> QED BY <1>3, <1>9, <2>1 DEF Kept, EndIsLast
<1>12. Worked(pending[1])
  BY <1>1, <1>5, <1>6, <1>10, <1>11, ChangeDoes
<1> QED BY <1>2, <1>3, <1>6, <1>7, <1>8, <1>9, <1>10, <1>12 DEF Voices!ProcessChange,
    Voices!Calls, Positions

-----------------------------------------------------------------------------
(* How many items have been processed.                                     *)
LEMMA ItemCount ==
  ASSUME NEW s, NEW a \in Nat, NEW b \in Nat, a <= b, NEW S,
         \A i \in S : \E n \in Nat : i = <<s, n>> /\ a <= n /\ n < b
  PROVE  Cardinality(S) \in Nat /\ Cardinality(S) <= b - a
<1> DEFINE f == [i \in S |-> i[2]]
           T == a..(b - 1)
<1>1. IsFiniteSet(T) /\ Cardinality(T) = b - a
  <2>1. a \in Int /\ b - 1 \in Int
    OBVIOUS
  <2>2. IsFiniteSet(T) /\ Cardinality(T) = IF a > b - 1 THEN 0 ELSE (b - 1) - a + 1
    BY <2>1, FS_Interval
  <2> QED BY <2>2
<1>2. f \in [S -> T]
  OBVIOUS
<1>3. \A i, j \in S : f[i] = f[j] => i = j
  <2> SUFFICES ASSUME NEW i \in S, NEW j \in S, f[i] = f[j] PROVE i = j
    OBVIOUS
  <2>1. PICK n \in Nat : i = <<s, n>>
    OBVIOUS
  <2>2. PICK m \in Nat : j = <<s, m>>
    OBVIOUS
  <2> QED BY <2>1, <2>2
<1>4. f \in Injection(S, T)
  BY <1>2, <1>3 DEF Injection, IsInjective
<1>5. IsFiniteSet(S) /\ Cardinality(S) <= Cardinality(T)
  BY <1>1, <1>4, FS_Injection
<1>6. Cardinality(S) \in Nat
  BY <1>5, FS_CardinalityType
<1> QED BY <1>1, <1>5, <1>6

LEMMA ProcessedAre ==
  ASSUME Typed, InBounds, NEW s \in Source
  PROVE  /\ Cardinality(Voices!Processed(s)) \in Nat
         /\ Cardinality(Voices!Processed(s)) <= source[s].tail - source[s].head
         /\ source[s].state # "INITIAL" /\ Voices!HasVoice(s)
              /\ voice[source[s].vidx].buffer \in Voices!Queue(s) =>
              Cardinality(Voices!Processed(s)) <= voice[source[s].vidx].buffer[2] - source[s].head
<1> DEFINE a == source[s].head
           b == source[s].tail
           i == voice[source[s].vidx].buffer
<1>1. a \in Nat /\ b \in Nat /\ a <= b
  BY SourceFields DEF InBounds
<1>2. \A j \in Voices!Queue(s) : \E n \in Nat : j = <<s, n>> /\ a <= n /\ n < b
  BY QueueIs
<1>3. Voices!Processed(s) \subseteq Voices!Queue(s)
  BY DEF Voices!Processed
<1>4. Cardinality(Voices!Processed(s)) \in Nat /\ Cardinality(Voices!Processed(s)) <= b - a
  BY <1>1, <1>2, <1>3, ItemCount
<1>5. ASSUME source[s].state # "INITIAL", Voices!HasVoice(s), i \in Voices!Queue(s)
      PROVE  Cardinality(Voices!Processed(s)) <= i[2] - a
  <2>1. PICK m \in Nat : i = <<s, m>> /\ a <= m /\ m < b
    BY <1>2, <1>5
  <2>2. i[2] = m
    BY <2>1
  <2>3. Voices!Processed(s) = {j \in Voices!Queue(s) : j[2] < i[2]}
    BY <1>5 DEF Voices!Processed
  <2>4. \A j \in Voices!Processed(s) : \E n \in Nat : j = <<s, n>> /\ a <= n /\ n < m
    <3> SUFFICES ASSUME NEW j \in Voices!Processed(s) PROVE \E n \in Nat : j = <<s, n>> /\ a <= n /\ n < m
      OBVIOUS
    <3>1. j \in Voices!Queue(s) /\ j[2] < m
      BY <2>2, <2>3
    <3>2. PICK n \in Nat : j = <<s, n>> /\ a <= n /\ n < b
      BY <1>2, <3>1
    <3>3. j[2] = n
      BY <3>2
    <3> QED BY <3>1, <3>2, <3>3
  <2>5. Cardinality(Voices!Processed(s)) <= m - a
    BY <1>1, <2>1, <2>4, ItemCount
  <2> QED BY <2>2, <2>5
<1> QED BY <1>4, <1>5

-----------------------------------------------------------------------------
(* Types and bounds after a step of a call.                                *)
LEMMA SendingIs ==
  ASSUME NEW name \in Names, NEW state \in {"Play", "Pause", "Stop", "Reset", "Restart"},
         NEW s \in Source, NEW v \in MaybeVoice, NEW old \in MaybeVoice,
         Sending(name, state, s, v, old)
  PROVE  /\ op' \in OpRecords /\ op'.pc = "append" /\ op'.call = name
         /\ op'.change \in ChangeRecords
         /\ op'.change.state = state /\ op'.change.s = s /\ op'.change.v = v
         /\ op'.change.old = old
  BY DEF Sending, OpRecords, ChangeRecords, Sends

LEMMA IdleIs ==
  Voices!Idle \in OpRecords /\ Voices!Idle.pc = "idle" /\ [pc |-> "looped"] \in OpRecords
  BY DEF Voices!Idle, OpRecords

LEMMA TypedAgain ==
  ASSUME Typed, SourcesTyped \/ UNCHANGED source, VoicesTyped \/ UNCHANGED voice,
         active' \in Voices!Voices, pending' \in Seq(ChangeRecords), op' \in OpRecords \/ UNCHANGED op,
         UNCHANGED <<mix, connected, reset>>
  PROVE  Typed'
  BY DEF Typed, SourcesTyped, VoicesTyped

(* A call on source s.                                                     *)
LEMMA BoundedCall ==
  ASSUME Typed, InBounds, NEW s \in Source,
         \A u \in Source : u # s => source'[u] = source[u],
         1 <= source'[s].head /\ source'[s].head <= source'[s].tail,
         source'[s].tail <= MaxItem[s] + 1,
         source'[s].vidx <= active', ~source'[s].alive => source'[s].vidx = Voices!NoVoice,
         active' \in Voices!Voices, active <= active',
         Elsewhere,
         op'.pc \in {"start", "seek", "append"} => Len(pending) < MaxPending
  PROVE  InBounds'
<1>1. ASSUME NEW u \in Source
      PROVE  /\ 1 <= source'[u].head /\ source'[u].head <= source'[u].tail
             /\ source'[u].tail <= MaxItem[u] + 1
             /\ source'[u].vidx <= active'
             /\ ~source'[u].alive => source'[u].vidx = Voices!NoVoice
  <2>1. CASE u = s
    BY <2>1
  <2>2. CASE u # s
    <3>1. source[u].vidx \in Int /\ active \in Int /\ active' \in Int /\ source[u].vidx <= active
      BY SourceFields DEF Typed, InBounds, Voices!Voices
    <3> QED BY <2>2, <3>1 DEF InBounds
  <2> QED BY <2>1, <2>2
<1> QED BY <1>1 DEF InBounds, Elsewhere

(* A step that leaves the sources alone.                                   *)
LEMMA BoundedStep ==
  ASSUME Typed, InBounds, UNCHANGED source, active' \in Voices!Voices, active <= active',
         Len(pending') <= MaxPending,
         op'.pc \in {"start", "seek", "append"} => Len(pending') < MaxPending,
         mixing' = (mix'.pc \notin {"idle", "off"})
  PROVE  InBounds'
<1>1. ASSUME NEW u \in Source
      PROVE  /\ 1 <= source'[u].head /\ source'[u].head <= source'[u].tail
             /\ source'[u].tail <= MaxItem[u] + 1
             /\ source'[u].vidx <= active'
             /\ ~source'[u].alive => source'[u].vidx = Voices!NoVoice
  <2>1. source[u].vidx \in Int /\ active \in Int /\ active' \in Int /\ source[u].vidx <= active
    BY SourceFields DEF Typed, InBounds, Voices!Voices
  <2> QED BY <2>1 DEF InBounds
<1> QED BY <1>1 DEF InBounds

(* Typed and InBounds hold again after every call that begins.             *)
Sound == Typed /\ InBounds

LEMMA SourceBounds ==
  ASSUME Sound, NEW s \in Source
  PROVE  /\ source[s].head \in Nat /\ source[s].tail \in Nat /\ MaxItem[s] \in Nat
         /\ 1 <= source[s].head /\ source[s].head <= source[s].tail
         /\ source[s].tail <= MaxItem[s] + 1
         /\ source[s].vidx \in MaybeVoice /\ source[s].vidx \in Int /\ source[s].vidx <= active
         /\ Voices!GetSourceVoice(s) \in {source[s].vidx, Voices!NoVoice}
         /\ active \in Voices!Voices /\ active \in Int /\ Voices!NoVoice <= active
         /\ Voices!NoVoice \in MaybeVoice /\ Voices!Voices \subseteq MaybeVoice
  BY SourceFields, VoicesAssumptions
     DEF Sound, InBounds, Typed, Voices!GetSourceVoice, Voices!NoVoice, MaybeVoice, Voices!Voices

LEMMA SetsKeeps ==
  ASSUME Sound, NEW s \in Source, NEW q, NEW v \in MaybeVoice, Sets(s, q, v), v <= active',
         source[s].alive \/ v = Voices!NoVoice,
         VoicesTyped \/ UNCHANGED voice,
         active' \in Voices!Voices, active <= active', Elsewhere,
         op' \in OpRecords,
         op'.pc \in {"start", "seek", "append"} => Len(pending) < MaxPending
  PROVE  Sound'
<1>1. Typed' /\ Typed /\ InBounds
  BY TypedAgain DEF Sound, Sets, Touches, Elsewhere, Typed
<1>2. InBounds'
  BY <1>1, SourceBounds, BoundedCall DEF Sets, Touches
<1> QED BY <1>1, <1>2 DEF Sound

LEMMA GenSound == ASSUME Sound, Voices!alGenSources PROVE Sound'
<1>1. Typed /\ InBounds
  BY DEF Sound
<1>2. PICK s \in Source :
           /\ ~source[s].alive /\ source[s].tail <= MaxItem[s]
           /\ SourcesTyped
           /\ source'[s].alive /\ source'[s].state = "INITIAL" /\ source'[s].vidx = Voices!NoVoice
           /\ source'[s].head = source[s].tail /\ source'[s].tail = source[s].tail
           /\ ~source'[s].looping
           /\ \A u \in Source : u # s => source'[u] = source[u]
           /\ op.pc = "idle" /\ UNCHANGED <<voice, active, op>> /\ Elsewhere
  BY <1>1, GenDoes
<1>3. Typed'
  BY <1>1, <1>2, TypedAgain DEF Elsewhere, Typed
<1>4. InBounds'
  <2>1. 1 <= source'[s].head /\ source'[s].head <= source'[s].tail /\ source'[s].tail <= MaxItem[s] + 1
        /\ source'[s].vidx <= active' /\ active' \in Voices!Voices /\ active <= active'
    BY <1>2, SourceBounds
  <2> QED BY <1>1, <1>2, <2>1, BoundedCall
<1> QED BY <1>3, <1>4 DEF Sound

LEMMA QueueSound == ASSUME Sound, NEW s \in Source, Voices!alSourceQueueBuffers(s) PROVE Sound'
<1>1. Typed /\ InBounds
  BY DEF Sound
<1>2. Typed'
  BY <1>1, QueueDoes, TypedAgain DEF Elsewhere, Typed
<1>3. 1 <= source'[s].head /\ source'[s].head <= source'[s].tail /\ source'[s].tail <= MaxItem[s] + 1
      /\ source'[s].vidx <= active' /\ active' \in Voices!Voices /\ active <= active' /\ source'[s].alive
  BY <1>1, QueueDoes, SourceBounds
<1>4. InBounds'
  BY <1>1, <1>3, QueueDoes, BoundedCall
<1> QED BY <1>2, <1>4 DEF Sound

LEMMA UnqueueSound == ASSUME Sound, NEW s \in Source, Voices!alSourceUnqueueBuffers(s) PROVE Sound'
<1>1. Typed /\ InBounds
  BY DEF Sound
<1>2. PICK n \in 1..Cardinality(Voices!Processed(s)) :
           /\ n \in Nat /\ n <= Cardinality(Voices!Processed(s))
           /\ SourcesTyped
           /\ source'[s].alive = source[s].alive /\ source'[s].state = source[s].state
           /\ source'[s].looping = source[s].looping /\ ~source[s].looping
           /\ source'[s].vidx = IF source[s].state = "INITIAL" THEN source[s].vidx ELSE Voices!GetSourceVoice(s)
           /\ source'[s].head = source[s].head + n /\ source'[s].tail = source[s].tail
           /\ \A u \in Source : u # s => source'[u] = source[u]
           /\ op.pc = "idle" /\ source[s].alive /\ UNCHANGED <<voice, active, op>> /\ Elsewhere
  BY <1>1, UnqueueDoes
<1>3. Typed'
  BY <1>1, <1>2, TypedAgain DEF Elsewhere, Typed
<1>4. 1 <= source'[s].head /\ source'[s].head <= source'[s].tail /\ source'[s].tail <= MaxItem[s] + 1
  <2>1. Cardinality(Voices!Processed(s)) \in Nat
        /\ Cardinality(Voices!Processed(s)) <= source[s].tail - source[s].head
    BY <1>1, ProcessedAre
  <2> HIDE DEF Voices!Processed
  <2> QED BY <1>2, <2>1, SourceBounds
<1>5. source'[s].vidx <= active' /\ active' \in Voices!Voices /\ active <= active' /\ source'[s].alive
  BY <1>2, SourceBounds
<1>6. op'.pc \in {"start", "seek", "append"} => Len(pending) < MaxPending
  BY <1>2
<1>7. InBounds'
  BY <1>1, <1>2, <1>4, <1>5, <1>6, BoundedCall
<1> QED BY <1>3, <1>7 DEF Sound

LEMMA SetBufferSound == ASSUME Sound, NEW s \in Source, Voices!SetBuffer(s) PROVE Sound'
<1>1. Typed /\ InBounds
  BY DEF Sound
<1>2. Typed'
  BY <1>1, SetBufferDoes, TypedAgain DEF Elsewhere, Typed
<1>3. 1 <= source'[s].head /\ source'[s].head <= source'[s].tail /\ source'[s].tail <= MaxItem[s] + 1
      /\ source'[s].vidx <= active' /\ active' \in Voices!Voices /\ active <= active' /\ source'[s].alive
  BY <1>1, SetBufferDoes, SourceBounds
<1>4. InBounds'
  BY <1>1, <1>3, SetBufferDoes, BoundedCall
<1> QED BY <1>2, <1>4 DEF Sound

LEMMA PlayLookSound == ASSUME Sound, NEW s \in Source, Voices!PlayLook(s) PROVE Sound'
<1>1. Typed /\ InBounds
  BY DEF Sound
<1>2. Len(pending) < MaxPending
  BY DEF Voices!PlayLook, Voices!CanCall
<1>3. active' \in Voices!Voices /\ active <= active'
  BY <1>1, GrowDoes, PlayLookDoes, SourceBounds
<1>4. source[s].alive /\ Elsewhere
  BY <1>1, PlayLookDoes
<1>5. source[s].vidx <= active' /\ Voices!GetSourceVoice(s) <= active'
      /\ source[s].vidx \in MaybeVoice /\ Voices!GetSourceVoice(s) \in MaybeVoice
  <2>1. active' \in Int
    BY <1>3 DEF Voices!Voices
  <2>2. /\ source[s].vidx \in Int /\ source[s].vidx <= active /\ active \in Int
        /\ Voices!NoVoice <= active /\ Voices!NoVoice \in MaybeVoice /\ source[s].vidx \in MaybeVoice
        /\ Voices!GetSourceVoice(s) \in {source[s].vidx, Voices!NoVoice}
    BY SourceBounds
  <2>3. Voices!NoVoice \in Int
    BY DEF Voices!NoVoice
  <2> QED BY <1>3, <2>1, <2>2, <2>3
<1>6. CASE /\ Sets(s, "STOPPED", source[s].vidx) /\ op'.pc = "idle" /\ UNCHANGED voice
           /\ op' \in OpRecords
  BY <1>2, <1>3, <1>4, <1>5, <1>6, SetsKeeps
<1>7. CASE /\ Sets(s, "PLAYING", source[s].vidx) /\ UNCHANGED voice
           /\ Sending("play", "Play", s, source[s].vidx, Voices!NoVoice)
  <2>1. op' \in OpRecords
    BY <1>5, <1>7, SendingIs, SourceBounds DEF Names
  <2> QED BY <1>2, <1>3, <1>4, <1>5, <1>7, <2>1, SetsKeeps
<1>8. CASE /\ Sets(s, Voices!GetSourceState(s), Voices!GetSourceVoice(s))
           /\ op' \in OpRecords /\ Marks(op'.old)
  <2>1. VoicesTyped
    BY <1>8 DEF Marks
  <2> QED BY <1>2, <1>3, <1>4, <1>5, <1>8, <2>1, SetsKeeps
<1> QED BY <1>1, <1>6, <1>7, <1>8, PlayLookDoes

LEMMA PauseLookSound == ASSUME Sound, NEW s \in Source, Voices!PauseLook(s) PROVE Sound'
<1>1. Typed /\ InBounds /\ Len(pending) < MaxPending
  BY DEF Sound, Voices!PauseLook, Voices!CanCall
<1>2. op' \in OpRecords
  <2>1. Sending("pause", "Pause", s, source[s].vidx, Voices!NoVoice) => op' \in OpRecords
    BY SendingIs, SourceBounds DEF Names
  <2> QED BY <1>1, <2>1, PauseLookDoes, IdleIs
<1>3. Voices!GetSourceVoice(s) <= active' /\ Voices!GetSourceVoice(s) \in MaybeVoice /\ active' \in Voices!Voices
      /\ active <= active'
  BY <1>1, PauseLookDoes, SourceBounds
<1> QED BY <1>1, <1>2, <1>3, PauseLookDoes, SetsKeeps

LEMMA StopLookSound == ASSUME Sound, NEW s \in Source, Voices!StopLook(s) PROVE Sound'
<1>1. Typed /\ InBounds /\ Len(pending) < MaxPending
  BY DEF Sound, Voices!StopLook, Voices!CanCall
<1>2. op' \in OpRecords
  <2>1. Sending("stop", "Stop", s, source[s].vidx, Voices!NoVoice) => op' \in OpRecords
    BY SendingIs, SourceBounds DEF Names
  <2> QED BY <1>1, <2>1, StopLookDoes, IdleIs
<1>3. Voices!NoVoice <= active' /\ Voices!NoVoice \in MaybeVoice /\ active' \in Voices!Voices /\ active <= active'
  BY <1>1, StopLookDoes, SourceBounds
<1>4. VoicesTyped \/ UNCHANGED voice
  BY <1>1, StopLookDoes DEF Marks
<1>5. \E q : Sets(s, q, Voices!NoVoice)
  BY <1>1, StopLookDoes
<1>6. Elsewhere
  BY <1>1, StopLookDoes
<1> QED BY <1>1, <1>2, <1>3, <1>4, <1>5, <1>6, SetsKeeps

LEMMA RewindLookSound == ASSUME Sound, NEW s \in Source, Voices!RewindLook(s) PROVE Sound'
<1>1. Typed /\ InBounds /\ Len(pending) < MaxPending
  BY DEF Sound, Voices!RewindLook, Voices!CanCall
<1>2. op' \in OpRecords
  <2>1. Voices!GetSourceVoice(s) \in MaybeVoice /\ Sending("rewind", "Reset", s, Voices!GetSourceVoice(s), Voices!NoVoice)
          => op' \in OpRecords
    BY SendingIs, SourceBounds DEF Names
  <2> QED BY <1>1, <2>1, RewindLookDoes, IdleIs
<1>3. Voices!NoVoice <= active' /\ Voices!NoVoice \in MaybeVoice /\ active' \in Voices!Voices /\ active <= active'
  BY <1>1, RewindLookDoes, SourceBounds
<1>4. VoicesTyped \/ UNCHANGED voice
  BY <1>1, RewindLookDoes DEF Marks
<1>5. Sets(s, "INITIAL", Voices!NoVoice) /\ Elsewhere
  BY <1>1, RewindLookDoes
<1> QED BY <1>1, <1>2, <1>3, <1>4, <1>5, SetsKeeps

(* A source that is deleted.                                               *)
LEMMA DestroyKeeps ==
  ASSUME Sound, NEW s \in Source, source' = [source EXCEPT ![s] = Voices!Destroyed(s)],
         UNCHANGED <<voice, active>>, Elsewhere, op' = Voices!Idle
  PROVE  Sound'
<1>1. Typed /\ InBounds /\ op' \in OpRecords /\ op'.pc = "idle"
  BY IdleIs DEF Sound
<1>2. Typed'
  BY <1>1, DestroyDoes, TypedAgain DEF Elsewhere, Typed
<1>3. 1 <= source'[s].head /\ source'[s].head <= source'[s].tail /\ source'[s].tail <= MaxItem[s] + 1
      /\ source'[s].vidx <= active' /\ active' \in Voices!Voices /\ active <= active'
  <2>1. source'[s].head = source[s].tail /\ source'[s].tail = source[s].tail /\ source'[s].vidx = Voices!NoVoice
    BY <1>1, DestroyDoes
  <2>2. /\ source[s].tail \in Nat /\ 1 <= source[s].head /\ source[s].head \in Nat
        /\ source[s].head <= source[s].tail /\ source[s].tail <= MaxItem[s] + 1
        /\ Voices!NoVoice <= active /\ active \in Voices!Voices /\ active \in Int
    BY SourceBounds
  <2>3. active' = active
    OBVIOUS
  <2> QED BY <2>1, <2>2, <2>3
<1>4. InBounds'
  BY <1>1, <1>3, DestroyDoes, BoundedCall
<1> QED BY <1>2, <1>4 DEF Sound

LEMMA DeleteLookSound == ASSUME Sound, NEW s \in Source, Voices!DeleteLook(s) PROVE Sound'
<1>1. Typed /\ InBounds /\ Len(pending) < MaxPending
  BY DEF Sound, Voices!DeleteLook, Voices!CanCall
<1>2. CASE Voices!HasVoice(s)
  <2>1. Marks(source[s].vidx) /\ UNCHANGED <<source, active>> /\ Elsewhere
        /\ Sending("delete", "Stop", s, source[s].vidx, Voices!NoVoice)
    BY <1>1, <1>2, DeleteLookDoes
  <2>2. op' \in OpRecords
    BY <2>1, SendingIs, SourceBounds DEF Names
  <2>3. Typed'
    BY <1>1, <2>1, <2>2, TypedAgain DEF Elsewhere, Typed, Marks
  <2>4. active' \in Voices!Voices /\ active <= active' /\ Len(pending') <= MaxPending
        /\ Len(pending') < MaxPending /\ mixing' = (mix'.pc \notin {"idle", "off"})
    BY <1>1, <2>1, SourceBounds DEF Elsewhere, InBounds
  <2>5. InBounds'
    BY <1>1, <2>1, <2>4, BoundedStep
  <2> QED BY <2>3, <2>5 DEF Sound
<1>3. CASE ~Voices!HasVoice(s)
  BY <1>1, <1>3, DeleteLookDoes, DestroyKeeps
<1> QED BY <1>2, <1>3

LEMMA SeekLookSound == ASSUME Sound, NEW s \in Source, Voices!SeekLook(s) PROVE Sound'
<1>1. Typed /\ InBounds /\ Len(pending) < MaxPending
  BY DEF Sound, Voices!SeekLook, Voices!CanCall
<1>2. op' \in OpRecords /\ UNCHANGED <<source, voice, active>> /\ Elsewhere
  BY <1>1, SeekLookDoes
<1>3. Typed'
  BY <1>1, <1>2, TypedAgain DEF Elsewhere, Typed
<1>4. active' \in Voices!Voices /\ active <= active' /\ Len(pending') <= MaxPending
      /\ Len(pending') < MaxPending /\ mixing' = (mix'.pc \notin {"idle", "off"})
  BY <1>1, <1>2, SourceBounds DEF Elsewhere, InBounds
<1> QED BY <1>1, <1>2, <1>3, <1>4, BoundedStep DEF Sound

LEMMA LoopLookSound == ASSUME Sound, NEW s \in Source, Voices!LoopLook(s) PROVE Sound'
<1>1. Typed /\ InBounds /\ Len(pending) < MaxPending
  BY DEF Sound, Voices!LoopLook, Voices!CanCall
<1>2. op' \in OpRecords
  BY <1>1, LoopLookDoes, IdleIs DEF OpRecords
<1>3. Typed'
  BY <1>1, <1>2, LoopLookDoes, TypedAgain DEF Elsewhere, Typed, Touches
<1>4. 1 <= source'[s].head /\ source'[s].head <= source'[s].tail /\ source'[s].tail <= MaxItem[s] + 1
      /\ source'[s].vidx <= active' /\ active' \in Voices!Voices /\ active <= active' /\ source'[s].alive
  BY <1>1, LoopLookDoes, SourceBounds DEF Touches
<1>5. InBounds'
  BY <1>1, <1>4, LoopLookDoes, BoundedCall DEF Touches
<1> QED BY <1>3, <1>5 DEF Sound

(* And after the calls that go on.                                         *)
LEMMA ActiveIs ==
  ASSUME Sound
  PROVE  active \in Voices!Voices /\ active \in Int /\ active <= active /\ 1 <= active
  BY VoicesAssumptions DEF Sound, Typed, Voices!Voices

LEMMA StillSound ==
  ASSUME Sound, UNCHANGED source, VoicesTyped \/ UNCHANGED voice, UNCHANGED active, Elsewhere,
         op' \in OpRecords, op'.pc \notin {"start", "seek", "append"}
  PROVE  Sound'
<1>1. Typed /\ InBounds
  BY DEF Sound
<1>2. Typed'
  BY <1>1, TypedAgain DEF Elsewhere, Typed
<1>3. active' \in Voices!Voices /\ active <= active' /\ Len(pending') <= MaxPending
  BY <1>1, ActiveIs DEF Elsewhere, InBounds
<1>4. mixing' = (mix'.pc \notin {"idle", "off"})
  BY <1>1 DEF Elsewhere, InBounds
<1> QED BY <1>1, <1>2, <1>3, <1>4, BoundedStep DEF Sound

LEMMA PlayStartSound == ASSUME Sound, CallKnows, Voices!PlayStart PROVE Sound'
<1>1. Typed /\ InBounds
  BY DEF Sound
<1>2. PICK s \in Source, v \in Voices!Voices :
           /\ op.pc = "start" /\ op.s = s /\ v <= active /\ Voices!Free(v)
           /\ Gives(v, s, "Stopped") /\ Others(v)
           /\ Sets(s, "PLAYING", v)
           /\ Sending("play", "Play", s, v, op.old)
           /\ UNCHANGED active /\ Elsewhere
  BY <1>1, PlayStartDoes
<1>3. op.old \in MaybeVoice /\ v \in MaybeVoice
  BY <1>1, <1>2, OpFields, SourceBounds
<1>4. op' \in OpRecords
  BY <1>2, <1>3, SendingIs DEF Names
<1>5. VoicesTyped /\ active' \in Voices!Voices /\ active <= active' /\ Len(pending) < MaxPending
      /\ source[s].alive
  BY <1>1, <1>2, SourceBounds DEF Gives, InBounds, CallKnows
<1> QED BY <1>2, <1>3, <1>4, <1>5, SetsKeeps

LEMMA SeekStartSound == ASSUME Sound, CallKnows, ~Voices!TakesItsOwn, Voices!SeekStart PROVE Sound'
<1>1. Typed /\ InBounds
  BY DEF Sound
<1>2. PICK s \in Source, v \in Voices!Voices :
           /\ op.pc = "seek" /\ op.s = s /\ op.old \in Voices!Voices /\ op.old <= active /\ op.old # v
           /\ active' \in Voices!Voices /\ v <= active'
           /\ \/ v <= active /\ Voices!Free(v) /\ active' = active
              \/ v = active + 1 /\ active' = active + 1
           /\ Gives(v, s, "Pending")
           /\ voice'[op.old] = [voice[op.old] EXCEPT !.change = TRUE]
           /\ \A w \in Voices!Voices : w # v /\ w # op.old => voice'[w] = voice[w]
           /\ Sets(s, source[s].state, v)
           /\ Voices!Playable(s) # {} /\ voice'[v].buffer \in Voices!Playable(s)
           /\ Sending("seek", "Restart", s, v, op.old)
           /\ Elsewhere
  BY <1>1, SeekStartDoes
<1>3. op.old \in MaybeVoice /\ v \in MaybeVoice
  BY <1>1, <1>2, SourceBounds
<1>4. op' \in OpRecords
  BY <1>2, <1>3, SendingIs DEF Names
<1>5. VoicesTyped /\ active' \in Voices!Voices /\ Len(pending) < MaxPending /\ source[s].alive
  BY <1>1, <1>2 DEF Gives, InBounds, CallKnows
<1>6. active <= active'
  BY <1>2, SourceBounds
<1>7. Elsewhere
  BY <1>2
<1> QED BY <1>2, <1>3, <1>4, <1>5, <1>6, <1>7, SetsKeeps

LEMMA LoopStoreSound == ASSUME Sound, CallKnows, Voices!LoopStore PROVE Sound'
<1>1. Typed /\ InBounds
  BY DEF Sound
<1>2. op' = [pc |-> "looped"] /\ VoicesTyped /\ UNCHANGED <<source, active>> /\ Elsewhere
  BY <1>1, LoopStoreDoes
<1> QED BY <1>2, IdleIs, StillSound

LEMMA SendAppendSound == ASSUME Sound, Voices!SendAppend PROVE Sound'
<1>1. Typed /\ InBounds
  BY DEF Sound
<1>2. Typed'
  BY <1>1, SendAppendDoes, TypedAgain DEF Typed
<1>3. Len(pending') <= MaxPending
  <2>1. Len(pending) < MaxPending /\ Len(pending') = Len(pending) + 1 /\ Len(pending) \in Nat
    BY <1>1, SendAppendDoes DEF InBounds
  <2> QED BY <2>1, VoicesAssumptions
<1>4. active' \in Voices!Voices /\ active <= active' /\ mixing' = (mix'.pc \notin {"idle", "off"})
  <2>1. UNCHANGED <<mixing, mix, active>>
    BY <1>1, SendAppendDoes
  <2>2. mixing' = (mix'.pc \notin {"idle", "off"})
    BY <1>1, <2>1 DEF InBounds
  <2> QED BY <2>1, <2>2, ActiveIs
<1>5. op'.pc \notin {"start", "seek", "append"}
  BY <1>1, SendAppendDoes
<1>6. UNCHANGED source
  BY <1>1, SendAppendDoes
<1> QED BY <1>1, <1>2, <1>3, <1>4, <1>5, <1>6, BoundedStep DEF Sound

LEMMA SendGoesSound ==
  ASSUME Sound,
         Voices!SendLoad \/ Voices!SendWait \/ Voices!SeekFails \/ Voices!LoopWait \/ Voices!SeekOld \/ Voices!SeekNew \/ Voices!SeekLast
  PROVE  Sound'
<1>1. Typed
  BY DEF Sound
<1>2. StillOp
  BY <1>1, SendGoes
<1>3. op' \in OpRecords /\ op'.pc \notin {"start", "seek", "append"}
  BY <1>1, SendGoes, IdleIs, LaterIs DEF Goes, Over
<1> QED BY <1>2, <1>3, StillSound DEF StillOp

LEMMA SendDropSound == ASSUME Sound, Voices!SendDrop PROVE Sound'
<1>1. Typed /\ InBounds
  BY DEF Sound
<1>2. op' \in OpRecords /\ op'.pc \notin {"start", "seek", "append"}
  BY <1>1, SendDropDoes, IdleIs DEF Goes, Over
<1>3. pending' \in Seq(ChangeRecords) /\ Len(pending') = 0
  BY <1>1, SendDropDoes
<1>4. Typed'
  BY <1>1, <1>2, <1>3, SendDropDoes, TypedAgain DEF Typed
<1>5. active' \in Voices!Voices /\ active <= active' /\ mixing' = (mix'.pc \notin {"idle", "off"})
      /\ Len(pending') <= MaxPending
  <2>1. UNCHANGED <<mixing, mix, active>>
    BY <1>1, SendDropDoes
  <2>2. mixing' = (mix'.pc \notin {"idle", "off"})
    BY <1>1, <2>1 DEF InBounds
  <2> QED BY <1>3, <2>1, <2>2, ActiveIs, VoicesAssumptions
<1>6. UNCHANGED source
  BY <1>1, SendDropDoes
<1> QED BY <1>1, <1>2, <1>4, <1>5, <1>6, BoundedStep DEF Sound

LEMMA PauseEndsSound == ASSUME Sound, Voices!PauseEnds PROVE Sound'
<1>1. Typed /\ InBounds
  BY DEF Sound
<1>2. PICK s \in Source :
           /\ op.pc = "sent" /\ op.call = "pause" /\ op.change.s = s
           /\ Sets(s, IF Voices!GetSourceState(s) = "PLAYING" THEN "PAUSED" ELSE Voices!GetSourceState(s),
                   Voices!GetSourceVoice(s))
           /\ Over /\ UNCHANGED <<voice, active>> /\ Elsewhere
  BY <1>1, PauseEndsDoes
<1>3. op' \in OpRecords /\ op'.pc = "idle"
  BY <1>2, IdleIs DEF Over
<1>4. Voices!GetSourceVoice(s) <= active' /\ Voices!GetSourceVoice(s) \in MaybeVoice /\ active' \in Voices!Voices
      /\ active <= active' /\ (source[s].alive \/ Voices!GetSourceVoice(s) = Voices!NoVoice)
  BY <1>1, <1>2, SourceBounds DEF InBounds
<1> QED BY <1>2, <1>3, <1>4, SetsKeeps

LEMMA DeleteEndsSound == ASSUME Sound, Voices!DeleteEnds PROVE Sound'
  BY DeleteEndsDoes, DestroyKeeps DEF Sound, Over

LEMMA SeekLetGoSound == ASSUME Sound, CallKnows, Voices!SeekLetGo PROVE Sound'
<1>1. Typed /\ InBounds
  BY DEF Sound
<1>2. Over /\ VoicesTyped /\ UNCHANGED <<source, active>> /\ Elsewhere
  BY <1>1, SeekLetGoDoes
<1> QED BY <1>2, IdleIs, StillSound DEF Over

(* And after a step of the mixer or of the device.                         *)
LEMMA AtIs ==
  ASSUME Typed, mix.last \in Voices!Voices, NEW v \in 1..(NVoices + 1),
         NEW q \in {"voices", "ended", "gone, voices"}, mix' = Voices!At(q, v)
  PROVE  mix' \in MixRecords /\ mix'.pc = q /\ mix'.v = v /\ mix'.last = mix.last
  BY DEF Voices!At, MixRecords

LEMMA MixMoves ==
  ASSUME Whole, Voices!Mix \/ Voices!Device
  PROVE  mix' \in MixRecords /\ mixing' = (mix'.pc \notin {"idle", "off"})
<1>0. Typed /\ InBounds /\ InPhase /\ active \in Voices!Voices /\ mix \in MixRecords
      /\ mixing = (mix.pc \notin {"idle", "off"})
  BY DEF Whole, Always, Typed, InBounds
<1>1. ASSUME Voices!MixBegin \/ Voices!Disconnect PROVE mix' \in MixRecords /\ mixing' = (mix'.pc \notin {"idle", "off"})
  <2>1. mixing' = TRUE /\ mix' \in [pc: {"changes", "gone"}, last: Voices!Voices]
    BY <1>0, <1>1 DEF Voices!MixBegin, Voices!Disconnect
  <2>2. mix'.pc \in {"changes", "gone"}
    BY <2>1
  <2> QED BY <2>1, <2>2 DEF MixRecords
<1>2. ASSUME Voices!ProcessChange \/ Voices!ResetConnect \/ Voices!UpdateDeviceParams \/ Voices!ResetLists
      PROVE mix' \in MixRecords /\ mixing' = (mix'.pc \notin {"idle", "off"})
  BY <1>0, <1>2 DEF Voices!ProcessChange, Voices!ResetConnect, Voices!UpdateDeviceParams,
      Voices!ResetLists
<1>3. ASSUME Voices!ChangesDone PROVE mix' \in MixRecords /\ mixing' = (mix'.pc \notin {"idle", "off"})
  <2>1. mix.last \in Voices!Voices /\ mixing
    BY <1>0, <1>3, MixFields DEF Voices!ChangesDone
  <2>2. 1 \in 1..(NVoices + 1)
    BY VoicesAssumptions
  <2>3. mix' = Voices!At("voices", 1) /\ mixing'
    BY <1>3, <2>1 DEF Voices!ChangesDone
  <2> QED BY <1>0, <2>1, <2>2, <2>3, AtIs
<1>4. ASSUME Voices!MixSkip \/ Voices!MixFaded \/ Voices!MixEnded \/ Voices!MixStore
      PROVE mix' \in MixRecords /\ mixing' = (mix'.pc \notin {"idle", "off"})
  <2>1. Sweeping /\ mixing
    BY <1>0, <1>4 DEF Voices!MixSkip, Voices!MixFaded, Voices!MixEnded, Voices!MixStore,
        Sweeping
  <2>2. mix.v <= mix.last
    BY <1>4, <2>1, SweepIs DEF Voices!MixSkip, Voices!MixFaded, Voices!MixEnded,
        Voices!MixStore
  <2>3. mix.last \in Voices!Voices /\ mix.v \in Voices!Voices /\ NVoices \in Nat
    BY <2>1, <2>2, SweepIs, VoicesAssumptions
  <2>4. mix.v \in 1..(NVoices + 1) /\ mix.v + 1 \in 1..(NVoices + 1)
    BY <2>3 DEF Voices!Voices
  <2>5. (mix' = Voices!At("voices", mix.v + 1) \/ mix' = Voices!At("ended", mix.v)) /\ mixing'
    BY <1>4, <2>1 DEF Voices!MixSkip, Voices!MixFaded, Voices!MixEnded, Voices!MixStore,
        Voices!NextVoice
  <2>6. CASE mix' = Voices!At("voices", mix.v + 1)
    BY <1>0, <2>3, <2>4, <2>5, <2>6, AtIs
  <2>7. CASE mix' = Voices!At("ended", mix.v)
    BY <1>0, <2>3, <2>4, <2>5, <2>7, AtIs
  <2> QED BY <2>5, <2>6, <2>7
<1>5. ASSUME Voices!MixLoad PROVE mix' \in MixRecords /\ mixing' = (mix'.pc \notin {"idle", "off"})
  <2>1. Sweeping /\ mixing
    BY <1>0, <1>5 DEF Voices!MixLoad, Sweeping
  <2>2. mix.last \in Voices!Voices /\ mix.v \in Voices!Voices
    BY <1>5, <2>1, SweepIs DEF Voices!MixLoad
  <2>3. voice[mix.v].buffer \in MaybeItem /\ voice[mix.v].loop \in MaybeItem
    BY <1>0, <2>2, VoiceFields
  <2>4. mix' \in [pc: {"reading"}, v: Voices!Voices, last: Voices!Voices, play: {"Playing", "Stopping"},
                  buffer: MaybeItem, loop: MaybeItem]
    BY <1>5, <2>2, <2>3 DEF Voices!MixLoad
  <2>5. mixing'
    BY <1>5, <2>1 DEF Voices!MixLoad
  <2> QED BY <2>4, <2>5 DEF MixRecords
<1>6. ASSUME Voices!MixEnd \/ Voices!DisconnectEnds \/ Voices!Halt \/ Voices!Start
      PROVE mix' \in MixRecords /\ mixing' = (mix'.pc \notin {"idle", "off"})
  <2>1. mix' \in {Voices!Resting, Voices!Halted} /\ mixing' = FALSE
    BY <1>0, <1>6 DEF Voices!MixEnd, Voices!DisconnectEnds, Voices!Halt, Voices!Start
  <2>2. mix' \in [pc: {"idle", "off", "gone, changes"}] /\ mix'.pc \in {"idle", "off"}
    <3>1. CASE mix' = Voices!Resting
      BY <3>1 DEF Voices!Resting
    <3>2. CASE mix' = Voices!Halted
      BY <3>2 DEF Voices!Halted
    <3> QED BY <2>1, <3>1, <3>2
  <2> QED BY <2>1, <2>2 DEF MixRecords
<1>7. ASSUME Voices!Disconnected PROVE mix' \in MixRecords /\ mixing' = (mix'.pc \notin {"idle", "off"})
  <2>1. mixing
    BY <1>0, <1>7 DEF Voices!Disconnected
  <2>2. 1 \in 1..(NVoices + 1)
    BY VoicesAssumptions
  <2> QED BY <1>0, <1>7, <2>1, <2>2 DEF Voices!Disconnected, MixRecords
<1>8. ASSUME Voices!StopVoice PROVE mix' \in MixRecords /\ mixing' = (mix'.pc \notin {"idle", "off"})
  <2>1. PICK v \in Voices!Voices : mix' = Voices!At("gone, voices", v + 1) /\ mix.last \in Voices!Voices
                            /\ UNCHANGED mixing /\ mix.pc = "gone, voices"
    BY <1>8, StopVoiceDoes
  <2>2. v + 1 \in 1..(NVoices + 1)
    BY VoicesAssumptions DEF Voices!Voices
  <2>3. mix' \in MixRecords /\ mix'.pc = "gone, voices"
    BY <1>0, <2>1, <2>2, AtIs
  <2> QED BY <1>0, <2>1, <2>3
<1> QED BY <1>1, <1>2, <1>3, <1>4, <1>5, <1>6, <1>7, <1>8 DEF Voices!Mix, Voices!Device

LEMMA FreshIs == Voices!Fresh \in VoiceRecords /\ Voices!Fresh.sid = Voices!NoSource /\ Voices!Fresh.buffer = Voices!NoItem
                 /\ Voices!Fresh.play = "Stopped" /\ ~Voices!Fresh.change
  BY DEF Voices!Fresh, VoiceRecords, Sids, MaybeItem

LEMMA MixSound == ASSUME Whole, Voices!Mix \/ Voices!Device PROVE Sound'
<1>1. Typed /\ InBounds
  BY DEF Whole, Always
<1>2. UNCHANGED <<source, active, op>>
  BY DEF Voices!Mix, Voices!Device, Voices!MixBegin, Voices!ProcessChange,
      Voices!ChangesDone, Voices!MixSkip, Voices!MixLoad, Voices!MixFaded, Voices!MixStore,
         Voices!MixEnded, Voices!MixEnd, Voices!Disconnect, Voices!Disconnected,
         Voices!StopVoice, Voices!DisconnectEnds, Voices!Halt, Voices!Start,
         Voices!ResetLists, Voices!ResetConnect, Voices!UpdateDeviceParams, Voices!Calls
<1>3. voice' \in [Voices!Voices -> VoiceRecords]
  <2>1. CASE Waits
    BY <2>1, WaitsDoes DEF Fades, VoicesTyped
  <2>2. CASE Voices!MixSkip \/ Voices!MixFaded \/ Voices!MixEnded \/ Voices!UpdateDeviceParams
    BY <2>2, MixSkipDoes, MixFadedDoes, MixEndedDoes, UpdateDoes DEF Fades, VoicesTyped
  <2>3. CASE Voices!ProcessChange
    BY <2>3, ProcessDoes DEF Worked, VoicesTyped
  <2>4. CASE Voices!MixStore
    BY <2>4, MixStoreDoes DEF VoicesTyped
  <2>5. CASE Voices!StopVoice
    BY <2>5, StopVoiceDoes DEF VoicesTyped
  <2>6. CASE Voices!ResetLists
    <3>1. UNCHANGED voice \/ voice' = [v \in Voices!Voices |-> Voices!Fresh]
      BY <2>6 DEF Voices!ResetLists
    <3> QED BY <1>1, <3>1, FreshIs DEF Typed
  <2> QED BY <2>1, <2>2, <2>3, <2>4, <2>5, <2>6 DEF Voices!Mix, Voices!Device, Waits
<1>4. pending' \in Seq(ChangeRecords) /\ Len(pending') <= Len(pending) /\ Len(pending) \in Nat
      /\ Len(pending') \in Nat
  <2>1. CASE Voices!ProcessChange
    BY <2>1, ProcessDoes
  <2>2. CASE UNCHANGED pending
    BY <1>1, <2>2, PlacesTyped DEF Typed
  <2>3. CASE pending' = <<>>
    BY <1>1, <2>3, PlacesTyped DEF Typed
  <2> QED BY <2>1, <2>2, <2>3
          DEF Voices!Mix, Voices!Device, Voices!MixBegin, Voices!ChangesDone, Voices!MixSkip, Voices!MixLoad, Voices!MixFaded, Voices!MixStore,
              Voices!MixEnded, Voices!MixEnd, Voices!Disconnect, Voices!Disconnected,
              Voices!StopVoice, Voices!DisconnectEnds, Voices!Halt, Voices!Start,
              Voices!ResetLists, Voices!ResetConnect, Voices!UpdateDeviceParams,
              Voices!Calls
<1>5. connected' \in BOOLEAN /\ reset' \in {"no", "connect", "prepare"}
  BY <1>1 DEF Typed, Voices!Mix, Voices!Device, Voices!MixBegin, Voices!ProcessChange,
      Voices!ChangesDone, Voices!MixSkip, Voices!MixLoad, Voices!MixFaded,
         Voices!MixStore, Voices!MixEnded, Voices!MixEnd, Voices!Disconnect,
         Voices!Disconnected, Voices!StopVoice, Voices!DisconnectEnds, Voices!Halt,
         Voices!Start,
         Voices!ResetLists, Voices!ResetConnect, Voices!UpdateDeviceParams, Voices!Calls
<1>6. Typed'
  BY <1>1, <1>2, <1>3, <1>4, <1>5, MixMoves DEF Typed
<1>7. Len(pending') <= MaxPending
      /\ (op'.pc \in {"start", "seek", "append"} => Len(pending') < MaxPending)
  <2>1. Len(pending) <= MaxPending /\ (op.pc \in {"start", "seek", "append"} => Len(pending) < MaxPending)
    BY <1>1 DEF InBounds
  <2> QED BY <1>2, <1>4, <2>1, VoicesAssumptions
<1>8. active' \in Voices!Voices /\ active <= active'
  BY <1>1, <1>2, VoicesAssumptions DEF Typed, Voices!Voices
<1>9. InBounds'
  BY <1>1, <1>2, <1>7, <1>8, MixMoves, BoundedStep
<1> QED BY <1>6, <1>9 DEF Sound

LEMMA SoundNext == ASSUME Whole, ~Voices!TakesItsOwn, Voices!Next PROVE Sound'
<1>1. Sound /\ CallKnows
  BY DEF Whole, Always, Sound
<1>2. CASE Voices!Call
  BY <1>1, <1>2, GenSound, QueueSound, PlayLookSound, StopLookSound, DeleteLookSound,
     UnqueueSound, SetBufferSound, PauseLookSound, RewindLookSound, SeekLookSound,
     LoopLookSound,
     VoicesAssumptions DEF Voices!Call
<1>3. CASE Voices!CallGoesOn
  BY <1>1, <1>3, PlayStartSound, SeekStartSound, LoopStoreSound, SendAppendSound,
      SendGoesSound,
     SendDropSound, PauseEndsSound, DeleteEndsSound, SeekLetGoSound DEF Voices!CallGoesOn
<1>4. CASE Voices!Mix \/ Voices!Device
  BY <1>4, MixSound
<1> QED BY <1>2, <1>3, <1>4 DEF Voices!Next

-----------------------------------------------------------------------------
(* The phases of the mixer and of the device.                              *)
LEMMA CallsStay ==
  ASSUME Whole, ~Voices!TakesItsOwn, Voices!Call \/ Voices!CallGoesOn
  PROVE  /\ UNCHANGED <<mixing, mix, connected, reset>>
         /\ active' \in Voices!Voices /\ active <= active'
<1>1. Typed /\ Sound
  BY DEF Whole, Always, Sound
<1>2. UNCHANGED <<mixing, mix, connected, reset>>
  BY DEF Voices!Call, Voices!CallGoesOn, Voices!alGenSources, Voices!alSourceQueueBuffers,
      Voices!alSourceUnqueueBuffers, Voices!SetBuffer,
         Voices!PlayLook, Voices!PauseLook, Voices!StopLook, Voices!RewindLook,
         Voices!DeleteLook, Voices!SeekLook, Voices!LoopLook, Voices!PlayStart,
         Voices!SeekFails, Voices!SeekStart, Voices!LoopStore, Voices!LoopWait,
         Voices!SendAppend, Voices!SendLoad, Voices!SendWait, Voices!SendDrop,
         Voices!PauseEnds, Voices!DeleteEnds, Voices!SeekOld, Voices!SeekNew,
         Voices!SeekLast, Voices!SeekLetGo, Voices!Mixer
<1>3. UNCHANGED active \/ Voices!Grow
  BY DEF Voices!Call, Voices!CallGoesOn, Voices!alGenSources, Voices!alSourceQueueBuffers,
      Voices!alSourceUnqueueBuffers, Voices!SetBuffer,
         Voices!PlayLook, Voices!PauseLook, Voices!StopLook, Voices!RewindLook,
         Voices!DeleteLook, Voices!SeekLook, Voices!LoopLook, Voices!PlayStart,
         Voices!SeekFails, Voices!SeekStart, Voices!LoopStore, Voices!LoopWait,
         Voices!SendAppend, Voices!SendLoad, Voices!SendWait, Voices!SendDrop,
         Voices!PauseEnds, Voices!DeleteEnds, Voices!SeekOld, Voices!SeekNew,
         Voices!SeekLast, Voices!SeekLetGo
<1> QED BY <1>1, <1>2, <1>3, GrowDoes, ActiveIs

LEMMA PhaseNext == ASSUME Whole, ~Voices!TakesItsOwn, Voices!Next PROVE InPhase'
<1>1. Typed /\ Typed' /\ InPhase
  BY SoundNext DEF Whole, Always, Sound
<1>2. CASE Voices!Call \/ Voices!CallGoesOn
  <2>1. /\ UNCHANGED <<mix, connected, reset>>
        /\ active' \in Voices!Voices /\ active <= active' /\ active \in Voices!Voices
    BY <1>1, <1>2, CallsStay DEF Typed
  <2>2. mix.pc \in {"changes", "gone", "gone, voices"} \/ Sweeping => mix.last \in Voices!Voices
    BY <1>1, MixFields
  <2>3. mix'.pc \in {"changes", "gone", "gone, voices"} \/ Sweeping' => mix'.last <= active'
    <3>1. mix.pc \in {"changes", "gone", "gone, voices"} \/ Sweeping => mix.last <= active
      BY <1>1 DEF InPhase
    <3>2. (Sweeping' <=> Sweeping) /\ mix' = mix
      BY <2>1 DEF Sweeping
    <3>3. active \in Int /\ active' \in Int /\ (mix.last \in Voices!Voices => mix.last \in Int)
      BY <2>1 DEF Voices!Voices
    <3>4. mix.last \in Int /\ mix.last <= active => mix.last <= active'
      BY <2>1, <3>3
    <3> HIDE DEF Sweeping
    <3> QED BY <2>2, <3>1, <3>2, <3>3, <3>4
  <2> QED BY <1>1, <2>1, <2>3 DEF InPhase, Sweeping
<1>3. CASE Voices!Mix \/ Voices!Device
  <2>0. active' = active /\ active \in Voices!Voices /\ active <= active
    <3>1. active' = active /\ active \in Voices!Voices
      BY <1>1, <1>3 DEF Voices!Mix, Voices!Device, Voices!MixBegin, Voices!ProcessChange,
          Voices!ChangesDone, Voices!MixSkip, Voices!MixLoad, Voices!MixFaded,
         Voices!MixStore, Voices!MixEnded, Voices!MixEnd, Voices!Disconnect,
         Voices!Disconnected, Voices!StopVoice, Voices!DisconnectEnds, Voices!Halt,
         Voices!Start,
         Voices!ResetLists, Voices!ResetConnect, Voices!UpdateDeviceParams, Voices!Calls,
         Typed
    <3> QED BY <3>1 DEF Voices!Voices
  <2>1. CASE Voices!MixBegin
    BY <1>1, <2>0, <2>1, VoicesAssumptions DEF Voices!MixBegin, Voices!Calls, InPhase,
        Sweeping, Typed, Voices!Voices
  <2>2. CASE Voices!ProcessChange
    BY <1>1, <2>0, <2>2 DEF Voices!ProcessChange, Voices!Calls, InPhase, Sweeping
  <2>3. CASE Voices!ChangesDone
    <3>1. mix'.pc = "voices" /\ mix'.last = mix.last
      BY <2>3 DEF Voices!ChangesDone, Voices!At
    <3> QED BY <1>1, <2>0, <2>3, <3>1 DEF Voices!ChangesDone, Voices!Calls, InPhase,
        Sweeping
  <2>4. CASE Voices!MixSkip \/ Voices!MixFaded \/ Voices!MixEnded
    <3>1. mix'.pc = "voices" /\ mix'.last = mix.last /\ Sweeping
      BY <2>4 DEF Voices!MixSkip, Voices!MixFaded, Voices!MixEnded, Voices!NextVoice,
          Voices!At, Sweeping
    <3>2. UNCHANGED <<connected, reset>>
      BY <2>4 DEF Voices!MixSkip, Voices!MixFaded, Voices!MixEnded, Voices!Calls
    <3> QED BY <1>1, <2>0, <3>1, <3>2 DEF InPhase, Sweeping
  <2>5. CASE Voices!MixLoad
    <3>1. mix'.pc = "reading" /\ mix'.last = mix.last /\ mix'.v = mix.v /\ Sweeping /\ mix.v <= mix.last
      BY <2>5 DEF Voices!MixLoad, Sweeping
    <3>2. UNCHANGED <<connected, reset>>
      BY <2>5 DEF Voices!MixLoad, Voices!Calls
    <3> QED BY <1>1, <2>0, <3>1, <3>2 DEF InPhase, Sweeping
  <2>6. CASE Voices!MixStore
    <3>1. mix'.last = mix.last /\ Sweeping /\ mix.v <= mix.last
          /\ (mix'.pc = "voices" \/ (mix'.pc = "ended" /\ mix'.v = mix.v))
      BY <1>1, <2>6 DEF Voices!MixStore, Sweeping, Voices!NextVoice, Voices!At, InPhase
    <3>2. UNCHANGED <<connected, reset>>
      BY <2>6 DEF Voices!MixStore, Voices!Calls
    <3> QED BY <1>1, <2>0, <3>1, <3>2 DEF InPhase, Sweeping
  <2>7. CASE Voices!MixEnd \/ Voices!DisconnectEnds \/ Voices!Halt \/ Voices!Start
    <3>0. UNCHANGED <<connected, reset>>
      BY <2>7 DEF Voices!MixEnd, Voices!DisconnectEnds, Voices!Halt, Voices!Start,
          Voices!Calls
    <3>1. mix'.pc \in {"idle", "off"} /\ (mix'.pc = "idle" => Voices!MixEnd \/ Voices!Start)
      <4>1. CASE Voices!MixEnd \/ Voices!Start
        <5>1. mix' = Voices!Resting
          BY <4>1 DEF Voices!MixEnd, Voices!Start
        <5> QED BY <4>1, <5>1 DEF Voices!Resting
      <4>2. CASE Voices!DisconnectEnds \/ Voices!Halt
        <5>1. mix' = Voices!Halted
          BY <4>2 DEF Voices!DisconnectEnds, Voices!Halt
        <5> QED BY <5>1 DEF Voices!Halted
      <4> QED BY <2>7, <4>1, <4>2
    <3>2. mix'.pc = "idle" => connected /\ reset = "no"
      BY <1>1, <3>1 DEF Voices!MixEnd, Voices!Start, InPhase, Sweeping
    <3> QED BY <1>1, <3>0, <3>1, <3>2 DEF InPhase, Sweeping
  <2>8. CASE Voices!Disconnect
    <3>1. mix'.pc = "gone" /\ mix'.last = active /\ UNCHANGED <<connected, reset>>
      BY <2>8 DEF Voices!Disconnect, Voices!Calls
    <3>2. connected /\ reset = "no"
      BY <1>1, <2>8 DEF Voices!Disconnect, InPhase
    <3> QED BY <1>1, <2>0, <3>1, <3>2 DEF InPhase, Sweeping
  <2>9. CASE Voices!Disconnected
    <3>1. ~connected' /\ UNCHANGED reset /\ reset = "no"
      BY <1>1, <2>9 DEF Voices!Disconnected, Voices!Calls, InPhase
    <3>2. \/ StopOnDisconnect /\ mix'.pc = "gone, voices" /\ mix'.last = active
          \/ ~StopOnDisconnect /\ mix'.pc = "gone, changes"
      BY <2>9 DEF Voices!Disconnected
    <3> QED BY <2>0, <3>1, <3>2 DEF InPhase, Sweeping
  <2>10. CASE Voices!StopVoice
    <3>1. mix'.pc = "gone, voices" /\ mix'.last = mix.last /\ mix.pc = "gone, voices"
      BY <2>10 DEF Voices!StopVoice, Voices!At
    <3>2. UNCHANGED <<connected, reset>>
      BY <2>10 DEF Voices!StopVoice, Voices!Calls
    <3> QED BY <1>1, <2>0, <3>1, <3>2 DEF InPhase, Sweeping
  <2>11. CASE Voices!ResetLists
    <3>1. mix.pc = "off" /\ mix'.pc = "off" /\ connected' = connected
          /\ ((connected /\ reset' = "prepare") \/ (~connected /\ reset' = "connect"))
      BY <2>11 DEF Voices!ResetLists
    <3> QED BY <3>1 DEF InPhase, Sweeping
  <2>12. CASE Voices!ResetConnect
    <3>1. reset = "connect" /\ connected' /\ reset' = "prepare" /\ mix' = mix
      BY <2>12 DEF Voices!ResetConnect
    <3> QED BY <1>1, <3>1 DEF InPhase, Sweeping
  <2>13. CASE Voices!UpdateDeviceParams
    <3>1. reset = "prepare" /\ connected' = connected /\ reset' = "no" /\ mix' = mix
      BY <2>13 DEF Voices!UpdateDeviceParams
    <3> QED BY <1>1, <2>0, <3>1 DEF InPhase, Sweeping
  <2> QED BY <1>3, <2>1, <2>2, <2>3, <2>4, <2>5, <2>6, <2>7, <2>8, <2>9, <2>10, <2>11,
      <2>12, <2>13
          DEF Voices!Mix, Voices!Device
<1> QED BY <1>2, <1>3 DEF Voices!Next

-----------------------------------------------------------------------------
(* What a call has found out stays so.                                     *)
MixKeepsOne(w) ==
  /\ voice'[w].sid \in {voice[w].sid, Voices!NoSource}
  /\ Voices!Free(w) => Voices!Free(w)'
  /\ op.pc = "start" /\ op.old = w => voice'[w].change = voice[w].change

LEMMA MixKeeps ==
  ASSUME Whole, Voices!Mix \/ Voices!Device
  PROVE  \A w \in Voices!Voices : MixKeepsOne(w)
<1>1. Typed
  BY DEF Whole, Always
<1>2. CASE Fades
  <2>1. ASSUME NEW w \in Voices!Voices PROVE MixKeepsOne(w)
    BY <1>2 DEF Fades, MixKeepsOne, Voices!Free
  <2> QED BY <2>1
<1>3. CASE Voices!ProcessChange
  <2>1. Worked(pending[1]) /\ pending[1] \in ChangeRecords /\ ChangeOK(pending[1]) /\ Kept /\ 1 \in Positions
    BY <1>3, ProcessDoes
  <2> DEFINE c == pending[1]
  <2>2. ASSUME NEW w \in Voices!Voices PROVE MixKeepsOne(w)
    <3>1. CASE Ends(c, w)
      <4>1. Ended(w)
        BY <2>1, <3>1 DEF Worked
      <4>2. ~(op.pc = "start" /\ op.old = w)
        <5>1. EndPending(w) /\ w # Voices!NoVoice
          BY <2>1, <3>1 DEF EndPending, Ends
        <5> QED BY <2>1, <5>1 DEF Kept, EndsOnce, Ahead
      <4> QED BY <4>1, <4>2 DEF Ended, MixKeepsOne, Voices!Free
    <3>2. CASE ~Ends(c, w)
      <4>1. Lasts(w) /\ Replays(c, w)
        BY <2>1, <3>2 DEF Worked
      <4>2. Voices!Free(w) => voice'[w].play = voice[w].play
        <5> SUFFICES ASSUME Voices!Free(w), voice'[w].play # voice[w].play PROVE FALSE
          OBVIOUS
        <5>1. c.state \in {"Play", "Restart"} /\ c.v = w
              /\ (c.state = "Restart" => voice[c.old].sid # Voices!NoSource)
          BY <4>1 DEF Replays, Voices!Free, Plays, Restarts
        <5>2. voice[w].sid = c.s /\ c.s \in Source
          BY <2>1, <5>1 DEF ChangeOK, ChangeRecords
        <5> QED BY <5>2, VoicesAssumptions DEF Voices!Free
      <4> QED BY <4>1, <4>2 DEF Lasts, MixKeepsOne, Voices!Free
    <3> QED BY <3>1, <3>2
  <2> QED BY <2>2
<1>4. CASE Voices!MixStore
  <2>1. PICK v \in Voices!Voices :
          /\ Others(v) /\ voice[v].play = "Playing" /\ voice'[v].change = voice[v].change
          /\ voice'[v].sid \in {voice[v].sid, Voices!NoSource}
    BY <1>4, MixStoreDoes
  <2>2. ASSUME NEW w \in Voices!Voices PROVE MixKeepsOne(w)
    BY <2>1 DEF Others, MixKeepsOne, Voices!Free
  <2> QED BY <2>2
<1>5. CASE Voices!StopVoice
  <2>1. PICK v \in Voices!Voices :
          /\ Others(v) /\ voice'[v].sid = Voices!NoSource /\ voice'[v].change = voice[v].change
          /\ voice'[v].play = "Stopped"
    <3>1. mix.v \in Voices!Voices
      BY <1>5, StopVoiceDoes
    <3>2. voice' = [voice EXCEPT ![mix.v] = [Voices!Silenced(mix.v) EXCEPT !.play = "Stopped"]]
      BY <1>5 DEF Voices!StopVoice
    <3>3. voice'[mix.v].play = "Stopped"
      BY <1>1, <3>1, <3>2 DEF Typed, Voices!Silenced, VoiceRecords
    <3> QED BY <1>5, <3>3, StopVoiceDoes
  <2>2. ASSUME NEW w \in Voices!Voices PROVE MixKeepsOne(w)
    BY <2>1 DEF Others, MixKeepsOne, Voices!Free
  <2> QED BY <2>2
<1>6. CASE Voices!ResetLists
  <2>1. UNCHANGED voice \/ (op.pc = "idle" /\ voice' = [v \in Voices!Voices |-> Voices!Fresh])
    BY <1>6 DEF Voices!ResetLists
  <2>2. ASSUME NEW w \in Voices!Voices PROVE MixKeepsOne(w)
    BY <2>1, FreshIs DEF MixKeepsOne, Voices!Free
  <2> QED BY <2>2
<1> QED BY <1>2, <1>3, <1>4, <1>5, <1>6, WaitsDoes, MixSkipDoes, MixFadedDoes, MixEndedDoes,
        UpdateDoes DEF Voices!Mix, Voices!Device, Waits

LEMMA MixStill ==
  ASSUME Voices!Mix \/ Voices!Device
  PROVE  UNCHANGED <<source, active, op>>
  BY DEF Voices!Mix, Voices!Device, Voices!MixBegin, Voices!ProcessChange,
      Voices!ChangesDone, Voices!MixSkip, Voices!MixLoad, Voices!MixFaded, Voices!MixStore,
         Voices!MixEnded, Voices!MixEnd, Voices!Disconnect, Voices!Disconnected,
         Voices!StopVoice, Voices!DisconnectEnds, Voices!Halt, Voices!Start,
         Voices!ResetLists, Voices!ResetConnect, Voices!UpdateDeviceParams, Voices!Calls

LEMMA KnowsMix == ASSUME Whole, Voices!Mix \/ Voices!Device PROVE CallKnows'
<1>1. Typed /\ InBounds /\ CallKnows /\ \A w \in Voices!Voices : MixKeepsOne(w)
  BY MixKeeps DEF Whole, Always
<1>2. UNCHANGED <<source, active, op>>
  BY MixStill
<1>3. op.pc \in Later =>
        op.call = "seek" /\ voice'[op.change.old].sid = Voices!NoSource
  <2> SUFFICES ASSUME op.pc \in Later
               PROVE  op.call = "seek" /\ voice'[op.change.old].sid = Voices!NoSource
    OBVIOUS
  <2>1. op.call = "seek" /\ voice[op.change.old].sid = Voices!NoSource /\ op.change \in ChangeRecords
        /\ op.change.old # Voices!NoVoice
    BY <1>1, OpFields DEF CallKnows, Sends
  <2>2. op.change.old \in Voices!Voices
    BY <2>1, ChangeFields
  <2> QED BY <1>1, <2>1, <2>2 DEF MixKeepsOne
<1>4. op.pc = "start" =>
        /\ op.old # Voices!NoVoice => voice'[op.old].change
        /\ Voices!FreeVoices' # {}
  <2> SUFFICES ASSUME op.pc = "start"
               PROVE (op.old # Voices!NoVoice => voice'[op.old].change) /\ Voices!FreeVoices' # {}
    OBVIOUS
  <2>1. op.old \in MaybeVoice /\ (op.old # Voices!NoVoice => voice[op.old].change) /\ Voices!FreeVoices # {}
    BY <1>1, OpFields DEF CallKnows
  <2>2. op.old # Voices!NoVoice => op.old \in Voices!Voices
    BY <2>1, VoicesAssumptions DEF MaybeVoice, Voices!NoVoice, Voices!Voices
  <2>3. PICK v \in 1..active : Voices!Free(v)
    BY <2>1 DEF Voices!FreeVoices
  <2>4. v \in Voices!Voices
    BY <1>1, VoicesAssumptions DEF Typed, Voices!Voices
  <2>5. Voices!Free(v)'
    BY <1>1, <2>3, <2>4 DEF MixKeepsOne
  <2>6. v \in Voices!FreeVoices'
    BY <1>2, <2>3, <2>5 DEF Voices!FreeVoices
  <2> QED BY <1>1, <2>1, <2>2, <2>6 DEF MixKeepsOne
<1> QED BY <1>1, <1>2, <1>3, <1>4 DEF CallKnows

(* A call that is over, or about to send, or sends on.                     *)
LEMMA IdleKnows == ASSUME op'.pc \in {"idle", "looped"} PROVE CallKnows'
  BY LaterIs DEF CallKnows, Sends

LEMMA SendKnows ==
  ASSUME NEW name \in Names, NEW state \in {"Play", "Pause", "Stop", "Reset", "Restart"},
         NEW s \in Source, NEW v \in MaybeVoice, NEW old \in MaybeVoice,
         Sending(name, state, s, v, old), v <= active', old <= active',
         state # "Reset" => v # Voices!NoVoice, state = "Restart" => old # Voices!NoVoice,
         name = "seek" => state = "Restart", name = "pause" => state = "Pause",
         state = "Play" => source'[s].state = "PLAYING"
  PROVE  CallKnows'
<1>1. /\ op'.pc = "append" /\ op'.call = name
      /\ op'.change.state = state /\ op'.change.s = s /\ op'.change.v = v
      /\ op'.change.old = old
  BY SendingIs
<1> QED BY <1>1, LaterIs DEF CallKnows

LEMMA GoesKnows ==
  ASSUME Whole, Goes({"load", "wait", "drop", "sent"} \cup Later),
         UNCHANGED <<source, active>>,
         op'.pc \in Later => op.pc \in Later /\ UNCHANGED voice
  PROVE  CallKnows'
<1>1. CallKnows
  BY DEF Whole, Always
<1>2. op'.pc \in {"load", "wait", "drop", "sent"} \cup Later
  BY DEF Goes
<1> QED BY <1>1, <1>2, LaterIs DEF CallKnows, Goes, Sends

LEMMA BeginKnows == ASSUME Whole, Voices!Call PROVE CallKnows'
<1>1. Typed /\ InBounds /\ Sound
  BY DEF Whole, Always, Sound
<1>2. CASE Voices!alGenSources
  BY <1>1, <1>2, GenDoes, IdleKnows
<1>3. ASSUME NEW s \in Source, Voices!alSourceQueueBuffers(s) PROVE CallKnows'
  BY <1>1, <1>3, QueueDoes, IdleKnows
<1>4. ASSUME NEW s \in Source, Voices!alSourceUnqueueBuffers(s) PROVE CallKnows'
  BY <1>1, <1>4, UnqueueDoes, IdleKnows
<1>5. ASSUME NEW s \in Source, Voices!SetBuffer(s) PROVE CallKnows'
  BY <1>1, <1>5, SetBufferDoes, IdleKnows
<1>6. ASSUME NEW s \in Source, Voices!PauseLook(s) PROVE CallKnows'
  <2>1. CASE Sending("pause", "Pause", s, source[s].vidx, Voices!NoVoice) /\ Voices!HasVoice(s) /\ UNCHANGED active
    <3>1. source[s].vidx # Voices!NoVoice
      BY <2>1 DEF Voices!HasVoice, Voices!NoVoice
    <3> QED BY <1>1, <2>1, <3>1, SourceBounds, SendKnows DEF Names
  <2>2. CASE op' = Voices!Idle
    BY <2>2, IdleIs, IdleKnows
  <2> QED BY <1>1, <1>6, <2>1, <2>2, PauseLookDoes
<1>7. ASSUME NEW s \in Source, Voices!StopLook(s) PROVE CallKnows'
  <2>1. CASE Sending("stop", "Stop", s, source[s].vidx, Voices!NoVoice) /\ Voices!HasVoice(s) /\ UNCHANGED active
    <3>1. source[s].vidx # Voices!NoVoice
      BY <2>1 DEF Voices!HasVoice, Voices!NoVoice
    <3> QED BY <1>1, <2>1, <3>1, SourceBounds, SendKnows DEF Names
  <2>2. CASE op' = Voices!Idle
    BY <2>2, IdleIs, IdleKnows
  <2> QED BY <1>1, <1>7, <2>1, <2>2, StopLookDoes
<1>8. ASSUME NEW s \in Source, Voices!RewindLook(s) PROVE CallKnows'
  <2>1. CASE Sending("rewind", "Reset", s, Voices!GetSourceVoice(s), Voices!NoVoice) /\ UNCHANGED active
    <3>1. Voices!GetSourceVoice(s) \in MaybeVoice /\ Voices!GetSourceVoice(s) <= active
      BY <1>1, SourceBounds
    <3> QED BY <1>1, <2>1, <3>1, SourceBounds, SendKnows DEF Names
  <2>2. CASE op' = Voices!Idle
    BY <2>2, IdleIs, IdleKnows
  <2> QED BY <1>1, <1>8, <2>1, <2>2, RewindLookDoes
<1>9. ASSUME NEW s \in Source, Voices!DeleteLook(s) PROVE CallKnows'
  <2>1. CASE Sending("delete", "Stop", s, source[s].vidx, Voices!NoVoice) /\ Voices!HasVoice(s) /\ UNCHANGED active
    <3>1. source[s].vidx # Voices!NoVoice
      BY <2>1 DEF Voices!HasVoice, Voices!NoVoice
    <3> QED BY <1>1, <2>1, <3>1, SourceBounds, SendKnows DEF Names
  <2>2. CASE op' = Voices!Idle
    BY <2>2, IdleIs, IdleKnows
  <2> QED BY <1>1, <1>9, <2>1, <2>2, DeleteLookDoes
<1>10. ASSUME NEW s \in Source, Voices!SeekLook(s) PROVE CallKnows'
  <2>1. source[s].vidx # Voices!NoVoice
    BY <1>1, <1>10, SeekLookDoes DEF Voices!HasVoice, Voices!NoVoice
  <2> QED BY <1>1, <1>10, <2>1, SeekLookDoes, LaterIs DEF CallKnows, Sends
<1>11. ASSUME NEW s \in Source, Voices!LoopLook(s) PROVE CallKnows'
  <2>1. CASE Voices!HasVoice(s)
    <3>1. source'[s].vidx = source[s].vidx /\ source[s].vidx # Voices!NoVoice
      BY <1>1, <1>11, <2>1, LoopLookDoes DEF Voices!GetSourceVoice, Voices!HasVoice,
          Voices!NoVoice
    <3>2. op' = [pc |-> "loop", s |-> s]
      BY <1>1, <1>11, <2>1, LoopLookDoes
    <3> QED BY <3>1, <3>2, LaterIs DEF CallKnows, Sends
  <2>2. CASE ~Voices!HasVoice(s)
    BY <1>1, <1>11, <2>2, LoopLookDoes, IdleIs, IdleKnows
  <2> QED BY <2>1, <2>2
<1>12. ASSUME NEW s \in Source, Voices!PlayLook(s) PROVE CallKnows'
  <2>0. active' \in Voices!Voices /\ active <= active' /\ source[s].alive
    BY <1>1, <1>12, PlayLookDoes, GrowDoes, SourceBounds
  <2>1. CASE op'.pc = "idle"
    BY <2>1, IdleKnows
  <2>2. CASE /\ Voices!HasVoice(s)
             /\ Sets(s, "PLAYING", source[s].vidx)
             /\ Sending("play", "Play", s, source[s].vidx, Voices!NoVoice)
    <3>1. source[s].vidx # Voices!NoVoice /\ source[s].vidx \in MaybeVoice /\ source[s].vidx <= active'
          /\ Voices!NoVoice <= active' /\ Voices!NoVoice \in MaybeVoice
      <4>1. active' \in Int /\ Voices!NoVoice \in Int
        BY <2>0 DEF Voices!Voices, Voices!NoVoice
      <4>2. source[s].vidx # Voices!NoVoice
        BY <2>2 DEF Voices!HasVoice, Voices!NoVoice
      <4>3. /\ source[s].vidx \in MaybeVoice /\ source[s].vidx \in Int /\ source[s].vidx <= active
            /\ active \in Int /\ Voices!NoVoice <= active /\ Voices!NoVoice \in MaybeVoice
        BY <1>1, SourceBounds
      <4> QED BY <2>0, <4>1, <4>2, <4>3
    <3>2. source'[s].state = "PLAYING"
      BY <2>2 DEF Sets
    <3> QED BY <2>2, <3>1, <3>2, SendKnows DEF Names
  <2>3. CASE /\ connected \/ ~StopOnDisconnect
             /\ Sets(s, Voices!GetSourceState(s), Voices!GetSourceVoice(s))
             /\ op'.pc = "start" /\ op'.s = s /\ op' \in OpRecords
             /\ op'.old = IF Voices!GetSourceState(s) = "PLAYING" THEN source[s].vidx ELSE Voices!NoVoice
             /\ Voices!GetSourceState(s) = "PLAYING" => Voices!HasVoice(s)
             /\ Marks(op'.old)
    <3>1. Voices!Grow
      BY <1>1, <1>12, <2>3, PlayLookDoes
    <3>2. Kept
      BY <2>3 DEF Whole, Lost
    <3>3. Voices!GetSourceState(s) = "PLAYING" =>
            /\ op'.old = source[s].vidx /\ op'.old # Voices!NoVoice /\ op'.old \in Voices!Voices
            /\ Voices!GetSourceVoice(s) = source[s].vidx /\ voice[op'.old].sid = s
      <4>1. source[s].vidx \in MaybeVoice
        BY <1>1, SourceBounds
      <4>2. Voices!HasVoice(s) => source[s].vidx # Voices!NoVoice
        BY DEF Voices!HasVoice, Voices!NoVoice
      <4> QED BY <2>3, <4>1, <4>2, MaybeIs DEF Voices!GetSourceVoice, Voices!HasVoice
    <3>4. source'[s].alive /\ source'[s].vidx = Voices!GetSourceVoice(s)
          /\ source'[s].state = Voices!GetSourceState(s)
      BY <2>0, <2>3 DEF Sets, Touches
    <3>5. op'.old # Voices!NoVoice => source'[s].vidx = op'.old /\ voice'[op'.old].change
      BY <2>3, <3>3, <3>4 DEF Marks
    <3>6. Voices!FreeVoices' # {}
      <4>1. CASE Voices!FreeVoices = {}
        <5>1. PICK x \in Voices!Voices : x = active' /\ x = active + 1
          BY <1>1, <3>1, <4>1, GrowDoes
        <5>2. x > active /\ active \in Int /\ x \in Int /\ 1 <= x
          BY <1>1, <5>1, ActiveIs DEF Voices!Voices
        <5>3. voice[x] = Voices!Fresh
          BY <3>2, <5>1, <5>2 DEF Kept, BeyondIsFresh
        <5>4. x # op'.old
          <6>1. Voices!GetSourceState(s) = "PLAYING" => op'.old \in Int /\ op'.old <= active
            BY <1>1, <3>3, SourceBounds
          <6>2. Voices!GetSourceState(s) # "PLAYING" => op'.old = Voices!NoVoice
            BY <2>3
          <6> QED BY <5>2, <6>1, <6>2 DEF Voices!NoVoice
        <5>5. voice'[x] = Voices!Fresh
          BY <2>3, <5>3, <5>4 DEF Marks
        <5>6. Voices!Free(x)'
          BY <5>5, FreshIs DEF Voices!Free
        <5>7. x \in 1..active'
          BY <5>1, <5>2
        <5> QED BY <5>6, <5>7 DEF Voices!FreeVoices
      <4>2. CASE Voices!FreeVoices # {}
        <5>1. PICK v \in 1..active : Voices!Free(v)
          BY <4>2 DEF Voices!FreeVoices
        <5>2. v \in Voices!Voices /\ active' = active
          BY <1>1, <3>1, <4>2, GrowDoes, VoicesAssumptions DEF Typed, Voices!Voices
        <5>3. v # op'.old
          <6>1. op'.old # Voices!NoVoice => voice[op'.old].sid = s
            BY <2>3, <3>3
          <6>2. v # Voices!NoVoice /\ voice[v].sid = Voices!NoSource
            BY <5>1 DEF Voices!NoVoice, Voices!Free
          <6> QED BY <6>1, <6>2, VoicesAssumptions
        <5>4. Voices!Free(v)'
          <6>1. voice'[v] = voice[v]
            BY <2>3, <5>2, <5>3 DEF Marks
          <6> QED BY <5>1, <6>1 DEF Voices!Free
        <5> QED BY <5>1, <5>2, <5>4 DEF Voices!FreeVoices
      <4> QED BY <4>1, <4>2
    <3>7. source'[s].state = "PLAYING" => op'.old # Voices!NoVoice
      BY <3>3, <3>4
    <3> QED BY <2>3, <3>4, <3>5, <3>6, <3>7, LaterIs DEF CallKnows, Sends
  <2> QED BY <1>1, <1>12, <2>1, <2>2, <2>3, PlayLookDoes
<1> QED BY <1>2, <1>3, <1>4, <1>5, <1>6, <1>7, <1>8, <1>9, <1>10, <1>11, <1>12,
           VoicesAssumptions DEF Voices!Call

LEMMA GoesOnKnows == ASSUME Whole, ~Voices!TakesItsOwn, Voices!CallGoesOn PROVE CallKnows'
<1>1. Typed /\ InBounds /\ Sound /\ CallKnows
  BY DEF Whole, Always, Sound
<1>2. CASE Voices!PlayStart
  <2>1. PICK s \in Source, v \in Voices!Voices :
           /\ op.pc = "start" /\ op.s = s /\ v <= active
           /\ Sets(s, "PLAYING", v)
           /\ Sending("play", "Play", s, v, op.old)
           /\ UNCHANGED active
    BY <1>1, <1>2, PlayStartDoes
  <2>2. op.old \in MaybeVoice /\ v \in MaybeVoice /\ v # Voices!NoVoice
    BY <1>1, <2>1, OpFields, SourceBounds, MaybeIs
  <2>3. op.old <= active
    BY <1>1, <2>1, SourceBounds DEF CallKnows
  <2>4. source'[s].state = "PLAYING"
    BY <2>1 DEF Sets
  <2> QED BY <2>1, <2>2, <2>3, <2>4, SendKnows DEF Names
<1>3. CASE Voices!SeekStart
  <2>1. PICK s \in Source, v \in Voices!Voices :
           /\ op.old \in Voices!Voices /\ op.old <= active
           /\ active' \in Voices!Voices /\ v <= active'
           /\ \/ v <= active /\ Voices!Free(v) /\ active' = active
              \/ v = active + 1 /\ active' = active + 1
           /\ Sending("seek", "Restart", s, v, op.old)
    BY <1>1, <1>3, SeekStartDoes
  <2>2. op.old \in MaybeVoice /\ v \in MaybeVoice /\ v # Voices!NoVoice /\ op.old # Voices!NoVoice
    BY <1>1, <2>1, SourceBounds, MaybeIs
  <2>3. op.old <= active'
    BY <1>1, <2>1, ActiveIs DEF Voices!Voices
  <2> QED BY <2>1, <2>2, <2>3, SendKnows DEF Names
<1>4. CASE Voices!LoopStore \/ Voices!SeekFails \/ Voices!LoopWait \/ Voices!PauseEnds \/ Voices!DeleteEnds \/ Voices!SeekLetGo
  <2>1. op'.pc \in {"idle", "looped"}
    <3>1. ASSUME Voices!LoopStore PROVE op'.pc = "looped"
      BY <1>1, <3>1, LoopStoreDoes
    <3>2. ASSUME Voices!SeekFails \/ Voices!LoopWait PROVE op'.pc = "idle"
      BY <1>1, <3>2, SendGoes, IdleIs DEF Over
    <3>3. ASSUME Voices!PauseEnds PROVE op'.pc = "idle"
      BY <1>1, <3>3, PauseEndsDoes, IdleIs DEF Over
    <3>4. ASSUME Voices!DeleteEnds PROVE op'.pc = "idle"
      BY <1>1, <3>4, DeleteEndsDoes, IdleIs DEF Over
    <3>5. ASSUME Voices!SeekLetGo PROVE op'.pc = "idle"
      BY <1>1, <3>5, SeekLetGoDoes, IdleIs DEF Over
    <3> QED BY <1>4, <3>1, <3>2, <3>3, <3>4, <3>5
  <2> QED BY <2>1, IdleKnows
<1>5. CASE Voices!SendAppend
  <2>1. Goes({"load"}) /\ UNCHANGED <<source, active>>
    BY <1>1, <1>5, SendAppendDoes DEF Goes, Sends
  <2> QED BY <2>1, GoesKnows, LaterIs DEF Goes
<1>6. CASE Voices!SendLoad \/ Voices!SendWait \/ Voices!SendDrop
  <2>1. Goes({"load", "wait", "drop", "sent"}) \/ Over
    BY <1>1, <1>6, SendGoes, SendDropDoes DEF Goes
  <2>2. UNCHANGED <<source, active>>
    BY <1>1, <1>6, SendGoes, SendDropDoes DEF StillOp
  <2>3. ASSUME Goes({"load", "wait", "drop", "sent"}) PROVE CallKnows'
    BY <2>2, <2>3, GoesKnows, LaterIs DEF Goes
  <2>4. ASSUME Over PROVE CallKnows'
    BY <2>4, IdleIs, IdleKnows DEF Over
  <2> QED BY <2>1, <2>3, <2>4
<1>7. CASE Voices!SeekOld
  <2>1. CASE Over
    BY <2>1, IdleIs, IdleKnows DEF Over
  <2>2. CASE Goes({"new"}) /\ voice[op.change.old].sid = Voices!NoSource /\ op.call = "seek" /\ StillOp
    BY <1>1, <2>2 DEF Goes, StillOp, CallKnows
  <2> QED BY <1>1, <1>7, <2>1, <2>2, SendGoes
<1>8. CASE Voices!SeekNew \/ Voices!SeekLast
  <2>1. CASE Over
    BY <2>1, IdleIs, IdleKnows DEF Over
  <2>2. CASE Goes(Later) /\ op.pc \in Later /\ StillOp
    BY <1>1, <2>2, GoesKnows DEF Goes, StillOp
  <2> QED BY <1>1, <1>8, <2>1, <2>2, SendGoes DEF Goes
<1> QED BY <1>2, <1>3, <1>4, <1>5, <1>6, <1>7, <1>8 DEF Voices!CallGoesOn

LEMMA KnowsNext == ASSUME Whole, ~Voices!TakesItsOwn, Voices!Next PROVE CallKnows'
  BY BeginKnows, GoesOnKnows, KnowsMix DEF Voices!Next

-----------------------------------------------------------------------------
(* A device that is gone.                                                  *)
LEMMA WhereLost ==
  ASSUME Whole
  PROVE  /\ reset # "no" => mix.pc = "off"
         /\ Lost => mix.pc \in {"gone, voices", "off"}
<1>1. InPhase
  BY DEF Whole, Always
<1>2. mix.pc \in {"idle", "off", "gone, changes", "changes", "gone", "gone, voices"} \/ Sweeping
  BY MixFields DEF Whole, Always, Sweeping
<1> QED BY <1>1, <1>2 DEF InPhase, Lost

LEMMA GoneBegins ==
  ASSUME Whole, op.pc = "idle", Elsewhere, \A w \in Voices!Voices : voice'[w].sid = voice[w].sid,
         op'.pc \in {"idle", "loop", "start", "seek", "append"},
         StopOnDisconnect /\ reset = "connect" =>
           op'.pc \notin {"start", "seek"} /\ (op'.pc = "append" => op'.change.v = Voices!NoVoice)
  PROVE  GoneIsLetGo'
<1>1. GoneIsLetGo
  BY DEF Whole, Always
<1>2. op'.pc \in Sends => op'.pc = "append"
  BY LaterIs DEF Sends
<1>3. (Lost' <=> Lost) /\ Positions' = Positions
  BY DEF Lost, Elsewhere, Positions
<1> QED BY <1>1, <1>2, <1>3 DEF GoneIsLetGo, Elsewhere

LEMMA GoneGoes ==
  ASSUME Whole, Elsewhere, \A w \in Voices!Voices : voice'[w].sid \in {voice[w].sid, Voices!NoSource},
         op.pc \notin {"append", "load", "drop"},
         op'.pc \notin {"start", "seek", "append", "load", "drop"},
         op'.pc \in Sends => op.pc \in Sends /\ op'.change = op.change
  PROVE  GoneIsLetGo'
<1>1. GoneIsLetGo
  BY DEF Whole, Always
<1>2. (Lost' <=> Lost) /\ Positions' = Positions
  BY DEF Lost, Elsewhere, Positions
<1> QED BY <1>1, <1>2 DEF GoneIsLetGo, Elsewhere

LEMMA GoneCall == ASSUME Whole, Voices!Call PROVE GoneIsLetGo'
<1>1. Typed /\ InBounds /\ Sound /\ InPhase /\ GoneIsLetGo
  BY DEF Whole, Always, Sound
<1>a. \A w : \A v : Marks(v) => (w \in Voices!Voices => voice'[w].sid = voice[w].sid)
  BY DEF Marks
<1>b. ASSUME StopOnDisconnect, reset = "connect"
      PROVE  ~connected /\ \A s \in Source : ~Voices!HasVoice(s)
  <2>1. ~connected /\ \A v \in Voices!Voices : voice[v].sid = Voices!NoSource
    BY <1>1, <1>b DEF InPhase, GoneIsLetGo
  <2>2. ASSUME NEW s \in Source, Voices!HasVoice(s) PROVE FALSE
    <3>1. source[s].vidx \in Voices!Voices
      BY <1>1, <2>2, SourceBounds, MaybeIs DEF Voices!HasVoice, Voices!NoVoice
    <3> QED BY <2>1, <2>2, <3>1, VoicesAssumptions DEF Voices!HasVoice
  <2> QED BY <2>1, <2>2
<1>2. CASE Voices!alGenSources
  BY <1>1, <1>2, GenDoes, GoneBegins
<1>3. ASSUME NEW s \in Source, Voices!alSourceQueueBuffers(s) PROVE GoneIsLetGo'
  BY <1>1, <1>3, QueueDoes, GoneBegins
<1>4. ASSUME NEW s \in Source, Voices!alSourceUnqueueBuffers(s) PROVE GoneIsLetGo'
  BY <1>1, <1>4, UnqueueDoes, GoneBegins
<1>5. ASSUME NEW s \in Source, Voices!SetBuffer(s) PROVE GoneIsLetGo'
  BY <1>1, <1>5, SetBufferDoes, GoneBegins
<1>6. ASSUME NEW s \in Source, Voices!PauseLook(s) PROVE GoneIsLetGo'
  <2>1. op'.pc \in {"idle", "append"} /\ (op'.pc = "append" => Voices!HasVoice(s))
    <3>1. CASE op' = Voices!Idle
      BY <3>1, IdleIs
    <3>2. CASE Sending("pause", "Pause", s, source[s].vidx, Voices!NoVoice) /\ Voices!HasVoice(s)
      BY <3>2 DEF Sending
    <3> QED BY <1>1, <1>6, <3>1, <3>2, PauseLookDoes
  <2> QED BY <1>1, <1>b, <1>6, <2>1, PauseLookDoes, GoneBegins
<1>7. ASSUME NEW s \in Source, Voices!StopLook(s) PROVE GoneIsLetGo'
  <2>1. op'.pc \in {"idle", "append"} /\ (op'.pc = "append" => Voices!HasVoice(s))
    <3>1. CASE op' = Voices!Idle
      BY <3>1, IdleIs
    <3>2. CASE Sending("stop", "Stop", s, source[s].vidx, Voices!NoVoice) /\ Voices!HasVoice(s)
      BY <3>2 DEF Sending
    <3> QED BY <1>1, <1>7, <3>1, <3>2, StopLookDoes
  <2>2. \A w \in Voices!Voices : voice'[w].sid = voice[w].sid
    BY <1>1, <1>a, <1>7, StopLookDoes
  <2>3. op.pc = "idle" /\ Elsewhere
    BY <1>1, <1>7, StopLookDoes
  <2> QED BY <1>b, <2>1, <2>2, <2>3, GoneBegins
<1>8. ASSUME NEW s \in Source, Voices!RewindLook(s) PROVE GoneIsLetGo'
  <2>1. op'.pc \in {"idle", "append"} /\ (op'.pc = "append" => op'.change.v = Voices!GetSourceVoice(s))
    <3>1. CASE op' = Voices!Idle
      BY <3>1, IdleIs
    <3>2. CASE Sending("rewind", "Reset", s, Voices!GetSourceVoice(s), Voices!NoVoice)
      BY <3>2 DEF Sending
    <3> QED BY <1>1, <1>8, <3>1, <3>2, RewindLookDoes
  <2>2. \A w \in Voices!Voices : voice'[w].sid = voice[w].sid
    BY <1>1, <1>a, <1>8, RewindLookDoes
  <2>3. op.pc = "idle" /\ Elsewhere
    BY <1>1, <1>8, RewindLookDoes
  <2>4. ~Voices!HasVoice(s) => Voices!GetSourceVoice(s) = Voices!NoVoice
    BY DEF Voices!GetSourceVoice
  <2> QED BY <1>b, <2>1, <2>2, <2>3, <2>4, GoneBegins
<1>9. ASSUME NEW s \in Source, Voices!DeleteLook(s) PROVE GoneIsLetGo'
  <2>1. op'.pc \in {"idle", "append"} /\ (op'.pc = "append" => Voices!HasVoice(s))
    <3>1. CASE op' = Voices!Idle
      BY <3>1, IdleIs
    <3>2. CASE Sending("delete", "Stop", s, source[s].vidx, Voices!NoVoice) /\ Voices!HasVoice(s)
      BY <3>2 DEF Sending
    <3> QED BY <1>1, <1>9, <3>1, <3>2, DeleteLookDoes
  <2>2. \A w \in Voices!Voices : voice'[w].sid = voice[w].sid
    BY <1>1, <1>a, <1>9, DeleteLookDoes
  <2>3. op.pc = "idle" /\ Elsewhere
    BY <1>1, <1>9, DeleteLookDoes
  <2> QED BY <1>b, <2>1, <2>2, <2>3, GoneBegins
<1>10. ASSUME NEW s \in Source, Voices!SeekLook(s) PROVE GoneIsLetGo'
  BY <1>1, <1>b, <1>10, SeekLookDoes, GoneBegins
<1>11. ASSUME NEW s \in Source, Voices!LoopLook(s) PROVE GoneIsLetGo'
  <2>1. op'.pc \in {"idle", "loop"}
    BY <1>1, <1>11, LoopLookDoes, IdleIs
  <2> QED BY <1>1, <1>11, <2>1, LoopLookDoes, GoneBegins
<1>12. ASSUME NEW s \in Source, Voices!PlayLook(s) PROVE GoneIsLetGo'
  <2>1. op'.pc \in {"idle", "append", "start"}
        /\ (op'.pc # "idle" => connected \/ ~StopOnDisconnect)
    <3>1. CASE Sending("play", "Play", s, source[s].vidx, Voices!NoVoice)
      <4>1. op'.pc = "append"
        BY <3>1 DEF Sending
      <4> QED BY <1>1, <1>12, <4>1, PlayLookDoes
    <3> QED BY <1>1, <1>12, <3>1, PlayLookDoes
  <2>2. \A w \in Voices!Voices : voice'[w].sid = voice[w].sid
    BY <1>1, <1>a, <1>12, PlayLookDoes
  <2>3. op.pc = "idle" /\ Elsewhere
    BY <1>1, <1>12, PlayLookDoes
  <2> QED BY <1>b, <2>1, <2>2, <2>3, GoneBegins
<1> QED BY <1>2, <1>3, <1>4, <1>5, <1>6, <1>7, <1>8, <1>9, <1>10, <1>11, <1>12,
           VoicesAssumptions DEF Voices!Call

(* A voice that is given out is in the change of its call.                 *)
LEMMA GoneGives ==
  ASSUME Whole, Elsewhere, op.pc \in {"start", "seek"}, NEW v \in Voices!Voices,
         \A w \in Voices!Voices : w # v => voice'[w].sid = voice[w].sid,
         op'.pc = "append", op'.change.v = v
  PROVE  GoneIsLetGo'
<1>1. GoneIsLetGo
  BY DEF Whole, Always
<1>2. (Lost' <=> Lost) /\ Positions' = Positions
  BY DEF Lost, Elsewhere, Positions
<1> QED BY <1>1, <1>2 DEF GoneIsLetGo, Elsewhere

LEMMA GoneGoesOn == ASSUME Whole, ~Voices!TakesItsOwn, Voices!CallGoesOn PROVE GoneIsLetGo'
<1>1. Typed /\ InBounds /\ CallKnows /\ InPhase /\ GoneIsLetGo
  BY DEF Whole, Always
<1>2. CASE Voices!PlayStart
  <2>1. PICK s \in Source, v \in Voices!Voices :
           /\ op.pc = "start" /\ Others(v)
           /\ Sending("play", "Play", s, v, op.old) /\ Elsewhere
    BY <1>1, <1>2, PlayStartDoes
  <2>2. op'.pc = "append" /\ op'.change.v = v
    BY <2>1 DEF Sending
  <2> QED BY <2>1, <2>2, GoneGives DEF Others
<1>3. CASE Voices!SeekStart
  <2>1. PICK s \in Source, v \in Voices!Voices :
           /\ op.pc = "seek"
           /\ op.old \in Voices!Voices
           /\ voice'[op.old] = [voice[op.old] EXCEPT !.change = TRUE]
           /\ \A w \in Voices!Voices : w # v /\ w # op.old => voice'[w] = voice[w]
           /\ Sending("seek", "Restart", s, v, op.old) /\ Elsewhere
    BY <1>1, <1>3, SeekStartDoes
  <2>2. op'.pc = "append" /\ op'.change.v = v
    BY <2>1 DEF Sending
  <2>3. voice'[op.old].sid = voice[op.old].sid
    <3>1. voice[op.old] \in VoiceRecords
      BY <1>1, <2>1 DEF Typed
    <3> QED BY <2>1, <3>1 DEF VoiceRecords
  <2>4. \A w \in Voices!Voices : w # v => voice'[w].sid = voice[w].sid
    BY <2>1, <2>3
  <2>5. Elsewhere /\ op.pc = "seek"
    BY <2>1
  <2> QED BY <2>2, <2>4, <2>5, GoneGives
<1>4. CASE Voices!LoopStore
  <2>1. op.pc = "loop" /\ op'.pc = "looped" /\ Elsewhere
        /\ \A w \in Voices!Voices : voice'[w].sid = voice[w].sid
    BY <1>1, <1>4, LoopStoreDoes
  <2> QED BY <2>1, LaterIs, GoneGoes DEF Sends
<1>5. ASSUME op.pc \notin {"append", "load", "drop"}, Elsewhere, UNCHANGED voice,
             Over \/ Goes({"sent"} \cup Later), Over \/ op.pc \in Sends
      PROVE  GoneIsLetGo'
  <2>1. Over => op'.pc = "idle"
    BY IdleIs DEF Over
  <2>2. op'.pc \in {"idle", "sent"} \cup Later
    BY <1>5, <2>1 DEF Goes
  <2>3. op'.pc \notin {"start", "seek", "append", "load", "drop"}
    BY <2>2, LaterIs
  <2>4. op'.pc \in Sends => op.pc \in Sends /\ op'.change = op.change
    BY <1>5, <2>1, LaterIs DEF Sends, Goes
  <2> QED BY <1>5, <2>3, <2>4, GoneGoes
<1>6. CASE Voices!SeekFails \/ Voices!LoopWait \/ Voices!SendWait \/ Voices!SeekOld \/ Voices!SeekNew \/ Voices!SeekLast
  <2>1. StillOp /\ op.pc \notin {"append", "load", "drop"} /\ (Over \/ op.pc \in Sends)
    BY <1>1, <1>6, SendGoes, LaterIs DEF Sends
  <2>2. Over \/ Goes({"sent"} \cup Later)
    BY <1>1, <1>6, SendGoes, LaterIs DEF Goes
  <2> QED BY <1>5, <2>1, <2>2 DEF StillOp
<1>7. CASE Voices!PauseEnds \/ Voices!DeleteEnds
  <2>1. op.pc = "sent" /\ Over /\ UNCHANGED voice /\ Elsewhere
    BY <1>1, <1>7, PauseEndsDoes, DeleteEndsDoes
  <2> QED BY <1>5, <2>1
<1>8. CASE Voices!SeekLetGo
  <2>1. PICK v \in Voices!Voices :
           /\ op.pc = "let go" /\ Over /\ Others(v) /\ Elsewhere
           /\ UNCHANGED voice \/ voice'[v].sid = Voices!NoSource
    BY <1>1, <1>8, SeekLetGoDoes
  <2>2. op'.pc = "idle"
    BY <2>1, IdleIs DEF Over
  <2> QED BY <2>1, <2>2, LaterIs, GoneGoes DEF Others, Sends
<1>9. CASE Voices!SendAppend
  <2>1. /\ op.pc = "append" /\ op'.pc = "load" /\ op'.change = op.change
        /\ Len(pending') = Len(pending) + 1 /\ Len(pending) \in Nat
        /\ pending'[Len(pending) + 1] = op.change
        /\ \A i \in Positions : pending'[i] = pending[i]
        /\ UNCHANGED <<voice, mix, connected, reset>>
    BY <1>1, <1>9, SendAppendDoes
  <2>2. Positions' = Positions \cup {Len(pending) + 1}
    BY <2>1 DEF Positions
  <2>3. Lost' <=> Lost
    BY <2>1 DEF Lost
  <2>4. "append" \in Sends
    BY DEF Sends
  <2> QED BY <1>1, <2>1, <2>2, <2>3, <2>4 DEF GoneIsLetGo
<1>10. CASE Voices!SendLoad
  <2>1. /\ op.pc = "load" /\ op'.change = op.change /\ StillOp
        /\ op'.pc = IF connected \/ ~StopOnDisconnect THEN "wait" ELSE "drop"
    BY <1>1, <1>10, SendGoes DEF Goes
  <2>2. (Lost' <=> Lost) /\ Positions' = Positions
    BY <2>1 DEF Lost, StillOp, Elsewhere, Positions
  <2>3. "load" \in Sends
    BY DEF Sends
  <2>4. op'.pc = "drop" => StopOnDisconnect /\ (Lost \/ reset = "connect")
    BY <2>1, VoicesAssumptions DEF Lost
  <2>5. Lost => op'.pc = "drop"
    BY <2>1 DEF Lost
  <2> QED BY <1>1, <2>1, <2>2, <2>3, <2>4, <2>5 DEF GoneIsLetGo, StillOp, Elsewhere
<1>11. CASE Voices!SendDrop
  <2>1. /\ op.pc = "drop" /\ pending' = <<>> /\ (Goes({"sent"}) \/ Over)
        /\ \A w \in Voices!Voices :
             voice'[w].sid = IF \E i \in Positions : pending[i].v = w THEN Voices!NoSource ELSE voice[w].sid
        /\ UNCHANGED <<mix, connected, reset>>
    BY <1>1, <1>11, SendDropDoes
  <2>2. op'.pc \in {"sent", "idle"} /\ (op'.pc = "sent" => op'.change = op.change)
    <3>1. Over => op'.pc = "idle"
      BY IdleIs DEF Over
    <3> QED BY <2>1, <3>1 DEF Goes
  <2>3. (Lost' <=> Lost) /\ Positions' = {}
    BY <2>1 DEF Lost, Positions
  <2>4. "drop" \in Sends /\ "idle" \notin Sends
    BY LaterIs DEF Sends
  <2> QED BY <1>1, <2>1, <2>2, <2>3, <2>4 DEF GoneIsLetGo
<1> QED BY <1>2, <1>3, <1>4, <1>6, <1>7, <1>8, <1>9, <1>10, <1>11 DEF Voices!CallGoesOn

LEMMA GoneConnected ==
  ASSUME Whole, connected, reset = "no", connected', reset' = "no", UNCHANGED op
  PROVE  GoneIsLetGo'
  BY DEF Whole, Always, GoneIsLetGo, Lost

LEMMA GoneMix == ASSUME Whole, Voices!Mix \/ Voices!Device PROVE GoneIsLetGo'
<1>1. Typed /\ InPhase /\ GoneIsLetGo /\ (~Lost => Kept)
  BY DEF Whole, Always
<1>2. UNCHANGED <<source, active, op>>
  BY MixStill
<1>0. Voices!Voices \subseteq Int /\ \A v \in Voices!Voices : 1 <= v
  BY VoicesAssumptions DEF Voices!Voices
<1>3. CASE /\ Voices!MixBegin \/ Voices!ChangesDone \/ Voices!MixSkip \/ Voices!MixLoad \/ Voices!MixFaded \/ Voices!MixStore \/ Voices!MixEnded
              \/ Voices!MixEnd \/ Voices!Disconnect \/ Voices!Halt \/ Voices!Start
  <2>1. UNCHANGED <<connected, reset>>
    BY <1>3 DEF Voices!MixBegin, Voices!ChangesDone, Voices!MixSkip, Voices!MixLoad,
        Voices!MixFaded, Voices!MixStore, Voices!MixEnded, Voices!MixEnd,
       Voices!Disconnect, Voices!Halt, Voices!Start, Voices!Calls
  <2>2. connected /\ reset = "no"
    BY <1>1, <1>3 DEF Voices!MixBegin, Voices!ChangesDone, Voices!MixSkip, Voices!MixLoad,
        Voices!MixFaded, Voices!MixStore, Voices!MixEnded, Voices!MixEnd,
       Voices!Disconnect, Voices!Halt, Voices!Start, InPhase, Sweeping
  <2> QED BY <1>2, <2>1, <2>2, GoneConnected
<1>4. CASE Voices!ProcessChange
  <2>1. UNCHANGED <<connected, reset>>
    BY <1>4, ProcessDoes
  <2>2. CASE mix.pc = "changes"
    BY <1>1, <1>2, <2>1, <2>2, GoneConnected DEF InPhase
  <2>3. CASE mix.pc = "gone, changes"
    <3>1. ~StopOnDisconnect
      BY <1>1, <2>3 DEF InPhase
    <3> QED BY <1>1, <1>2, <3>1 DEF GoneIsLetGo, Lost
  <2> QED BY <1>4, <2>2, <2>3 DEF Voices!ProcessChange
<1>5. CASE Voices!Disconnected
  <2>1. /\ mix.pc = "gone" /\ reset = "no" /\ reset' = "no" /\ connected /\ UNCHANGED voice
        /\ StopOnDisconnect => mix' = [pc |-> "gone, voices", v |-> 1, last |-> active]
    BY <1>1, <1>5 DEF Voices!Disconnected, Voices!Calls, InPhase
  <2>2. op.pc # "drop"
    BY <1>1, <2>1 DEF GoneIsLetGo, Lost
  <2>3. StopOnDisconnect => \A v \in Voices!Voices : voice'[v].sid # Voices!NoSource =>
          mix'.pc = "gone, voices" /\ mix'.v <= v /\ v <= mix'.last
    <3>1. BeyondIsFresh /\ active \in Voices!Voices
      BY <1>1, <2>1 DEF Kept, Lost, Typed
    <3> SUFFICES ASSUME StopOnDisconnect, NEW v \in Voices!Voices, voice'[v].sid # Voices!NoSource
                 PROVE  mix'.pc = "gone, voices" /\ mix'.v <= v /\ v <= mix'.last
      OBVIOUS
    <3>2. ~(v > active)
      BY <2>1, <3>1, FreshIs DEF BeyondIsFresh
    <3>3. v \in Int /\ 1 <= v /\ active \in Int
      BY <3>1, VoicesAssumptions DEF Voices!Voices
    <3>4. mix' = [pc |-> "gone, voices", v |-> 1, last |-> active]
      BY <2>1
    <3>5. mix'.pc = "gone, voices" /\ mix'.v = 1 /\ mix'.last = active
      BY <3>4
    <3>6. v <= active
      BY <3>2, <3>3
    <3> QED BY <3>3, <3>5, <3>6
  <2> QED BY <1>2, <2>1, <2>2, <2>3 DEF GoneIsLetGo, Lost
<1>6. CASE Voices!StopVoice
  <2>1. PICK v \in Voices!Voices :
          /\ mix.pc = "gone, voices" /\ mix.v = v /\ Lost
          /\ Others(v) /\ voice'[v].sid = Voices!NoSource
          /\ mix' = Voices!At("gone, voices", v + 1)
          /\ UNCHANGED <<pending, connected, reset>>
    BY <1>6, StopVoiceDoes DEF StillCalls
  <2>2. mix'.pc = "gone, voices" /\ mix'.v = v + 1 /\ mix'.last = mix.last
    BY <2>1 DEF Voices!At
  <2>3. \A w \in Voices!Voices : voice'[w].sid # Voices!NoSource =>
          voice[w].sid # Voices!NoSource /\ (mix.v <= w => v + 1 <= w)
    <3> SUFFICES ASSUME NEW w \in Voices!Voices, voice'[w].sid # Voices!NoSource
                 PROVE  voice[w].sid # Voices!NoSource /\ (mix.v <= w => v + 1 <= w)
      OBVIOUS
    <3>1. w # v /\ voice'[w] = voice[w]
      BY <2>1 DEF Others
    <3>2. v <= w => v + 1 <= w
      BY <1>0, <3>1
    <3> QED BY <2>1, <3>1, <3>2
  <2>4. Lost' /\ Positions' = Positions /\ reset = "no"
    BY <1>1, <2>1 DEF Lost, Positions, InPhase
  <2> QED BY <1>1, <1>2, <2>1, <2>2, <2>3, <2>4 DEF GoneIsLetGo
<1>7. CASE Voices!DisconnectEnds
  <2>1. UNCHANGED <<voice, pending, connected, reset>>
    BY <1>7 DEF Voices!DisconnectEnds, Voices!Calls
  <2>2. (Lost' <=> Lost) /\ Positions' = Positions
    BY <2>1 DEF Lost, Positions
  <2>3. mix.pc = "gone, voices" => mix.v > mix.last /\ mix.v \in Nat /\ mix.last \in Nat
    <3>1. mix.pc = "gone, voices" => mix.v \in 1..(NVoices + 1) /\ mix.last \in Voices!Voices
      BY <1>1, MixFields
    <3>2. mix.pc = "gone, voices" => mix.v > mix.last
      BY <1>7 DEF Voices!DisconnectEnds
    <3>3. 1..(NVoices + 1) \subseteq Nat /\ Voices!Voices \subseteq Nat
      BY VoicesAssumptions DEF Voices!Voices
    <3> QED BY <3>1, <3>2, <3>3
  <2>4. \A v \in Voices!Voices : ~(mix.pc = "gone, voices" /\ mix.v <= v /\ v <= mix.last)
    <3>1. mix.v \in Nat /\ mix.last \in Nat /\ mix.v > mix.last =>
            \A v \in Voices!Voices : ~(mix.v <= v /\ v <= mix.last)
      BY <1>0
    <3> QED BY <2>3, <3>1
  <2> QED BY <1>1, <1>2, <2>1, <2>2, <2>4 DEF GoneIsLetGo
<1>8. CASE Voices!ResetLists
  <2>1. CASE connected
    <3>1. reset = "no" /\ reset' = "prepare" /\ connected'
      BY <1>8, <2>1 DEF Voices!ResetLists
    <3>2. op.pc # "drop"
      BY <1>1, <2>1, <3>1 DEF GoneIsLetGo, Lost
    <3> QED BY <1>2, <3>1, <3>2 DEF GoneIsLetGo, Lost
  <2>2. CASE ~connected /\ StopOnDisconnect
    <3>1. reset' = "connect" /\ pending' = <<>> /\ voice' = [v \in Voices!Voices |-> Voices!Fresh] /\ op.pc = "idle"
      BY <1>8, <2>2 DEF Voices!ResetLists
    <3>2. Positions' = {}
      BY <3>1 DEF Positions
    <3>4. "idle" \notin Sends
      BY LaterIs DEF Sends
    <3>3. ~Lost'
      BY <3>1 DEF Lost
    <3> QED BY <1>2, <3>1, <3>2, <3>3, <3>4, FreshIs DEF GoneIsLetGo
  <2>3. CASE ~StopOnDisconnect
    BY <1>1, <1>2, <2>3 DEF GoneIsLetGo, Lost
  <2> QED BY <2>1, <2>2, <2>3
<1>9. CASE Voices!ResetConnect
  <2>1. reset = "connect" /\ reset' = "prepare" /\ connected' /\ UNCHANGED <<voice, pending>>
    BY <1>9 DEF Voices!ResetConnect
  <2>2. ~Lost /\ ~Lost' /\ Positions' = Positions
    BY <2>1 DEF Lost, Positions
  <2> QED BY <1>1, <1>2, <2>1, <2>2 DEF GoneIsLetGo
<1>10. CASE Voices!UpdateDeviceParams
  <2>1. op.pc = "idle" /\ reset' = "no" /\ connected'
    BY <1>1, <1>10 DEF Voices!UpdateDeviceParams, InPhase
  <2> QED BY <1>2, <2>1 DEF GoneIsLetGo, Lost
<1> QED BY <1>3, <1>4, <1>5, <1>6, <1>7, <1>8, <1>9, <1>10 DEF Voices!Mix, Voices!Device

LEMMA AlwaysNext == ASSUME Whole, ~Voices!TakesItsOwn, Voices!Next PROVE Always'
<1>1. GoneIsLetGo'
  BY GoneCall, GoneGoesOn, GoneMix DEF Voices!Next
<1>2. Typed' /\ InBounds'
  BY SoundNext DEF Sound
<1> QED BY <1>1, <1>2, PhaseNext, KnowsNext DEF Always
-----------------------------------------------------------------------------

(* While there is a device: what every step leaves of the changes and of    *)
(* the queues, and that what is hushed stays so while voices only go quiet. *)
LEMMA Present ==
  ASSUME Whole, ~Lost
  PROVE  /\ Typed /\ InBounds /\ InPhase /\ CallKnows /\ Sound /\ Kept
         /\ active \in Voices!Voices /\ active \in Int
         /\ \A i \in Positions : pending[i] \in ChangeRecords /\ ChangeOK(pending[i])
         /\ Len(pending) \in Nat
<1>1. Typed /\ InBounds /\ InPhase /\ CallKnows /\ Sound /\ Kept
  BY DEF Whole, Always, Sound
<1>2. active \in Voices!Voices /\ active \in Int
  BY <1>1, ActiveIs
<1>3. ChangesOK /\ Len(pending) \in Nat /\ \A i \in Positions : pending[i] \in ChangeRecords
  BY <1>1, PlacesTyped DEF Kept
<1> QED BY <1>1, <1>2, <1>3 DEF ChangesOK

LEMMA PendingSame ==
  ASSUME UNCHANGED pending
  PROVE  Positions' = Positions /\ \A w : EndPending(w)' <=> EndPending(w)
  BY DEF Positions, EndPending

LEMMA StaysLost ==
  ASSUME Elsewhere
  PROVE  (Lost' <=> Lost) /\ (Sweeping' <=> Sweeping) /\ (Sweeping => mix' = mix)
  BY DEF Elsewhere, Lost, Sweeping

(* A voice that is heard is the voice of its source.                       *)
LEMMA Heard ==
  ASSUME Whole, ~Lost, op.pc \notin {"start", "append", "load", "wait"},
         NEW w \in Voices!Voices, voice[w].sid # Voices!NoSource, Sweeping \/ ~EndPending(w)
  PROVE  /\ voice[w].sid \in Source /\ ~voice[w].change /\ source[voice[w].sid].vidx = w
         /\ Voices!HasVoice(voice[w].sid) /\ w <= active /\ InQueue(w, voice[w].sid)
<1>1. Typed /\ Kept /\ active \in Int
  BY Present
<1>2. voice[w].sid \in Source
  BY <1>1, VoiceFields DEF Sids
<1>3. Sweeping => pending = <<>>
  BY <1>1 DEF Kept, WaitsForMix
<1>4. ~EndPending(w)
  BY <1>3 DEF EndPending, Positions
<1>5. ~voice[w].change
  BY <1>1, <1>4 DEF Kept, ChangeIsAhead, Ahead
<1>6. source[voice[w].sid].vidx = w
  BY <1>1, <1>5 DEF Kept, VoiceIsKnown
<1>7. w <= active
  <2>1. w \in Int
    BY VoicesAssumptions DEF Voices!Voices
  <2>2. ~(w > active)
    BY <1>1, FreshIs DEF Kept, BeyondIsFresh
  <2> QED BY <1>1, <2>1, <2>2
<1>8. Voices!HasVoice(voice[w].sid)
  <2>1. w \in 1..active
    BY <1>1, <1>7, VoicesAssumptions DEF Voices!Voices
  <2> QED BY <1>2, <1>6, <2>1 DEF Voices!HasVoice
<1> QED BY <1>1, <1>2, <1>5, <1>6, <1>7, <1>8 DEF Kept, ItemIsQueued

(* A queue from a voice's item on, or all of it when the source loops.     *)
QueueStays(w, s) ==
  /\ MayLoop(s) => MayLoop(s)' /\ Voices!Queue(s) \subseteq Voices!Queue(s)'
  /\ \A j \in Voices!Queue(s) : j[2] >= voice[w].buffer[2] => j \in Voices!Queue(s)'
KeepsItem(w) == voice'[w].buffer = voice[w].buffer /\ voice'[w].loop = voice[w].loop

LEMMA InQueueStays ==
  ASSUME Typed, NEW w \in Voices!Voices, NEW s \in Source, InQueue(w, s), QueueStays(w, s), KeepsItem(w)
  PROVE  InQueue(w, s)'
<1>1. PICK j \in Voices!Playable(s) : j[2] >= voice[w].buffer[2]
  BY DEF InQueue
<1>2. voice[w].buffer \in Voices!Queue(s)
  BY DEF InQueue
<1>3. j \in Voices!Queue(s) /\ j \notin Empty
  BY <1>1 DEF Voices!Playable
<1>4. voice[w].buffer[2] \in Nat
  BY <1>2, QueueIs
<1>5. voice[w].buffer \in Voices!Queue(s)' /\ j \in Voices!Queue(s)'
  BY <1>1, <1>2, <1>3, <1>4 DEF QueueStays
<1>6. j \in Voices!Playable(s)'
  BY <1>3, <1>5 DEF Voices!Playable
<1>7. voice'[w].buffer \in Voices!Queue(s)' /\ \E i \in Voices!Playable(s)' : i[2] >= voice'[w].buffer[2]
  BY <1>1, <1>5, <1>6 DEF KeepsItem
<1>8. voice'[w].loop # Voices!NoItem => voice'[w].loop \in Voices!Queue(s)' /\ MayLoop(s)'
  BY DEF InQueue, QueueStays, KeepsItem
<1> QED BY <1>7, <1>8 DEF InQueue

LEMMA QueueSame ==
  ASSUME NEW s, source'[s] = source[s], op.pc # "loop" \/ op.s # s \/ UNCHANGED op
  PROVE  Voices!Queue(s)' = Voices!Queue(s) /\ Voices!Playable(s)' = Voices!Playable(s) /\ \A w : QueueStays(w, s)
<1>1. Voices!Queue(s)' = Voices!Queue(s)
  BY DEF Voices!Queue
<1>2. Voices!Playable(s)' = Voices!Playable(s)
  BY <1>1 DEF Voices!Playable
<1>3. MayLoop(s) => MayLoop(s)'
  BY DEF MayLoop
<1> QED BY <1>1, <1>2, <1>3 DEF QueueStays

(* Voices only go quiet.                                                   *)
Dims ==
  /\ UNCHANGED pending
  /\ \A w \in Voices!Voices :
       /\ voice'[w].sid \in {voice[w].sid, Voices!NoSource}
       /\ voice'[w].play = "Playing" => voice[w].play = "Playing"

LEMMA DimsWakes ==
  ASSUME Whole, ~Lost, Dims, NEW i \in Positions, NEW w, Wakes(pending[i], w)'
  PROVE  Wakes(pending[i], w)
<1>1. pending[i] \in ChangeRecords /\ ChangeOK(pending[i])
  BY Present
<1>2. CASE Restarts(pending[i], w)
  <2>1. pending[i].old \in Voices!Voices
    <3>1. pending[i].old # Voices!NoVoice
      BY <1>1, <1>2 DEF ChangeOK, Restarts
    <3> QED BY <1>1, <3>1, ChangeFields
  <2> QED BY <1>2, <2>1 DEF Wakes, Dims, Plays, Restarts
<1>3. CASE ~Restarts(pending[i], w)
  BY <1>3 DEF Wakes, Dims, Plays, Restarts
<1> QED BY <1>2, <1>3

LEMMA DimsHushed ==
  ASSUME Whole, ~Lost, Dims
  PROVE  /\ \A s \in Source : Hushed(s) => Hushed(s)'
         /\ \A v \in Voices!Voices : Asleep(v) => Asleep(v)'
<1>1. Positions' = Positions /\ UNCHANGED pending
  BY PendingSame DEF Dims
<1>2. ASSUME NEW s \in Source, Hushed(s) PROVE Hushed(s)'
  <2>1. CASE Quiet(s)
    <3>1. NotPlayed(s, 0)'
      BY <1>1, <2>1 DEF Quiet, NotPlayed
    <3>2. \A w \in Voices!Voices : voice'[w].sid = s => voice'[w].play # "Playing"
      BY <2>1, VoicesAssumptions DEF Quiet, Dims
    <3>3. Quiet(s)'
      BY <3>1, <3>2 DEF Quiet
    <3> QED BY <3>3 DEF Hushed
  <2>2. CASE \E k \in Positions : PausedAt(s, k)
    <3>1. PICK k \in Positions : PausedAt(s, k)
      BY <2>2
    <3>2. /\ pending'[k].state = "Pause" /\ pending'[k].s = s /\ NotPlayed(s, k)'
      BY <1>1, <3>1 DEF PausedAt, NotPlayed
    <3>3. ASSUME NEW w \in Voices!Voices, voice'[w].sid = s, w # pending'[k].v
          PROVE  \/ \E i \in Positions' : i < k /\ Ends(pending'[i], w)
                 \/ /\ voice'[w].play # "Playing"
                    /\ \A i \in Positions' : i < k => ~Wakes(pending[i], w)'
      <4>1. voice[w].sid = s /\ w # pending[k].v
        BY <1>1, <3>3, VoicesAssumptions DEF Dims
      <4>2. CASE \E i \in Positions : i < k /\ Ends(pending[i], w)
        BY <1>1, <4>2
      <4>3. CASE voice[w].play # "Playing" /\ \A i \in Positions : i < k => ~Wakes(pending[i], w)
        <5>1. voice'[w].play # "Playing"
          BY <4>3 DEF Dims
        <5>2. \A i \in Positions : i < k => ~Wakes(pending[i], w)'
          BY <4>3, DimsWakes
        <5> QED BY <1>1, <5>1, <5>2
      <4> QED BY <3>1, <4>1, <4>2, <4>3 DEF PausedAt
    <3>4. PausedAt(s, k)'
      BY <3>2, <3>3 DEF PausedAt
    <3> QED BY <1>1, <3>1, <3>4 DEF Hushed
  <2> QED BY <1>2, <2>1, <2>2 DEF Hushed
<1>3. ASSUME NEW v \in Voices!Voices, Asleep(v) PROVE Asleep(v)'
  <2>1. voice'[v].play # "Playing"
    BY <1>3 DEF Asleep, Dims
  <2>2. \A i \in Positions : ~Wakes(pending[i], v)'
    BY <1>3, DimsWakes DEF Asleep
  <2> QED BY <1>1, <2>1, <2>2 DEF Asleep
<1> QED BY <1>2, <1>3
-----------------------------------------------------------------------------

(* A call that begins, or ends, at source s finds no other change under     *)
(* way.  v is the voice it marks.                                          *)
Begins(s, v) ==
  /\ op.pc \in {"idle", "sent"}
  /\ op.pc = "sent" /\ op.call = "delete" =>
       s = op.change.s /\ source'[s].vidx = Voices!NoVoice /\ v = Voices!NoVoice
  /\ Elsewhere /\ active' \in Voices!Voices /\ active <= active'
  /\ \A u \in Source : u # s => source'[u] = source[u]
  /\ Marks(v)
  /\ v # Voices!NoVoice => Voices!HasVoice(s) /\ v = source[s].vidx
  /\ source'[s].vidx \in {source[s].vidx, Voices!NoVoice}
  /\ Voices!HasVoice(s) /\ ~voice[source[s].vidx].change =>
       /\ QueueStays(source[s].vidx, s)
       /\ v = Voices!NoVoice => /\ source'[s].vidx = source[s].vidx
                                /\ source'[s].state \in {"PLAYING", "PAUSED"}
  /\ source'[s].state = "PAUSED" => source[s].state = "PAUSED" \/ Hushed(s)
  /\ op'.pc \notin {"looped", "load", "wait", "drop", "sent"} \cup Later
  /\ \A w \in Voices!Voices : Ahead(w)' <=> w = v
  /\ v = source'[s].vidx /\ v # Voices!NoVoice =>
       \/ op'.pc = "start" /\ op'.s = s
       \/ op'.pc = "append" /\ op'.call = "delete" /\ op'.change.s = s
  /\ op'.pc = "append" =>
       /\ ChangeOK(op.change)'
       /\ op'.change.state \in {"Play", "Restart"} =>
            /\ op'.change.state = "Play" /\ op'.change.s \in Source
            /\ ~voice'[op'.change.v].change /\ source[op'.change.s].state = "PAUSED"
  /\ CallIsRight'

LEMMA BeginsIs ==
  ASSUME Whole, ~Lost, NEW s \in Source, NEW v \in MaybeVoice, Begins(s, v)
  PROVE  /\ UNCHANGED pending /\ Positions' = Positions /\ (\A w : EndPending(w)' <=> EndPending(w))
         /\ (Sweeping' <=> Sweeping) /\ mix' = mix
         /\ \A w \in Voices!Voices : voice[w].change <=> EndPending(w)
         /\ \A u \in Source : Voices!HasVoice(u) =>
              \/ ~voice[source[u].vidx].change
              \/ u = s /\ source'[s].vidx = Voices!NoVoice /\ v = Voices!NoVoice
         /\ \A w \in Voices!Voices :
              /\ voice'[w].sid = voice[w].sid /\ voice'[w].play = voice[w].play
              /\ KeepsItem(w)
              /\ (voice'[w].change <=> voice[w].change \/ w = v)
         /\ v # Voices!NoVoice => v \in Voices!Voices /\ ~voice[v].change /\ voice[v].sid = s
<1>1. Kept /\ Typed
  BY Present
<1>2. UNCHANGED pending /\ Positions' = Positions /\ (\A w : EndPending(w)' <=> EndPending(w))
  BY PendingSame DEF Begins, Elsewhere
<1>3. (Sweeping' <=> Sweeping) /\ mix' = mix
  BY StaysLost DEF Begins, Elsewhere
<1>4. \A w \in Voices!Voices : voice[w].change <=> EndPending(w)
  BY <1>1 DEF Begins, Kept, ChangeIsAhead, Ahead
<1>5. \A u \in Source : Voices!HasVoice(u) =>
        \/ ~voice[source[u].vidx].change
        \/ u = s /\ source'[s].vidx = Voices!NoVoice /\ v = Voices!NoVoice
  BY <1>1 DEF Begins, Kept, EndIsByCall
<1>6. \A w \in Voices!Voices :
        /\ voice'[w].sid = voice[w].sid /\ voice'[w].play = voice[w].play
        /\ KeepsItem(w)
        /\ (voice'[w].change <=> voice[w].change \/ w = v)
  BY DEF Begins, Marks, KeepsItem
<1>7. v # Voices!NoVoice => v \in Voices!Voices /\ ~voice[v].change /\ voice[v].sid = s
  BY <1>5, MaybeIs DEF Begins, Voices!HasVoice
<1> QED BY <1>2, <1>3, <1>4, <1>5, <1>6, <1>7

LEMMA BeginsChanges ==
  ASSUME Whole, ~Lost, NEW s \in Source, NEW v \in MaybeVoice, Begins(s, v)
  PROVE  ChangeIsAhead' /\ EndsOnce' /\ EndIsLast' /\ RestartIsFirst' /\ ChangesOK'
<1>1. Kept /\ Typed
  BY Present
<1>2. UNCHANGED pending /\ Positions' = Positions /\ (\A w : EndPending(w)' <=> EndPending(w))
  BY BeginsIs
<1>3. \A w \in Voices!Voices : Ahead(w)' <=> w = v
  BY DEF Begins
<1>4. \A w \in Voices!Voices : voice'[w].sid = voice[w].sid /\ voice'[w].play = voice[w].play
  BY BeginsIs
<1>5. ChangeIsAhead'
  <2>1. \A w \in Voices!Voices : voice'[w].change <=> EndPending(w)' \/ Ahead(w)'
    BY <1>2, <1>3, BeginsIs
  <2> QED BY <2>1 DEF ChangeIsAhead
<1>6. EndsOnce'
  <2>1. \A w \in Voices!Voices : Ahead(w)' => ~EndPending(w)'
    BY <1>2, <1>3, BeginsIs, MaybeIs
  <2>2. \A w \in Voices!Voices : \A i, j \in Positions' : Ends(pending'[i], w) /\ Ends(pending'[j], w) => i = j
    BY <1>1, <1>2 DEF Kept, EndsOnce
  <2> QED BY <2>1, <2>2 DEF EndsOnce
<1>7. EndIsLast'
  <2>1. \A w \in Voices!Voices : \A i, j \in Positions' :
          Ends(pending'[i], w) /\ (Plays(pending'[j], w) \/ Restarts(pending'[j], w)) => j < i
    BY <1>1, <1>2 DEF Kept, EndIsLast
  <2>2. op'.pc = "append" /\ op'.change.state \in {"Play", "Restart"} => ~voice'[op'.change.v].change
    BY DEF Begins
  <2> QED BY <2>1, <2>2 DEF EndIsLast
<1>8. \A i \in Positions : pending[i] \in ChangeRecords /\ ChangeOK(pending[i])
  BY Present
<1>9. RestartIsFirst'
  <2>1. ASSUME NEW i \in Positions, NEW j \in Positions, i < j, Restarts(pending[j], pending[i].v)
        PROVE  /\ pending[i].state # "Play"
               /\ pending[i].state = "Restart" => voice'[pending[i].old].sid = Voices!NoSource
    <3>1. /\ pending[i].state # "Play"
          /\ pending[i].state = "Restart" => voice[pending[i].old].sid = Voices!NoSource
      BY <1>1, <2>1 DEF Kept, RestartIsFirst
    <3>2. pending[i].state = "Restart" => pending[i].old \in Voices!Voices
      BY <1>8, ChangeFields DEF ChangeOK
    <3> QED BY <1>4, <3>1, <3>2
  <2> QED BY <1>2, <2>1 DEF RestartIsFirst
<1>10. ChangesOK'
  <2>1. ASSUME NEW i \in Positions PROVE ChangeOK(pending[i])'
    <3> DEFINE c == pending[i]
    <3>1. c \in ChangeRecords /\ ChangeOK(c) /\ pending'[i] = c
      BY <1>2, <1>8
    <3>2. c.v <= active' /\ c.old <= active'
      <4>1. c.v \in Int /\ c.old \in Int /\ active' \in Int /\ active \in Int
        BY <3>1, Present, VoicesAssumptions DEF Begins, Voices!Voices, ChangeRecords,
            MaybeVoice
      <4> QED BY <3>1, <4>1 DEF ChangeOK, Begins
    <3>3. c.state = "Play" => voice'[c.v].sid = c.s
      BY <1>4, <3>1, ChangeFields DEF ChangeOK
    <3>4. c.state = "Restart" =>
            /\ c.old # Voices!NoVoice /\ c.v # c.old
            /\ voice'[c.old].sid # Voices!NoSource => voice'[c.v].sid = c.s /\ voice'[c.v].play = "Pending"
      BY <1>4, <3>1, ChangeFields DEF ChangeOK
    <3>5. \A w \in Voices!Voices : Ends(c, w) => voice'[w].sid \in {c.s, Voices!NoSource}
      BY <1>4, <3>1 DEF ChangeOK
    <3> HIDE DEF c
    <3>6. c.v = Voices!NoVoice => c.state = "Reset"
      BY <3>1 DEF ChangeOK
    <3> QED BY <3>1, <3>2, <3>3, <3>4, <3>5, <3>6 DEF ChangeOK
  <2>2. op'.pc = "append" => ChangeOK(op.change)'
    BY DEF Begins
  <2> QED BY <1>2, <2>1, <2>2 DEF ChangesOK
<1> QED BY <1>5, <1>6, <1>7, <1>9, <1>10

LEMMA BeginsVoices ==
  ASSUME Whole, ~Lost, NEW s \in Source, NEW v \in MaybeVoice, Begins(s, v)
  PROVE  VoiceIsKnown' /\ EndIsByCall' /\ VoiceHasState' /\ BeyondIsFresh'
<1>1. Kept /\ Typed /\ InBounds /\ active \in Int /\ active' \in Int /\ active <= active'
  BY Present, VoicesAssumptions DEF Begins, Voices!Voices
<1>2. \A w \in Voices!Voices :
        /\ voice'[w].sid = voice[w].sid
        /\ (voice'[w].change <=> voice[w].change \/ w = v)
  BY BeginsIs
<1>3. ASSUME NEW u \in Source, Voices!HasVoice(u)'
      PROVE  /\ source'[u].vidx = source[u].vidx /\ Voices!HasVoice(u) /\ source[u].vidx \in Voices!Voices
             /\ ~voice[source[u].vidx].change
  <2>1. source'[u].vidx \in 1..active' /\ voice'[source'[u].vidx].sid = u
    BY <1>3 DEF Voices!HasVoice
  <2>2. source'[u].vidx \in Voices!Voices /\ source'[u].vidx # Voices!NoVoice
    BY <2>1, VoicesAssumptions DEF Begins, Voices!Voices, Voices!NoVoice
  <2>3. source'[u].vidx = source[u].vidx
    BY <2>2 DEF Begins
  <2>4. source[u].vidx \in 1..active
    <3>1. source[u].vidx <= active
      BY <1>1 DEF InBounds
    <3> QED BY <1>1, <2>1, <2>3, <3>1
  <2>5. Voices!HasVoice(u)
    BY <1>2, <2>1, <2>2, <2>3, <2>4 DEF Voices!HasVoice
  <2> QED BY <2>2, <2>3, <2>5, BeginsIs
<1>4. VoiceIsKnown'
  <2>1. ASSUME NEW w \in Voices!Voices, voice'[w].sid # Voices!NoSource, ~voice'[w].change
        PROVE  source'[voice'[w].sid].vidx = w
    <3>1. voice[w].sid # Voices!NoSource /\ ~voice[w].change /\ w # v
      BY <1>2, <2>1
    <3>2. ~EndPending(w) /\ op.pc \notin {"start", "append", "load", "wait"}
      BY <3>1, BeginsIs DEF Begins
    <3>3. /\ voice[w].sid \in Source /\ source[voice[w].sid].vidx = w /\ Voices!HasVoice(voice[w].sid)
      BY <3>1, <3>2, Heard
    <3>4. CASE voice[w].sid = s
      BY <1>2, <3>1, <3>3, <3>4 DEF Begins
    <3>5. CASE voice[w].sid # s
      BY <1>2, <3>3, <3>5 DEF Begins
    <3> QED BY <3>4, <3>5
  <2> QED BY <2>1 DEF VoiceIsKnown
<1>5. EndIsByCall'
  <2>1. ASSUME NEW u \in Source, Voices!HasVoice(u)', voice'[source'[u].vidx].change
        PROVE  \/ op'.pc = "start" /\ op'.s = u
               \/ op'.pc \in {"append", "load", "wait", "sent"} /\ op'.call = "delete" /\ op'.change.s = u
    <3>1. source'[u].vidx = v /\ v # Voices!NoVoice
      BY <1>2, <1>3, <2>1, VoicesAssumptions DEF Voices!Voices, Voices!NoVoice
    <3>2. u = s
      BY <1>3, <2>1, <3>1, BeginsIs DEF Voices!HasVoice
    <3> QED BY <3>1, <3>2 DEF Begins
  <2> QED BY <2>1 DEF EndIsByCall
<1>6. VoiceHasState'
  <2>1. ASSUME NEW u \in Source, Voices!HasVoice(u)', ~voice'[source'[u].vidx].change
        PROVE  source'[u].state \in {"PLAYING", "PAUSED"}
    <3>1. Voices!HasVoice(u) /\ ~voice[source[u].vidx].change /\ source[u].vidx # v
      BY <1>2, <1>3, <2>1
    <3>2. CASE u = s
      BY <3>1, <3>2 DEF Begins
    <3>3. CASE u # s
      BY <1>1, <3>1, <3>3 DEF Begins, Kept, VoiceHasState
    <3> QED BY <3>2, <3>3
  <2> QED BY <2>1 DEF VoiceHasState
<1>7. BeyondIsFresh'
  <2>1. ASSUME NEW w \in Voices!Voices, w > active' PROVE voice'[w] = Voices!Fresh
    <3>1. w > active /\ w \in Int
      BY <1>1, <2>1, VoicesAssumptions DEF Voices!Voices
    <3>2. voice[w] = Voices!Fresh
      BY <1>1, <3>1 DEF Kept, BeyondIsFresh
    <3>3. w # v
      <4>1. w # Voices!NoVoice /\ voice[w].sid = Voices!NoSource
        BY <3>2, FreshIs, VoicesAssumptions DEF Voices!Voices, Voices!NoVoice
      <4> QED BY <4>1, BeginsIs, VoicesAssumptions
    <3> QED BY <3>2, <3>3 DEF Begins, Marks
  <2> QED BY <2>1 DEF BeyondIsFresh
<1> QED BY <1>4, <1>5, <1>6, <1>7

LEMMA BeginsItems ==
  ASSUME Whole, ~Lost, NEW s \in Source, NEW v \in MaybeVoice, Begins(s, v)
  PROVE  ItemIsQueued' /\ LoadedIsSo' /\ WaitsForMix' /\ PausedIsHushed'
<1>1. Kept /\ Typed /\ op.pc \in {"idle", "sent"}
  BY Present DEF Begins
<1>2. UNCHANGED pending /\ Positions' = Positions /\ (\A w : EndPending(w)' <=> EndPending(w))
      /\ (Sweeping' <=> Sweeping) /\ mix' = mix
  BY BeginsIs
<1>3. \A w \in Voices!Voices : voice'[w].sid = voice[w].sid /\ voice'[w].play = voice[w].play /\ KeepsItem(w)
  BY BeginsIs
<1>4. ASSUME NEW w \in Voices!Voices, voice[w].sid # Voices!NoSource, Sweeping \/ ~EndPending(w)
      PROVE  \E u \in Source : u = voice[w].sid /\ InQueue(w, u) /\ QueueStays(w, u)
  <2>1. /\ voice[w].sid \in Source /\ source[voice[w].sid].vidx = w /\ Voices!HasVoice(voice[w].sid)
        /\ ~voice[w].change
        /\ InQueue(w, voice[w].sid)
    BY <1>1, <1>4, Heard
  <2>2. PICK u \in Source : u = voice[w].sid
    BY <2>1
  <2>3. QueueStays(w, u)
    <3>1. CASE u = s
      BY <2>1, <2>2, <3>1 DEF Begins
    <3>2. CASE u # s
      BY <1>1, <3>2, QueueSame DEF Begins
    <3> QED BY <3>1, <3>2
  <2> QED BY <2>1, <2>2, <2>3
<1>5. ItemIsQueued'
  <2>1. ASSUME NEW w \in Voices!Voices
        PROVE  /\ voice'[w].sid = Voices!NoSource => voice'[w].buffer = Voices!NoItem
               /\ voice'[w].sid # Voices!NoSource /\ (Sweeping' \/ ~EndPending(w)') => InQueue(w, voice[w].sid)'
    <3>1. voice'[w].sid = Voices!NoSource => voice'[w].buffer = Voices!NoItem
      BY <1>1, <1>3 DEF Kept, ItemIsQueued, KeepsItem
    <3>2. ASSUME voice'[w].sid # Voices!NoSource, Sweeping' \/ ~EndPending(w)'
          PROVE  InQueue(w, voice[w].sid)'
      <4>1. PICK u \in Source : u = voice[w].sid /\ InQueue(w, u) /\ QueueStays(w, u)
        BY <1>2, <1>3, <1>4, <3>2
      <4>2. u = voice'[w].sid
        BY <1>3, <4>1
      <4>3. InQueue(w, u)'
        BY <1>1, <1>3, <4>1, InQueueStays
      <4> QED BY <4>2, <4>3
    <3> QED BY <3>1, <3>2
  <2> QED BY <2>1 DEF ItemIsQueued
<1>6. LoadedIsSo'
  <2>1. CASE mix.pc = "reading"
    <3>1. mix.v \in Voices!Voices /\ Sweeping /\ mix'.pc = "reading"
      BY <1>1, <1>2, <2>1, MixFields DEF Sweeping
    <3>2. /\ voice'[mix.v].play = mix.play /\ voice'[mix.v].buffer = mix.buffer
      BY <1>1, <1>3, <2>1, <3>1 DEF Kept, LoadedIsSo, KeepsItem
    <3>3. ASSUME mix.buffer # Voices!NoItem, mix.loop # Voices!NoItem
          PROVE  mix.loop \in Voices!Queue(voice[mix.v].sid)' /\ MayLoop(voice[mix.v].sid)'
      <4>1. voice[mix.v].sid # Voices!NoSource
        BY <1>1, <2>1, <3>1, <3>3 DEF Kept, LoadedIsSo, ItemIsQueued
      <4>2. PICK u \in Source : u = voice[mix.v].sid /\ QueueStays(mix.v, u)
        BY <1>4, <3>1, <4>1
      <4>3. mix.loop \in Voices!Queue(u) /\ MayLoop(u)
        BY <1>1, <2>1, <3>3, <4>2 DEF Kept, LoadedIsSo
      <4>4. u = voice'[mix.v].sid
        BY <1>3, <3>1, <4>2
      <4>5. mix.loop \in Voices!Queue(u)' /\ MayLoop(u)'
        BY <4>2, <4>3, <4>4 DEF QueueStays
      <4> QED BY <1>2, <4>4, <4>5
    <3> QED BY <1>2, <2>1, <3>2, <3>3 DEF LoadedIsSo
  <2>2. CASE mix.pc = "ended"
    <3>1. mix.v \in Voices!Voices
      <4>1. Sweeping /\ mix.v <= mix.last
        BY <2>2, Present DEF InPhase, Sweeping
      <4> QED BY <4>1, SweepIs
    <3> QED BY <1>1, <1>2, <1>3, <2>2, <3>1 DEF Kept, LoadedIsSo
  <2>3. CASE mix.pc \notin {"reading", "ended"}
    BY <1>2, <2>3 DEF LoadedIsSo
  <2> QED BY <2>1, <2>2, <2>3
<1>7. WaitsForMix'
  <2>1. Sweeping => pending = <<>>
    BY <1>1 DEF Kept, WaitsForMix
  <2>2. op'.pc \notin Sends \ {"append"}
    BY DEF Begins, Sends
  <2>3. pending = <<>> => Positions' = {}
    BY <1>2 DEF Positions
  <2> QED BY <1>2, <2>1, <2>2, <2>3 DEF WaitsForMix
<1>8. PausedIsHushed'
  <2>1. Dims
    BY <1>2, <1>3 DEF Dims
  <2>2. \A u \in Source : source[u].state = "PAUSED" \/ Hushed(u) => Hushed(u)'
    BY <1>1, <2>1, DimsHushed DEF Kept, PausedIsHushed
  <2>3. \A u \in Source : source'[u].state = "PAUSED" => Hushed(u)'
    BY <2>2 DEF Begins
  <2>4. op'.pc = "append" /\ op'.change.state = "Play" => Hushed(op.change.s)'
    <3>1. ASSUME op'.pc = "append", op'.change.state = "Play"
          PROVE  Hushed(op.change.s)'
      <4>1. op'.change.s \in Source /\ source[op'.change.s].state = "PAUSED"
        BY <3>1 DEF Begins
      <4>2. PICK u \in Source : u = op'.change.s
        BY <4>1
      <4>3. Hushed(u)'
        BY <2>2, <4>1, <4>2
      <4> QED BY <4>2, <4>3
    <3> QED BY <3>1
  <2> QED BY <2>3, <2>4 DEF PausedIsHushed
<1> QED BY <1>5, <1>6, <1>7, <1>8

LEMMA BeginsKeeps ==
  ASSUME Whole, ~Lost, NEW s \in Source, NEW v \in MaybeVoice, Begins(s, v)
  PROVE  Kept'
<1>1. CallIsRight'
  BY DEF Begins
<1> QED BY <1>1, BeginsChanges, BeginsVoices, BeginsItems DEF Kept
-----------------------------------------------------------------------------

(* What a call finds of its source's voice.                                *)
LEMMA VoicedIs ==
  ASSUME Whole, ~Lost, op.pc = "idle", NEW s \in Source, Voices!HasVoice(s)
  PROVE  /\ source[s].vidx \in Voices!Voices /\ source[s].vidx <= active /\ source[s].vidx # Voices!NoVoice
         /\ source[s].vidx \in MaybeVoice
         /\ voice[source[s].vidx].sid = s /\ ~voice[source[s].vidx].change
         /\ source[s].state \in {"PLAYING", "PAUSED"} /\ source[s].alive
         /\ InQueue(source[s].vidx, s) /\ Voices!Playable(s) # {} /\ Voices!Queue(s) # {}
         /\ connected \/ ~StopOnDisconnect
         /\ Voices!GetSourceVoice(s) = source[s].vidx /\ Voices!GetSourceState(s) = source[s].state
<1>1. Typed /\ InBounds /\ Kept /\ active \in Voices!Voices
  BY Present
<1>2. source[s].vidx \in Voices!Voices /\ source[s].vidx <= active /\ source[s].vidx # Voices!NoVoice
      /\ voice[source[s].vidx].sid = s
  BY <1>1, VoicesAssumptions DEF Voices!HasVoice, Voices!Voices, Voices!NoVoice
<1>3. ~voice[source[s].vidx].change
  BY <1>1 DEF Kept, EndIsByCall
<1>4. source[s].state \in {"PLAYING", "PAUSED"}
  BY <1>1, <1>3 DEF Kept, VoiceHasState
<1>5. source[s].alive
  BY <1>1, <1>2 DEF InBounds
<1>6. ~EndPending(source[s].vidx)
  BY <1>1, <1>2, <1>3 DEF Kept, ChangeIsAhead
<1>7. InQueue(source[s].vidx, s)
  BY <1>1, <1>2, <1>6, VoicesAssumptions DEF Kept, ItemIsQueued
<1>8. Voices!Playable(s) # {} /\ Voices!Queue(s) # {}
  BY <1>7 DEF InQueue
<1>9. connected \/ ~StopOnDisconnect
  <2> SUFFICES ASSUME ~connected, StopOnDisconnect PROVE FALSE
    OBVIOUS
  <2>1. \A w \in Voices!Voices : voice[w].sid = Voices!NoSource
    BY DEF Whole, Always, GoneIsLetGo, Lost
  <2> QED BY <1>2, <2>1, VoicesAssumptions
<1>10. Voices!GetSourceVoice(s) = source[s].vidx /\ Voices!GetSourceState(s) = source[s].state
  BY DEF Voices!GetSourceVoice, Voices!GetSourceState
<1> QED BY <1>1, <1>2, <1>3, <1>4, <1>5, <1>7, <1>8, <1>9, <1>10, SourceFields

LEMMA OneVoice ==
  ASSUME Whole, ~Lost, op.pc = "idle", NEW w \in Voices!Voices, voice[w].sid \in Source, ~voice[w].change
  PROVE  Voices!HasVoice(voice[w].sid) /\ source[voice[w].sid].vidx = w
<1>1. Kept
  BY Present
<1>2. ~EndPending(w)
  BY <1>1 DEF Kept, ChangeIsAhead
<1> QED BY <1>2, Heard, VoicesAssumptions

LEMMA TouchesQueue ==
  ASSUME NEW s \in Source, op.pc = "idle",
         source'[s].head = source[s].head, source'[s].tail = source[s].tail
  PROVE  /\ Voices!Queue(s)' = Voices!Queue(s) /\ Voices!Playable(s)' = Voices!Playable(s)
         /\ (source[s].looping => MayLoop(s)') => \A w : QueueStays(w, s)
         /\ source'[s].looping = source[s].looping => \A w : QueueStays(w, s)
<1>1. Voices!Queue(s)' = Voices!Queue(s)
  BY DEF Voices!Queue
<1>2. Voices!Playable(s)' = Voices!Playable(s)
  BY <1>1 DEF Voices!Playable
<1>3. MayLoop(s) <=> source[s].looping
  BY DEF MayLoop
<1>4. source'[s].looping => MayLoop(s)'
  BY DEF MayLoop
<1> QED BY <1>1, <1>2, <1>3, <1>4 DEF QueueStays

LEMMA IdleRight ==
  ASSUME op'.pc = "idle"
  PROVE  /\ CallIsRight' /\ \A w \in Voices!Voices : Ahead(w)' <=> w = Voices!NoVoice
         /\ op'.pc # "append" /\ op'.pc \notin {"looped", "load", "wait", "drop", "sent"} \cup Later
<1>1. "idle" \notin Sends /\ "idle" \notin Later
  BY LaterIs DEF Sends
<1>2. Voices!NoVoice \notin Voices!Voices
  BY VoicesAssumptions DEF Voices!NoVoice, Voices!Voices
<1>3. CallIsRight'
  BY <1>1 DEF CallIsRight
<1>4. \A w \in Voices!Voices : ~Ahead(w)'
  BY DEF Ahead
<1> QED BY <1>1, <1>2, <1>3, <1>4

(* A call that returns at once, when no voice is lost by it.               *)
LEMMA ReturnsKept ==
  ASSUME Whole, ~Lost, op.pc = "idle", op'.pc = "idle", Elsewhere, UNCHANGED voice,
         active' \in Voices!Voices, active <= active', NEW s \in Source,
         \A u \in Source : u # s => source'[u] = source[u],
         source'[s].vidx \in {source[s].vidx, Voices!NoVoice},
         source'[s].state = "PAUSED" => source[s].state = "PAUSED",
         Voices!HasVoice(s) => /\ QueueStays(source[s].vidx, s)
                               /\ source'[s].vidx = source[s].vidx
                               /\ source'[s].state \in {"PLAYING", "PAUSED"}
  PROVE  Kept'
<1>1. Marks(Voices!NoVoice) /\ Voices!NoVoice \in MaybeVoice
  BY Present, MarksNone, VoicesAssumptions DEF Voices!NoVoice, Voices!Voices, MaybeVoice
<1>2. Begins(s, Voices!NoVoice)
  BY <1>1, IdleRight DEF Begins
<1> QED BY <1>1, <1>2, BeginsKeeps

LEMMA GenKept == ASSUME Whole, ~Lost, Voices!alGenSources PROVE Kept'
<1>1. Typed /\ active \in Voices!Voices /\ active <= active
  BY Present
<1>2. PICK s \in Source :
        /\ ~source[s].alive
        /\ source'[s].state = "INITIAL" /\ source'[s].vidx = Voices!NoVoice
        /\ \A u \in Source : u # s => source'[u] = source[u]
        /\ op.pc = "idle" /\ UNCHANGED <<voice, active, op>> /\ Elsewhere
  BY <1>1, GenDoes
<1>3. ~Voices!HasVoice(s)
  BY <1>2, VoicedIs
<1> QED BY <1>1, <1>2, <1>3, ReturnsKept

LEMMA QueueKept ==
  ASSUME Whole, ~Lost, NEW s \in Source, Voices!alSourceQueueBuffers(s)
  PROVE  Kept'
<1>1. Typed /\ active \in Voices!Voices /\ active <= active
  BY Present
<1>2. /\ source'[s].state = source[s].state /\ source'[s].vidx = source[s].vidx
      /\ source'[s].looping = source[s].looping
      /\ source'[s].head = source[s].head /\ source'[s].tail = source[s].tail + 1
      /\ \A u \in Source : u # s => source'[u] = source[u]
      /\ op.pc = "idle" /\ UNCHANGED <<voice, active, op>> /\ Elsewhere
  BY <1>1, QueueDoes
<1>3. Voices!Queue(s) \subseteq Voices!Queue(s)'
  <2>1. source[s].tail \in Nat /\ source[s].head \in Nat
    BY <1>1, SourceFields
  <2>2. source[s].head .. source[s].tail - 1 \subseteq source'[s].head .. source'[s].tail - 1
    BY <1>2, <2>1
  <2> QED BY <2>2 DEF Voices!Queue
<1>4. QueueStays(source[s].vidx, s)
  BY <1>2, <1>3 DEF QueueStays, MayLoop
<1> QED BY <1>1, <1>2, <1>4, VoicedIs, ReturnsKept

LEMMA UnqueueKept ==
  ASSUME Whole, ~Lost, NEW s \in Source, Voices!alSourceUnqueueBuffers(s)
  PROVE  Kept'
<1>1. Typed /\ InBounds /\ active \in Voices!Voices /\ active <= active
  BY Present
<1>2. PICK n \in 1..Cardinality(Voices!Processed(s)) :
        /\ n \in Nat /\ n <= Cardinality(Voices!Processed(s))
        /\ source'[s].state = source[s].state /\ ~source[s].looping
        /\ source'[s].vidx = IF source[s].state = "INITIAL" THEN source[s].vidx ELSE Voices!GetSourceVoice(s)
        /\ source'[s].head = source[s].head + n /\ source'[s].tail = source[s].tail
        /\ \A u \in Source : u # s => source'[u] = source[u]
        /\ op.pc = "idle" /\ UNCHANGED <<voice, active, op>> /\ Elsewhere
  BY <1>1, UnqueueDoes
<1>3. ASSUME Voices!HasVoice(s)
      PROVE  /\ QueueStays(source[s].vidx, s) /\ source'[s].vidx = source[s].vidx
             /\ source'[s].state \in {"PLAYING", "PAUSED"}
  <2>1. /\ source[s].state \in {"PLAYING", "PAUSED"} /\ InQueue(source[s].vidx, s)
        /\ Voices!GetSourceVoice(s) = source[s].vidx
    BY <1>2, <1>3, VoicedIs
  <2>2. voice[source[s].vidx].buffer \in Voices!Queue(s)
    BY <2>1 DEF InQueue
  <2> DEFINE b == voice[source[s].vidx].buffer[2]
  <2>3. n <= b - source[s].head /\ b \in Nat /\ source[s].head \in Nat
    <3>1. Cardinality(Voices!Processed(s)) \in Nat /\ Cardinality(Voices!Processed(s)) <= b - source[s].head
      BY <1>1, <1>3, <2>1, <2>2, ProcessedAre
    <3>2. b \in Nat /\ source[s].head \in Nat
      BY <1>1, <2>2, QueueIs, SourceFields
    <3> HIDE DEF b
    <3> QED BY <1>2, <3>1, <3>2
  <2>4. ASSUME NEW j \in Voices!Queue(s), j[2] >= b PROVE j \in Voices!Queue(s)'
    <3> HIDE DEF b
    <3>1. PICK m \in Nat : j = <<s, m>> /\ source[s].head <= m /\ m < source[s].tail
      BY <1>1, QueueIs
    <3>2. j[2] = m
      BY <3>1
    <3>3. source'[s].head <= m /\ m <= source'[s].tail - 1 /\ source[s].tail \in Nat
      BY <1>1, <1>2, <2>3, <2>4, <3>1, <3>2, SourceFields
    <3>4. m \in source'[s].head .. source'[s].tail - 1
      BY <1>2, <2>3, <3>3
    <3> QED BY <3>1, <3>4 DEF Voices!Queue
  <2>5. ~MayLoop(s)
    BY <1>2 DEF MayLoop
  <2> QED BY <1>2, <2>1, <2>4, <2>5 DEF QueueStays
<1>4. source'[s].vidx \in {source[s].vidx, Voices!NoVoice}
  BY <1>2 DEF Voices!GetSourceVoice
<1> QED BY <1>1, <1>2, <1>3, <1>4, ReturnsKept

LEMMA SetBufferKept == ASSUME Whole, ~Lost, NEW s \in Source, Voices!SetBuffer(s) PROVE Kept'
<1>1. Typed /\ active \in Voices!Voices /\ active <= active
  BY Present
<1>2. /\ Voices!GetSourceState(s) \notin {"PLAYING", "PAUSED"}
      /\ source'[s].state = Voices!GetSourceState(s) /\ source'[s].vidx = Voices!GetSourceVoice(s)
      /\ \A u \in Source : u # s => source'[u] = source[u]
      /\ op.pc = "idle" /\ UNCHANGED <<voice, active, op>> /\ Elsewhere
  BY <1>1, SetBufferDoes
<1>3. ~Voices!HasVoice(s)
  BY <1>2, VoicedIs
<1>4. source'[s].vidx \in {source[s].vidx, Voices!NoVoice} /\ source'[s].state # "PAUSED"
  BY <1>2 DEF Voices!GetSourceVoice
<1> QED BY <1>1, <1>2, <1>3, <1>4, ReturnsKept
-----------------------------------------------------------------------------

(* Calls that leave a voice marked, and those that go on.                  *)
LEMMA SetsQueue ==
  ASSUME NEW s \in Source, op.pc = "idle", NEW q, NEW v, Sets(s, q, v)
  PROVE  /\ Voices!Queue(s)' = Voices!Queue(s) /\ Voices!Playable(s)' = Voices!Playable(s)
         /\ QueueStays(source[s].vidx, s)
         /\ \A u \in Source : u # s => source'[u] = source[u]
         /\ source'[s].state = q /\ source'[s].vidx = v
  BY TouchesQueue DEF Sets, Touches

LEMMA SendsAhead ==
  ASSUME NEW name \in Names, NEW state \in {"Play", "Pause", "Stop", "Reset"},
         NEW s \in Source, NEW v \in MaybeVoice, Sending(name, state, s, v, Voices!NoVoice)
  PROVE  /\ op'.pc \notin {"looped", "load", "wait", "drop", "sent"} \cup Later
         /\ state \in {"Stop", "Reset"} => \A w \in Voices!Voices : Ahead(w)' <=> w = v
         /\ state \in {"Play", "Pause"} => \A w \in Voices!Voices : Ahead(w)' <=> w = Voices!NoVoice
<1>1. /\ op'.pc = "append" /\ op'.change \in ChangeRecords
      /\ op'.change.state = state /\ op'.change.s = s /\ op'.change.v = v /\ op'.change.old = Voices!NoVoice
  BY SendingIs, VoicesAssumptions DEF MaybeVoice, Voices!NoVoice
<1>2. Voices!NoVoice \notin Voices!Voices
  BY VoicesAssumptions DEF Voices!NoVoice, Voices!Voices
<1>3. "append" \notin Later
  BY LaterIs
<1>4. \A w \in Voices!Voices : Ahead(w)' <=> state \in {"Stop", "Reset"} /\ w = v
  BY <1>1, <1>2 DEF Ahead, Ends
<1> QED BY <1>1, <1>2, <1>3, <1>4

(* Pausing, stopping, rewinding and deleting: a change that starts nothing. *)
LEMMA SendsRight ==
  ASSUME Whole, ~Lost, op.pc = "idle", NEW name \in Names,
         NEW state \in {"Pause", "Stop", "Reset"},
         NEW s \in Source, NEW v \in MaybeVoice, Sending(name, state, s, v, Voices!NoVoice),
         active' \in Voices!Voices, v <= active',
         v = Voices!NoVoice => state = "Reset",
         v # Voices!NoVoice => voice'[v].sid = s,
         name = "delete" => \A w \in Voices!Voices : voice'[w].sid = s => voice'[w].change,
         name = "pause" => v = source'[s].vidx
  PROVE  /\ ChangeOK(op.change)' /\ CallIsRight'
         /\ op'.change.state \notin {"Play", "Restart"} /\ op'.pc = "append"
         /\ op'.call = name /\ op'.change.s = s
<1>1. /\ op'.pc = "append" /\ op'.change \in ChangeRecords /\ op'.call = name
      /\ op'.change.state = state /\ op'.change.s = s /\ op'.change.v = v /\ op'.change.old = Voices!NoVoice
  BY SendingIs, VoicesAssumptions DEF MaybeVoice, Voices!NoVoice
<1>2. Voices!NoVoice <= active'
  BY VoicesAssumptions DEF Voices!NoVoice, Voices!Voices
<1>3. ChangeOK(op.change)'
  BY <1>1, <1>2, VoicesAssumptions DEF ChangeOK, Ends
<1>4. CallIsRight'
  BY <1>1 DEF CallIsRight
<1> QED BY <1>1, <1>3, <1>4

LEMMA PlayLookKept == ASSUME Whole, ~Lost, NEW s \in Source, Voices!PlayLook(s) PROVE Kept'
<1>1. Typed /\ InBounds /\ active \in Voices!Voices /\ active \in Int /\ active <= active
  BY Present
<1>2. op.pc = "idle" /\ source[s].alive /\ Elsewhere
      /\ (UNCHANGED active \/ Voices!Grow)
  BY <1>1, PlayLookDoes
<1>3. active' \in Voices!Voices /\ active <= active'
  <2>1. CASE Voices!Grow
    <3>1. active' \in Voices!Voices /\ active' \in {active, active + 1}
      BY <1>1, <2>1, GrowDoes
    <3> QED BY <1>1, <3>1
  <2> QED BY <1>1, <1>2, <2>1
<1>4. CASE /\ ~(connected \/ ~StopOnDisconnect) \/ Voices!Playable(s) = {}
           /\ Sets(s, "STOPPED", source[s].vidx) /\ op'.pc = "idle" /\ UNCHANGED voice
  <2>1. ~Voices!HasVoice(s)
    BY <1>2, <1>4, VoicedIs
  <2> QED BY <1>2, <1>3, <1>4, <2>1, SetsQueue, ReturnsKept
<1>5. CASE /\ Voices!HasVoice(s) /\ source[s].state = "PAUSED"
           /\ Sets(s, "PLAYING", source[s].vidx) /\ UNCHANGED voice
           /\ Sending("play", "Play", s, source[s].vidx, Voices!NoVoice)
  <2>1. /\ source[s].vidx \in Voices!Voices /\ source[s].vidx <= active /\ source[s].vidx # Voices!NoVoice
        /\ source[s].vidx \in MaybeVoice
        /\ voice[source[s].vidx].sid = s /\ ~voice[source[s].vidx].change
    BY <1>2, <1>5, VoicedIs
  <2>2. Marks(Voices!NoVoice) /\ Voices!NoVoice \in MaybeVoice
    BY <1>1, <1>5, MarksNone, VoicesAssumptions DEF Voices!NoVoice, Voices!Voices,
        MaybeVoice
  <2>3. /\ op'.pc = "append" /\ op'.call = "play" /\ op'.change \in ChangeRecords
        /\ op'.change.state = "Play" /\ op'.change.s = s /\ op'.change.v = source[s].vidx
        /\ op'.change.old = Voices!NoVoice
    BY <1>5, <2>1, <2>2, SendingIs DEF Names
  <2>4. ChangeOK(op.change)'
    <3>1. source[s].vidx <= active' /\ Voices!NoVoice <= active'
      BY <1>1, <1>3, <2>1, VoicesAssumptions DEF Voices!Voices, Voices!NoVoice
    <3> QED BY <1>5, <2>1, <2>3, <3>1 DEF ChangeOK, Ends
  <2>5. CallIsRight'
    BY <2>3 DEF CallIsRight
  <2>6. /\ op'.pc \notin {"looped", "load", "wait", "drop", "sent"} \cup Later
        /\ \A w \in Voices!Voices : Ahead(w)' <=> w = Voices!NoVoice
    BY <1>5, <2>1, SendsAhead DEF Names
  <2>7. Begins(s, Voices!NoVoice)
    BY <1>2, <1>3, <1>5, <2>1, <2>2, <2>3, <2>4, <2>5, <2>6, SetsQueue DEF Begins
  <2> QED BY <2>2, <2>7, BeginsKeeps
<1>6. CASE /\ Voices!Playable(s) # {}
           /\ ~(Voices!GetSourceState(s) = "PAUSED" /\ Voices!HasVoice(s))
           /\ Sets(s, Voices!GetSourceState(s), Voices!GetSourceVoice(s))
           /\ op'.pc = "start" /\ op'.s = s /\ op' \in OpRecords
           /\ op'.old = IF Voices!GetSourceState(s) = "PLAYING" THEN source[s].vidx ELSE Voices!NoVoice
           /\ Voices!GetSourceState(s) = "PLAYING" => Voices!HasVoice(s)
           /\ Marks(op'.old)
  <2> DEFINE v == IF Voices!GetSourceState(s) = "PLAYING" THEN source[s].vidx ELSE Voices!NoVoice
  <2>1. v # Voices!NoVoice => Voices!HasVoice(s) /\ v = source[s].vidx
    BY <1>6
  <2>2. Voices!HasVoice(s) => v = source[s].vidx /\ v # Voices!NoVoice /\ v \in Voices!Voices /\ voice[v].sid = s
    BY <1>2, <1>6, VoicedIs
  <2>3. v \in MaybeVoice /\ Voices!NoVoice \notin Voices!Voices
    BY <1>2, <2>1, VoicedIs, VoicesAssumptions DEF Voices!NoVoice, Voices!Voices, MaybeVoice
  <2>4. op'.old = v /\ Marks(v)
    BY <1>6
  <2> HIDE DEF v
  <2>5. \A w \in Voices!Voices : Ahead(w)' <=> w = v
    BY <1>6, <2>3, <2>4 DEF Ahead
  <2>6. \A w \in Voices!Voices : voice'[w].sid = s => voice'[w].change
    <3> SUFFICES ASSUME NEW w \in Voices!Voices, voice'[w].sid = s, ~voice'[w].change PROVE FALSE
      OBVIOUS
    <3>1. voice[w].sid = s /\ ~voice[w].change /\ w # v
      BY <1>1, <2>4, VoiceFields DEF Marks
    <3>2. Voices!HasVoice(s) /\ source[s].vidx = w
      BY <1>2, <3>1, OneVoice
    <3> QED BY <2>2, <3>1, <3>2
  <2>7. CallIsRight'
    <3>1. "start" \notin Sends
      BY LaterIs DEF Sends
    <3>2. Voices!Playable(s)' # {}
      BY <1>2, <1>6, SetsQueue
    <3>3. v # Voices!NoVoice => voice'[v].sid = s
      BY <2>1, <2>2, <2>4 DEF Marks
    <3>4. op'.pc = "start" /\ op'.s = s /\ op'.old = v
      BY <1>6, <2>4
    <3>5. (Voices!Playable(op.s) # {})'
      BY <3>2, <3>4 DEF Voices!Playable, Voices!Queue
    <3> QED BY <2>6, <3>1, <3>3, <3>4, <3>5 DEF CallIsRight
  <2>8. op'.pc \notin {"looped", "load", "wait", "drop", "sent", "append"} \cup Later
    BY <1>6, LaterIs
  <2>9. source'[s].state = "PAUSED" => source[s].state = "PAUSED"
    BY <1>2, <1>6, SetsQueue DEF Voices!GetSourceState
  <2>10. source'[s].vidx \in {source[s].vidx, Voices!NoVoice}
    BY <1>2, <1>6, SetsQueue DEF Voices!GetSourceVoice
  <2>11. Begins(s, v)
    BY <1>2, <1>3, <1>6, <2>1, <2>2, <2>4, <2>5, <2>7, <2>8, <2>9, <2>10,
        SetsQueue DEF Begins
  <2> QED BY <2>3, <2>11, BeginsKeeps
<1> QED BY <1>1, <1>4, <1>5, <1>6, PlayLookDoes

LEMMA PauseLookKept == ASSUME Whole, ~Lost, NEW s \in Source, Voices!PauseLook(s) PROVE Kept'
<1>1. Typed /\ active \in Voices!Voices /\ active \in Int /\ active <= active
  BY Present
<1>2. /\ op.pc = "idle" /\ UNCHANGED <<voice, active>> /\ Elsewhere
      /\ Sets(s, Voices!GetSourceState(s), Voices!GetSourceVoice(s))
      /\ IF Voices!GetSourceState(s) = "PLAYING"
         THEN Sending("pause", "Pause", s, source[s].vidx, Voices!NoVoice) /\ Voices!HasVoice(s)
         ELSE op' = Voices!Idle
  BY <1>1, PauseLookDoes
<1>3. /\ \A u \in Source : u # s => source'[u] = source[u]
      /\ source'[s].state = Voices!GetSourceState(s) /\ source'[s].vidx = Voices!GetSourceVoice(s)
      /\ QueueStays(source[s].vidx, s)
  BY <1>2, SetsQueue
<1>4. Voices!HasVoice(s) => source'[s].vidx = source[s].vidx /\ source'[s].state \in {"PLAYING", "PAUSED"}
  BY <1>2, <1>3, VoicedIs
<1>5. source'[s].state = "PAUSED" => source[s].state = "PAUSED"
  BY <1>3 DEF Voices!GetSourceState
<1>6. source'[s].vidx \in {source[s].vidx, Voices!NoVoice}
  BY <1>3 DEF Voices!GetSourceVoice
<1>7. CASE op' = Voices!Idle
  <2>1. op'.pc = "idle"
    BY <1>7, IdleIs
  <2> QED BY <1>1, <1>2, <1>3, <1>4, <1>5, <1>6, <2>1, ReturnsKept
<1>8. CASE Sending("pause", "Pause", s, source[s].vidx, Voices!NoVoice) /\ Voices!HasVoice(s)
  <2>1. /\ source[s].vidx \in Voices!Voices /\ source[s].vidx <= active /\ source[s].vidx # Voices!NoVoice
        /\ source[s].vidx \in MaybeVoice /\ voice[source[s].vidx].sid = s
    BY <1>2, <1>8, VoicedIs
  <2>2. Marks(Voices!NoVoice) /\ Voices!NoVoice \in MaybeVoice
    BY <1>1, <1>2, MarksNone, VoicesAssumptions DEF Voices!NoVoice, Voices!Voices,
        MaybeVoice
  <2>3. /\ ChangeOK(op.change)' /\ CallIsRight'
        /\ op'.change.state \notin {"Play", "Restart"}
    BY <1>1, <1>2, <1>4, <1>8, <2>1, SendsRight DEF Names
  <2>4. /\ op'.pc \notin {"looped", "load", "wait", "drop", "sent"} \cup Later
        /\ \A w \in Voices!Voices : Ahead(w)' <=> w = Voices!NoVoice
    BY <1>8, <2>1, SendsAhead DEF Names
  <2>5. Begins(s, Voices!NoVoice)
    BY <1>1, <1>2, <1>3, <1>4, <1>5, <1>6, <2>2, <2>3, <2>4 DEF Begins
  <2> QED BY <2>2, <2>5, BeginsKeeps
<1> QED BY <1>2, <1>7, <1>8

(* A call that marks the voice of its source and sends its end.            *)
LEMMA EndsKept ==
  ASSUME Whole, ~Lost, op.pc = "idle", Elsewhere, UNCHANGED active,
         NEW name \in {"stop", "rewind", "delete"}, NEW state \in {"Stop", "Reset"},
         NEW s \in Source, NEW v \in MaybeVoice, Marks(v), Sending(name, state, s, v, Voices!NoVoice),
         v = Voices!NoVoice => state = "Reset" /\ ~Voices!HasVoice(s),
         v # Voices!NoVoice => Voices!HasVoice(s) /\ v = source[s].vidx,
         \A u \in Source : u # s => source'[u] = source[u],
         source'[s].vidx \in {source[s].vidx, Voices!NoVoice}, QueueStays(source[s].vidx, s),
         source'[s].vidx = Voices!NoVoice \/ name = "delete",
         source'[s].state = "PAUSED" => source[s].state = "PAUSED"
  PROVE  Kept'
<1>1. Typed /\ active \in Voices!Voices /\ active \in Int /\ active <= active
  BY Present
<1>2. v # Voices!NoVoice => v \in Voices!Voices /\ v <= active /\ voice'[v].sid = s
  <2>1. v # Voices!NoVoice => v \in Voices!Voices /\ v <= active /\ voice[v].sid = s
    BY VoicedIs
  <2> QED BY <2>1 DEF Marks
<1>3. v <= active'
  BY <1>1, <1>2, VoicesAssumptions DEF Voices!NoVoice, Voices!Voices
<1>4. \A w \in Voices!Voices : voice'[w].sid = s => voice'[w].change
  <2> SUFFICES ASSUME NEW w \in Voices!Voices, voice'[w].sid = s, ~voice'[w].change PROVE FALSE
    OBVIOUS
  <2>1. voice[w].sid = s /\ ~voice[w].change /\ w # v
    BY <1>1, VoiceFields DEF Marks
  <2>2. Voices!HasVoice(s) /\ source[s].vidx = w
    BY <2>1, OneVoice
  <2> QED BY <2>1, <2>2
<1>5. /\ ChangeOK(op.change)' /\ CallIsRight'
      /\ op'.change.state \notin {"Play", "Restart"} /\ op'.pc = "append"
      /\ op'.call = name /\ op'.change.s = s
  BY <1>1, <1>2, <1>3, <1>4, SendsRight DEF Names
<1>6. /\ op'.pc \notin {"looped", "load", "wait", "drop", "sent"} \cup Later
      /\ \A w \in Voices!Voices : Ahead(w)' <=> w = v
  BY SendsAhead DEF Names
<1>7. Begins(s, v)
  BY <1>1, <1>5, <1>6 DEF Begins
<1> QED BY <1>7, BeginsKeeps

LEMMA StopLookKept == ASSUME Whole, ~Lost, NEW s \in Source, Voices!StopLook(s) PROVE Kept'
<1>1. Typed /\ active \in Voices!Voices /\ active <= active
  BY Present
<1>2. op.pc = "idle" /\ UNCHANGED active /\ Elsewhere
  BY <1>1, StopLookDoes
<1>3. CASE Voices!HasVoice(s)
  <2>1. /\ Sets(s, "STOPPED", Voices!NoVoice) /\ Marks(source[s].vidx)
        /\ Sending("stop", "Stop", s, source[s].vidx, Voices!NoVoice)
    BY <1>1, <1>3, StopLookDoes
  <2>2. source[s].vidx # Voices!NoVoice /\ source[s].vidx \in MaybeVoice
    BY <1>2, <1>3, VoicedIs
  <2> QED BY <1>2, <1>3, <2>1, <2>2, SetsQueue, EndsKept
<1>4. CASE ~Voices!HasVoice(s)
  <2>1. Sets(s, source[s].state, Voices!NoVoice) /\ UNCHANGED voice /\ op' = Voices!Idle
    BY <1>1, <1>4, StopLookDoes
  <2> QED BY <1>1, <1>2, <1>4, <2>1, IdleIs, SetsQueue, ReturnsKept
<1> QED BY <1>3, <1>4

LEMMA RewindLookKept == ASSUME Whole, ~Lost, NEW s \in Source, Voices!RewindLook(s) PROVE Kept'
<1>1. Typed /\ active \in Voices!Voices /\ active <= active
  BY Present
<1>2. op.pc = "idle" /\ UNCHANGED active /\ Elsewhere /\ Sets(s, "INITIAL", Voices!NoVoice)
  BY <1>1, RewindLookDoes
<1>3. CASE source[s].state # "INITIAL"
  <2>1. /\ Marks(Voices!GetSourceVoice(s)) /\ Voices!GetSourceVoice(s) \in MaybeVoice
        /\ Sending("rewind", "Reset", s, Voices!GetSourceVoice(s), Voices!NoVoice)
    BY <1>1, <1>3, RewindLookDoes
  <2>2. /\ Voices!GetSourceVoice(s) = Voices!NoVoice => ~Voices!HasVoice(s)
        /\ Voices!GetSourceVoice(s) # Voices!NoVoice => Voices!HasVoice(s) /\ Voices!GetSourceVoice(s) = source[s].vidx
    BY <1>2, VoicedIs DEF Voices!GetSourceVoice
  <2> QED BY <1>2, <2>1, <2>2, SetsQueue, EndsKept
<1>4. CASE source[s].state = "INITIAL"
  <2>1. UNCHANGED voice /\ op' = Voices!Idle
    BY <1>1, <1>4, RewindLookDoes
  <2>2. ~Voices!HasVoice(s)
    BY <1>2, <1>4, VoicedIs
  <2> QED BY <1>1, <1>2, <2>1, <2>2, IdleIs, SetsQueue, ReturnsKept
<1> QED BY <1>3, <1>4

LEMMA DeleteLookKept == ASSUME Whole, ~Lost, NEW s \in Source, Voices!DeleteLook(s) PROVE Kept'
<1>1. Typed /\ active \in Voices!Voices /\ active <= active
  BY Present
<1>2. op.pc = "idle" /\ UNCHANGED active /\ Elsewhere
  BY <1>1, DeleteLookDoes
<1>3. CASE Voices!HasVoice(s)
  <2>1. /\ Marks(source[s].vidx) /\ UNCHANGED source
        /\ Sending("delete", "Stop", s, source[s].vidx, Voices!NoVoice)
    BY <1>1, <1>3, DeleteLookDoes
  <2>2. source[s].vidx # Voices!NoVoice /\ source[s].vidx \in MaybeVoice
    BY <1>2, <1>3, VoicedIs
  <2>3. QueueStays(source[s].vidx, s)
    BY <1>2, <2>1, QueueSame
  <2> QED BY <1>2, <1>3, <2>1, <2>2, <2>3, EndsKept
<1>4. CASE ~Voices!HasVoice(s)
  <2>1. UNCHANGED voice /\ op' = Voices!Idle /\ source' = [source EXCEPT ![s] = Voices!Destroyed(s)]
    BY <1>1, <1>4, DeleteLookDoes
  <2>2. /\ source'[s].state = "INITIAL" /\ source'[s].vidx = Voices!NoVoice
        /\ \A u \in Source : u # s => source'[u] = source[u]
    BY <1>1, <2>1, DestroyDoes
  <2> QED BY <1>1, <1>2, <1>4, <2>1, <2>2, IdleIs, ReturnsKept
<1> QED BY <1>3, <1>4

LEMMA SeekLookKept == ASSUME Whole, ~Lost, NEW s \in Source, Voices!SeekLook(s) PROVE Kept'
<1>1. Typed /\ active \in Voices!Voices /\ active <= active
  BY Present
<1>2. /\ op.pc = "idle" /\ Voices!HasVoice(s)
      /\ op'.pc = "seek" /\ op'.s = s /\ op'.old = source[s].vidx
      /\ UNCHANGED <<source, voice, active>> /\ Elsewhere
  BY <1>1, SeekLookDoes
<1>3. /\ voice[source[s].vidx].sid = s /\ ~voice[source[s].vidx].change
      /\ source[s].state \in {"PLAYING", "PAUSED"}
  BY <1>2, VoicedIs
<1>4. Marks(Voices!NoVoice) /\ Voices!NoVoice \in MaybeVoice /\ Voices!NoVoice \notin Voices!Voices
  BY <1>1, <1>2, MarksNone, VoicesAssumptions DEF Voices!NoVoice, Voices!Voices, MaybeVoice
<1>5. "seek" \notin Sends /\ "seek" \notin Later
  BY LaterIs DEF Sends
<1>6. CallIsRight'
  BY <1>2, <1>3, <1>5 DEF CallIsRight
<1>7. \A w \in Voices!Voices : Ahead(w)' <=> w = Voices!NoVoice
  BY <1>2, <1>4 DEF Ahead
<1>8. QueueStays(source[s].vidx, s)
  BY <1>2, QueueSame
<1>9. Begins(s, Voices!NoVoice)
  BY <1>1, <1>2, <1>3, <1>4, <1>5, <1>6, <1>7, <1>8 DEF Begins
<1> QED BY <1>4, <1>9, BeginsKeeps

LEMMA LoopLookKept == ASSUME Whole, ~Lost, NEW s \in Source, Voices!LoopLook(s) PROVE Kept'
<1>1. Typed /\ active \in Voices!Voices /\ active <= active
  BY Present
<1>2. /\ op.pc = "idle" /\ UNCHANGED <<voice, active>> /\ Elsewhere /\ Touches(s)
      /\ source'[s].state = source[s].state /\ source'[s].vidx = Voices!GetSourceVoice(s)
      /\ IF Voices!HasVoice(s) THEN op' = [pc |-> "loop", s |-> s] ELSE op' = Voices!Idle
  BY <1>1, LoopLookDoes
<1>3. \A u \in Source : u # s => source'[u] = source[u]
  BY <1>2 DEF Touches
<1>4. source'[s].vidx \in {source[s].vidx, Voices!NoVoice}
  BY <1>2 DEF Voices!GetSourceVoice
<1>5. CASE ~Voices!HasVoice(s)
  BY <1>1, <1>2, <1>3, <1>4, <1>5, IdleIs, ReturnsKept
<1>6. CASE Voices!HasVoice(s)
  <2>1. op'.pc = "loop" /\ op'.s = s
    BY <1>2, <1>6
  <2>2. /\ voice[source[s].vidx].sid = s /\ source'[s].vidx = source[s].vidx
        /\ source'[s].state \in {"PLAYING", "PAUSED"}
    BY <1>2, <1>6, VoicedIs
  <2>3. QueueStays(source[s].vidx, s)
    <3>1. MayLoop(s)'
      BY <2>1 DEF MayLoop
    <3>2. Voices!Queue(s)' = Voices!Queue(s)
      BY <1>2 DEF Touches, Voices!Queue
    <3> QED BY <3>1, <3>2 DEF QueueStays
  <2>4. Marks(Voices!NoVoice) /\ Voices!NoVoice \in MaybeVoice /\ Voices!NoVoice \notin Voices!Voices
    BY <1>1, <1>2, MarksNone, VoicesAssumptions DEF Voices!NoVoice, Voices!Voices,
        MaybeVoice
  <2>5. "loop" \notin Sends /\ "loop" \notin Later
    BY LaterIs DEF Sends
  <2>6. CallIsRight'
    BY <1>2, <2>1, <2>2, <2>5 DEF CallIsRight
  <2>7. \A w \in Voices!Voices : Ahead(w)' <=> w = Voices!NoVoice
    BY <2>1, <2>4 DEF Ahead
  <2>8. Begins(s, Voices!NoVoice)
    BY <1>1, <1>2, <1>3, <1>6, <2>1, <2>2, <2>3, <2>4, <2>5, <2>6, <2>7 DEF Begins
  <2> QED BY <2>4, <2>8, BeginsKeeps
<1> QED BY <1>5, <1>6

LEMMA CallKept == ASSUME Whole, ~Lost, Voices!Call PROVE Kept'
  BY GenKept, QueueKept, UnqueueKept, SetBufferKept, PlayLookKept, PauseLookKept,
      StopLookKept,
     RewindLookKept, DeleteLookKept, SeekLookKept, LoopLookKept, VoicesAssumptions DEF Voices!Call
-----------------------------------------------------------------------------

(* A call that goes on, or returns, and changes nothing else.              *)
Passes ==
  /\ StillOp
  /\ op.pc \notin {"start", "append", "loop"} /\ op'.pc \notin {"start", "append", "seek", "loop"}
  /\ op'.pc \in Sends => op.pc \in Sends /\ op'.call = op.call /\ op'.change = op.change
  /\ op.pc = "looped" => ~Sweeping
  /\ op.pc \in {"load", "wait"} /\ Sweeping => op'.pc \in {"load", "wait"}
  /\ \/ op.pc \in Sends /\ op.call = "delete" =>
          op'.pc \in {"load", "wait", "sent"} /\ op'.call = op.call /\ op'.change = op.change
     \/ \A w \in Voices!Voices : voice[w].sid = Voices!NoSource

LEMMA StillIs ==
  ASSUME StillOp
  PROVE  /\ \A s : Voices!HasVoice(s)' <=> Voices!HasVoice(s)
         /\ \A s : Voices!Queue(s)' = Voices!Queue(s) /\ Voices!Playable(s)' = Voices!Playable(s)
  BY DEF StillOp, Voices!HasVoice, Voices!Queue, Voices!Playable

LEMMA PassesQueues ==
  ASSUME Whole, ~Lost, Passes
  PROVE  ItemIsQueued' /\ LoadedIsSo'
<1>1. Kept /\ Typed
  BY Present
<1>2. UNCHANGED <<source, voice, pending, mix>>
  BY DEF Passes, StillOp, Elsewhere
<1>3. (\A w : EndPending(w)' <=> EndPending(w)) /\ (Sweeping' <=> Sweeping)
  BY <1>2, PendingSame DEF Sweeping
<1>4. \A u \in Source : MayLoop(u) => MayLoop(u)'
  BY <1>2 DEF Passes, MayLoop
<1>5. \A u : Voices!Queue(u)' = Voices!Queue(u) /\ Voices!Playable(u)' = Voices!Playable(u)
  BY StillIs DEF Passes
<1>6. \A w \in Voices!Voices : voice[w].sid # Voices!NoSource => voice[w].sid \in Source
  BY <1>1, VoiceFields DEF Sids
<1>7. ItemIsQueued'
  <2>1. ASSUME NEW w \in Voices!Voices
        PROVE  /\ voice'[w].sid = Voices!NoSource => voice'[w].buffer = Voices!NoItem
               /\ voice'[w].sid # Voices!NoSource /\ (Sweeping' \/ ~EndPending(w)') => InQueue(w, voice[w].sid)'
    <3>1. voice'[w].sid = Voices!NoSource => voice'[w].buffer = Voices!NoItem
      BY <1>1, <1>2 DEF Kept, ItemIsQueued
    <3>2. ASSUME voice'[w].sid # Voices!NoSource, Sweeping' \/ ~EndPending(w)'
          PROVE  InQueue(w, voice[w].sid)'
      <4>1. PICK u \in Source : u = voice[w].sid
        BY <1>2, <1>6, <3>2
      <4>2. InQueue(w, u)
        BY <1>1, <1>2, <1>3, <3>2, <4>1 DEF Kept, ItemIsQueued
      <4>3. InQueue(w, u)'
        BY <1>2, <1>4, <1>5, <4>2 DEF InQueue
      <4> QED BY <1>2, <4>1, <4>3
    <3> QED BY <3>1, <3>2
  <2> QED BY <2>1 DEF ItemIsQueued
<1>8. LoadedIsSo'
  <2>1. CASE mix.pc = "reading"
    <3>1. mix.v \in Voices!Voices /\ Sweeping
      BY <1>1, <2>1, MixFields DEF Sweeping
    <3>2. voice[mix.v].play = mix.play /\ voice[mix.v].buffer = mix.buffer
      BY <1>1, <2>1 DEF Kept, LoadedIsSo
    <3>3. ASSUME mix.buffer # Voices!NoItem, mix.loop # Voices!NoItem
          PROVE  mix.loop \in Voices!Queue(voice[mix.v].sid)' /\ MayLoop(voice[mix.v].sid)'
      <4>1. voice[mix.v].sid # Voices!NoSource
        BY <1>1, <2>1, <3>1, <3>2, <3>3 DEF Kept, ItemIsQueued
      <4>2. PICK u \in Source : u = voice[mix.v].sid
        BY <1>6, <3>1, <4>1
      <4>3. mix.loop \in Voices!Queue(u) /\ MayLoop(u)
        BY <1>1, <2>1, <3>1, <3>3, <4>2 DEF Kept, LoadedIsSo, Passes
      <4>4. mix.loop \in Voices!Queue(u)' /\ MayLoop(u)'
        BY <1>4, <1>5, <4>3
      <4> QED BY <1>2, <4>2, <4>4
    <3> QED BY <1>2, <2>1, <3>2, <3>3 DEF LoadedIsSo
  <2>2. CASE mix.pc # "reading"
    BY <1>1, <1>2, <2>2 DEF Kept, LoadedIsSo
  <2> QED BY <2>1, <2>2
<1> QED BY <1>7, <1>8

LEMMA PassesKept ==
  ASSUME Whole, ~Lost, Passes
  PROVE  Kept'
<1>1. Kept /\ Typed
  BY Present
<1>2. UNCHANGED <<source, voice, active, pending, mix>>
  BY DEF Passes, StillOp, Elsewhere
<1>3. Positions' = Positions /\ (\A w : EndPending(w)' <=> EndPending(w)) /\ (Sweeping' <=> Sweeping)
  BY <1>2, PendingSame DEF Sweeping
<1>4. \A w \in Voices!Voices : ~Ahead(w) /\ ~Ahead(w)'
  BY DEF Passes, Ahead
<1>5. ChangeIsAhead' /\ EndsOnce'
  BY <1>1, <1>2, <1>3, <1>4 DEF Kept, ChangeIsAhead, EndsOnce
<1>6. EndIsLast' /\ RestartIsFirst'
  BY <1>1, <1>2, <1>3 DEF Kept, EndIsLast, RestartIsFirst, Passes
<1>7. ChangesOK'
  BY <1>1, <1>2, <1>3 DEF Kept, ChangesOK, ChangeOK, Passes
<1>8. VoiceIsKnown' /\ BeyondIsFresh'
  BY <1>1, <1>2 DEF Kept, VoiceIsKnown, BeyondIsFresh
<1>9. VoiceHasState'
  BY <1>1, <1>2, StillIs DEF Kept, VoiceHasState, Passes
<1>10. EndIsByCall'
  <2>1. ASSUME NEW u \in Source, Voices!HasVoice(u)', voice'[source'[u].vidx].change
        PROVE  \/ op'.pc = "start" /\ op'.s = u
               \/ op'.pc \in {"append", "load", "wait", "sent"} /\ op'.call = "delete" /\ op'.change.s = u
    <3>1. Voices!HasVoice(u) /\ voice[source[u].vidx].change
      BY <1>2, <2>1, StillIs DEF Passes
    <3>2. op.pc \in {"append", "load", "wait", "sent"} /\ op.call = "delete" /\ op.change.s = u
      BY <1>1, <3>1 DEF Kept, EndIsByCall, Passes
    <3>3. op.pc \in Sends
      BY <3>2 DEF Sends
    <3>4. voice[source[u].vidx].sid # Voices!NoSource /\ source[u].vidx \in Voices!Voices
      BY <3>1, Present, VoicesAssumptions DEF Voices!HasVoice, Voices!Voices
    <3> QED BY <3>2, <3>3, <3>4 DEF Passes
  <2> QED BY <2>1 DEF EndIsByCall
<1>11. WaitsForMix'
  <2>1. Sweeping' => pending' = <<>> \/ (op'.pc \in {"load", "wait"} /\ Len(pending') = 1)
    BY <1>1, <1>2, <1>3 DEF Kept, WaitsForMix, Passes
  <2>2. op'.pc \in Sends \ {"append"} => pending' = <<>> \/ pending'[Len(pending')] = op'.change
    BY <1>1, <1>2 DEF Kept, WaitsForMix, Passes
  <2>3. Sweeping' => \A i \in Positions' : pending'[i].state = "Play" => voice'[pending'[i].v].play # "Playing"
    BY <1>1, <1>2, <1>3 DEF Kept, WaitsForMix
  <2> QED BY <2>1, <2>2, <2>3 DEF WaitsForMix
<1>12. PausedIsHushed'
  <2>1. Dims
    BY <1>2 DEF Dims
  <2>2. \A u \in Source : source'[u].state = "PAUSED" => Hushed(u)'
    BY <1>1, <1>2, <2>1, DimsHushed DEF Kept, PausedIsHushed
  <2>3. op'.pc # "append"
    BY DEF Passes
  <2> QED BY <2>2, <2>3 DEF PausedIsHushed
<1>13. CallIsRight'
  <2>1. op'.pc \in Sends /\ op'.call = "delete" =>
          \A v \in Voices!Voices : voice'[v].sid = op'.change.s => voice'[v].change
    BY <1>1, <1>2 DEF Kept, CallIsRight, Passes
  <2>2. op'.pc \in Sends /\ op'.change.state = "Restart" =>
          \A i \in Positions' :
            /\ ~Plays(pending'[i], op'.change.v)
            /\ Restarts(pending'[i], op'.change.v) /\ pending'[i].old # op'.change.old =>
                 voice'[pending'[i].old].sid = Voices!NoSource
    BY <1>1, <1>2, <1>3 DEF Kept, CallIsRight, Passes
  <2>3. op'.pc \in Sends /\ op'.call = "pause" =>
          /\ op'.change.v = source'[op'.change.s].vidx
          /\ op'.pc # "append" /\ pending' = <<>> /\ voice'[op'.change.v].sid = op'.change.s =>
               voice'[op'.change.v].play # "Playing"
    BY <1>1, <1>2 DEF Kept, CallIsRight, Passes
  <2>4. op'.pc \notin {"start", "seek", "loop"}
    BY DEF Passes
  <2> QED BY <2>1, <2>2, <2>3, <2>4 DEF CallIsRight
<1> QED BY <1>5, <1>6, <1>7, <1>8, <1>9, <1>10, <1>11, <1>12, <1>13, PassesQueues DEF Kept

LEMMA SendLoadKept == ASSUME Whole, ~Lost, Voices!SendLoad PROVE Kept'
<1>1. Typed /\ InPhase
  BY Present
<1>2. /\ op.pc = "load" /\ StillOp /\ op' \in OpRecords
      /\ op'.call = op.call /\ op'.change = op.change
      /\ op'.pc = IF connected \/ ~StopOnDisconnect THEN "wait" ELSE "drop"
  BY <1>1, SendGoes DEF Goes
<1>3. "load" \in Sends
  BY DEF Sends
<1>4. Sweeping => op'.pc = "wait"
  BY <1>1, <1>2 DEF InPhase
<1>5. op'.pc = "drop" => \A w \in Voices!Voices : voice[w].sid = Voices!NoSource
  BY <1>2 DEF Whole, Always, GoneIsLetGo, Lost
<1>6. op'.pc \in {"wait", "drop"}
  BY <1>2
<1>7. Passes
  BY <1>2, <1>3, <1>4, <1>5, <1>6 DEF Passes
<1> QED BY <1>7, PassesKept

LEMMA SendGoesKept ==
  ASSUME Whole, ~Lost, Voices!SendWait \/ Voices!SeekFails \/ Voices!LoopWait \/ Voices!SeekOld \/ Voices!SeekNew \/ Voices!SeekLast
  PROVE  Kept'
<1>1. Typed /\ InBounds
  BY Present
<1>2. ~mixing => ~Sweeping
  BY <1>1 DEF InBounds, Sweeping
<1>3. Over => op'.pc = "idle"
  BY IdleIs DEF Over
<1>4. "idle" \notin Sends /\ "seek" \notin Sends /\ "looped" \notin Sends
  BY LaterIs DEF Sends
<1>5. CASE Voices!SendWait
  <2>1. /\ op.pc = "wait" /\ ~mixing /\ StillOp /\ (Goes({"sent"}) \/ Over)
        /\ op.call \in {"pause", "delete", "seek"} => Goes({"sent"})
    BY <1>1, <1>5, SendGoes
  <2>2. op'.pc \in {"sent", "idle"}
    BY <1>3, <2>1 DEF Goes
  <2> QED BY <1>2, <1>3, <1>4, <2>1, <2>2, PassesKept DEF Passes, Goes
<1>6. CASE Voices!SeekFails \/ Voices!LoopWait
  <2>1. /\ op.pc \in {"seek", "looped"} /\ (op.pc = "looped" => ~mixing) /\ StillOp /\ Over
    BY <1>1, <1>6, SendGoes
  <2> QED BY <1>2, <1>3, <1>4, <2>1, PassesKept DEF Passes
<1>7. CASE Voices!SeekOld \/ Voices!SeekNew \/ Voices!SeekLast
  <2>1. /\ op.pc \in {"sent"} \cup Later /\ StillOp /\ (Over \/ Goes(Later)) /\ op.call = "seek"
        /\ op.pc \in Sends
    <3>1. CallKnows /\ "new" \in Later
      BY Present, LaterIs
    <3> QED BY <1>1, <1>7, <3>1, SendGoes DEF CallKnows, Goes, Sends
  <2>2. op'.pc \in {"idle"} \cup Later
    BY <1>3, <2>1 DEF Goes
  <2>3. /\ op.pc \notin {"start", "append", "loop", "looped", "load", "wait"}
        /\ op'.pc \notin {"start", "append", "seek", "loop"}
    BY <2>1, <2>2, LaterIs
  <2>4. op'.pc \in Sends => op'.call = op.call /\ op'.change = op.change
    BY <1>3, <1>4, <2>1 DEF Goes
  <2> QED BY <2>1, <2>3, <2>4, PassesKept DEF Passes
<1> QED BY <1>5, <1>6, <1>7
-----------------------------------------------------------------------------

LEMMA PauseEndsKept == ASSUME Whole, ~Lost, Voices!PauseEnds PROVE Kept'
<1>1. Typed /\ Kept /\ active \in Voices!Voices /\ active <= active /\ Len(pending) \in Nat
  BY Present
<1>2. PICK s \in Source :
        /\ op.pc = "sent" /\ op.call = "pause" /\ op.change.s = s
        /\ Sets(s, IF Voices!GetSourceState(s) = "PLAYING" THEN "PAUSED" ELSE Voices!GetSourceState(s),
                Voices!GetSourceVoice(s))
        /\ Over /\ UNCHANGED <<voice, active>> /\ Elsewhere
  BY <1>1, PauseEndsDoes
<1>3. op'.pc = "idle"
  BY <1>2, IdleIs DEF Over
<1>4. "sent" \in Sends /\ op.change.state = "Pause"
  <2>1. "sent" \in Sends
    BY DEF Sends
  <2> QED BY <1>2, <2>1, Present DEF CallKnows
<1>5. /\ Voices!Queue(s)' = Voices!Queue(s)
      /\ source'[s].vidx = Voices!GetSourceVoice(s) /\ source'[s].looping = source[s].looping
      /\ source'[s].state = IF Voices!GetSourceState(s) = "PLAYING" THEN "PAUSED" ELSE Voices!GetSourceState(s)
      /\ \A u \in Source : u # s => source'[u] = source[u]
  BY <1>2 DEF Sets, Touches, Voices!Queue
<1>6. QueueStays(source[s].vidx, s)
  BY <1>2, <1>5 DEF QueueStays, MayLoop
<1>7. Voices!HasVoice(s) /\ ~voice[source[s].vidx].change =>
        source'[s].vidx = source[s].vidx /\ source'[s].state \in {"PLAYING", "PAUSED"}
  <2>1. Voices!HasVoice(s) /\ ~voice[source[s].vidx].change => source[s].state \in {"PLAYING", "PAUSED"}
    BY <1>1 DEF Kept, VoiceHasState
  <2> QED BY <1>5, <2>1 DEF Voices!GetSourceVoice, Voices!GetSourceState
<1>8. source[s].state = "PLAYING" /\ Voices!HasVoice(s) => Hushed(s)
  <2> SUFFICES ASSUME source[s].state = "PLAYING", Voices!HasVoice(s) PROVE Hushed(s)
    OBVIOUS
  <2>1. op.change.v = source[s].vidx
    BY <1>1, <1>2, <1>4 DEF Kept, CallIsRight
  <2>2. ASSUME NEW w \in Voices!Voices, voice[w].sid = s, w # op.change.v
        PROVE  EndPending(w)
    <3>1. voice[w].change
      BY <1>1, <2>1, <2>2, VoicesAssumptions DEF Kept, VoiceIsKnown
    <3> QED BY <1>1, <1>2, <3>1 DEF Kept, ChangeIsAhead, Ahead
  <2>3. CASE pending = <<>>
    <3>1. Positions = {} /\ \A w : ~EndPending(w)
      BY <2>3 DEF Positions, EndPending
    <3>2. \A w \in Voices!Voices : voice[w].sid = s => voice[w].play # "Playing"
      BY <1>1, <1>2, <1>4, <2>2, <2>3, <3>1 DEF Kept, CallIsRight
    <3> QED BY <3>1, <3>2 DEF Hushed, Quiet, NotPlayed
  <2>4. CASE pending # <<>>
    <3> DEFINE k == Len(pending)
    <3>1. k \in Positions /\ pending[k] = op.change /\ \A i \in Positions : i \in Int /\ i <= k
      <4>1. k # 0
        BY <1>1, <2>4 DEF Typed
      <4> QED BY <1>1, <1>2, <1>4, <2>4, <4>1 DEF Kept, WaitsForMix, Positions
    <3> HIDE DEF k
    <3>2. NotPlayed(s, k)
      BY <3>1 DEF NotPlayed
    <3>3. ASSUME NEW w \in Voices!Voices, voice[w].sid = s, w # pending[k].v
          PROVE  \E i \in Positions : i < k /\ Ends(pending[i], w)
      <4>1. PICK i \in Positions : Ends(pending[i], w)
        BY <2>2, <3>1, <3>3 DEF EndPending
      <4>2. i # k
        BY <1>4, <3>1, <4>1 DEF Ends
      <4> QED BY <3>1, <4>1, <4>2
    <3>4. PausedAt(s, k)
      BY <1>2, <1>4, <3>1, <3>2, <3>3 DEF PausedAt
    <3> QED BY <3>1, <3>4 DEF Hushed
  <2> QED BY <2>3, <2>4
<1>9. source'[s].state = "PAUSED" => source[s].state = "PAUSED" \/ Hushed(s)
  BY <1>5, <1>8 DEF Voices!GetSourceState
<1>10. Marks(Voices!NoVoice) /\ Voices!NoVoice \in MaybeVoice
  BY <1>1, <1>2, MarksNone, VoicesAssumptions DEF Voices!NoVoice, Voices!Voices, MaybeVoice
<1>11. source'[s].vidx \in {source[s].vidx, Voices!NoVoice}
  BY <1>5 DEF Voices!GetSourceVoice
<1>12. Begins(s, Voices!NoVoice)
  BY <1>1, <1>2, <1>3, <1>5, <1>6, <1>7, <1>9, <1>10, <1>11, IdleRight DEF Begins
<1> QED BY <1>10, <1>12, BeginsKeeps

LEMMA DeleteEndsKept == ASSUME Whole, ~Lost, Voices!DeleteEnds PROVE Kept'
<1>1. Typed /\ Kept /\ active \in Voices!Voices /\ active <= active
  BY Present
<1>2. PICK s \in Source :
        /\ op.pc = "sent" /\ op.call = "delete" /\ op.change.s = s
        /\ source' = [source EXCEPT ![s] = Voices!Destroyed(s)]
        /\ Over /\ UNCHANGED <<voice, active>> /\ Elsewhere
  BY <1>1, DeleteEndsDoes
<1>3. op'.pc = "idle"
  BY <1>2, IdleIs DEF Over
<1>4. /\ source'[s].state = "INITIAL" /\ source'[s].vidx = Voices!NoVoice
      /\ \A u \in Source : u # s => source'[u] = source[u]
  BY <1>1, <1>2, DestroyDoes
<1>5. Voices!HasVoice(s) => voice[source[s].vidx].change
  <2>1. "sent" \in Sends
    BY DEF Sends
  <2>2. Voices!HasVoice(s) => source[s].vidx \in Voices!Voices /\ voice[source[s].vidx].sid = s
    BY <1>1, VoicesAssumptions DEF Voices!HasVoice, Voices!Voices
  <2> QED BY <1>1, <1>2, <2>1, <2>2 DEF Kept, CallIsRight
<1>6. Marks(Voices!NoVoice) /\ Voices!NoVoice \in MaybeVoice
  BY <1>1, <1>2, MarksNone, VoicesAssumptions DEF Voices!NoVoice, Voices!Voices, MaybeVoice
<1>7. Begins(s, Voices!NoVoice)
  BY <1>1, <1>2, <1>3, <1>4, <1>5, <1>6, IdleRight DEF Begins
<1> QED BY <1>6, <1>7, BeginsKeeps

(* LoopStore: the voice takes up the item to loop to, and no other does.   *)
LEMMA LoopStoreKept == ASSUME Whole, ~Lost, Voices!LoopStore PROVE Kept'
<1>1. Typed /\ InBounds /\ CallKnows /\ Kept
  BY Present
<1>2. PICK s \in Source, v \in Voices!Voices :
        /\ op.pc = "loop" /\ op.s = s /\ v = source[s].vidx /\ v <= active
        /\ op' = [pc |-> "looped"]
        /\ \A w \in Voices!Voices :
             /\ voice'[w].sid = voice[w].sid /\ voice'[w].play = voice[w].play
             /\ voice'[w].buffer = voice[w].buffer /\ voice'[w].change = voice[w].change
             /\ w # v => voice'[w] = voice[w]
        /\ voice'[v].loop = IF source[s].looping THEN Voices!Front(s) ELSE Voices!NoItem
        /\ UNCHANGED <<source, active>> /\ Elsewhere
  BY <1>1, LoopStoreDoes
<1>3. UNCHANGED <<pending, mix>> /\ Positions' = Positions
      /\ (\A w : EndPending(w)' <=> EndPending(w)) /\ (Sweeping' <=> Sweeping)
  BY <1>2, PendingSame, StaysLost DEF Elsewhere
<1>4. op'.pc = "looped" /\ "looped" \notin Sends
  BY <1>2, LaterIs DEF Sends
<1>5. \A w \in Voices!Voices : ~Ahead(w) /\ ~Ahead(w)'
  BY <1>2, <1>4 DEF Ahead
<1>6. \A i \in Positions : pending[i] \in ChangeRecords /\ ChangeOK(pending[i])
  BY Present
<1>7. ChangeIsAhead' /\ EndsOnce' /\ EndIsLast'
  <2>1. ChangeIsAhead'
    BY <1>1, <1>2, <1>3, <1>5 DEF Kept, ChangeIsAhead
  <2>2. EndsOnce'
    BY <1>1, <1>3, <1>5 DEF Kept, EndsOnce
  <2>3. EndIsLast'
    BY <1>1, <1>3, <1>4 DEF Kept, EndIsLast
  <2> QED BY <2>1, <2>2, <2>3
<1>8. RestartIsFirst'
  <2>1. \A i \in Positions : pending[i].state = "Restart" =>
          voice'[pending[i].old].sid = voice[pending[i].old].sid
    BY <1>2, <1>6, ChangeFields DEF ChangeOK
  <2> QED BY <1>1, <1>3, <2>1 DEF Kept, RestartIsFirst
<1>9. ChangesOK'
  <2>1. ASSUME NEW i \in Positions PROVE ChangeOK(pending[i])'
    BY <1>2, <1>3, <1>6, ChangeFields DEF ChangeOK
  <2> QED BY <1>3, <1>4, <2>1 DEF ChangesOK
<1>10. \A u : Voices!HasVoice(u)' <=> Voices!HasVoice(u)
  <2>1. 1..active \subseteq Voices!Voices
    BY <1>1, VoicesAssumptions DEF Typed, Voices!Voices
  <2> QED BY <1>2, <2>1 DEF Voices!HasVoice
<1>11. VoiceIsKnown'
  BY <1>1, <1>2 DEF Kept, VoiceIsKnown
<1>12. EndIsByCall' /\ VoiceHasState'
  <2>1. ASSUME NEW u \in Source, Voices!HasVoice(u)
        PROVE  source[u].vidx \in Voices!Voices /\ voice'[source[u].vidx].change = voice[source[u].vidx].change
    <3>1. source[u].vidx \in Voices!Voices
      BY <1>1, <2>1, VoicesAssumptions DEF Voices!HasVoice, Typed, Voices!Voices
    <3> QED BY <1>2, <3>1
  <2>2. ~\E u \in Source : Voices!HasVoice(u) /\ voice[source[u].vidx].change
    BY <1>1, <1>2 DEF Kept, EndIsByCall
  <2>3. EndIsByCall'
    BY <1>2, <1>10, <2>1, <2>2 DEF EndIsByCall
  <2>4. VoiceHasState'
    BY <1>1, <1>2, <1>10, <2>1 DEF Kept, VoiceHasState
  <2> QED BY <2>3, <2>4
<1>13. BeyondIsFresh'
  <2>1. \A w \in Voices!Voices : w > active => w # v
    BY <1>1, <1>2, VoicesAssumptions DEF Typed, Voices!Voices
  <2> QED BY <1>1, <1>2, <2>1 DEF Kept, BeyondIsFresh
<1>14. \A u : Voices!Queue(u)' = Voices!Queue(u) /\ Voices!Playable(u)' = Voices!Playable(u)
  BY <1>2 DEF Voices!Queue, Voices!Playable
<1>15. \A u \in Source : u # s \/ source[s].looping => (MayLoop(u) => MayLoop(u)')
  BY <1>2 DEF MayLoop
<1>16. \A w \in Voices!Voices : voice[w].sid # Voices!NoSource => voice[w].sid \in Source
  BY <1>1, VoiceFields DEF Sids
<1>17. voice[v].sid \in {s, Voices!NoSource}
  BY <1>1, <1>2 DEF Kept, CallIsRight
<1>18. ItemIsQueued'
  <2>1. ASSUME NEW w \in Voices!Voices, voice'[w].sid # Voices!NoSource, Sweeping' \/ ~EndPending(w)'
        PROVE  InQueue(w, voice[w].sid)'
    <3>1. PICK u \in Source : u = voice[w].sid /\ u = voice'[w].sid
      BY <1>2, <1>16, <2>1
    <3>2. source[u].vidx = w /\ InQueue(w, u)
      BY <1>2, <1>3, <2>1, <3>1, Heard
    <3>3. voice'[w].buffer \in Voices!Queue(u)' /\ \E j \in Voices!Playable(u)' : j[2] >= voice'[w].buffer[2]
      BY <1>2, <1>14, <3>2 DEF InQueue
    <3>4. voice'[w].loop # Voices!NoItem => voice'[w].loop \in Voices!Queue(u)' /\ MayLoop(u)'
      <4>1. CASE w = v
        <5>1. u = s
          BY <1>17, <3>1, <4>1, VoicesAssumptions
        <5>2. voice'[w].loop # Voices!NoItem => source[s].looping /\ voice'[w].loop = Voices!Front(s)
          BY <1>2, <4>1
        <5>3. Voices!Front(s) \in Voices!Queue(s)
          <6>1. PICK j \in Voices!Queue(s) : TRUE
            BY <3>2, <5>1 DEF InQueue
          <6>2. PICK n \in Nat : source[s].head <= n /\ n < source[s].tail
            BY <1>1, <6>1, QueueIs
          <6>3. source[s].head \in Nat /\ source[s].tail \in Nat
            BY <1>1, SourceFields
          <6>4. source[s].head \in source[s].head .. source[s].tail - 1
            BY <6>2, <6>3
          <6> QED BY <6>4 DEF Voices!Queue, Voices!Front
        <5>4. source[s].looping => MayLoop(s)'
          BY <1>2 DEF MayLoop
        <5> QED BY <1>14, <5>1, <5>2, <5>3, <5>4
      <4>2. CASE w # v
        <5>1. u # s
          BY <1>2, <3>2, <4>2
        <5> QED BY <1>2, <1>14, <1>15, <3>2, <4>2, <5>1 DEF InQueue
      <4> QED BY <4>1, <4>2
    <3>5. InQueue(w, u)'
      BY <3>3, <3>4 DEF InQueue
    <3> QED BY <3>1, <3>5
  <2>2. \A w \in Voices!Voices : voice'[w].sid = Voices!NoSource => voice'[w].buffer = Voices!NoItem
    BY <1>1, <1>2 DEF Kept, ItemIsQueued
  <2> QED BY <2>1, <2>2 DEF ItemIsQueued
<1>19. LoadedIsSo'
  <2>1. mix.pc \in {"reading", "ended"} => mix.v \in Voices!Voices
    <3>1. mix.pc \in {"reading", "ended"} => Sweeping /\ mix.v <= mix.last
      BY Present DEF InPhase, Sweeping
    <3> QED BY <3>1, SweepIs
  <2>2. mix.pc = "reading" =>
          /\ voice'[mix.v].play = mix.play /\ voice'[mix.v].buffer = mix.buffer
    BY <1>1, <1>2, <2>1 DEF Kept, LoadedIsSo
  <2>3. ASSUME mix.pc = "reading", mix.buffer # Voices!NoItem, mix.loop # Voices!NoItem
        PROVE  mix.loop \in Voices!Queue(voice[mix.v].sid)'
    <3>1. mix.loop \in Voices!Queue(voice[mix.v].sid)
      BY <1>1, <2>3 DEF Kept, LoadedIsSo
    <3>2. voice'[mix.v].sid = voice[mix.v].sid
      BY <1>2, <2>1, <2>3
    <3> QED BY <1>2, <1>3, <3>1, <3>2 DEF Voices!Queue
  <2>4. mix.pc = "ended" => voice'[mix.v].play = "Playing" /\ voice'[mix.v].sid = Voices!NoSource
    BY <1>1, <1>2, <2>1 DEF Kept, LoadedIsSo
  <2> QED BY <1>3, <1>4, <2>2, <2>3, <2>4 DEF LoadedIsSo
<1>20. WaitsForMix'
  <2>1. Sweeping => pending = <<>>
    BY <1>1, <1>2 DEF Kept, WaitsForMix
  <2>2. pending = <<>> => Positions = {}
    BY DEF Positions
  <2> QED BY <1>3, <1>4, <2>1, <2>2 DEF WaitsForMix
<1>21. PausedIsHushed'
  <2>1. Dims
    BY <1>2, <1>3 DEF Dims
  <2>2. \A u \in Source : source'[u].state = "PAUSED" => Hushed(u)'
    BY <1>1, <1>2, <2>1, DimsHushed DEF Kept, PausedIsHushed
  <2> QED BY <1>4, <2>2 DEF PausedIsHushed
<1>22. CallIsRight'
  BY <1>4 DEF CallIsRight
<1> QED BY <1>7, <1>8, <1>9, <1>11, <1>12, <1>13, <1>18, <1>19, <1>20, <1>21, <1>22 DEF Kept
-----------------------------------------------------------------------------

(* SendAppend: the change of the call is the last of those pending.        *)
LEMMA AppendIs ==
  ASSUME Whole, ~Lost, Voices!SendAppend
  PROVE  /\ op.pc = "append" /\ op.change \in ChangeRecords /\ ChangeOK(op.change)
         /\ op'.pc = "load" /\ op'.call = op.call /\ op'.change = op.change
         /\ UNCHANGED <<source, voice, active, mix>>
         /\ Len(pending) + 1 \in Positions' /\ pending'[Len(pending) + 1] = op.change
         /\ Len(pending') = Len(pending) + 1 /\ Len(pending) \in Nat
         /\ \A i \in Positions : i \in Positions' /\ pending'[i] = pending[i] /\ i < Len(pending) + 1
         /\ \A i \in Positions' : i \in Positions \/ i = Len(pending) + 1
         /\ \A w \in Voices!Voices : EndPending(w)' <=> EndPending(w) \/ Ends(op.change, w)
         /\ \A w \in Voices!Voices : (Ahead(w) <=> Ends(op.change, w)) /\ ~Ahead(w)'
         /\ (Sweeping' <=> Sweeping)
<1>1. /\ op.pc = "append" /\ op.change \in ChangeRecords
      /\ op'.pc = "load" /\ op'.call = op.call /\ op'.change = op.change
      /\ Len(pending') = Len(pending) + 1 /\ Len(pending) \in Nat
      /\ pending'[Len(pending) + 1] = op.change
      /\ \A i \in Positions : pending'[i] = pending[i]
      /\ UNCHANGED <<source, voice, active, mix>>
  BY Present, SendAppendDoes
<1>2. ChangeOK(op.change)
  BY <1>1, Present DEF Kept, ChangesOK
<1>3. /\ Len(pending) + 1 \in Positions'
      /\ \A i \in Positions : i \in Positions' /\ i < Len(pending) + 1
      /\ \A i \in Positions' : i \in Positions \/ i = Len(pending) + 1
  BY <1>1 DEF Positions
<1>4. \A w \in Voices!Voices : EndPending(w)' <=> EndPending(w) \/ Ends(op.change, w)
  <2>1. ASSUME NEW w \in Voices!Voices, EndPending(w)' PROVE EndPending(w) \/ Ends(op.change, w)
    <3>1. PICK i \in Positions' : Ends(pending'[i], w)
      BY <2>1 DEF EndPending
    <3> QED BY <1>1, <1>3, <3>1 DEF EndPending
  <2>2. ASSUME NEW w \in Voices!Voices, EndPending(w) \/ Ends(op.change, w) PROVE EndPending(w)'
    <3>1. \E i \in Positions' : Ends(pending'[i], w)
      BY <1>1, <1>3, <2>2 DEF EndPending
    <3> QED BY <3>1 DEF EndPending
  <2> QED BY <2>1, <2>2
<1>5. \A w \in Voices!Voices : (Ahead(w) <=> Ends(op.change, w)) /\ ~Ahead(w)'
  BY <1>1 DEF Ahead
<1> QED BY <1>1, <1>2, <1>3, <1>4, <1>5 DEF Sweeping

LEMMA AppendChanges ==
  ASSUME Whole, ~Lost, Voices!SendAppend
  PROVE  ChangeIsAhead' /\ EndsOnce' /\ EndIsLast' /\ RestartIsFirst' /\ ChangesOK'
<1> DEFINE n == Len(pending) + 1
<1>1. Kept /\ \A i \in Positions : pending[i] \in ChangeRecords /\ ChangeOK(pending[i])
  BY Present
<1>2. /\ op.pc = "append" /\ op.change \in ChangeRecords /\ ChangeOK(op.change) /\ op'.pc = "load"
      /\ UNCHANGED <<voice, active>>
      /\ n \in Positions' /\ pending'[n] = op.change
      /\ \A i \in Positions : i \in Positions' /\ pending'[i] = pending[i] /\ i < n
      /\ \A i \in Positions' : i \in Positions \/ i = n
      /\ \A w \in Voices!Voices : EndPending(w)' <=> EndPending(w) \/ Ends(op.change, w)
      /\ \A w \in Voices!Voices : (Ahead(w) <=> Ends(op.change, w)) /\ ~Ahead(w)'
      /\ n \in Nat
  BY AppendIs
<1> HIDE DEF n
<1>3. ChangeIsAhead'
  BY <1>1, <1>2 DEF Kept, ChangeIsAhead
<1>4. EndsOnce'
  <2>1. ASSUME NEW w \in Voices!Voices, NEW i \in Positions', NEW j \in Positions',
               Ends(pending'[i], w), Ends(pending'[j], w)
        PROVE  i = j
    <3>1. CASE i \in Positions /\ j \in Positions
      BY <1>1, <1>2, <2>1, <3>1 DEF Kept, EndsOnce
    <3>2. Ends(op.change, w) => ~EndPending(w)
      BY <1>1, <1>2 DEF Kept, EndsOnce
    <3> QED BY <1>2, <2>1, <3>1, <3>2 DEF EndPending
  <2> QED BY <1>2, <2>1 DEF EndsOnce
<1>5. EndIsLast'
  <2>1. ASSUME NEW w \in Voices!Voices, NEW i \in Positions', NEW j \in Positions',
               Ends(pending'[i], w), Plays(pending'[j], w) \/ Restarts(pending'[j], w)
        PROVE  j < i
    <3>1. CASE i \in Positions /\ j \in Positions
      BY <1>1, <1>2, <2>1, <3>1 DEF Kept, EndIsLast
    <3>2. CASE i = n /\ j \in Positions
      BY <1>2, <3>2
    <3>3. CASE j = n
      <4>1. op.change.state \in {"Play", "Restart"} /\ op.change.v = w
        BY <1>2, <2>1, <3>3 DEF Plays, Restarts
      <4>2. ~voice[w].change
        BY <1>1, <1>2, <4>1 DEF Kept, EndIsLast
      <4>3. EndPending(w) \/ Ahead(w)
        BY <1>2, <2>1 DEF EndPending
      <4> QED BY <1>1, <4>2, <4>3 DEF Kept, ChangeIsAhead
    <3> QED BY <1>2, <3>1, <3>2, <3>3
  <2> QED BY <1>2, <2>1 DEF EndIsLast
<1>6. RestartIsFirst'
  <2>1. ASSUME NEW i \in Positions', NEW j \in Positions', i < j, Restarts(pending'[j], pending'[i].v)
        PROVE  /\ pending'[i].state # "Play"
               /\ pending'[i].state = "Restart" => voice'[pending'[i].old].sid = Voices!NoSource
    <3>1. CASE i \in Positions /\ j \in Positions
      BY <1>1, <1>2, <2>1, <3>1 DEF Kept, RestartIsFirst
    <3>2. CASE i \in Positions /\ j = n
      <4>1. op.change.state = "Restart" /\ op.change.v = pending[i].v /\ "append" \in Sends
        BY <1>2, <2>1, <3>2 DEF Restarts, Sends
      <4>2. /\ ~Plays(pending[i], op.change.v)
            /\ Restarts(pending[i], op.change.v) /\ pending[i].old # op.change.old =>
                 voice[pending[i].old].sid = Voices!NoSource
        BY <1>1, <1>2, <3>2, <4>1 DEF Kept, CallIsRight
      <4>3. pending[i].state = "Restart" => pending[i].old # op.change.old
        <5>1. op.change.old \in Voices!Voices /\ Ends(op.change, op.change.old)
          BY <1>2, <4>1, ChangeFields DEF ChangeOK, Ends
        <5>2. ~Ends(pending[i], op.change.old)
          BY <1>1, <1>2, <3>2, <5>1 DEF Kept, EndsOnce, EndPending
        <5> QED BY <5>1, <5>2, ChangeFields DEF Ends
      <4> QED BY <1>2, <3>2, <4>1, <4>2, <4>3 DEF Plays, Restarts
    <3>3. CASE i = n
      <4>1. j \in Int /\ j <= n
        <5>1. \A x \in Positions : x \in Int
          BY DEF Positions
        <5>2. CASE j \in Positions
          BY <1>2, <5>1, <5>2
        <5>3. CASE j = n
          BY <1>2, <5>3
        <5> QED BY <1>2, <5>2, <5>3
      <4> QED BY <1>2, <2>1, <3>3, <4>1
    <3> QED BY <1>2, <3>1, <3>2, <3>3
  <2> QED BY <1>2, <2>1 DEF RestartIsFirst
<1>7. ChangesOK'
  <2>1. ASSUME NEW c \in ChangeRecords, ChangeOK(c) PROVE ChangeOK(c)'
    BY <1>2, <2>1 DEF ChangeOK
  <2>2. ASSUME NEW i \in Positions' PROVE ChangeOK(pending[i])'
    <3>1. PICK c \in ChangeRecords : c = pending'[i] /\ ChangeOK(c)
      BY <1>1, <1>2
    <3>2. ChangeOK(c)'
      BY <2>1, <3>1
    <3> QED BY <3>1, <3>2 DEF ChangeOK
  <2> QED BY <1>2, <2>2 DEF ChangesOK
<1> QED BY <1>3, <1>4, <1>5, <1>6, <1>7

LEMMA AppendHushed ==
  ASSUME Whole, ~Lost, Voices!SendAppend
  PROVE  PausedIsHushed'
<1> DEFINE n == Len(pending) + 1
<1>1. Kept /\ CallKnows
  BY Present
<1>2. /\ op.pc = "append" /\ op'.pc = "load"
      /\ UNCHANGED <<source, voice>>
      /\ n \in Positions' /\ pending'[n] = op.change
      /\ \A i \in Positions : i \in Positions' /\ pending'[i] = pending[i] /\ i < n
      /\ \A i \in Positions' : i \in Positions \/ i = n
      /\ n \in Nat /\ \A i \in Positions : i \in Int
  BY AppendIs DEF Positions
<1> HIDE DEF n
<1>3. ASSUME NEW s \in Source, source'[s].state = "PAUSED" PROVE Hushed(s)'
  <2>1. op.change.s = s => op.change.state # "Play"
    <3>1. "append" \in Sends
      BY DEF Sends
    <3> QED BY <1>1, <1>2, <1>3, <3>1 DEF CallKnows
  <2>2. ASSUME NEW k, NotPlayed(s, k) PROVE NotPlayed(s, k)'
    BY <1>2, <2>1, <2>2 DEF NotPlayed
  <2>3. Hushed(s)
    BY <1>1, <1>2, <1>3 DEF Kept, PausedIsHushed
  <2>4. CASE Quiet(s)
    BY <1>2, <2>2, <2>4 DEF Quiet, Hushed
  <2>5. CASE \E k \in Positions : PausedAt(s, k)
    <3>1. PICK k \in Positions : PausedAt(s, k)
      BY <2>5
    <3>2. k < n /\ pending'[k] = pending[k] /\ k \in Positions' /\ k \in Int
      BY <1>2
    <3>3. \A i \in Positions' : i < k => i \in Positions /\ pending'[i] = pending[i]
      BY <1>2, <3>2
    <3>4. NotPlayed(s, k)'
      BY <2>2, <3>1 DEF PausedAt
    <3>5. ASSUME NEW w \in Voices!Voices, voice'[w].sid = s, w # pending'[k].v
          PROVE  \/ \E i \in Positions' : i < k /\ Ends(pending'[i], w)
                 \/ /\ voice'[w].play # "Playing"
                    /\ \A i \in Positions' : i < k => ~Wakes(pending[i], w)'
      <4>1. \/ \E i \in Positions : i < k /\ Ends(pending[i], w)
            \/ /\ voice[w].play # "Playing"
               /\ \A i \in Positions : i < k => ~Wakes(pending[i], w)
        BY <1>2, <3>1, <3>2, <3>5 DEF PausedAt
      <4>2. CASE \E i \in Positions : i < k /\ Ends(pending[i], w)
        BY <1>2, <4>2
      <4>3. CASE /\ voice[w].play # "Playing"
                 /\ \A i \in Positions : i < k => ~Wakes(pending[i], w)
        <5>1. \A i \in Positions' : i < k => ~Wakes(pending[i], w)'
          BY <1>2, <3>3, <4>3 DEF Wakes
        <5> QED BY <1>2, <4>3, <5>1
      <4> QED BY <4>1, <4>2, <4>3
    <3>6. PausedAt(s, k)'
      BY <3>1, <3>2, <3>4, <3>5 DEF PausedAt
    <3> QED BY <3>2, <3>6 DEF Hushed
  <2> QED BY <2>3, <2>4, <2>5 DEF Hushed
<1> QED BY <1>2, <1>3 DEF PausedIsHushed

LEMMA SendAppendKept == ASSUME Whole, ~Lost, Voices!SendAppend PROVE Kept'
<1> DEFINE n == Len(pending) + 1
<1>1. Kept /\ Typed
  BY Present
<1>2. /\ op.pc = "append" /\ op.change \in ChangeRecords /\ ChangeOK(op.change)
      /\ op'.pc = "load" /\ op'.call = op.call /\ op'.change = op.change
      /\ UNCHANGED <<source, voice, active, mix>>
      /\ n \in Positions' /\ pending'[n] = op.change /\ Len(pending') = n
      /\ \A i \in Positions : i \in Positions' /\ pending'[i] = pending[i] /\ i < n
      /\ \A i \in Positions' : i \in Positions \/ i = n
      /\ \A w \in Voices!Voices : EndPending(w)' <=> EndPending(w) \/ Ends(op.change, w)
      /\ (Sweeping' <=> Sweeping)
  BY AppendIs
<1>3. Sweeping => pending = <<>> /\ Positions = {} /\ n = 1
  <2>1. Sweeping => pending = <<>>
    BY <1>1, <1>2 DEF Kept, WaitsForMix
  <2> QED BY <2>1 DEF Positions
<1> HIDE DEF n
<1>4. /\ \A s : Voices!HasVoice(s)' <=> Voices!HasVoice(s)
      /\ \A s : Voices!Queue(s)' = Voices!Queue(s) /\ Voices!Playable(s)' = Voices!Playable(s)
  BY <1>2 DEF Voices!HasVoice, Voices!Queue, Voices!Playable
<1>5. VoiceIsKnown' /\ VoiceHasState' /\ BeyondIsFresh'
  BY <1>1, <1>2, <1>4 DEF Kept, VoiceIsKnown, VoiceHasState, BeyondIsFresh
<1>6. EndIsByCall'
  BY <1>1, <1>2, <1>4 DEF Kept, EndIsByCall
<1>7. \A s : MayLoop(s)' <=> MayLoop(s)
  BY <1>2 DEF MayLoop
<1>8. ItemIsQueued'
  <2>1. ASSUME NEW w \in Voices!Voices, voice'[w].sid # Voices!NoSource, Sweeping' \/ ~EndPending(w)'
        PROVE  InQueue(w, voice[w].sid)'
    <3>1. PICK u \in Source : u = voice[w].sid
      BY <1>1, <1>2, <2>1, VoiceFields DEF Sids
    <3>2. InQueue(w, u)
      BY <1>1, <1>2, <2>1, <3>1 DEF Kept, ItemIsQueued
    <3>3. InQueue(w, u)'
      BY <1>2, <1>4, <1>7, <3>2 DEF InQueue
    <3> QED BY <1>2, <3>1, <3>3
  <2>2. \A w \in Voices!Voices : voice'[w].sid = Voices!NoSource => voice'[w].buffer = Voices!NoItem
    BY <1>1, <1>2 DEF Kept, ItemIsQueued
  <2> QED BY <2>1, <2>2 DEF ItemIsQueued
<1>9. LoadedIsSo'
  BY <1>1, <1>2 DEF Kept, LoadedIsSo, Voices!Queue, MayLoop
<1>10. WaitsForMix'
  <2>1. Sweeping /\ op.change.state = "Play" => voice[op.change.v].play # "Playing"
    <3> SUFFICES ASSUME Sweeping, op.change.state = "Play" PROVE voice[op.change.v].play # "Playing"
      OBVIOUS
    <3>1. op.change.v \in Voices!Voices /\ voice[op.change.v].sid = op.change.s
      BY <1>2, ChangeFields DEF ChangeOK
    <3>2. Asleep(op.change.v) \/ Quiet(op.change.s)
      BY <1>1, <1>2, <1>3 DEF Kept, PausedIsHushed, Hushed
    <3> QED BY <3>1, <3>2 DEF Asleep, Quiet
  <2>2. Sweeping' => \A i \in Positions' : pending'[i] = op.change
    BY <1>2, <1>3
  <2>3. Sweeping' => Len(pending') = 1
    BY <1>2, <1>3
  <2> QED BY <1>2, <2>1, <2>2, <2>3 DEF WaitsForMix
<1>11. CallIsRight'
  <2>1. "load" \in Sends /\ "append" \in Sends
    BY DEF Sends
  <2>2. op'.call = "delete" => \A v \in Voices!Voices : voice'[v].sid = op'.change.s => voice'[v].change
    BY <1>1, <1>2, <2>1 DEF Kept, CallIsRight
  <2>3. op'.change.state = "Restart" =>
          \A i \in Positions' :
            /\ ~Plays(pending'[i], op'.change.v)
            /\ Restarts(pending'[i], op'.change.v) /\ pending'[i].old # op'.change.old =>
                 voice'[pending'[i].old].sid = Voices!NoSource
    <3>1. op.change.state = "Restart" => ~Plays(op.change, op.change.v)
      BY DEF Plays
    <3> QED BY <1>1, <1>2, <2>1, <3>1 DEF Kept, CallIsRight
  <2>4. op'.call = "pause" => op'.change.v = source'[op'.change.s].vidx
    BY <1>1, <1>2, <2>1 DEF Kept, CallIsRight
  <2>5. pending' # <<>>
    BY <1>2 DEF Positions
  <2> QED BY <1>2, <2>2, <2>3, <2>4, <2>5 DEF CallIsRight
<1> QED BY <1>5, <1>6, <1>8, <1>9, <1>10, <1>11, AppendChanges, AppendHushed DEF Kept
-----------------------------------------------------------------------------

(* A start or a seek gives source s the voice v, which nothing else knows.  *)
Gifts(s, v) ==
  /\ op.pc \in {"start", "seek"} /\ op.s = s /\ op.old # v
  /\ Elsewhere /\ active' \in Voices!Voices /\ active <= active' /\ v <= active'
  /\ voice[v].sid = Voices!NoSource /\ ~voice[v].change /\ voice[v].play = "Stopped"
  /\ voice'[v].sid = s /\ ~voice'[v].change
  /\ \A w \in Voices!Voices : w # v =>
       /\ voice'[w].sid = voice[w].sid /\ voice'[w].play = voice[w].play /\ KeepsItem(w)
       /\ voice'[w].change <=> voice[w].change \/ w = op.old
       /\ w # op.old => voice'[w] = voice[w]
  /\ \A u \in Source : u # s => source'[u] = source[u]
  /\ Voices!Queue(s)' = Voices!Queue(s) /\ Voices!Playable(s)' = Voices!Playable(s) /\ source'[s].looping = source[s].looping
  /\ source'[s].vidx = v /\ source'[s].state \in {"PLAYING", "PAUSED"}
  /\ source'[s].state = "PAUSED" => source[s].state = "PAUSED"
  /\ op'.pc = "append" /\ op'.call \notin {"delete", "pause"} /\ op'.change \in ChangeRecords
  /\ op'.change.v = v /\ op'.change.s = s /\ op'.change.old = op.old
  /\ \/ op'.change.state = "Play" /\ voice'[v].play = "Stopped"
     \/ op'.change.state = "Restart" /\ voice'[v].play = "Pending" /\ op.old # Voices!NoVoice
  /\ op.old # Voices!NoVoice => /\ op.old \in Voices!Voices /\ op.old <= active
                                /\ voice[op.old].sid \in {s, Voices!NoSource} /\ ~EndPending(op.old)
  /\ \A w \in Voices!Voices : voice[w].sid = s => voice[w].change \/ w = op.old
  /\ InQueue(v, s)'

LEMMA GiftsIs ==
  ASSUME Whole, ~Lost, NEW s \in Source, NEW v \in Voices!Voices, Gifts(s, v)
  PROVE  /\ UNCHANGED pending /\ Positions' = Positions /\ (\A w : EndPending(w)' <=> EndPending(w))
         /\ (Sweeping' <=> Sweeping) /\ mix' = mix
         /\ \A w \in Voices!Voices : Ahead(w)' <=> w = op.old
         /\ \A w \in Voices!Voices : Ahead(w) => w = op.old
         /\ ~EndPending(v) /\ v # Voices!NoVoice /\ s # Voices!NoSource
         /\ \A i \in Positions :
              /\ pending[i] \in ChangeRecords /\ ChangeOK(pending[i])
              /\ ~Plays(pending[i], v) /\ ~Ends(pending[i], v)
              /\ pending[i].state = "Restart" => pending[i].old \in Voices!Voices /\ pending[i].old # v
              /\ Restarts(pending[i], v) => voice[pending[i].old].sid = Voices!NoSource
<1>1. Kept
  BY Present
<1>2. UNCHANGED pending /\ Positions' = Positions /\ (\A w : EndPending(w)' <=> EndPending(w))
  BY PendingSame DEF Gifts, Elsewhere
<1>3. (Sweeping' <=> Sweeping) /\ mix' = mix
  BY StaysLost DEF Gifts, Elsewhere
<1>4. Voices!NoVoice \notin Voices!Voices
  BY VoicesAssumptions DEF Voices!NoVoice, Voices!Voices
<1>5. \A w \in Voices!Voices : Ahead(w)' <=> w = op.old
  BY <1>4 DEF Gifts, Ahead, Ends
<1>6. \A w \in Voices!Voices : Ahead(w) => w = op.old
  BY DEF Gifts, Ahead
<1>7. ~EndPending(v) /\ v # Voices!NoVoice /\ s # Voices!NoSource
  BY <1>1, <1>4, VoicesAssumptions DEF Gifts, Kept, ChangeIsAhead
<1>8. ASSUME NEW i \in Positions
      PROVE  /\ pending[i] \in ChangeRecords /\ ChangeOK(pending[i])
             /\ ~Plays(pending[i], v) /\ ~Ends(pending[i], v)
             /\ pending[i].state = "Restart" => pending[i].old \in Voices!Voices /\ pending[i].old # v
             /\ Restarts(pending[i], v) => voice[pending[i].old].sid = Voices!NoSource
  <2>1. pending[i] \in ChangeRecords /\ ChangeOK(pending[i]) /\ pending[i].s \in Source
    BY Present, ChangeFields
  <2>2. ~Ends(pending[i], v)
    BY <1>7 DEF EndPending
  <2>3. ~Plays(pending[i], v)
    BY <2>1, VoicesAssumptions DEF Gifts, Plays, ChangeOK
  <2>4. pending[i].state = "Restart" => pending[i].old \in Voices!Voices
    BY <2>1, ChangeFields DEF ChangeOK
  <2>5. pending[i].state = "Restart" => pending[i].old # v
    BY <1>7, <2>2 DEF Ends
  <2>6. Restarts(pending[i], v) => voice[pending[i].old].sid = Voices!NoSource
    BY <2>1, VoicesAssumptions DEF Gifts, Restarts, ChangeOK
  <2> QED BY <2>1, <2>2, <2>3, <2>4, <2>5, <2>6
<1> QED BY <1>2, <1>3, <1>5, <1>6, <1>7, <1>8

LEMMA GiftsChanges ==
  ASSUME Whole, ~Lost, NEW s \in Source, NEW v \in Voices!Voices, Gifts(s, v)
  PROVE  ChangeIsAhead' /\ EndsOnce' /\ EndIsLast' /\ RestartIsFirst' /\ ChangesOK'
<1>1. Kept
  BY Present
<1>2. /\ UNCHANGED pending /\ Positions' = Positions /\ (\A w : EndPending(w)' <=> EndPending(w))
      /\ \A w \in Voices!Voices : Ahead(w)' <=> w = op.old
      /\ \A w \in Voices!Voices : Ahead(w) => w = op.old
      /\ ~EndPending(v)
  BY GiftsIs
<1>3. ChangeIsAhead'
  <2>1. ASSUME NEW w \in Voices!Voices PROVE voice'[w].change <=> EndPending(w)' \/ Ahead(w)'
    <3>1. CASE w = v
      BY <1>2, <3>1 DEF Gifts
    <3>2. CASE w # v
      <4>1. voice'[w].change <=> voice[w].change \/ w = op.old
        BY <3>2 DEF Gifts
      <4>2. voice[w].change <=> EndPending(w) \/ Ahead(w)
        BY <1>1 DEF Kept, ChangeIsAhead
      <4> QED BY <1>2, <4>1, <4>2
    <3> QED BY <3>1, <3>2
  <2> QED BY <2>1 DEF ChangeIsAhead
<1>4. EndsOnce'
  <2>1. \A w \in Voices!Voices : Ahead(w)' => ~EndPending(w)'
    <3>1. op.old \in Voices!Voices => op.old # Voices!NoVoice
      BY VoicesAssumptions DEF Voices!NoVoice, Voices!Voices
    <3> QED BY <1>2, <3>1 DEF Gifts
  <2> QED BY <1>1, <1>2, <2>1 DEF Kept, EndsOnce
<1>5. EndIsLast'
  BY <1>1, <1>2 DEF Kept, EndIsLast, Gifts
<1>6. RestartIsFirst'
  <2>1. \A i \in Positions : pending[i].state = "Restart" =>
          voice'[pending[i].old].sid = voice[pending[i].old].sid
    BY GiftsIs DEF Gifts
  <2> QED BY <1>1, <1>2, <2>1 DEF Kept, RestartIsFirst
<1>7. ChangesOK'
  <2>1. ASSUME NEW i \in Positions PROVE ChangeOK(pending[i])'
    <3> DEFINE c == pending[i]
    <3>1. /\ c \in ChangeRecords /\ ChangeOK(c) /\ pending'[i] = c
          /\ ~Plays(c, v) /\ ~Ends(c, v)
          /\ c.state = "Restart" => c.old \in Voices!Voices /\ c.old # v
          /\ Restarts(c, v) => voice[c.old].sid = Voices!NoSource
      BY <1>2, GiftsIs
    <3> HIDE DEF c
    <3>2. c.v <= active' /\ c.old <= active'
      <4>1. c.v \in Int /\ c.old \in Int /\ active' \in Int /\ active \in Int
        BY <3>1, Present, VoicesAssumptions DEF Gifts, Voices!Voices, ChangeRecords,
            MaybeVoice
      <4> QED BY <3>1, <4>1 DEF ChangeOK, Gifts
    <3>3. c.v = Voices!NoVoice => c.state = "Reset"
      BY <3>1 DEF ChangeOK
    <3>4. \A w \in Voices!Voices : Ends(c, w) => voice'[w].sid \in {c.s, Voices!NoSource}
      BY <3>1 DEF ChangeOK, Gifts
    <3>5. c.state = "Play" => voice'[c.v].sid = c.s
      <4>1. c.state = "Play" => c.v \in Voices!Voices /\ c.v # v
        BY <3>1, ChangeFields DEF ChangeOK, Plays
      <4> QED BY <3>1, <4>1 DEF ChangeOK, Gifts
    <3>6. c.state = "Restart" =>
            /\ c.old # Voices!NoVoice /\ c.v # c.old
            /\ voice'[c.old].sid # Voices!NoSource => voice'[c.v].sid = c.s /\ voice'[c.v].play = "Pending"
      <4> SUFFICES ASSUME c.state = "Restart"
                   PROVE  /\ c.old # Voices!NoVoice /\ c.v # c.old
                          /\ voice'[c.old].sid # Voices!NoSource =>
                               voice'[c.v].sid = c.s /\ voice'[c.v].play = "Pending"
        OBVIOUS
      <4>1. c.v \in Voices!Voices /\ c.old # Voices!NoVoice /\ c.v # c.old
        BY <3>1, ChangeFields DEF ChangeOK
      <4>2. voice'[c.old].sid = voice[c.old].sid
        BY <3>1 DEF Gifts
      <4>3. CASE c.v = v
        BY <3>1, <4>1, <4>2, <4>3 DEF Restarts
      <4>4. CASE c.v # v
        BY <3>1, <4>1, <4>2, <4>4 DEF ChangeOK, Gifts
      <4> QED BY <4>3, <4>4
    <3> QED BY <3>1, <3>2, <3>3, <3>4, <3>5, <3>6 DEF ChangeOK
  <2>2. ChangeOK(op.change)'
    <3> DEFINE c == op'.change
    <3>1. /\ c.v = v /\ c.s = s /\ c.old = op.old /\ v # Voices!NoVoice /\ c.state \in {"Play", "Restart"}
      BY GiftsIs DEF Gifts
    <3>2. c.v <= active' /\ c.old <= active'
      <4>1. active' \in Int /\ active \in Int /\ active <= active' /\ Voices!NoVoice <= active'
        BY Present, VoicesAssumptions DEF Gifts, Voices!Voices, Voices!NoVoice
      <4>2. op.old # Voices!NoVoice => op.old \in Int /\ op.old <= active
        BY VoicesAssumptions DEF Gifts, Voices!Voices
      <4> QED BY <3>1, <4>1, <4>2 DEF Gifts
    <3>3. \A w \in Voices!Voices : Ends(c, w) => voice'[w].sid \in {c.s, Voices!NoSource}
      BY <3>1 DEF Gifts, Ends
    <3>4. c.state = "Play" => voice'[c.v].sid = c.s
      BY <3>1 DEF Gifts
    <3>5. c.state = "Restart" =>
            /\ c.old # Voices!NoVoice /\ c.v # c.old
            /\ voice'[c.old].sid # Voices!NoSource => voice'[c.v].sid = c.s /\ voice'[c.v].play = "Pending"
      BY <3>1 DEF Gifts
    <3> QED BY <3>1, <3>2, <3>3, <3>4, <3>5 DEF ChangeOK
  <2> QED BY <1>2, <2>1, <2>2 DEF ChangesOK
<1> QED BY <1>3, <1>4, <1>5, <1>6, <1>7

LEMMA GiftsVoices ==
  ASSUME Whole, ~Lost, NEW s \in Source, NEW v \in Voices!Voices, Gifts(s, v)
  PROVE  VoiceIsKnown' /\ EndIsByCall' /\ VoiceHasState' /\ BeyondIsFresh'
<1>1. Kept /\ InBounds /\ active \in Int /\ active' \in Int /\ active <= active'
  BY Present, VoicesAssumptions DEF Gifts, Voices!Voices
<1>2. VoiceIsKnown'
  <2>1. ASSUME NEW w \in Voices!Voices, voice'[w].sid # Voices!NoSource, ~voice'[w].change
        PROVE  source'[voice'[w].sid].vidx = w
    <3>1. CASE w = v
      BY <3>1 DEF Gifts
    <3>2. CASE w # v
      <4>1. voice'[w].sid = voice[w].sid /\ ~voice[w].change /\ w # op.old
        BY <2>1, <3>2 DEF Gifts
      <4>2. voice[w].sid # s /\ source[voice[w].sid].vidx = w
        BY <1>1, <2>1, <4>1 DEF Gifts, Kept, VoiceIsKnown
      <4>3. voice[w].sid \in Source
        BY <2>1, <4>1, Present, VoiceFields DEF Sids
      <4> QED BY <4>1, <4>2, <4>3 DEF Gifts
    <3> QED BY <3>1, <3>2
  <2> QED BY <2>1 DEF VoiceIsKnown
<1>3. ASSUME NEW u \in Source, Voices!HasVoice(u)', u # s
      PROVE  /\ source'[u] = source[u] /\ Voices!HasVoice(u) /\ source[u].vidx \in Voices!Voices
             /\ source[u].vidx # v /\ source[u].vidx # op.old
  <2>1. source'[u] = source[u]
    BY <1>3 DEF Gifts
  <2>2. source[u].vidx \in 1..active' /\ voice'[source[u].vidx].sid = u
    BY <1>3, <2>1 DEF Voices!HasVoice
  <2>3. source[u].vidx \in Voices!Voices /\ source[u].vidx # Voices!NoVoice
    BY <2>2, VoicesAssumptions DEF Gifts, Voices!Voices, Voices!NoVoice
  <2>4. source[u].vidx # v /\ voice[source[u].vidx].sid = u
    BY <1>3, <2>2, <2>3 DEF Gifts
  <2>5. source[u].vidx \in 1..active
    <3>1. source[u].vidx <= active
      BY <1>1 DEF InBounds
    <3> QED BY <1>1, <2>2, <3>1
  <2>6. source[u].vidx # op.old
    BY <1>3, <2>3, <2>4, VoicesAssumptions DEF Gifts
  <2> QED BY <2>1, <2>3, <2>4, <2>5, <2>6 DEF Voices!HasVoice
<1>4. EndIsByCall'
  <2>1. ASSUME NEW u \in Source, Voices!HasVoice(u)' PROVE ~voice'[source'[u].vidx].change
    <3>1. CASE u = s
      BY <3>1 DEF Gifts
    <3>2. CASE u # s
      <4>1. ~voice[source[u].vidx].change
        BY <1>1, <1>3, <2>1, <3>2 DEF Kept, EndIsByCall, Gifts
      <4> QED BY <1>3, <2>1, <3>2, <4>1 DEF Gifts
    <3> QED BY <3>1, <3>2
  <2> QED BY <2>1 DEF EndIsByCall
<1>5. VoiceHasState'
  <2>1. ASSUME NEW u \in Source, Voices!HasVoice(u)', ~voice'[source'[u].vidx].change
        PROVE  source'[u].state \in {"PLAYING", "PAUSED"}
    <3>1. CASE u = s
      BY <3>1 DEF Gifts
    <3>2. CASE u # s
      <4>1. ~voice[source[u].vidx].change
        BY <1>3, <2>1, <3>2 DEF Gifts
      <4> QED BY <1>1, <1>3, <2>1, <3>2, <4>1 DEF Kept, VoiceHasState
    <3> QED BY <3>1, <3>2
  <2> QED BY <2>1 DEF VoiceHasState
<1>6. BeyondIsFresh'
  <2>1. ASSUME NEW w \in Voices!Voices, w > active' PROVE voice'[w] = Voices!Fresh
    <3>1. w > active /\ w \in Int
      BY <1>1, <2>1, VoicesAssumptions DEF Voices!Voices
    <3>2. w # v
      BY <1>1, <2>1, <3>1 DEF Gifts
    <3>3. w # op.old
      BY <1>1, <3>1, VoicesAssumptions DEF Gifts, Voices!NoVoice, Voices!Voices
    <3>4. voice[w] = Voices!Fresh
      BY <1>1, <3>1 DEF Kept, BeyondIsFresh
    <3> QED BY <3>2, <3>3, <3>4 DEF Gifts
  <2> QED BY <2>1 DEF BeyondIsFresh
<1> QED BY <1>2, <1>4, <1>5, <1>6

LEMMA GiftsItems ==
  ASSUME Whole, ~Lost, NEW s \in Source, NEW v \in Voices!Voices, Gifts(s, v)
  PROVE  ItemIsQueued' /\ LoadedIsSo' /\ WaitsForMix'
<1>1. Kept /\ Typed
  BY Present
<1>2. /\ UNCHANGED pending /\ Positions' = Positions /\ (\A w : EndPending(w)' <=> EndPending(w))
      /\ (Sweeping' <=> Sweeping) /\ mix' = mix
  BY GiftsIs
<1>3. ASSUME NEW u \in Source
      PROVE  /\ Voices!Queue(u)' = Voices!Queue(u) /\ Voices!Playable(u)' = Voices!Playable(u)
             /\ MayLoop(u) => MayLoop(u)'
  <2>1. CASE u = s
    BY <2>1 DEF Gifts, MayLoop
  <2>2. CASE u # s
    BY <2>2 DEF Gifts, MayLoop, Voices!Queue, Voices!Playable
  <2> QED BY <2>1, <2>2
<1>4. ItemIsQueued'
  <2>1. ASSUME NEW w \in Voices!Voices, voice'[w].sid # Voices!NoSource, Sweeping' \/ ~EndPending(w)'
        PROVE  InQueue(w, voice[w].sid)'
    <3>1. CASE w = v
      <4>1. InQueue(v, s)' /\ voice'[v].sid = s
        BY DEF Gifts
      <4> QED BY <3>1, <4>1
    <3>2. CASE w # v
      <4>1. voice'[w].sid = voice[w].sid /\ KeepsItem(w)
        BY <3>2 DEF Gifts
      <4>2. PICK u \in Source : u = voice[w].sid
        BY <1>1, <2>1, <4>1, VoiceFields DEF Sids
      <4>3. InQueue(w, u)
        BY <1>1, <1>2, <2>1, <4>1, <4>2 DEF Kept, ItemIsQueued
      <4>4. InQueue(w, u)'
        BY <1>3, <4>1, <4>3 DEF InQueue, KeepsItem
      <4> QED BY <4>1, <4>2, <4>4
    <3> QED BY <3>1, <3>2
  <2>2. \A w \in Voices!Voices : voice'[w].sid = Voices!NoSource => voice'[w].buffer = Voices!NoItem
    <3>1. \A w \in Voices!Voices : voice'[w].sid = Voices!NoSource => w # v
      BY GiftsIs DEF Gifts
    <3> QED BY <1>1, <3>1 DEF Kept, ItemIsQueued, Gifts, KeepsItem
  <2> QED BY <2>1, <2>2 DEF ItemIsQueued
<1>5. LoadedIsSo'
  <2>1. mix.pc \in {"reading", "ended"} => mix.v \in Voices!Voices /\ mix.v # v
    <3>1. mix.pc \in {"reading", "ended"} => Sweeping /\ mix.v <= mix.last
      BY Present DEF InPhase, Sweeping
    <3>2. mix.pc = "reading" => mix.play # "Stopped"
      BY <1>1, MixFields
    <3> QED BY <1>1, <3>1, <3>2, SweepIs DEF Kept, LoadedIsSo, Gifts
  <2>2. mix.pc = "reading" =>
          /\ voice'[mix.v].play = mix.play /\ voice'[mix.v].buffer = mix.buffer
    BY <1>1, <2>1 DEF Kept, LoadedIsSo, Gifts, KeepsItem
  <2>3. ASSUME mix.pc = "reading", mix.buffer # Voices!NoItem, mix.loop # Voices!NoItem
        PROVE  mix.loop \in Voices!Queue(voice[mix.v].sid)' /\ MayLoop(voice[mix.v].sid)'
    <3>1. voice'[mix.v].sid = voice[mix.v].sid /\ voice[mix.v].buffer # Voices!NoItem
      BY <1>1, <2>1, <2>3 DEF Gifts, Kept, LoadedIsSo
    <3>2. PICK u \in Source : u = voice[mix.v].sid
      BY <1>1, <2>1, <2>3, <3>1, VoiceFields DEF Sids, Kept, ItemIsQueued
    <3>3. mix.loop \in Voices!Queue(u) /\ MayLoop(u)
      BY <1>1, <2>3, <3>2 DEF Kept, LoadedIsSo, Gifts
    <3>4. mix.loop \in Voices!Queue(u)' /\ MayLoop(u)'
      BY <1>3, <3>3
    <3> QED BY <1>2, <3>1, <3>2, <3>4
  <2>4. mix.pc = "ended" => voice'[mix.v].play = "Playing" /\ voice'[mix.v].sid = Voices!NoSource
    BY <1>1, <2>1 DEF Kept, LoadedIsSo, Gifts
  <2> QED BY <1>2, <2>2, <2>3, <2>4 DEF LoadedIsSo
<1>6. WaitsForMix'
  <2>1. Sweeping => pending = <<>>
    BY <1>1 DEF Kept, WaitsForMix, Gifts
  <2>2. pending = <<>> => Positions = {}
    BY DEF Positions
  <2>3. op'.pc = "append"
    BY DEF Gifts
  <2> QED BY <1>2, <2>1, <2>2, <2>3 DEF WaitsForMix
<1> QED BY <1>4, <1>5, <1>6

LEMMA GiftsHushed ==
  ASSUME Whole, ~Lost, NEW s \in Source, NEW v \in Voices!Voices, Gifts(s, v)
  PROVE  PausedIsHushed' /\ CallIsRight'
<1>1. Kept
  BY Present
<1>2. /\ UNCHANGED pending /\ Positions' = Positions
      /\ \A i \in Positions :
           /\ ~Plays(pending[i], v)
           /\ pending[i].state = "Restart" => pending[i].old \in Voices!Voices /\ pending[i].old # v
           /\ Restarts(pending[i], v) => voice[pending[i].old].sid = Voices!NoSource
  BY GiftsIs
<1>3. \A w \in Voices!Voices : w # v => voice'[w].sid = voice[w].sid /\ voice'[w].play = voice[w].play
  BY DEF Gifts
<1>4. voice'[v].sid = s /\ voice'[v].play # "Playing"
  BY DEF Gifts
<1>5. \A i \in Positions : \A w : Wakes(pending[i], w)' => Wakes(pending[i], w) /\ w # v
  BY <1>2, <1>3 DEF Wakes, Plays, Restarts
<1>6. ASSUME NEW u \in Source, Hushed(u) PROVE Hushed(u)'
  <2>1. CASE Quiet(u)
    <3>1. NotPlayed(u, 0)'
      BY <1>2, <2>1 DEF Quiet, NotPlayed
    <3>2. \A w \in Voices!Voices : voice'[w].sid = u => voice'[w].play # "Playing"
      BY <1>3, <1>4, <2>1 DEF Quiet
    <3> QED BY <3>1, <3>2 DEF Quiet, Hushed
  <2>2. CASE \E k \in Positions : PausedAt(u, k)
    <3>1. PICK k \in Positions : PausedAt(u, k)
      BY <2>2
    <3>2. pending'[k].state = "Pause" /\ pending'[k].s = u /\ NotPlayed(u, k)'
      BY <1>2, <3>1 DEF PausedAt, NotPlayed
    <3>3. ASSUME NEW w \in Voices!Voices, voice'[w].sid = u, w # pending'[k].v
          PROVE  \/ \E i \in Positions' : i < k /\ Ends(pending'[i], w)
                 \/ /\ voice'[w].play # "Playing"
                    /\ \A i \in Positions' : i < k => ~Wakes(pending[i], w)'
      <4>1. CASE w = v
        BY <1>2, <1>4, <1>5, <4>1
      <4>2. CASE w # v
        BY <1>2, <1>3, <1>5, <3>1, <3>3, <4>2 DEF PausedAt
      <4> QED BY <4>1, <4>2
    <3> QED BY <1>2, <3>1, <3>2, <3>3 DEF PausedAt, Hushed
  <2> QED BY <1>6, <2>1, <2>2 DEF Hushed
<1>7. \A u \in Source : source'[u].state = "PAUSED" => Hushed(u)'
  <2>1. \A u \in Source : source'[u].state = "PAUSED" => source[u].state = "PAUSED"
    BY DEF Gifts
  <2> QED BY <1>1, <1>6, <2>1 DEF Kept, PausedIsHushed
<1>8. Asleep(op.change.v)'
  <2>1. Asleep(v)'
    BY <1>2, <1>4, <1>5 DEF Asleep
  <2>2. op'.change.v = v
    BY DEF Gifts
  <2> QED BY <2>1, <2>2 DEF Asleep
<1>9. PausedIsHushed'
  BY <1>7, <1>8 DEF PausedIsHushed
<1>10. CallIsRight'
  <2>1. \A i \in Positions' :
          /\ ~Plays(pending'[i], op'.change.v)
          /\ Restarts(pending'[i], op'.change.v) => voice'[pending'[i].old].sid = Voices!NoSource
    BY <1>2, <1>3 DEF Gifts, Plays, Restarts
  <2>2. op'.pc = "append" /\ op'.call \notin {"delete", "pause"}
    BY DEF Gifts
  <2> QED BY <2>1, <2>2 DEF CallIsRight
<1> QED BY <1>9, <1>10

LEMMA GiftsKept ==
  ASSUME Whole, ~Lost, NEW s \in Source, NEW v \in Voices!Voices, Gifts(s, v)
  PROVE  Kept'
  BY GiftsChanges, GiftsVoices, GiftsItems, GiftsHushed DEF Kept
-----------------------------------------------------------------------------

(* The voice given stands at an item of the queue.                         *)
LEMMA GivenInQueue ==
  ASSUME Typed, NEW s \in Source, NEW v \in Voices!Voices, NEW p, Gives(v, s, p), Voices!Playable(s) # {},
         Voices!Queue(s)' = Voices!Queue(s), Voices!Playable(s)' = Voices!Playable(s), source'[s].looping = source[s].looping
  PROVE  InQueue(v, s)'
<1>1. PICK j \in Voices!Playable(s) : TRUE
  OBVIOUS
<1>2. j \in Voices!Queue(s)
  BY <1>1, QueueIs
<1>3. PICK n \in Nat : j = <<s, n>> /\ source[s].head <= n /\ n < source[s].tail
  BY <1>2, QueueIs
<1>4. source[s].head \in Nat /\ source[s].tail \in Nat
  BY SourceFields
<1>5. source[s].head < source[s].tail /\ Voices!Front(s)[2] = source[s].head /\ j[2] = n
  BY <1>3, <1>4 DEF Voices!Front
<1>6. Voices!Front(s) \in Voices!Queue(s) /\ j[2] >= Voices!Front(s)[2]
  BY <1>3, <1>4, <1>5, QueueIs DEF Voices!Front
<1>7. voice'[v].buffer \in Voices!Queue(s) /\ \E i \in Voices!Playable(s) : i[2] >= voice'[v].buffer[2]
  <2>1. CASE voice'[v].buffer = Voices!Front(s)
    BY <1>1, <1>6, <2>1
  <2>2. CASE voice'[v].buffer \in Voices!Playable(s)
    <3>1. voice'[v].buffer \in Voices!Queue(s)
      BY <2>2, QueueIs
    <3>2. voice'[v].buffer[2] \in Nat
      BY <3>1, QueueIs
    <3> QED BY <2>2, <3>1, <3>2
  <2> QED BY <2>1, <2>2 DEF Gives
<1>8. voice'[v].loop # Voices!NoItem => voice'[v].loop = Voices!Front(s) /\ source[s].looping
  BY DEF Gives
<1> QED BY <1>6, <1>7, <1>8 DEF InQueue, MayLoop

LEMMA PlayStartKept == ASSUME Whole, ~Lost, Voices!PlayStart PROVE Kept'
<1>1. Typed /\ InBounds /\ CallKnows /\ Kept /\ active \in Voices!Voices /\ active <= active
  BY Present
<1>2. PICK s \in Source, v \in Voices!Voices :
        /\ op.pc = "start" /\ op.s = s /\ v <= active /\ Voices!Free(v)
        /\ Gives(v, s, "Stopped") /\ Others(v)
        /\ Sets(s, "PLAYING", v)
        /\ Sending("play", "Play", s, v, op.old)
        /\ UNCHANGED active /\ Elsewhere
  BY <1>1, PlayStartDoes
<1>3. op.old \in MaybeVoice
  BY <1>1, <1>2, OpFields
<1>4. op.old # Voices!NoVoice => /\ op.old \in Voices!Voices /\ op.old <= active /\ voice[op.old].change
                                 /\ voice[op.old].sid \in {s, Voices!NoSource} /\ ~EndPending(op.old)
  <2> SUFFICES ASSUME op.old # Voices!NoVoice
               PROVE  /\ op.old \in Voices!Voices /\ op.old <= active /\ voice[op.old].change
                      /\ voice[op.old].sid \in {s, Voices!NoSource} /\ ~EndPending(op.old)
    OBVIOUS
  <2>1. op.old \in Voices!Voices
    BY <1>3, MaybeIs
  <2>2. source[s].vidx = op.old /\ voice[op.old].change
    BY <1>1, <1>2 DEF CallKnows
  <2>3. op.old <= active
    BY <1>1, <2>2 DEF InBounds
  <2>4. ~EndPending(op.old)
    BY <1>1, <1>2, <2>1 DEF Kept, EndsOnce, Ahead
  <2>5. voice[op.old].sid \in {s, Voices!NoSource}
    BY <1>1, <1>2 DEF Kept, CallIsRight
  <2> QED BY <2>1, <2>2, <2>3, <2>4, <2>5
<1>5. op.old # v
  <2>1. Voices!NoVoice \notin Voices!Voices
    BY DEF Voices!NoVoice, Voices!Voices
  <2> QED BY <1>2, <1>4, <2>1 DEF Voices!Free
<1>6. \A w \in Voices!Voices : voice[w].sid = s => voice[w].change
  BY <1>1, <1>2 DEF Kept, CallIsRight
<1>7. /\ Voices!Queue(s)' = Voices!Queue(s) /\ Voices!Playable(s)' = Voices!Playable(s)
      /\ source'[s].looping = source[s].looping
      /\ \A u \in Source : u # s => source'[u] = source[u]
      /\ source'[s].vidx = v /\ source'[s].state = "PLAYING"
  BY <1>2 DEF Sets, Touches, Voices!Queue, Voices!Playable
<1>8. Voices!Playable(s) # {}
  BY <1>1, <1>2 DEF Kept, CallIsRight
<1>9. InQueue(v, s)'
  BY <1>1, <1>2, <1>7, <1>8, GivenInQueue
<1>10. /\ op'.pc = "append" /\ op'.call = "play" /\ op'.change \in ChangeRecords
       /\ op'.change.state = "Play" /\ op'.change.v = v /\ op'.change.s = s
       /\ op'.change.old = op.old
  <2>1. "play" \in Names /\ v \in MaybeVoice
    BY VoicesAssumptions DEF Names, MaybeVoice, Voices!Voices
  <2> QED BY <1>2, <1>3, <2>1, SendingIs
<1>11. /\ voice[v].sid = Voices!NoSource /\ ~voice[v].change /\ voice[v].play = "Stopped"
       /\ voice'[v].sid = s /\ ~voice'[v].change /\ voice'[v].play = "Stopped"
  BY <1>2 DEF Voices!Free, Gives
<1>12. \A w \in Voices!Voices : w # v =>
         /\ voice'[w].sid = voice[w].sid /\ voice'[w].play = voice[w].play /\ KeepsItem(w)
         /\ (voice'[w].change <=> voice[w].change \/ w = op.old)
         /\ w # op.old => voice'[w] = voice[w]
  <2> SUFFICES ASSUME NEW w \in Voices!Voices, w # v
               PROVE  /\ voice'[w].sid = voice[w].sid /\ voice'[w].play = voice[w].play
                      /\ KeepsItem(w)
                      /\ (voice'[w].change <=> voice[w].change \/ w = op.old)
                      /\ w # op.old => voice'[w] = voice[w]
    OBVIOUS
  <2>1. voice'[w] = voice[w]
    BY <1>2 DEF Others
  <2>2. w = op.old => voice[w].change
    BY <1>4 DEF Voices!NoVoice, Voices!Voices
  <2> QED BY <2>1, <2>2 DEF KeepsItem
<1>13. Gifts(s, v)
  BY <1>1, <1>2, <1>4, <1>5, <1>6, <1>7, <1>9, <1>10, <1>11, <1>12 DEF Gifts
<1> QED BY <1>13, GiftsKept

LEMMA SeekStartKept == ASSUME Whole, ~Lost, ~Voices!TakesItsOwn, Voices!SeekStart PROVE Kept'
<1>1. Typed /\ InBounds /\ CallKnows /\ Kept /\ active \in Voices!Voices /\ active \in Int
  BY Present
<1>2. PICK s \in Source, v \in Voices!Voices :
        /\ op.pc = "seek" /\ op.s = s /\ op.old \in Voices!Voices /\ op.old <= active /\ op.old # v
        /\ active' \in Voices!Voices /\ v <= active'
        /\ \/ v <= active /\ Voices!Free(v) /\ active' = active
           \/ v = active + 1 /\ active' = active + 1
        /\ Gives(v, s, "Pending")
        /\ voice'[op.old] = [voice[op.old] EXCEPT !.change = TRUE]
        /\ \A w \in Voices!Voices : w # v /\ w # op.old => voice'[w] = voice[w]
        /\ Sets(s, source[s].state, v)
        /\ Voices!Playable(s) # {} /\ voice'[v].buffer \in Voices!Playable(s)
        /\ Sending("seek", "Restart", s, v, op.old)
        /\ Elsewhere
  BY <1>1, SeekStartDoes
<1>3. active <= active'
  BY <1>1, <1>2
<1>4. /\ voice[op.old].sid \in {s, Voices!NoSource} /\ ~voice[op.old].change /\ ~EndPending(op.old)
      /\ source[s].state \in {"PLAYING", "PAUSED"} /\ op.old # Voices!NoVoice /\ source[s].vidx = op.old
  <2>1. /\ voice[op.old].sid \in {s, Voices!NoSource} /\ ~voice[op.old].change
        /\ source[s].state \in {"PLAYING", "PAUSED"}
    BY <1>1, <1>2 DEF Kept, CallIsRight
  <2>2. op.old # Voices!NoVoice /\ source[s].vidx = op.old
    BY <1>1, <1>2 DEF CallKnows
  <2>3. ~EndPending(op.old)
    BY <1>1, <1>2, <2>1 DEF Kept, ChangeIsAhead
  <2> QED BY <2>1, <2>2, <2>3
<1>5. \A w \in Voices!Voices : voice[w].sid = s => voice[w].change \/ w = op.old
  BY <1>1, <1>4, VoicesAssumptions DEF Kept, VoiceIsKnown
<1>6. /\ Voices!Queue(s)' = Voices!Queue(s) /\ Voices!Playable(s)' = Voices!Playable(s)
      /\ source'[s].looping = source[s].looping
      /\ \A u \in Source : u # s => source'[u] = source[u]
      /\ source'[s].vidx = v /\ source'[s].state = source[s].state
  BY <1>2 DEF Sets, Touches, Voices!Queue, Voices!Playable
<1>7. InQueue(v, s)'
  BY <1>1, <1>2, <1>6, GivenInQueue
<1>8. /\ op'.pc = "append" /\ op'.call = "seek" /\ op'.change \in ChangeRecords
      /\ op'.change.state = "Restart" /\ op'.change.v = v /\ op'.change.s = s
      /\ op'.change.old = op.old
  <2>1. "seek" \in Names /\ v \in MaybeVoice /\ op.old \in MaybeVoice
    BY <1>2, VoicesAssumptions DEF Names, MaybeVoice, Voices!Voices
  <2> QED BY <1>2, <2>1, SendingIs
<1>9. voice[v].sid = Voices!NoSource /\ ~voice[v].change /\ voice[v].play = "Stopped"
  <2>1. CASE Voices!Free(v)
    BY <2>1 DEF Voices!Free
  <2>2. CASE v = active + 1
    <3>1. v > active
      BY <1>1, <2>2
    <3>2. voice[v] = Voices!Fresh
      BY <1>1, <3>1 DEF Kept, BeyondIsFresh
    <3> QED BY <3>2, FreshIs
  <2> QED BY <1>2, <2>1, <2>2
<1>10. voice'[v].sid = s /\ ~voice'[v].change /\ voice'[v].play = "Pending"
  BY <1>2, <1>9 DEF Gives
<1>11. \A w \in Voices!Voices : w # v =>
         /\ voice'[w].sid = voice[w].sid /\ voice'[w].play = voice[w].play /\ KeepsItem(w)
         /\ (voice'[w].change <=> voice[w].change \/ w = op.old)
         /\ w # op.old => voice'[w] = voice[w]
  <2>1. /\ voice'[op.old].sid = voice[op.old].sid /\ voice'[op.old].play = voice[op.old].play
        /\ voice'[op.old].buffer = voice[op.old].buffer
        /\ voice'[op.old].loop = voice[op.old].loop /\ voice'[op.old].change
    <3>1. voice[op.old] \in VoiceRecords
      BY <1>1, <1>2, VoiceFields
    <3> QED BY <1>2, <3>1 DEF VoiceRecords
  <2>2. \A w \in Voices!Voices : w # v /\ w # op.old => voice'[w] = voice[w]
    BY <1>2
  <2> QED BY <2>1, <2>2 DEF KeepsItem
<1>12. Gifts(s, v)
  BY <1>1, <1>2, <1>3, <1>4, <1>5, <1>6, <1>7, <1>8, <1>9, <1>10, <1>11 DEF Gifts
<1> QED BY <1>12, GiftsKept

(* SendDrop, when the device is being reset: there is nothing to let go of. *)
LEMMA SendDropKept == ASSUME Whole, ~Lost, Voices!SendDrop PROVE Kept'
<1>1. Typed /\ Kept /\ CallKnows
  BY Present
<1>2. /\ op.pc = "drop" /\ ~mixing /\ pending' = <<>> /\ (Goes({"sent"}) \/ Over)
      /\ UNCHANGED <<source, active, mixing, mix, connected, reset>>
  BY <1>1, SendDropDoes
<1>3. /\ \A v \in Voices!Voices : voice[v].sid = Voices!NoSource
      /\ \A i \in Positions : pending[i].v = Voices!NoVoice
  BY <1>2 DEF Whole, Always, GoneIsLetGo
<1>4. UNCHANGED voice
  <2>1. \A v \in Voices!Voices : ~\E i \in DOMAIN pending : pending[i].v = v
    <3>1. DOMAIN pending = Positions /\ Voices!NoVoice \notin Voices!Voices
      BY <1>1 DEF Typed, Positions, Voices!NoVoice, Voices!Voices
    <3> QED BY <1>3, <3>1
  <2>2. voice = [v \in Voices!Voices |-> voice[v]]
    BY <1>1 DEF Typed
  <2>3. voice' = [v \in Voices!Voices |-> voice[v]]
    BY <2>1 DEF Voices!SendDrop
  <2> QED BY <2>2, <2>3
<1>5. Positions' = {} /\ \A w : ~EndPending(w)'
  BY <1>2 DEF Positions, EndPending
<1>6. /\ op'.pc \in {"idle", "sent"}
      /\ op'.pc = "sent" => op'.call = op.call /\ op'.change = op.change
  BY <1>2, IdleIs DEF Goes, Over
<1>7. \A w : ~Ahead(w) /\ ~Ahead(w)'
  BY <1>2, <1>6 DEF Ahead
<1>8. \A w \in Voices!Voices : ~voice[w].change
  <2>1. ASSUME NEW w \in Voices!Voices, NEW i \in Positions PROVE ~Ends(pending[i], w)
    <3>1. pending[i].v = Voices!NoVoice /\ ChangeOK(pending[i])
      BY <1>3, Present
    <3>2. w # Voices!NoVoice
      BY DEF Voices!Voices, Voices!NoVoice
    <3> QED BY <3>1, <3>2 DEF ChangeOK, Ends
  <2> QED BY <1>1, <1>7, <2>1 DEF Kept, ChangeIsAhead, EndPending
<1>9. ~Sweeping /\ ~Sweeping' /\ mix' = mix
  BY <1>2 DEF Sweeping, Whole, Always, InBounds
<1>10. \A s \in Source : ~Voices!HasVoice(s)'
  <2>1. ASSUME NEW s \in Source, Voices!HasVoice(s)' PROVE FALSE
    <3>1. PICK x \in 1..active : x = source[s].vidx /\ voice[x].sid = s
      BY <1>2, <1>4, <2>1 DEF Voices!HasVoice
    <3>2. x \in Voices!Voices
      BY <1>1, Present, VoicesAssumptions DEF Voices!Voices
    <3> QED BY <1>3, <3>1, <3>2, VoicesAssumptions
  <2> QED BY <2>1
<1>11. ChangeIsAhead' /\ EndsOnce' /\ EndIsLast' /\ RestartIsFirst' /\ ChangesOK'
  <2>1. ChangeIsAhead'
    BY <1>4, <1>5, <1>7, <1>8 DEF ChangeIsAhead
  <2>2. EndsOnce'
    BY <1>5, <1>7 DEF EndsOnce
  <2>3. EndIsLast' /\ RestartIsFirst' /\ ChangesOK'
    BY <1>5, <1>6 DEF EndIsLast, RestartIsFirst, ChangesOK
  <2> QED BY <2>1, <2>2, <2>3
<1>12. VoiceIsKnown' /\ EndIsByCall' /\ VoiceHasState' /\ BeyondIsFresh'
  <2>1. VoiceIsKnown'
    BY <1>3, <1>4 DEF VoiceIsKnown
  <2>2. EndIsByCall' /\ VoiceHasState'
    BY <1>10 DEF EndIsByCall, VoiceHasState
  <2>3. BeyondIsFresh'
    BY <1>1, <1>2, <1>4 DEF Kept, BeyondIsFresh
  <2> QED BY <2>1, <2>2, <2>3
<1>13. ItemIsQueued' /\ LoadedIsSo' /\ WaitsForMix'
  <2>1. ItemIsQueued'
    BY <1>1, <1>3, <1>4 DEF Kept, ItemIsQueued
  <2>2. LoadedIsSo'
    BY <1>9 DEF LoadedIsSo, Sweeping
  <2>3. WaitsForMix'
    BY <1>2, <1>9 DEF WaitsForMix
  <2> QED BY <2>1, <2>2, <2>3
<1>14. PausedIsHushed'
  <2>1. ASSUME NEW s \in Source PROVE Quiet(s)'
    BY <1>3, <1>4, <1>5, VoicesAssumptions DEF Quiet, NotPlayed
  <2> QED BY <1>6, <2>1 DEF PausedIsHushed, Hushed
<1>15. CallIsRight'
  <2>1. op'.pc \in Sends => op'.pc = "sent"
    BY <1>6, LaterIs DEF Sends
  <2>2. "drop" \in Sends
    BY DEF Sends
  <2>3. op.call = "pause" => /\ op.change.v = source[op.change.s].vidx
                             /\ op.change.s \in Source /\ op.change.v \in Voices!Voices
    <3>1. op.call = "pause" => op.change.v = source[op.change.s].vidx /\ op.change.v # Voices!NoVoice
      BY <1>1, <1>2, <2>2 DEF Kept, CallIsRight, CallKnows
    <3>2. op.change \in ChangeRecords
      BY <1>1, <1>2, <2>2, OpFields
    <3> QED BY <3>1, <3>2, ChangeFields
  <2>4. ASSUME op'.pc \in Sends
        PROVE  /\ op'.call = "delete" =>
                    \A v \in Voices!Voices : voice'[v].sid = op'.change.s => voice'[v].change
               /\ op'.call = "pause" => op'.change.v = source'[op'.change.s].vidx
               /\ op'.call = "pause" => voice'[op'.change.v].sid # op'.change.s
    <3>1. op'.call = op.call /\ op'.change = op.change /\ op.change.s \in Source
      <4>1. op.change \in ChangeRecords
        BY <1>1, <1>2, <2>2, OpFields
      <4> QED BY <1>6, <2>1, <2>4, <4>1, ChangeFields
    <3> QED BY <1>2, <1>3, <1>4, <2>3, <3>1, VoicesAssumptions
  <2>5. op'.pc \notin {"start", "loop", "seek"}
    BY <1>6
  <2> QED BY <1>5, <2>4, <2>5 DEF CallIsRight
<1> QED BY <1>11, <1>12, <1>13, <1>14, <1>15 DEF Kept

(* SeekLetGo: the new voice of a seek that has failed is let go.           *)
LetsGo(v) ==
  /\ op.pc = "let go" /\ op.change.v = v
  /\ op'.pc = "idle" /\ Others(v) /\ UNCHANGED <<source, active>> /\ Elsewhere
  /\ voice[v].play = "Pending"
  /\ voice'[v].sid = Voices!NoSource /\ voice'[v].play = "Stopped"
  /\ voice'[v].buffer = Voices!NoItem /\ voice'[v].loop = Voices!NoItem
  /\ (voice'[v].change <=> voice[v].change)

LEMMA LetsGoIs ==
  ASSUME Whole, ~Lost, NEW v \in Voices!Voices, LetsGo(v)
  PROVE  /\ Positions' = Positions /\ (\A w : EndPending(w)' <=> EndPending(w))
         /\ (Sweeping' <=> Sweeping)
         /\ (\A w : ~Ahead(w)) /\ (\A w : ~Ahead(w)')
         /\ \A w \in Voices!Voices : /\ voice'[w].sid \in {voice[w].sid, Voices!NoSource}
                                     /\ (voice'[w].change <=> voice[w].change)
                                     /\ voice'[w].sid # Voices!NoSource => w # v /\ voice'[w] = voice[w]
         /\ \A i \in Positions :
              /\ pending[i] \in ChangeRecords /\ ChangeOK(pending[i])
              /\ ~Plays(pending[i], v)
              /\ pending[i].state = "Restart" => pending[i].old \in Voices!Voices
              /\ Restarts(pending[i], v) => voice[pending[i].old].sid = Voices!NoSource
<1>1. Kept /\ CallKnows /\ UNCHANGED pending
  BY Present DEF LetsGo, Elsewhere
<1>2. op.pc \in Later /\ op.pc \in Sends
  BY LaterIs DEF LetsGo, Sends
<1>3. op.call = "seek" /\ voice[op.change.old].sid = Voices!NoSource
  BY <1>1, <1>2 DEF CallKnows
<1>4. op.change.state = "Restart"
  BY <1>1, <1>2, <1>3 DEF CallKnows
<1>5. \A i \in Positions : /\ pending[i] \in ChangeRecords /\ ChangeOK(pending[i])
  BY Present
<1>6. ASSUME NEW i \in Positions
      PROVE  /\ ~Plays(pending[i], v)
             /\ pending[i].state = "Restart" => pending[i].old \in Voices!Voices
             /\ Restarts(pending[i], v) => voice[pending[i].old].sid = Voices!NoSource
  <2>1. ~Plays(pending[i], v)
    BY <1>1, <1>2, <1>4 DEF Kept, CallIsRight, LetsGo
  <2>2. Restarts(pending[i], v) => voice[pending[i].old].sid = Voices!NoSource
    BY <1>1, <1>2, <1>3, <1>4 DEF Kept, CallIsRight, LetsGo
  <2>3. pending[i].state = "Restart" => pending[i].old \in Voices!Voices
    BY <1>5, ChangeFields DEF ChangeOK
  <2> QED BY <2>1, <2>2, <2>3
<1>7. Positions' = Positions /\ \A w : EndPending(w)' <=> EndPending(w)
  BY <1>1, PendingSame
<1>8. Sweeping' <=> Sweeping
  BY StaysLost DEF LetsGo
<1>9. (\A w : ~Ahead(w)) /\ (\A w : ~Ahead(w)')
  BY DEF LetsGo, Ahead
<1>10. \A w \in Voices!Voices : /\ voice'[w].sid \in {voice[w].sid, Voices!NoSource}
                                /\ (voice'[w].change <=> voice[w].change)
                                /\ voice'[w].sid # Voices!NoSource => w # v /\ voice'[w] = voice[w]
  BY DEF LetsGo, Others
<1> QED BY <1>5, <1>6, <1>7, <1>8, <1>9, <1>10

LEMMA LetsGoChanges ==
  ASSUME Whole, ~Lost, NEW v \in Voices!Voices, LetsGo(v)
  PROVE  ChangeIsAhead' /\ EndsOnce' /\ EndIsLast' /\ RestartIsFirst' /\ ChangesOK'
<1>1. Kept /\ UNCHANGED <<pending, active>> /\ Positions' = Positions
  BY Present, LetsGoIs DEF LetsGo, Elsewhere
<1>2. ChangeIsAhead'
  BY <1>1, LetsGoIs DEF Kept, ChangeIsAhead
<1>3. EndsOnce'
  BY <1>1, LetsGoIs DEF Kept, EndsOnce
<1>4. EndIsLast'
  BY <1>1 DEF Kept, EndIsLast, LetsGo
<1>5. RestartIsFirst'
  <2> SUFFICES ASSUME NEW i \in Positions, NEW j \in Positions, i < j, Restarts(pending[j], pending[i].v)
               PROVE  /\ pending[i].state # "Play"
                      /\ pending[i].state = "Restart" => voice'[pending[i].old].sid = Voices!NoSource
    BY <1>1 DEF RestartIsFirst
  <2>1. /\ pending[i].state # "Play"
        /\ pending[i].state = "Restart" => voice[pending[i].old].sid = Voices!NoSource
    BY <1>1 DEF Kept, RestartIsFirst
  <2> QED BY <2>1, LetsGoIs
<1>6. ASSUME NEW i \in Positions PROVE ChangeOK(pending[i])'
  <2>0. PICK c \in ChangeRecords : c = pending[i]
    BY LetsGoIs
  <2>1. ChangeOK(c) /\ ~Plays(c, v)
        /\ (c.state = "Restart" => c.old \in Voices!Voices)
        /\ (Restarts(c, v) => voice[c.old].sid = Voices!NoSource)
    BY <2>0, LetsGoIs
  <2>2. c.v # Voices!NoVoice => c.v \in Voices!Voices
    BY ChangeFields
  <2>3. pending'[i] = c
    BY <1>1, <2>0
  <2>4. \A w \in Voices!Voices : Ends(c, w) => voice'[w].sid \in {c.s, Voices!NoSource}
    BY <2>1, LetsGoIs DEF ChangeOK
  <2>5. c.state = "Play" => voice'[c.v].sid = c.s
    <3>1. c.state = "Play" => c.v \in Voices!Voices /\ c.v # v
      BY <2>1, <2>2 DEF ChangeOK, Plays
    <3> QED BY <2>1, <3>1 DEF ChangeOK, LetsGo, Others
  <2>6. c.state = "Restart" /\ voice'[c.old].sid # Voices!NoSource =>
          voice'[c.v].sid = c.s /\ voice'[c.v].play = "Pending"
    <3> SUFFICES ASSUME c.state = "Restart", voice'[c.old].sid # Voices!NoSource
                 PROVE  voice'[c.v].sid = c.s /\ voice'[c.v].play = "Pending"
      OBVIOUS
    <3>1. c.old \in Voices!Voices /\ voice[c.old].sid # Voices!NoSource
      BY <2>1, LetsGoIs
    <3>2. c.v # v /\ c.v \in Voices!Voices
      BY <2>1, <2>2, <3>1 DEF Restarts, ChangeOK
    <3>3. voice'[c.v] = voice[c.v]
      BY <3>2 DEF LetsGo, Others
    <3> QED BY <2>1, <3>1, <3>3 DEF ChangeOK
  <2>7. ChangeOK(c)'
    BY <1>1, <2>1, <2>4, <2>5, <2>6 DEF ChangeOK, Ends
  <2> QED BY <2>3, <2>7 DEF ChangeOK, Ends
<1>7. ChangesOK'
  BY <1>1, <1>6 DEF ChangesOK, LetsGo
<1> QED BY <1>2, <1>3, <1>4, <1>5, <1>7

LEMMA LetsGoVoices ==
  ASSUME Whole, ~Lost, NEW v \in Voices!Voices, LetsGo(v)
  PROVE  VoiceIsKnown' /\ EndIsByCall' /\ VoiceHasState' /\ BeyondIsFresh'
<1>1. Kept /\ CallKnows /\ UNCHANGED <<source, active>> /\ active \in Voices!Voices
  BY Present DEF LetsGo
<1>2. \A s \in Source : Voices!HasVoice(s)' => Voices!HasVoice(s) /\ source[s].vidx \in Voices!Voices
  <2>1. ASSUME NEW s \in Source, Voices!HasVoice(s)' PROVE Voices!HasVoice(s) /\ source[s].vidx \in Voices!Voices
    <3>1. PICK x \in 1..active : x = source[s].vidx /\ voice'[x].sid = s
      BY <1>1, <2>1 DEF Voices!HasVoice
    <3>2. x \in Voices!Voices
      BY <1>1, VoicesAssumptions DEF Voices!Voices
    <3>3. voice[x].sid = s
      BY <3>1, <3>2, LetsGoIs, VoicesAssumptions
    <3> QED BY <3>1, <3>2, <3>3 DEF Voices!HasVoice
  <2> QED BY <2>1
<1>3. \A s \in Source : Voices!HasVoice(s) => ~voice[source[s].vidx].change
  BY <1>1 DEF Kept, EndIsByCall, LetsGo
<1>4. VoiceIsKnown'
  BY <1>1, LetsGoIs DEF Kept, VoiceIsKnown
<1>5. EndIsByCall' /\ VoiceHasState'
  BY <1>1, <1>2, <1>3, LetsGoIs DEF Kept, EndIsByCall, VoiceHasState
<1>6. BeyondIsFresh'
  <2>1. v <= active
    <3>1. "let go" \in Sends
      BY LaterIs DEF Sends
    <3> QED BY <1>1, <3>1 DEF CallKnows, LetsGo
  <2>2. \A w \in Voices!Voices : w > active => w # v
    BY <1>1, <2>1 DEF Voices!Voices
  <2> QED BY <1>1, <2>2 DEF Kept, BeyondIsFresh, LetsGo, Others
<1> QED BY <1>4, <1>5, <1>6

LEMMA LetsGoItems ==
  ASSUME Whole, ~Lost, NEW v \in Voices!Voices, LetsGo(v)
  PROVE  ItemIsQueued' /\ LoadedIsSo' /\ WaitsForMix' /\ PausedIsHushed'
<1>1. Kept /\ Typed /\ UNCHANGED <<source, pending, mix>> /\ Positions' = Positions
  BY Present, LetsGoIs DEF LetsGo, Elsewhere
<1>2. /\ \A s \in Source : Voices!Queue(s)' = Voices!Queue(s) /\ Voices!Playable(s)' = Voices!Playable(s)
      /\ \A s \in Source : MayLoop(s) => MayLoop(s)'
  BY <1>1 DEF Voices!Queue, Voices!Playable, MayLoop, LetsGo
<1>3. ItemIsQueued'
  <2>1. ASSUME NEW w \in Voices!Voices, voice'[w].sid # Voices!NoSource, Sweeping' \/ ~EndPending(w)'
        PROVE  InQueue(w, voice[w].sid)'
    <3>1. voice'[w] = voice[w]
      BY <2>1, LetsGoIs
    <3>2. PICK s \in Source : s = voice[w].sid
      BY <1>1, <2>1, <3>1, VoiceFields DEF Sids
    <3>3. InQueue(w, s)
      BY <1>1, <2>1, <3>1, <3>2, LetsGoIs DEF Kept, ItemIsQueued
    <3>4. InQueue(w, s)'
      BY <1>2, <3>1, <3>3 DEF InQueue
    <3> QED BY <3>1, <3>2, <3>4
  <2>2. ASSUME NEW w \in Voices!Voices, voice'[w].sid = Voices!NoSource PROVE voice'[w].buffer = Voices!NoItem
    BY <1>1, <2>2 DEF Kept, ItemIsQueued, LetsGo, Others
  <2> QED BY <2>1, <2>2 DEF ItemIsQueued
<1>4. LoadedIsSo'
  <2>1. CASE mix.pc = "reading"
    <3>1. PICK x \in Voices!Voices : x = mix.v /\ mix.play # "Pending"
      BY <1>1, <2>1, MixFields
    <3>2. voice[x].play = mix.play /\ voice[x].buffer = mix.buffer
      BY <1>1, <2>1, <3>1 DEF Kept, LoadedIsSo
    <3>3. x # v /\ voice'[x] = voice[x]
      BY <3>1, <3>2 DEF LetsGo, Others
    <3>4. ASSUME mix.buffer # Voices!NoItem, mix.loop # Voices!NoItem
          PROVE  mix.loop \in Voices!Queue(voice[x].sid)' /\ MayLoop(voice[x].sid)'
      <4>1. voice[x].sid # Voices!NoSource
        BY <1>1, <3>2, <3>4 DEF Kept, ItemIsQueued
      <4>2. PICK s \in Source : s = voice[x].sid
        BY <1>1, <4>1, VoiceFields DEF Sids
      <4>3. mix.loop \in Voices!Queue(s) /\ MayLoop(s)
        BY <1>1, <2>1, <3>1, <3>4, <4>2 DEF Kept, LoadedIsSo, LetsGo
      <4>4. mix.loop \in Voices!Queue(s)' /\ MayLoop(s)'
        BY <1>2, <4>3
      <4> QED BY <3>3, <4>2, <4>4
    <3> QED BY <1>1, <2>1, <3>1, <3>2, <3>3, <3>4 DEF LoadedIsSo
  <2>2. CASE mix.pc = "ended"
    <3>1. mix.v \in Voices!Voices
      BY <1>1, <2>2, SweepIs DEF Sweeping
    <3>2. voice[mix.v].play = "Playing" /\ voice[mix.v].sid = Voices!NoSource
      BY <1>1, <2>2 DEF Kept, LoadedIsSo
    <3> QED BY <1>1, <2>2, <3>1, <3>2 DEF LoadedIsSo, LetsGo, Others
  <2>3. CASE mix.pc \notin {"reading", "ended"}
    BY <1>1, <2>3 DEF LoadedIsSo
  <2> QED BY <2>1, <2>2, <2>3
<1>5. WaitsForMix'
  <2>1. op'.pc \notin Sends
    BY LaterIs DEF LetsGo, Sends
  <2>2. Sweeping => pending = <<>>
    BY <1>1 DEF Kept, WaitsForMix, LetsGo
  <2>3. pending = <<>> => Positions = {}
    BY DEF Positions
  <2> QED BY <1>1, <2>1, <2>2, <2>3, LetsGoIs DEF WaitsForMix
<1>6. PausedIsHushed'
  <2>1. \A w \in Voices!Voices : voice'[w].play = "Playing" => voice[w].play = "Playing"
    BY DEF LetsGo, Others
  <2>2. Dims
    BY <1>1, <2>1, LetsGoIs DEF Dims
  <2>3. \A s \in Source : Hushed(s) => Hushed(s)'
    BY <2>2, DimsHushed
  <2> QED BY <1>1, <2>3 DEF Kept, PausedIsHushed, LetsGo
<1> QED BY <1>3, <1>4, <1>5, <1>6

LEMMA SeekLetGoKept == ASSUME Whole, ~Lost, Voices!SeekLetGo PROVE Kept'
<1>1. Typed /\ CallKnows
  BY Present
<1>2. PICK v \in Voices!Voices :
        /\ op.pc = "let go" /\ op.change.v = v
        /\ Over /\ VoicesTyped /\ Others(v)
        /\ \/ UNCHANGED voice
           \/ /\ voice[v].play = "Pending"
              /\ voice'[v].sid = Voices!NoSource /\ voice'[v].play = "Stopped"
              /\ voice'[v].buffer = Voices!NoItem /\ voice'[v].loop = Voices!NoItem
              /\ voice'[v].change = voice[v].change
        /\ UNCHANGED <<source, active>> /\ Elsewhere
  BY <1>1, SeekLetGoDoes
<1>3. op'.pc = "idle"
  BY <1>2, IdleIs DEF Over
<1>4. CASE UNCHANGED voice
  <2>1. op.call = "seek"
    BY <1>1, <1>2, LaterIs DEF CallKnows
  <2>2. op'.pc \notin Sends
    BY <1>3, LaterIs DEF Sends
  <2>3. Passes
    BY <1>2, <1>3, <1>4, <2>1, <2>2 DEF Passes, StillOp
  <2> QED BY <2>3, PassesKept
<1>5. CASE ~UNCHANGED voice
  <2>1. LetsGo(v)
    BY <1>2, <1>3, <1>5 DEF LetsGo
  <2>2. CallIsRight'
    BY <1>3, IdleRight
  <2> QED BY <2>1, <2>2, LetsGoChanges, LetsGoVoices, LetsGoItems DEF Kept
<1> QED BY <1>4, <1>5

LEMMA CallGoesOnKept == ASSUME Whole, ~Lost, ~Voices!TakesItsOwn, Voices!CallGoesOn PROVE Kept'
  BY PlayStartKept, SeekStartKept, LoopStoreKept, SendAppendKept, SendLoadKept,
      SendGoesKept,
     SendDropKept, PauseEndsKept, DeleteEndsKept, SeekLetGoKept DEF Voices!CallGoesOn

-----------------------------------------------------------------------------
(* The thread of the backend: what it leaves when voices only fade or end. *)
Untold(w) ==
  /\ voice[w].play # "Pending" /\ \A i \in Positions : ~Plays(pending[i], w)
  /\ op.pc = "append" => ~Plays(op.change, w)
Wanes ==
  /\ StillCalls
  /\ \A w \in Voices!Voices :
       /\ voice'[w].sid \in {voice[w].sid, Voices!NoSource} /\ (voice'[w].change <=> voice[w].change)
       /\ voice[w].play = "Pending" => voice'[w].play = "Pending"
       /\ voice'[w].play = "Playing" => voice[w].play = "Playing"
       /\ voice'[w].sid # voice[w].sid => Untold(w)

LEMMA WanesIs ==
  ASSUME Whole, ~Lost, Wanes
  PROVE  /\ Positions' = Positions /\ UNCHANGED <<source, active, pending, op>>
         /\ (\A w : EndPending(w)' <=> EndPending(w)) /\ (\A w : Ahead(w)' <=> Ahead(w))
         /\ \A w \in Voices!Voices :
              /\ voice'[w].sid \in {voice[w].sid, Voices!NoSource}
              /\ (voice'[w].change <=> voice[w].change)
              /\ voice[w].play = "Pending" =>
                   voice'[w].play = "Pending" /\ voice'[w].sid = voice[w].sid
              /\ voice'[w].play = "Playing" => voice[w].play = "Playing"
         /\ \A s \in Source : Voices!HasVoice(s)' => Voices!HasVoice(s) /\ source[s].vidx \in Voices!Voices
         /\ \A s : Voices!Queue(s)' = Voices!Queue(s) /\ Voices!Playable(s)' = Voices!Playable(s)
         /\ \A s : MayLoop(s)' <=> MayLoop(s)
<1>1. UNCHANGED <<source, active, pending, op>> /\ active \in Voices!Voices
  BY Present DEF Wanes, StillCalls
<1>2. Positions' = Positions /\ \A w : EndPending(w)' <=> EndPending(w)
  BY <1>1, PendingSame
<1>3. \A w : Ahead(w)' <=> Ahead(w)
  BY <1>1 DEF Ahead
<1>4. \A w \in Voices!Voices :
        /\ voice'[w].sid \in {voice[w].sid, Voices!NoSource}
        /\ (voice'[w].change <=> voice[w].change)
        /\ voice[w].play = "Pending" =>
             voice'[w].play = "Pending" /\ voice'[w].sid = voice[w].sid
        /\ voice'[w].play = "Playing" => voice[w].play = "Playing"
  BY DEF Wanes, Untold
<1>5. \A s \in Source : Voices!HasVoice(s)' => Voices!HasVoice(s) /\ source[s].vidx \in Voices!Voices
  <2>1. ASSUME NEW s \in Source, Voices!HasVoice(s)' PROVE Voices!HasVoice(s) /\ source[s].vidx \in Voices!Voices
    <3>1. PICK x \in 1..active : x = source[s].vidx /\ voice'[x].sid = s
      BY <1>1, <2>1 DEF Voices!HasVoice
    <3>2. x \in Voices!Voices
      BY <1>1, VoicesAssumptions DEF Voices!Voices
    <3>3. voice[x].sid = s
      BY <1>4, <3>1, <3>2, VoicesAssumptions
    <3> QED BY <3>1, <3>2, <3>3 DEF Voices!HasVoice
  <2> QED BY <2>1
<1>6. \A s : Voices!Queue(s)' = Voices!Queue(s) /\ Voices!Playable(s)' = Voices!Playable(s)
  BY <1>1 DEF Voices!Queue, Voices!Playable
<1>7. \A s : MayLoop(s)' <=> MayLoop(s)
  BY <1>1 DEF MayLoop
<1> QED BY <1>1, <1>2, <1>3, <1>4, <1>5, <1>6, <1>7

LEMMA NamedVoices ==
  ASSUME Whole, ~Lost
  PROVE  /\ \A i \in Positions :
              /\ pending[i].state # "Reset" => pending[i].v \in Voices!Voices
              /\ pending[i].state = "Restart" => pending[i].old \in Voices!Voices
         /\ op.pc \in Sends => /\ op.change \in ChangeRecords
                               /\ op.change.state # "Reset" => op.change.v \in Voices!Voices
                               /\ op.change.state = "Restart" => op.change.old \in Voices!Voices
         /\ op.pc = "append" => op.pc \in Sends /\ ChangeOK(op.change)
<1>1. Typed /\ CallKnows /\ Kept
  BY Present
<1>2. ASSUME NEW i \in Positions
      PROVE  /\ pending[i].state # "Reset" => pending[i].v \in Voices!Voices
             /\ pending[i].state = "Restart" => pending[i].old \in Voices!Voices
  BY Present, ChangeFields DEF ChangeOK
<1>3. ASSUME op.pc \in Sends
      PROVE  /\ op.change \in ChangeRecords
             /\ op.change.state # "Reset" => op.change.v \in Voices!Voices
             /\ op.change.state = "Restart" => op.change.old \in Voices!Voices
  <2>1. op.change \in ChangeRecords
    BY <1>1, <1>3, OpFields
  <2>2. /\ op.change.state # "Reset" => op.change.v # Voices!NoVoice
        /\ op.change.state = "Restart" => op.change.old # Voices!NoVoice
    BY <1>1, <1>3 DEF CallKnows
  <2> QED BY <2>1, <2>2, ChangeFields
<1>4. op.pc = "append" => op.pc \in Sends /\ ChangeOK(op.change)
  BY <1>1 DEF Sends, Kept, ChangesOK
<1> QED BY <1>2, <1>3, <1>4

LEMMA WanesOK ==
  ASSUME Whole, ~Lost, Wanes, NEW c \in ChangeRecords, ChangeOK(c),
         \A w \in Voices!Voices : voice'[w].sid # voice[w].sid => ~Plays(c, w)
  PROVE  ChangeOK(c)'
<1>1. /\ c.v # Voices!NoVoice => c.v \in Voices!Voices
      /\ c.old # Voices!NoVoice => c.old \in Voices!Voices
  BY ChangeFields
<1>2. \A w \in Voices!Voices : Ends(c, w) => voice'[w].sid \in {c.s, Voices!NoSource}
  BY WanesIs DEF ChangeOK
<1>3. c.state = "Play" => voice'[c.v].sid = c.s
  <2>1. c.state = "Play" => c.v \in Voices!Voices
    BY <1>1 DEF ChangeOK
  <2> QED BY <2>1 DEF ChangeOK, Plays
<1>4. c.state = "Restart" =>
        /\ c.old # Voices!NoVoice /\ c.v # c.old
        /\ voice'[c.old].sid # Voices!NoSource => voice'[c.v].sid = c.s /\ voice'[c.v].play = "Pending"
  <2>1. c.state = "Restart" => c.v \in Voices!Voices /\ c.old \in Voices!Voices
    BY <1>1 DEF ChangeOK
  <2> QED BY <2>1, WanesIs DEF ChangeOK
<1>5. c.v <= active' /\ c.old <= active' /\ (c.v = Voices!NoVoice => c.state = "Reset")
  BY WanesIs DEF ChangeOK
<1>6. \A w \in Voices!Voices : Ends(c, w)' <=> Ends(c, w)
  BY DEF Ends
<1> QED BY <1>2, <1>3, <1>4, <1>5, <1>6 DEF ChangeOK

LEMMA WanesChanges ==
  ASSUME Whole, ~Lost, Wanes
  PROVE  ChangeIsAhead' /\ EndsOnce' /\ EndIsLast' /\ RestartIsFirst' /\ ChangesOK'
<1>1. Kept /\ Positions' = Positions /\ UNCHANGED <<pending, op>>
  BY Present, WanesIs
<1>2. ChangeIsAhead'
  BY <1>1, WanesIs DEF Kept, ChangeIsAhead
<1>3. EndsOnce'
  BY <1>1, WanesIs DEF Kept, EndsOnce
<1>4. EndIsLast'
  <2>1. op.pc = "append" /\ op.change.state \in {"Play", "Restart"} => ~voice'[op.change.v].change
    BY <1>1, WanesIs, NamedVoices DEF Kept, EndIsLast
  <2> QED BY <1>1, <2>1 DEF Kept, EndIsLast
<1>5. RestartIsFirst'
  <2> SUFFICES ASSUME NEW i \in Positions, NEW j \in Positions, i < j, Restarts(pending[j], pending[i].v)
               PROVE  /\ pending[i].state # "Play"
                      /\ pending[i].state = "Restart" => voice'[pending[i].old].sid = Voices!NoSource
    BY <1>1 DEF RestartIsFirst
  <2>1. /\ pending[i].state # "Play"
        /\ pending[i].state = "Restart" => voice[pending[i].old].sid = Voices!NoSource
    BY <1>1 DEF Kept, RestartIsFirst
  <2> QED BY <2>1, WanesIs, NamedVoices
<1>6. \A i \in Positions : ChangeOK(pending[i])'
  <2> SUFFICES ASSUME NEW i \in Positions PROVE ChangeOK(pending[i])'
    OBVIOUS
  <2>1. PICK c \in ChangeRecords : c = pending[i] /\ ChangeOK(c)
    BY Present
  <2>2. ChangeOK(c)' /\ pending'[i] = c
    BY <1>1, <2>1, WanesOK DEF Wanes, Untold
  <2> QED BY <2>2 DEF ChangeOK, Ends
<1>7. op.pc = "append" => ChangeOK(op.change)'
  <2> SUFFICES ASSUME op.pc = "append" PROVE ChangeOK(op.change)'
    OBVIOUS
  <2>1. PICK c \in ChangeRecords : c = op.change /\ ChangeOK(c)
    BY NamedVoices
  <2>2. ChangeOK(c)' /\ op'.change = c
    BY <1>1, <2>1, WanesOK DEF Wanes, Untold
  <2> QED BY <2>2 DEF ChangeOK, Ends
<1>8. ChangesOK'
  BY <1>1, <1>6, <1>7 DEF ChangesOK
<1> QED BY <1>2, <1>3, <1>4, <1>5, <1>8

LEMMA WanesItems ==
  ASSUME Whole, ~Lost, Wanes, Sweeping' => Sweeping \/ pending = <<>>
  PROVE  /\ VoiceIsKnown' /\ EndIsByCall' /\ VoiceHasState'
         /\ WaitsForMix' /\ PausedIsHushed'
<1>1. Kept /\ Typed /\ Positions' = Positions /\ UNCHANGED <<source, active, pending, op>>
  BY Present, WanesIs
<1>2. pending = <<>> => Positions = {} /\ \A w : ~EndPending(w)
  BY DEF Positions, EndPending
<1>3. VoiceIsKnown' /\ EndIsByCall' /\ VoiceHasState'
  <2>1. VoiceIsKnown'
    BY <1>1, WanesIs DEF Kept, VoiceIsKnown
  <2>2. EndIsByCall'
    BY <1>1, WanesIs DEF Kept, EndIsByCall
  <2>3. VoiceHasState'
    BY <1>1, WanesIs DEF Kept, VoiceHasState
  <2> QED BY <2>1, <2>2, <2>3
<1>4. WaitsForMix'
  <2>1. Sweeping' => \A i \in Positions : pending[i].state = "Play" => voice'[pending[i].v].play # "Playing"
    BY <1>1, <1>2, WanesIs, NamedVoices DEF Kept, WaitsForMix
  <2>2. Sweeping' => pending = <<>> \/ (op.pc \in {"load", "wait"} /\ Len(pending) = 1)
    BY <1>1 DEF Kept, WaitsForMix
  <2>3. op.pc \in Sends \ {"append"} => pending = <<>> \/ pending[Len(pending)] = op.change
    BY <1>1 DEF Kept, WaitsForMix
  <2> QED BY <1>1, <2>1, <2>2, <2>3 DEF WaitsForMix
<1>5. PausedIsHushed'
  <2>1. Dims
    BY <1>1, WanesIs DEF Dims
  <2>2. \A s \in Source : Hushed(s) => Hushed(s)'
    BY <2>1, DimsHushed
  <2>3. op.pc = "append" /\ op.change.state = "Play" =>
          Asleep(op.change.v)' \/ Hushed(op.change.s)'
    <3> SUFFICES ASSUME op.pc = "append", op.change.state = "Play"
                 PROVE  Asleep(op.change.v)' \/ Hushed(op.change.s)'
      OBVIOUS
    <3>1. op.change.v \in Voices!Voices /\ op.change.s \in Source
      BY NamedVoices, ChangeFields
    <3>2. PICK x \in Voices!Voices, s \in Source : x = op.change.v /\ s = op.change.s
      BY <3>1
    <3>3. Asleep(x) \/ Hushed(s)
      BY <1>1, <3>2 DEF Kept, PausedIsHushed
    <3>4. Asleep(x)' \/ Hushed(s)'
      BY <2>1, <3>3, DimsHushed
    <3> QED BY <1>1, <3>2, <3>4
  <2> QED BY <1>1, <2>2, <2>3 DEF Kept, PausedIsHushed
<1> QED BY <1>3, <1>4, <1>5

LEMMA WanesCall ==
  ASSUME Whole, ~Lost, Wanes
  PROVE  CallIsRight'
<1>1. Kept /\ Typed /\ CallKnows /\ Positions' = Positions /\ UNCHANGED <<source, active, pending, op>>
  BY Present, WanesIs
<1>2. op.pc \in {"start", "seek", "loop"} => op.s \in Source
  BY <1>1, OpFields
<1>3. op'.pc = "start" =>
        /\ Voices!Playable(op.s)' # {}
        /\ op'.old # Voices!NoVoice => voice'[op'.old].sid \in {op'.s, Voices!NoSource}
        /\ \A v \in Voices!Voices : voice'[v].sid = op'.s => voice'[v].change
  <2> SUFFICES ASSUME op.pc = "start"
               PROVE  /\ Voices!Playable(op.s)' # {}
                      /\ op.old # Voices!NoVoice => voice'[op.old].sid \in {op.s, Voices!NoSource}
                      /\ \A v \in Voices!Voices : voice'[v].sid = op.s => voice'[v].change
    BY <1>1
  <2>1. /\ Voices!Playable(op.s) # {}
        /\ op.old # Voices!NoVoice => voice[op.old].sid \in {op.s, Voices!NoSource}
        /\ \A v \in Voices!Voices : voice[v].sid = op.s => voice[v].change
    BY <1>1 DEF Kept, CallIsRight
  <2>2. op.old # Voices!NoVoice => op.old \in Voices!Voices
    BY <1>1, OpFields, MaybeIs
  <2>3. Voices!Playable(op.s)' = Voices!Playable(op.s)
    BY <1>1 DEF Voices!Playable, Voices!Queue
  <2>4. op.s # Voices!NoSource
    BY <1>2, VoicesAssumptions
  <2> QED BY <2>1, <2>2, <2>3, <2>4, WanesIs
<1>4. op'.pc = "loop" => voice'[source'[op'.s].vidx].sid \in {op'.s, Voices!NoSource}
  <2>1. op.pc = "loop" => source[op.s].vidx \in Voices!Voices
    BY <1>1, <1>2, SourceFields, MaybeIs DEF CallKnows
  <2> QED BY <1>1, <2>1, WanesIs DEF Kept, CallIsRight
<1>5. op'.pc = "seek" =>
        /\ voice'[op'.old].sid \in {op'.s, Voices!NoSource} /\ ~voice'[op'.old].change
        /\ source'[op'.s].state \in {"PLAYING", "PAUSED"}
  <2>1. op.pc = "seek" => op.old \in Voices!Voices
    BY <1>1, OpFields, MaybeIs DEF CallKnows
  <2> QED BY <1>1, <2>1, WanesIs DEF Kept, CallIsRight
<1>9. op.pc \in Sends => op.change.s # Voices!NoSource
  BY NamedVoices, ChangeFields, VoicesAssumptions
<1>6. op'.pc \in Sends /\ op'.call = "delete" =>
        \A v \in Voices!Voices : voice'[v].sid = op'.change.s => voice'[v].change
  <2> SUFFICES ASSUME op.pc \in Sends, op.call = "delete", NEW v \in Voices!Voices,
                      voice'[v].sid = op.change.s
               PROVE  voice'[v].change
    BY <1>1
  <2>1. voice[v].sid = op.change.s
    BY <1>9, WanesIs
  <2> QED BY <1>1, <2>1, WanesIs DEF Kept, CallIsRight
<1>7. op'.pc \in Sends /\ op'.change.state = "Restart" =>
        \A i \in Positions' :
          /\ ~Plays(pending'[i], op'.change.v)
          /\ Restarts(pending'[i], op'.change.v) /\ pending'[i].old # op'.change.old =>
               voice'[pending'[i].old].sid = Voices!NoSource
  <2> SUFFICES ASSUME op.pc \in Sends, op.change.state = "Restart", NEW i \in Positions
               PROVE  /\ ~Plays(pending[i], op.change.v)
                      /\ Restarts(pending[i], op.change.v) /\ pending[i].old # op.change.old =>
                           voice'[pending[i].old].sid = Voices!NoSource
    BY <1>1
  <2>1. /\ ~Plays(pending[i], op.change.v)
        /\ Restarts(pending[i], op.change.v) /\ pending[i].old # op.change.old =>
             voice[pending[i].old].sid = Voices!NoSource
    BY <1>1 DEF Kept, CallIsRight
  <2>2. Restarts(pending[i], op.change.v) => pending[i].old \in Voices!Voices
    BY NamedVoices DEF Restarts
  <2> QED BY <2>1, <2>2, WanesIs
<1>8. op'.pc \in Sends /\ op'.call = "pause" =>
        /\ op'.change.v = source'[op'.change.s].vidx
        /\ op'.pc # "append" /\ pending' = <<>> /\ voice'[op'.change.v].sid = op'.change.s =>
             voice'[op'.change.v].play # "Playing"
  <2> SUFFICES ASSUME op.pc \in Sends, op.call = "pause"
               PROVE  /\ op.change.v = source[op.change.s].vidx
                      /\ op.pc # "append" /\ pending = <<>> /\ voice'[op.change.v].sid = op.change.s =>
                           voice'[op.change.v].play # "Playing"
    BY <1>1
  <2>1. /\ op.change.v = source[op.change.s].vidx
        /\ op.pc # "append" /\ pending = <<>> /\ voice[op.change.v].sid = op.change.s =>
             voice[op.change.v].play # "Playing"
    BY <1>1 DEF Kept, CallIsRight
  <2>2. op.change.v \in Voices!Voices
    BY <1>1, NamedVoices DEF CallKnows
  <2> QED BY <1>9, <2>1, <2>2, WanesIs
<1> QED BY <1>3, <1>4, <1>5, <1>6, <1>7, <1>8 DEF CallIsRight

LEMMA WanesKept ==
  ASSUME Whole, ~Lost, Wanes, Sweeping' => Sweeping \/ pending = <<>>,
         LoadedIsSo', ItemIsQueued', BeyondIsFresh'
  PROVE  Kept'
  BY WanesChanges, WanesItems, WanesCall DEF Kept

LEMMA FadesKept ==
  ASSUME Whole, ~Lost, Fades, StillCalls, Sweeping' => Sweeping \/ pending = <<>>, LoadedIsSo'
  PROVE  Kept'
<1>1. Kept /\ Typed
  BY Present
<1>2. Wanes
  BY DEF Wanes, Fades
<1>3. \A w \in Voices!Voices : voice'[w].sid = voice[w].sid /\ KeepsItem(w)
  BY DEF Fades, KeepsItem
<1>4. BeyondIsFresh'
  BY <1>1 DEF Kept, BeyondIsFresh, Fades, StillCalls
<1>5. pending = <<>> => \A w : ~EndPending(w)
  BY DEF Positions, EndPending
<1>6. ItemIsQueued'
  <2>1. ASSUME NEW w \in Voices!Voices, voice'[w].sid # Voices!NoSource, Sweeping' \/ ~EndPending(w)'
        PROVE  InQueue(w, voice[w].sid)'
    <3>1. PICK s \in Source : s = voice[w].sid
      BY <1>1, <1>3, <2>1, VoiceFields DEF Sids
    <3>2. InQueue(w, s)
      BY <1>1, <1>2, <1>3, <1>5, <2>1, <3>1, WanesIs DEF Kept, ItemIsQueued
    <3>3. voice'[w].sid = s /\ voice'[w].buffer = voice[w].buffer /\ voice'[w].loop = voice[w].loop
      BY <1>3, <3>1 DEF KeepsItem
    <3>4. InQueue(w, s)'
      BY <1>2, <3>2, <3>3, WanesIs DEF InQueue
    <3> QED BY <3>3, <3>4
  <2>2. ASSUME NEW w \in Voices!Voices, voice'[w].sid = Voices!NoSource PROVE voice'[w].buffer = Voices!NoItem
    BY <1>1, <1>3, <2>2 DEF Kept, ItemIsQueued, KeepsItem
  <2> QED BY <2>1, <2>2 DEF ItemIsQueued
<1> QED BY <1>2, <1>4, <1>6, WanesKept

(* The steps with which voices only fade, or nothing of them changes.      *)
LEMMA LoadsSo ==
  ASSUME Whole, ~Lost, Voices!MixLoad
  PROVE  LoadedIsSo' /\ Sweeping
<1>1. Kept /\ Typed
  BY Present
<1>2. /\ mix.pc = "voices" /\ mix.v <= mix.last /\ UNCHANGED <<voice, source, op>>
      /\ mix' = [pc |-> "reading", v |-> mix.v, last |-> mix.last, play |-> voice[mix.v].play,
                 buffer |-> voice[mix.v].buffer, loop |-> voice[mix.v].loop]
  BY DEF Voices!MixLoad, Voices!Calls
<1>3. Sweeping
  BY <1>2 DEF Sweeping
<1>4. PICK x \in Voices!Voices : x = mix.v
  BY <1>2, <1>3, SweepIs
<1>5. /\ mix'.pc = "reading" /\ mix'.v = x /\ mix'.play = voice[x].play
      /\ mix'.buffer = voice[x].buffer /\ mix'.loop = voice[x].loop
  BY <1>2, <1>4
<1>6. ASSUME voice[x].buffer # Voices!NoItem, voice[x].loop # Voices!NoItem
      PROVE  voice[x].loop \in Voices!Queue(voice[x].sid)' /\ MayLoop(voice[x].sid)'
  <2>1. voice[x].sid # Voices!NoSource
    BY <1>1, <1>6 DEF Kept, ItemIsQueued
  <2>2. PICK s \in Source : s = voice[x].sid
    BY <1>1, <2>1, VoiceFields DEF Sids
  <2>3. InQueue(x, s)
    BY <1>1, <1>3, <2>1, <2>2 DEF Kept, ItemIsQueued
  <2>4. voice[x].loop \in Voices!Queue(s)' /\ MayLoop(s)'
    BY <1>2, <1>6, <2>3 DEF InQueue, Voices!Queue, MayLoop
  <2> QED BY <1>2, <2>2, <2>4
<1>7. LoadedIsSo'
  BY <1>2, <1>5, <1>6 DEF LoadedIsSo
<1> QED BY <1>3, <1>7

LEMMA NotLoaded ==
  ASSUME mix'.pc \notin {"reading", "ended"}
  PROVE  LoadedIsSo'
  BY DEF LoadedIsSo

LEMMA WaitsKept == ASSUME Whole, ~Lost, Waits PROVE Kept'
<1>1. Fades /\ StillCalls
  BY WaitsDoes
<1>2. CASE Voices!MixLoad
  BY <1>1, <1>2, LoadsSo, FadesKept
<1>3. CASE Voices!ChangesDone
  <2>1. mix'.pc = "voices" /\ pending = <<>>
    BY <1>3 DEF Voices!ChangesDone, Voices!At
  <2> QED BY <1>1, <2>1, NotLoaded, FadesKept
<1>4. CASE ~(Voices!MixLoad \/ Voices!ChangesDone)
  <2>1. mix'.pc \notin {"voices", "reading", "ended"}
    <3>1. CASE Voices!MixBegin BY <3>1 DEF Voices!MixBegin
    <3>2. CASE Voices!MixEnd BY <3>2 DEF Voices!MixEnd, Voices!Resting
    <3>3. CASE Voices!Disconnect BY <3>3 DEF Voices!Disconnect
    <3>4. CASE Voices!Disconnected
      <4>1. mix'.pc \in {"gone, voices", "gone, changes"}
        BY <3>4 DEF Voices!Disconnected
      <4> QED BY <4>1
    <3>5. CASE Voices!DisconnectEnds BY <3>5 DEF Voices!DisconnectEnds, Voices!Halted
    <3>6. CASE Voices!Halt BY <3>6 DEF Voices!Halt, Voices!Halted
    <3>7. CASE Voices!Start BY <3>7 DEF Voices!Start, Voices!Resting
    <3>8. CASE Voices!ResetConnect
      <4>1. reset = "connect" /\ mix' = mix
        BY <3>8 DEF Voices!ResetConnect
      <4>2. mix.pc = "off"
        BY <4>1, WhereLost
      <4> QED BY <4>1, <4>2
    <3> QED BY <1>4, <3>1, <3>2, <3>3, <3>4, <3>5, <3>6, <3>7, <3>8 DEF Waits
  <2>2. ~Sweeping' /\ LoadedIsSo'
    BY <2>1 DEF Sweeping, LoadedIsSo
  <2> QED BY <1>1, <2>2, FadesKept
<1> QED BY <1>2, <1>3, <1>4

LEMMA NextVoiceKept ==
  ASSUME Whole, ~Lost, Voices!MixSkip \/ Voices!MixFaded \/ Voices!MixEnded
  PROVE  Kept'
<1>1. Fades /\ StillCalls
  BY MixSkipDoes, MixFadedDoes, MixEndedDoes
<1>2. mix.pc \in {"voices", "reading", "ended"} /\ mix'.pc = "voices"
  BY DEF Voices!MixSkip, Voices!MixFaded, Voices!MixEnded, Voices!NextVoice, Voices!At
<1>3. Sweeping /\ LoadedIsSo'
  BY <1>2, NotLoaded DEF Sweeping
<1> QED BY <1>1, <1>3, FadesKept

LEMMA UpdateKept ==
  ASSUME Whole, ~Lost, Voices!UpdateDeviceParams
  PROVE  Kept'
<1>1. Fades /\ StillCalls
  BY UpdateDoes
<1>2. mix' = mix /\ reset = "prepare"
  BY DEF Voices!UpdateDeviceParams
<1>3. mix'.pc = "off"
  BY <1>2, WhereLost
<1>4. ~Sweeping' /\ LoadedIsSo'
  BY <1>3 DEF Sweeping, LoadedIsSo
<1> QED BY <1>1, <1>4, FadesKept

(* ResetLists: a device that was there keeps its voices, and one that was  *)
(* gone with them starts afresh.                                           *)
LEMMA ResetStillKept ==
  ASSUME Whole, ~Lost, Voices!ResetLists
  PROVE  Kept'
<1>1. Typed /\ mix.pc = "off" /\ reset = "no" /\ mix' = mix /\ UNCHANGED <<source, active, op>>
  BY Present DEF Voices!ResetLists
<1>2. connected \/ ~StopOnDisconnect
  BY <1>1 DEF Lost
<1>3. UNCHANGED <<voice, pending>>
  BY <1>2 DEF Voices!ResetLists
<1>4. Fades /\ StillCalls
  BY <1>1, <1>3, FadesNone DEF StillCalls
<1>5. ~Sweeping' /\ LoadedIsSo'
  BY <1>1 DEF Sweeping, LoadedIsSo
<1> QED BY <1>4, <1>5, FadesKept

LEMMA ResetFreshKept ==
  ASSUME Whole, Lost, Voices!ResetLists
  PROVE  Kept'
<1>1. /\ op.pc = "idle" /\ op' = op /\ pending' = <<>> /\ voice' = [v \in Voices!Voices |-> Voices!Fresh]
      /\ mix.pc = "off" /\ mix' = mix /\ UNCHANGED <<source, active>>
  BY DEF Lost, Voices!ResetLists
<1>2. \A v \in Voices!Voices : /\ voice'[v] = Voices!Fresh /\ voice'[v].sid = Voices!NoSource /\ ~voice'[v].change
                               /\ voice'[v].buffer = Voices!NoItem /\ voice'[v].play = "Stopped"
  BY <1>1, FreshIs
<1>3. Positions' = {} /\ \A w : ~EndPending(w)'
  BY <1>1 DEF Positions, EndPending
<1>4. \A w : ~Ahead(w)'
  BY <1>1 DEF Ahead
<1>5. \A s \in Source : ~Voices!HasVoice(s)'
  <2>1. ASSUME NEW s \in Source, Voices!HasVoice(s)' PROVE FALSE
    <3>1. active \in Voices!Voices
      BY DEF Whole, Always, Typed
    <3>2. PICK x \in 1..active : x = source[s].vidx /\ voice'[x].sid = s
      BY <1>1, <2>1 DEF Voices!HasVoice
    <3>3. x \in Voices!Voices
      BY <3>1, VoicesAssumptions DEF Voices!Voices
    <3> QED BY <1>2, <3>2, <3>3, VoicesAssumptions
  <2> QED BY <2>1
<1>6. ChangeIsAhead' /\ EndsOnce' /\ EndIsLast' /\ RestartIsFirst' /\ ChangesOK'
  <2>1. ChangeIsAhead'
    BY <1>2, <1>3, <1>4 DEF ChangeIsAhead
  <2>2. EndsOnce'
    BY <1>3, <1>4 DEF EndsOnce
  <2>3. EndIsLast' /\ RestartIsFirst' /\ ChangesOK'
    BY <1>1, <1>3 DEF EndIsLast, RestartIsFirst, ChangesOK
  <2> QED BY <2>1, <2>2, <2>3
<1>7. VoiceIsKnown' /\ EndIsByCall' /\ VoiceHasState' /\ BeyondIsFresh'
  BY <1>2, <1>5 DEF VoiceIsKnown, EndIsByCall, VoiceHasState, BeyondIsFresh
<1>8. ItemIsQueued' /\ LoadedIsSo' /\ WaitsForMix'
  <2>1. ItemIsQueued'
    BY <1>2 DEF ItemIsQueued
  <2>2. LoadedIsSo'
    BY <1>1, NotLoaded
  <2>3. WaitsForMix'
    BY <1>1, <1>3 DEF WaitsForMix
  <2> QED BY <2>1, <2>2, <2>3
<1>9. PausedIsHushed' /\ CallIsRight'
  <2>1. ASSUME NEW s \in Source PROVE Quiet(s)'
    BY <1>2, <1>3 DEF Quiet, NotPlayed
  <2> QED BY <1>1, <2>1, IdleRight DEF PausedIsHushed, Hushed
<1> QED BY <1>6, <1>7, <1>8, <1>9 DEF Kept

(* MixStore: the voice goes on at another item, or ends.                   *)
LEMMA EndsUntold ==
  ASSUME Whole, Sweeping, NEW v \in Voices!Voices, voice[v].play = "Playing"
  PROVE  Untold(v)
<1>1. Kept /\ ~Lost
  BY SweepIs
<1>2. ASSUME NEW i \in Positions PROVE ~Plays(pending[i], v)
  BY <1>1 DEF Kept, WaitsForMix, Plays
<1>3. ASSUME op.pc = "append", Plays(op.change, v) PROVE FALSE
  <2>1. op.change \in ChangeRecords /\ ChangeOK(op.change)
    BY <1>1, <1>3, NamedVoices
  <2>2. PICK s \in Source : s = op.change.s
    BY <2>1, ChangeFields
  <2>3. op.change.state = "Play" /\ op.change.v = v /\ voice[v].sid = s
    BY <1>3, <2>1, <2>2 DEF Plays, ChangeOK
  <2>4. Positions = {}
    <3>1. pending = <<>>
      BY <1>1, <1>3 DEF Kept, WaitsForMix
    <3> QED BY <3>1 DEF Positions
  <2>5. Asleep(v) \/ Hushed(s)
    BY <1>1, <1>3, <2>2, <2>3 DEF Kept, PausedIsHushed
  <2> QED BY <2>3, <2>4, <2>5 DEF Asleep, Hushed, Quiet
<1> QED BY <1>2, <1>3 DEF Untold

LEMMA MixStoreKept == ASSUME Whole, Voices!MixStore PROVE Kept'
<1>1. PICK v \in Voices!Voices :
        /\ mix.pc = "reading" /\ mix.v = v /\ v <= active /\ Kept /\ ~Lost
        /\ VoicesTyped /\ Others(v)
        /\ voice[v].play = "Playing" /\ voice'[v].play = "Playing"
        /\ voice'[v].change = voice[v].change
        /\ \/ /\ voice[v].sid # Voices!NoSource /\ voice'[v].sid = voice[v].sid
              /\ voice'[v].loop = voice[v].loop
              /\ voice'[v].buffer \in Voices!Queue(voice[v].sid)
              /\ \E j \in Voices!Playable(voice[v].sid) : j[2] >= voice'[v].buffer[2]
              /\ mix' = Voices!At("voices", v + 1)
           \/ /\ voice'[v].sid = Voices!NoSource
              /\ voice'[v].loop = Voices!NoItem /\ voice'[v].buffer = Voices!NoItem
              /\ mix' = Voices!At("ended", v)
        /\ StillCalls /\ UNCHANGED <<mixing, connected, reset>>
  BY MixStoreDoes
<1>2. Typed /\ active \in Int /\ Sweeping
  BY <1>1, Present DEF Sweeping
<1>3. Untold(v)
  BY <1>1, <1>2, EndsUntold
<1>4. \A w \in Voices!Voices : w # v => voice'[w] = voice[w]
  BY <1>1 DEF Others
<1>5. Wanes
  <2>1. ASSUME NEW w \in Voices!Voices
        PROVE  /\ voice'[w].sid \in {voice[w].sid, Voices!NoSource}
               /\ (voice'[w].change <=> voice[w].change)
               /\ voice[w].play = "Pending" => voice'[w].play = "Pending"
               /\ voice'[w].play = "Playing" => voice[w].play = "Playing"
               /\ voice'[w].sid # voice[w].sid => Untold(w)
    BY <1>1, <1>3, <1>4
  <2> QED BY <1>1, <2>1 DEF Wanes
<1>6. LoadedIsSo'
  <2>1. mix'.pc = "voices" \/ (mix'.pc = "ended" /\ mix'.v = v /\ voice'[v].sid = Voices!NoSource)
    BY <1>1 DEF Voices!At
  <2> QED BY <1>1, <2>1 DEF LoadedIsSo
<1>7. BeyondIsFresh'
  <2>1. \A w \in Voices!Voices : w > active => w # v
    BY <1>1, <1>2 DEF Voices!Voices
  <2> QED BY <1>1, <1>4, <1>5, <2>1, WanesIs DEF Kept, BeyondIsFresh
<1>8. ItemIsQueued'
  <2>1. ASSUME NEW w \in Voices!Voices, voice'[w].sid # Voices!NoSource, Sweeping' \/ ~EndPending(w)'
        PROVE  InQueue(w, voice[w].sid)' /\ voice'[w].sid = voice[w].sid
    <3>0. voice'[w].sid = voice[w].sid
      BY <1>1, <1>5, <2>1, WanesIs
    <3>1. PICK s \in Source : s = voice[w].sid
      BY <1>2, <2>1, <3>0, VoiceFields DEF Sids
    <3>2. InQueue(w, s)
      BY <1>1, <1>2, <2>1, <3>0, <3>1 DEF Kept, ItemIsQueued
    <3>3. CASE w = v
      <4>1. /\ voice'[v].loop = voice[v].loop
            /\ voice'[v].buffer \in Voices!Queue(s)
            /\ \E j \in Voices!Playable(s) : j[2] >= voice'[v].buffer[2]
        BY <1>1, <2>1, <3>1, <3>3
      <4>2. InQueue(v, s)'
        BY <1>1, <1>5, <3>2, <3>3, <4>1, WanesIs DEF InQueue
      <4> QED BY <3>0, <3>1, <3>3, <4>2
    <3>4. CASE w # v
      <4>1. InQueue(w, s)'
        BY <1>1, <1>4, <1>5, <3>2, <3>4, WanesIs DEF InQueue
      <4> QED BY <3>0, <3>1, <4>1
    <3> QED BY <3>3, <3>4
  <2>2. ASSUME NEW w \in Voices!Voices, voice'[w].sid = Voices!NoSource PROVE voice'[w].buffer = Voices!NoItem
    BY <1>1, <1>4, <2>2 DEF Kept, ItemIsQueued
  <2> QED BY <2>1, <2>2 DEF ItemIsQueued
<1> QED BY <1>1, <1>2, <1>5, <1>6, <1>7, <1>8, WanesKept

(* ProcessChange: the first change is worked off, and the others move up.  *)
Works(c) ==
  /\ c = pending[1] /\ ChangeOK(c) /\ Worked(c) /\ 1 \in Positions
  /\ Kept /\ ~Lost /\ ~Sweeping /\ ~Sweeping' /\ mix'.pc \notin {"reading", "ended"}
  /\ UNCHANGED <<source, active, op>>
  /\ Len(pending) \in Nat /\ Len(pending') = Len(pending) - 1 /\ pending' \in Seq(ChangeRecords)
  /\ \A i \in Positions' : i \in Nat /\ i + 1 \in Positions /\ pending'[i] = pending[i + 1]
  /\ \A i \in Positions : i # 1 => i - 1 \in Positions' /\ pending'[i - 1] = pending[i]
  /\ c.state = "Pause" => voice'[c.v].play # "Playing"
  /\ \A w \in Voices!Voices : Restarts(c, w) /\ voice'[w].play = "Playing" =>
       voice[w].play = "Playing" \/ voice[c.old].play = "Playing"

LEMMA ProcessWorks ==
  ASSUME Whole, Voices!ProcessChange
  PROVE  \E c \in ChangeRecords : Works(c)
<1>1. PICK c \in ChangeRecords : c = pending[1]
  BY ProcessDoes
<1>2. Typed /\ Kept /\ ~Lost /\ ChangeOK(c) /\ Worked(c) /\ 1 \in Positions
  BY <1>1, ProcessDoes DEF Whole, Always, Positions
<1>3. mix' = mix /\ mix.pc \notin {"voices", "reading", "ended"} /\ UNCHANGED <<source, active, op>>
  BY ProcessDoes DEF Sweeping
<1>4. voice' = Voices!Change(c)
  <2>1. pending # <<>> /\ voice' = Voices!Change(Head(pending))
    BY DEF Voices!ProcessChange
  <2>2. Head(pending) = c
    BY <1>1, <1>2, <2>1, Tailed DEF Typed
  <2> QED BY <2>1, <2>2
<1>5. c.state = "Pause" => voice'[c.v].play # "Playing"
  <2> SUFFICES ASSUME c.state = "Pause" PROVE voice'[c.v].play # "Playing"
    OBVIOUS
  <2>1. c.v \in Voices!Voices
    BY <1>2, ChangeFields DEF ChangeOK
  <2>2. voice' = [voice EXCEPT ![c.v].play = Voices!Stopping(@)]
    BY <1>4 DEF Voices!Change
  <2>3. voice[c.v] \in VoiceRecords /\ voice \in [Voices!Voices -> VoiceRecords]
    BY <1>2, <2>1, VoiceFields DEF Typed
  <2>4. voice'[c.v] = [voice[c.v] EXCEPT !.play = Voices!Stopping(voice[c.v].play)]
    BY <2>1, <2>2, <2>3
  <2>5. voice'[c.v].play = Voices!Stopping(voice[c.v].play)
    BY <2>3, <2>4 DEF VoiceRecords
  <2> QED BY <2>5 DEF Voices!Stopping
<1>6. ASSUME NEW w \in Voices!Voices, Restarts(c, w), voice'[w].play = "Playing"
      PROVE  voice[w].play = "Playing" \/ voice[c.old].play = "Playing"
  <2>1. c.state = "Restart" /\ c.v = w /\ c.v # c.old /\ c.old \in Voices!Voices
    BY <1>2, <1>6, ChangeFields DEF ChangeOK, Restarts
  <2>2. CASE voice[c.old].sid = Voices!NoSource
    <3>1. voice' = [voice EXCEPT ![c.old] = [@ EXCEPT !.buffer = Voices!NoItem, !.loop = Voices!NoItem,
                                                       !.change = FALSE]]
      BY <1>4, <2>1, <2>2 DEF Voices!Change
    <3>2. voice'[w] = voice[w]
      BY <1>2, <2>1, <3>1 DEF Typed
    <3> QED BY <1>6, <3>2
  <2>3. CASE voice[c.old].sid # Voices!NoSource
    <3> DEFINE gone == [voice EXCEPT ![c.old] = Voices!LetGo(c.old)]
               p == IF voice[c.old].play = "Playing" THEN "Playing" ELSE "Stopped"
    <3>1. voice' = [gone EXCEPT ![c.v].play = p]
      BY <1>4, <2>1, <2>3 DEF Voices!Change
    <3>2. gone \in [Voices!Voices -> VoiceRecords]
      BY <1>2, <2>1, LetGoIs DEF Typed
    <3> HIDE DEF gone
    <3>3. voice'[w] = [gone[w] EXCEPT !.play = p]
      BY <2>1, <3>1, <3>2
    <3>4. voice'[w].play = p
      BY <3>2, <3>3 DEF VoiceRecords
    <3> QED BY <1>6, <3>4
  <2> QED BY <2>2, <2>3
<1>7. /\ Len(pending) \in Nat /\ Len(pending') = Len(pending) - 1
      /\ pending' \in Seq(ChangeRecords)
      /\ \A i \in Positions' : i \in Nat /\ i + 1 \in Positions /\ pending'[i] = pending[i + 1]
      /\ \A i \in Positions : i # 1 => i - 1 \in Positions' /\ pending'[i - 1] = pending[i]
  <2>1. \A i \in Positions' : i \in Nat
    BY ProcessDoes DEF Positions
  <2> QED BY <2>1, ProcessDoes
<1>8. ~Sweeping /\ ~Sweeping' /\ mix'.pc \notin {"reading", "ended"}
  BY <1>3 DEF Sweeping
<1> QED BY <1>1, <1>2, <1>3, <1>5, <1>6, <1>7, <1>8 DEF Works

LEMMA WorksIs ==
  ASSUME Whole, NEW c \in ChangeRecords, Works(c)
  PROVE  /\ \A w \in Voices!Voices :
              /\ voice'[w].sid \in {voice[w].sid, Voices!NoSource}
              /\ voice'[w].change => voice[w].change
              /\ voice'[w].sid # Voices!NoSource => ~Ends(c, w)
              /\ ~Ends(c, w) => /\ voice'[w].sid = voice[w].sid /\ KeepsItem(w)
                                /\ (voice'[w].change <=> voice[w].change)
              /\ voice'[w].play = "Playing" => voice[w].play = "Playing" \/ Wakes(c, w)
              /\ EndPending(w) <=> Ends(c, w) \/ EndPending(w)'
              /\ Ends(c, w) => ~EndPending(w)' /\ ~Ahead(w) /\ ~voice'[w].change
              /\ Ahead(w)' <=> Ahead(w)
         /\ \A s \in Source : Voices!HasVoice(s)' => Voices!HasVoice(s) /\ source[s].vidx \in Voices!Voices
         /\ \A s : Voices!Queue(s)' = Voices!Queue(s) /\ Voices!Playable(s)' = Voices!Playable(s)
         /\ \A s : MayLoop(s)' <=> MayLoop(s)
<1>1. Typed /\ Kept /\ UNCHANGED <<source, active, op>> /\ active \in Voices!Voices
  BY Present DEF Works
<1>2. ASSUME NEW w \in Voices!Voices
      PROVE  /\ voice'[w].sid \in {voice[w].sid, Voices!NoSource}
             /\ voice'[w].change => voice[w].change
             /\ voice'[w].sid # Voices!NoSource => ~Ends(c, w)
             /\ ~Ends(c, w) => /\ voice'[w].sid = voice[w].sid /\ KeepsItem(w)
                               /\ (voice'[w].change <=> voice[w].change)
             /\ voice'[w].play = "Playing" => voice[w].play = "Playing" \/ Wakes(c, w)
             /\ Ends(c, w) => ~voice'[w].change
  <2>1. CASE Ends(c, w)
    <3>1. Ended(w)
      BY <2>1 DEF Works, Worked
    <3> QED BY <2>1, <3>1 DEF Ended
  <2>2. CASE ~Ends(c, w)
    <3>1. Lasts(w) /\ Replays(c, w)
      BY <2>2 DEF Works, Worked
    <3> QED BY <2>2, <3>1 DEF Lasts, Replays, KeepsItem, Wakes
  <2> QED BY <2>1, <2>2
<1>3. ASSUME NEW w \in Voices!Voices
      PROVE  /\ EndPending(w) <=> Ends(c, w) \/ EndPending(w)'
             /\ Ends(c, w) => ~EndPending(w)' /\ ~Ahead(w)
  <2>1. ASSUME EndPending(w) PROVE Ends(c, w) \/ EndPending(w)'
    <3>1. PICK i \in Positions : Ends(pending[i], w)
      BY <2>1 DEF EndPending
    <3>2. CASE i = 1
      BY <3>1, <3>2 DEF Works
    <3>3. CASE i # 1
      <4>1. i - 1 \in Positions' /\ pending'[i - 1] = pending[i]
        BY <3>3 DEF Works
      <4>2. PICK j \in Positions' : pending'[j] = pending[i]
        BY <4>1
      <4> QED BY <3>1, <4>2 DEF EndPending, Ends
    <3> QED BY <3>2, <3>3
  <2>2. Ends(c, w) => EndPending(w)
    BY DEF EndPending, Works
  <2>3. ASSUME EndPending(w)' PROVE EndPending(w) /\ ~Ends(c, w)
    <3>1. PICK j \in Positions' : Ends(pending'[j], w)
      BY <2>3 DEF EndPending, Ends
    <3>2. j \in Nat /\ j + 1 \in Positions /\ pending'[j] = pending[j + 1]
      BY DEF Works
    <3>3. PICK i \in Positions : i = j + 1
      BY <3>2
    <3>4. Ends(pending[i], w)
      BY <3>1, <3>2, <3>3
    <3>5. i # 1
      <4>1. j >= 1
        BY DEF Positions, Works
      <4> QED BY <3>2, <3>3, <4>1
    <3>6. ~Ends(c, w)
      BY <1>1, <3>4, <3>5 DEF Kept, EndsOnce, Works
    <3> QED BY <3>4, <3>6 DEF EndPending
  <2>4. Ends(c, w) => ~Ahead(w)
    BY <1>1, <2>2 DEF Kept, EndsOnce
  <2> QED BY <2>1, <2>2, <2>3, <2>4
<1>4. \A w : Ahead(w)' <=> Ahead(w)
  BY <1>1 DEF Ahead
<1>5. \A s \in Source : Voices!HasVoice(s)' => Voices!HasVoice(s) /\ source[s].vidx \in Voices!Voices
  <2>1. ASSUME NEW s \in Source, Voices!HasVoice(s)' PROVE Voices!HasVoice(s) /\ source[s].vidx \in Voices!Voices
    <3>1. PICK x \in 1..active : x = source[s].vidx /\ voice'[x].sid = s
      BY <1>1, <2>1 DEF Voices!HasVoice
    <3>2. x \in Voices!Voices
      BY <1>1, VoicesAssumptions DEF Voices!Voices
    <3>3. voice[x].sid = s
      BY <1>2, <3>1, <3>2, VoicesAssumptions
    <3> QED BY <3>1, <3>2, <3>3 DEF Voices!HasVoice
  <2> QED BY <2>1
<1>6. \A s : Voices!Queue(s)' = Voices!Queue(s) /\ Voices!Playable(s)' = Voices!Playable(s)
  BY <1>1 DEF Voices!Queue, Voices!Playable
<1>7. \A s : MayLoop(s)' <=> MayLoop(s)
  BY <1>1 DEF MayLoop
<1> QED BY <1>2, <1>3, <1>4, <1>5, <1>6, <1>7

LEMMA WorksPlaces ==
  ASSUME NEW c \in ChangeRecords, Works(c), NEW i \in Positions'
  PROVE  /\ i \in Nat /\ i + 1 \in Positions /\ i + 1 # 1 /\ 1 < i + 1
         /\ pending'[i] = pending[i + 1]
<1>1. i >= 1 /\ i \in Nat
  BY DEF Positions, Works
<1> QED BY <1>1 DEF Works

(* A change behind the one worked off is still right.                      *)
LEMMA WorksOK ==
  ASSUME Whole, NEW c \in ChangeRecords, Works(c), NEW d \in ChangeRecords, ChangeOK(d),
         d.state \in {"Play", "Restart"} => ~Ends(c, d.v),
         d.state = "Restart" /\ voice[d.old].sid # Voices!NoSource /\ ~Ends(c, d.old) => ~Wakes(c, d.v)
  PROVE  ChangeOK(d)'
<1>1. /\ d.v # Voices!NoVoice => d.v \in Voices!Voices
      /\ d.old # Voices!NoVoice => d.old \in Voices!Voices
  BY ChangeFields
<1>2. \A w \in Voices!Voices : Ends(d, w) => voice'[w].sid \in {d.s, Voices!NoSource}
  BY WorksIs DEF ChangeOK
<1>3. d.state = "Play" => voice'[d.v].sid = d.s
  <2>1. d.state = "Play" => d.v \in Voices!Voices
    BY <1>1 DEF ChangeOK
  <2> QED BY <2>1, WorksIs DEF ChangeOK
<1>4. ASSUME d.state = "Restart", voice'[d.old].sid # Voices!NoSource
      PROVE  voice'[d.v].sid = d.s /\ voice'[d.v].play = "Pending"
  <2>1. d.v \in Voices!Voices /\ d.old \in Voices!Voices
    BY <1>1, <1>4 DEF ChangeOK
  <2>2. voice[d.old].sid # Voices!NoSource /\ ~Ends(c, d.old)
    BY <1>4, <2>1, WorksIs
  <2>3. voice[d.v].sid = d.s /\ voice[d.v].play = "Pending"
    BY <1>4, <2>2 DEF ChangeOK
  <2>4. ~Ends(c, d.v) /\ ~Wakes(c, d.v)
    BY <1>4, <2>2
  <2>5. Lasts(d.v) /\ Replays(c, d.v)
    BY <2>1, <2>4 DEF Works, Worked
  <2> QED BY <2>3, <2>4, <2>5 DEF Lasts, Replays, Wakes
<1>5. /\ d.v <= active' /\ d.old <= active' /\ (d.v = Voices!NoVoice => d.state = "Reset")
      /\ d.state = "Restart" => d.old # Voices!NoVoice /\ d.v # d.old
  BY DEF ChangeOK, Works
<1>6. \A w \in Voices!Voices : Ends(d, w)' <=> Ends(d, w)
  BY DEF Ends
<1> QED BY <1>2, <1>3, <1>4, <1>5, <1>6 DEF ChangeOK

LEMMA WorksChanges ==
  ASSUME Whole, NEW c \in ChangeRecords, Works(c)
  PROVE  ChangeIsAhead' /\ EndsOnce' /\ EndIsLast' /\ RestartIsFirst' /\ ChangesOK'
<1>1. Kept /\ ~Lost /\ UNCHANGED <<source, active, op>> /\ c = pending[1] /\ 1 \in Positions
  BY DEF Works
<1>2. ChangeIsAhead'
  BY <1>1, WorksIs DEF Kept, ChangeIsAhead
<1>3. EndsOnce'
  <2>1. \A w \in Voices!Voices : Ahead(w)' => ~EndPending(w)'
    BY <1>1, WorksIs DEF Kept, EndsOnce
  <2>2. ASSUME NEW w \in Voices!Voices, NEW i \in Positions', NEW j \in Positions',
               Ends(pending'[i], w), Ends(pending'[j], w)
        PROVE  i = j
    <3>1. PICK x \in Positions : x = i + 1 /\ i \in Nat /\ pending[x] = pending'[i]
      BY WorksPlaces
    <3>2. PICK y \in Positions : y = j + 1 /\ j \in Nat /\ pending[y] = pending'[j]
      BY WorksPlaces
    <3>3. Ends(pending[x], w) /\ Ends(pending[y], w)
      BY <2>2, <3>1, <3>2
    <3>4. x = y
      BY <1>1, <3>3 DEF Kept, EndsOnce
    <3> QED BY <3>1, <3>2, <3>4
  <2> QED BY <2>1, <2>2 DEF EndsOnce, Ends
<1>4. EndIsLast'
  <2>1. ASSUME NEW w \in Voices!Voices, NEW i \in Positions', NEW j \in Positions',
               Ends(pending'[i], w), Plays(pending'[j], w) \/ Restarts(pending'[j], w)
        PROVE  j < i
    <3>1. PICK x \in Positions : x = i + 1 /\ i \in Nat /\ pending[x] = pending'[i]
      BY WorksPlaces
    <3>2. PICK y \in Positions : y = j + 1 /\ j \in Nat /\ pending[y] = pending'[j]
      BY WorksPlaces
    <3>3. Ends(pending[x], w) /\ (Plays(pending[y], w) \/ Restarts(pending[y], w))
      BY <2>1, <3>1, <3>2
    <3>4. y < x
      BY <1>1, <3>3 DEF Kept, EndIsLast
    <3> QED BY <3>1, <3>2, <3>4
  <2>2. op.pc = "append" /\ op.change.state \in {"Play", "Restart"} => ~voice'[op.change.v].change
    <3> SUFFICES ASSUME op.pc = "append", op.change.state \in {"Play", "Restart"}
                 PROVE  ~voice'[op.change.v].change
      OBVIOUS
    <3>1. op.change.v \in Voices!Voices
      BY <1>1, NamedVoices
    <3>2. ~voice[op.change.v].change
      BY <1>1 DEF Kept, EndIsLast
    <3> QED BY <3>1, <3>2, WorksIs
  <2> QED BY <1>1, <2>1, <2>2 DEF EndIsLast, Ends, Plays, Restarts
<1>5. RestartIsFirst'
  <2> SUFFICES ASSUME NEW i \in Positions', NEW j \in Positions', i < j,
                      Restarts(pending'[j], pending'[i].v)
               PROVE  /\ pending'[i].state # "Play"
                      /\ pending'[i].state = "Restart" => voice'[pending'[i].old].sid = Voices!NoSource
    BY DEF RestartIsFirst, Restarts
  <2>1. PICK x \in Positions : x = i + 1 /\ i \in Nat /\ pending[x] = pending'[i]
    BY WorksPlaces
  <2>2. PICK y \in Positions : y = j + 1 /\ j \in Nat /\ pending[y] = pending'[j]
    BY WorksPlaces
  <2>3. x < y /\ Restarts(pending[y], pending[x].v)
    BY <2>1, <2>2
  <2>4. /\ pending[x].state # "Play"
        /\ pending[x].state = "Restart" => voice[pending[x].old].sid = Voices!NoSource
    BY <1>1, <2>3 DEF Kept, RestartIsFirst
  <2>5. pending[x].state = "Restart" => pending[x].old \in Voices!Voices
    BY <1>1, NamedVoices
  <2> QED BY <2>1, <2>4, <2>5, WorksIs
<1>6. ASSUME NEW i \in Positions' PROVE ChangeOK(pending[i])'
  <2>1. PICK x \in Positions : x = i + 1 /\ i \in Nat /\ 1 < x /\ pending[x] = pending'[i]
    BY WorksPlaces
  <2>2. PICK d \in ChangeRecords : d = pending[x] /\ ChangeOK(d)
    BY <1>1, Present
  <2>3. d.state \in {"Play", "Restart"} => ~Ends(c, d.v)
    <3> SUFFICES ASSUME d.state \in {"Play", "Restart"}, Ends(c, d.v) PROVE FALSE
      OBVIOUS
    <3>1. d.v \in Voices!Voices
      BY <1>1, <2>2, NamedVoices
    <3>2. Plays(pending[x], d.v) \/ Restarts(pending[x], d.v)
      BY <2>2 DEF Plays, Restarts
    <3>3. x < 1
      BY <1>1, <3>1, <3>2 DEF Kept, EndIsLast
    <3> QED BY <2>1, <3>3
  <2>4. d.state = "Restart" => ~Wakes(c, d.v)
    <3> SUFFICES ASSUME d.state = "Restart", Wakes(c, d.v) PROVE FALSE
      OBVIOUS
    <3>1. c.v = d.v
      BY DEF Wakes, Plays, Restarts
    <3>2. Restarts(pending[x], pending[1].v)
      BY <1>1, <2>2, <3>1 DEF Restarts
    <3>3. /\ c.state # "Play"
          /\ c.state = "Restart" => voice[c.old].sid = Voices!NoSource
      BY <1>1, <2>1, <3>2 DEF Kept, RestartIsFirst
    <3> QED BY <3>3 DEF Wakes, Plays, Restarts
  <2>5. ChangeOK(d)' /\ pending'[i] = d
    BY <2>1, <2>2, <2>3, <2>4, WorksOK
  <2> QED BY <2>5 DEF ChangeOK, Ends
<1>7. ASSUME op.pc = "append" PROVE ChangeOK(op.change)'
  <2>1. PICK d \in ChangeRecords : d = op.change /\ ChangeOK(d)
    BY <1>1, <1>7, NamedVoices
  <2>2. d.state \in {"Play", "Restart"} => ~Ends(c, d.v)
    <3> SUFFICES ASSUME d.state \in {"Play", "Restart"}, Ends(c, d.v) PROVE FALSE
      OBVIOUS
    <3>1. d.v \in Voices!Voices
      BY <1>1, <1>7, <2>1, NamedVoices
    <3>2. ~voice[d.v].change
      BY <1>1, <1>7, <2>1 DEF Kept, EndIsLast
    <3>3. EndPending(d.v)
      BY <3>1, WorksIs
    <3> QED BY <1>1, <3>1, <3>2, <3>3 DEF Kept, ChangeIsAhead
  <2>3. ASSUME d.state = "Restart", ~Ends(c, d.old), Wakes(c, d.v) PROVE FALSE
    <3>1. /\ ~Plays(c, d.v)
          /\ Restarts(c, d.v) /\ c.old # d.old => voice[c.old].sid = Voices!NoSource
      BY <1>1, <1>7, <2>1, <2>3, NamedVoices DEF Kept, CallIsRight
    <3>2. Restarts(c, d.v) => Ends(c, c.old)
      BY <1>1 DEF Works, ChangeOK, Ends, Restarts
    <3> QED BY <2>3, <3>1, <3>2 DEF Wakes
  <2>4. ChangeOK(d)' /\ op'.change = d
    BY <1>1, <2>1, <2>2, <2>3, WorksOK
  <2> QED BY <2>4 DEF ChangeOK, Ends
<1>8. ChangesOK'
  BY <1>1, <1>6, <1>7 DEF ChangesOK
<1> QED BY <1>2, <1>3, <1>4, <1>5, <1>8

LEMMA WorksVoices ==
  ASSUME Whole, NEW c \in ChangeRecords, Works(c)
  PROVE  /\ VoiceIsKnown' /\ EndIsByCall' /\ VoiceHasState' /\ BeyondIsFresh'
         /\ ItemIsQueued' /\ LoadedIsSo' /\ WaitsForMix'
<1>1. Kept /\ Typed /\ active \in Voices!Voices /\ active \in Int /\ UNCHANGED <<source, active, op>>
  BY Present DEF Works
<1>2. \A s \in Source : s # Voices!NoSource
  BY VoicesAssumptions
<1>3. VoiceIsKnown'
  BY <1>1, WorksIs DEF Kept, VoiceIsKnown
<1>4. EndIsByCall' /\ VoiceHasState'
  <2>1. ASSUME NEW s \in Source, Voices!HasVoice(s)'
        PROVE  /\ Voices!HasVoice(s)
               /\ voice'[source[s].vidx].change <=> voice[source[s].vidx].change
    <3>1. PICK x \in Voices!Voices : x = source[s].vidx /\ Voices!HasVoice(s)
      BY <2>1, WorksIs
    <3>2. voice'[x].sid = s
      BY <1>1, <2>1, <3>1 DEF Voices!HasVoice
    <3> QED BY <1>2, <3>1, <3>2, WorksIs
  <2>2. EndIsByCall'
    BY <1>1, <2>1 DEF Kept, EndIsByCall
  <2>3. VoiceHasState'
    BY <1>1, <2>1 DEF Kept, VoiceHasState
  <2> QED BY <2>2, <2>3
<1>5. BeyondIsFresh'
  <2>1. c.v <= active /\ c.old <= active /\ c.v \in Int /\ c.old \in Int
    <3>1. c.v \in MaybeVoice /\ c.old \in MaybeVoice
      BY ChangeFields
    <3> QED BY <3>1, VoicesAssumptions DEF Works, ChangeOK, MaybeVoice
  <2>2. \A w \in Voices!Voices : w > active => w # c.v /\ w # c.old
    BY <1>1, <2>1 DEF Voices!Voices
  <2>3. \A w \in Voices!Voices : w # c.v /\ w # c.old => voice'[w] = voice[w]
    BY DEF Works, Worked
  <2> QED BY <1>1, <2>2, <2>3 DEF Kept, BeyondIsFresh
<1>6. ItemIsQueued'
  <2>1. ASSUME NEW w \in Voices!Voices, voice'[w].sid # Voices!NoSource, Sweeping' \/ ~EndPending(w)'
        PROVE  InQueue(w, voice[w].sid)' /\ voice'[w].sid = voice[w].sid
    <3>1. ~Ends(c, w) /\ ~EndPending(w) /\ voice'[w].sid = voice[w].sid /\ KeepsItem(w)
      BY <2>1, WorksIs DEF Works
    <3>2. PICK s \in Source : s = voice[w].sid
      BY <1>1, <2>1, <3>1, VoiceFields DEF Sids
    <3>3. InQueue(w, s)
      BY <1>1, <2>1, <3>1, <3>2 DEF Kept, ItemIsQueued
    <3>4. InQueue(w, s)'
      BY <3>1, <3>3, WorksIs DEF InQueue, KeepsItem
    <3> QED BY <3>1, <3>2, <3>4
  <2>2. ASSUME NEW w \in Voices!Voices, voice'[w].sid = Voices!NoSource PROVE voice'[w].buffer = Voices!NoItem
    <3>1. CASE Ends(c, w)
      BY <3>1 DEF Works, Worked, Ended
    <3>2. CASE ~Ends(c, w)
      BY <1>1, <2>2, <3>2, WorksIs DEF Kept, ItemIsQueued, KeepsItem
    <3> QED BY <3>1, <3>2
  <2> QED BY <2>1, <2>2 DEF ItemIsQueued
<1>7. LoadedIsSo'
  BY NotLoaded DEF Works
<1>8. WaitsForMix'
  <2>1. ASSUME op.pc \in Sends \ {"append"}, pending' # <<>>
        PROVE  pending'[Len(pending')] = op.change
    <3>1. pending # <<>> => pending[Len(pending)] = op.change
      BY <1>1, <2>1 DEF Kept, WaitsForMix
    <3>2. pending # <<>> /\ Len(pending') # 0 /\ Len(pending') \in Nat
      <4>1. pending' \in Seq(ChangeRecords) /\ 1 \in Positions
        BY DEF Works
      <4>2. pending = <<>> => Positions = {}
        BY DEF Positions
      <4> QED BY <2>1, <4>1, <4>2
    <3>3. Len(pending') \in Positions' /\ Len(pending') + 1 = Len(pending)
      BY <3>2 DEF Works, Positions
    <3> QED BY <3>1, <3>2, <3>3 DEF Works
  <2> QED BY <1>1, <2>1 DEF WaitsForMix, Works
<1> QED BY <1>3, <1>4, <1>5, <1>6, <1>7, <1>8

(* What is hushed stays so.                                                *)
LEMMA WorksWakes ==
  ASSUME Whole, NEW c \in ChangeRecords, Works(c), NEW w, NEW i \in Positions', Wakes(pending[i], w)'
  PROVE  Wakes(pending[i + 1], w)
<1>1. PICK x \in Positions : x = i + 1 /\ pending[x] = pending'[i]
  BY WorksPlaces
<1>2. pending[x].state = "Restart" => pending[x].old \in Voices!Voices
  BY NamedVoices DEF Works
<1>3. Wakes(pending[x], w)
  BY <1>1, <1>2, WorksIs DEF Wakes, Plays, Restarts
<1> QED BY <1>1, <1>3

LEMMA WorksAsleep ==
  ASSUME Whole, NEW c \in ChangeRecords, Works(c), NEW v \in Voices!Voices, Asleep(v)
  PROVE  Asleep(v)'
<1>1. ~Wakes(c, v)
  BY DEF Asleep, Works
<1>2. voice'[v].play # "Playing"
  BY <1>1, WorksIs DEF Asleep
<1>3. ASSUME NEW i \in Positions', Wakes(pending[i], v)' PROVE FALSE
  <2>1. PICK x \in Positions : x = i + 1
    BY WorksPlaces
  <2> QED BY <1>3, <2>1, WorksWakes DEF Asleep
<1> QED BY <1>2, <1>3 DEF Asleep

LEMMA WorksQuiet ==
  ASSUME Whole, NEW c \in ChangeRecords, Works(c), NEW s \in Source, Quiet(s)
  PROVE  Quiet(s)'
<1>1. NotPlayed(s, 0)'
  <2>1. ASSUME NEW j \in Positions', pending'[j].s = s PROVE pending'[j].state # "Play"
    <3>1. PICK x \in Positions : x = j + 1 /\ 1 < x /\ pending[x] = pending'[j]
      BY WorksPlaces
    <3>2. x > 0
      <4>1. j \in Nat
        BY WorksPlaces
      <4> QED BY <3>1, <4>1
    <3> QED BY <2>1, <3>1, <3>2 DEF Quiet, NotPlayed
  <2> QED BY <2>1 DEF NotPlayed
<1>2. ASSUME NEW w \in Voices!Voices, voice'[w].sid = s, voice'[w].play = "Playing" PROVE FALSE
  <2>1. ~Ends(c, w) /\ voice[w].sid = s /\ voice[w].play # "Playing"
    BY <1>2, WorksIs, VoicesAssumptions DEF Quiet
  <2>2. Wakes(c, w)
    BY <1>2, <2>1, WorksIs
  <2>3. CASE Plays(c, w)
    <3>1. c.s = s
      BY <2>1, <2>3 DEF Works, ChangeOK, Plays
    <3>2. 1 > 0
      OBVIOUS
    <3> QED BY <2>3, <3>1, <3>2 DEF Works, Quiet, NotPlayed, Plays
  <2>4. CASE Restarts(c, w) /\ voice[c.old].sid # Voices!NoSource
    <3>1. c.old \in Voices!Voices
      BY <2>4, ChangeFields DEF Works, ChangeOK, Restarts
    <3>2. voice[c.old].sid = c.s /\ voice[w].sid = c.s
      BY <2>4, <3>1, ChangeFields DEF Works, ChangeOK, Restarts, Ends
    <3>3. voice[c.old].play = "Playing"
      BY <1>2, <2>1, <2>4 DEF Works
    <3> QED BY <2>1, <3>1, <3>2, <3>3 DEF Quiet
  <2> QED BY <2>2, <2>3, <2>4 DEF Wakes
<1> QED BY <1>1, <1>2 DEF Quiet

LEMMA WorksPaused ==
  ASSUME Whole, NEW c \in ChangeRecords, Works(c), NEW s \in Source, NEW k \in Positions,
         PausedAt(s, k)
  PROVE  Hushed(s)'
<1>1. CASE k = 1
  <2>1. c.state = "Pause" /\ c.s = s /\ NotPlayed(s, 1)
    BY <1>1 DEF PausedAt, Works
  <2>2. NotPlayed(s, 0)'
    <3>1. ASSUME NEW j \in Positions', pending'[j].s = s PROVE pending'[j].state # "Play"
      <4>1. PICK x \in Positions : x = j + 1 /\ 1 < x /\ pending[x] = pending'[j]
        BY WorksPlaces
      <4> QED BY <2>1, <3>1, <4>1 DEF NotPlayed
    <3> QED BY <3>1 DEF NotPlayed
  <2>3. ASSUME NEW w \in Voices!Voices, voice'[w].sid = s PROVE voice'[w].play # "Playing"
    <3>1. CASE w = c.v
      BY <2>1, <3>1 DEF Works
    <3>2. CASE w # c.v
      <4>1. voice[w].sid = s
        BY <2>3, WorksIs, VoicesAssumptions
      <4>2. ~\E i \in Positions : i < 1
        BY DEF Positions
      <4>3. voice[w].play # "Playing"
        BY <1>1, <3>2, <4>1, <4>2 DEF PausedAt, Works
      <4>4. ~Wakes(c, w)
        BY <2>1 DEF Wakes, Plays, Restarts
      <4> QED BY <4>3, <4>4, WorksIs
    <3> QED BY <3>1, <3>2
  <2> QED BY <2>2, <2>3 DEF Hushed, Quiet
<1>2. CASE k # 1
  <2>1. PICK h \in Positions' : h = k - 1 /\ pending'[h] = pending[k]
    BY <1>2 DEF Works
  <2>2. k \in Nat /\ h \in Nat /\ k = h + 1 /\ 1 < k
    BY <1>2, <2>1, WorksPlaces DEF Positions
  <2>3. NotPlayed(s, h)'
    <3>1. ASSUME NEW j \in Positions', j > h, pending'[j].s = s PROVE pending'[j].state # "Play"
      <4>1. PICK x \in Positions : x = j + 1 /\ j \in Nat /\ pending[x] = pending'[j]
        BY WorksPlaces
      <4>2. x > k
        BY <2>2, <3>1, <4>1
      <4> QED BY <3>1, <4>1, <4>2 DEF PausedAt, NotPlayed
    <3>2. \A j \in Positions' : j > h /\ pending'[j].s = s => pending'[j].state # "Play"
      BY <3>1
    <3> QED BY <3>2 DEF NotPlayed
  <2>4. ASSUME NEW w \in Voices!Voices, voice'[w].sid = s, w # pending'[h].v
        PROVE  \/ \E i \in Positions' : i < h /\ Ends(pending'[i], w)
               \/ /\ voice'[w].play # "Playing"
                  /\ \A i \in Positions' : i < h => ~Wakes(pending[i], w)'
    <3>1. ~Ends(c, w) /\ voice[w].sid = s /\ w # pending[k].v
      BY <2>1, <2>4, WorksIs, VoicesAssumptions
    <3>2. CASE \E i \in Positions : i < k /\ Ends(pending[i], w)
      <4>1. PICK i \in Positions : i < k /\ Ends(pending[i], w)
        BY <3>2
      <4>2. i # 1
        BY <3>1, <4>1 DEF Works
      <4>3. PICK j \in Positions' : j = i - 1 /\ pending'[j] = pending[i]
        BY <4>2 DEF Works
      <4>4. j < h
        BY <2>2, <4>1, <4>3 DEF Positions
      <4> QED BY <4>1, <4>3, <4>4
    <3>3. CASE voice[w].play # "Playing" /\ \A i \in Positions : i < k => ~Wakes(pending[i], w)
      <4>1. ~Wakes(c, w)
        BY <2>2, <3>3 DEF Works
      <4>2. voice'[w].play # "Playing"
        BY <3>3, <4>1, WorksIs
      <4>3. ASSUME NEW i \in Positions', i < h, Wakes(pending[i], w)' PROVE FALSE
        <5>1. PICK x \in Positions : x = i + 1 /\ i \in Nat
          BY WorksPlaces
        <5>2. Wakes(pending[x], w)
          BY <4>3, <5>1, WorksWakes
        <5>3. x < k
          BY <2>2, <4>3, <5>1
        <5> QED BY <3>3, <5>2, <5>3
      <4> QED BY <4>2, <4>3
    <3> QED BY <3>1, <3>2, <3>3 DEF PausedAt
  <2>5. PausedAt(s, h)'
    BY <2>1, <2>3, <2>4 DEF PausedAt
  <2> QED BY <2>5 DEF Hushed
<1> QED BY <1>1, <1>2

LEMMA WorksHushed ==
  ASSUME Whole, NEW c \in ChangeRecords, Works(c)
  PROVE  PausedIsHushed'
<1>1. Kept /\ ~Lost /\ UNCHANGED <<source, op>>
  BY DEF Works
<1>2. \A s \in Source : Hushed(s) => Hushed(s)'
  BY WorksQuiet, WorksPaused DEF Hushed
<1>3. ASSUME op.pc = "append", op.change.state = "Play"
      PROVE  Asleep(op.change.v)' \/ Hushed(op.change.s)'
  <2>1. op.change.v \in Voices!Voices /\ op.change.s \in Source
    BY <1>1, <1>3, NamedVoices, ChangeFields
  <2>2. PICK x \in Voices!Voices, s \in Source : x = op.change.v /\ s = op.change.s
    BY <2>1
  <2>3. Asleep(x) \/ Hushed(s)
    BY <1>1, <1>3, <2>2 DEF Kept, PausedIsHushed
  <2>4. Asleep(x)' \/ Hushed(s)'
    BY <1>2, <2>3, WorksAsleep
  <2> QED BY <1>1, <2>2, <2>4
<1> QED BY <1>1, <1>2, <1>3 DEF Kept, PausedIsHushed

LEMMA WorksCall ==
  ASSUME Whole, NEW c \in ChangeRecords, Works(c)
  PROVE  CallIsRight'
<1>1. Kept /\ ~Lost /\ Typed /\ CallKnows /\ UNCHANGED <<source, active, op>>
  BY Present DEF Works
<1>2. op.pc \in {"start", "seek", "loop"} => op.s \in Source /\ op.s # Voices!NoSource
  BY <1>1, OpFields, VoicesAssumptions
<1>3. op.pc \in Sends => op.change.s # Voices!NoSource
  BY <1>1, NamedVoices, ChangeFields, VoicesAssumptions
<1>4. \A w \in Voices!Voices : voice'[w].sid # Voices!NoSource =>
        voice'[w].sid = voice[w].sid /\ (voice'[w].change <=> voice[w].change)
  BY WorksIs
<1>5. op'.pc = "start" =>
        /\ Voices!Playable(op.s)' # {}
        /\ op'.old # Voices!NoVoice => voice'[op'.old].sid \in {op'.s, Voices!NoSource}
        /\ \A v \in Voices!Voices : voice'[v].sid = op'.s => voice'[v].change
  <2> SUFFICES ASSUME op.pc = "start"
               PROVE  /\ Voices!Playable(op.s)' # {}
                      /\ op.old # Voices!NoVoice => voice'[op.old].sid \in {op.s, Voices!NoSource}
                      /\ \A v \in Voices!Voices : voice'[v].sid = op.s => voice'[v].change
    BY <1>1
  <2>1. /\ Voices!Playable(op.s) # {}
        /\ op.old # Voices!NoVoice => voice[op.old].sid \in {op.s, Voices!NoSource}
        /\ \A v \in Voices!Voices : voice[v].sid = op.s => voice[v].change
    BY <1>1 DEF Kept, CallIsRight
  <2>2. op.old # Voices!NoVoice => op.old \in Voices!Voices
    BY <1>1, OpFields, MaybeIs
  <2>3. Voices!Playable(op.s)' = Voices!Playable(op.s)
    BY <1>1 DEF Voices!Playable, Voices!Queue
  <2> QED BY <1>2, <1>4, <2>1, <2>2, <2>3
<1>6. op'.pc = "loop" => voice'[source'[op'.s].vidx].sid \in {op'.s, Voices!NoSource}
  <2>1. op.pc = "loop" => source[op.s].vidx \in Voices!Voices
    BY <1>1, <1>2, SourceFields, MaybeIs DEF CallKnows
  <2> QED BY <1>1, <1>4, <2>1 DEF Kept, CallIsRight
<1>7. op'.pc = "seek" =>
        /\ voice'[op'.old].sid \in {op'.s, Voices!NoSource} /\ ~voice'[op'.old].change
        /\ source'[op'.s].state \in {"PLAYING", "PAUSED"}
  <2>1. op.pc = "seek" => op.old \in Voices!Voices
    BY <1>1, OpFields, MaybeIs DEF CallKnows
  <2> QED BY <1>1, <2>1, WorksIs DEF Kept, CallIsRight
<1>8. op'.pc \in Sends /\ op'.call = "delete" =>
        \A v \in Voices!Voices : voice'[v].sid = op'.change.s => voice'[v].change
  <2> SUFFICES ASSUME op.pc \in Sends, op.call = "delete", NEW v \in Voices!Voices,
                      voice'[v].sid = op.change.s
               PROVE  voice'[v].change
    BY <1>1
  <2> QED BY <1>1, <1>3, <1>4 DEF Kept, CallIsRight
<1>9. op'.pc \in Sends /\ op'.change.state = "Restart" =>
        \A i \in Positions' :
          /\ ~Plays(pending'[i], op'.change.v)
          /\ Restarts(pending'[i], op'.change.v) /\ pending'[i].old # op'.change.old =>
               voice'[pending'[i].old].sid = Voices!NoSource
  <2> SUFFICES ASSUME op.pc \in Sends, op.change.state = "Restart", NEW i \in Positions'
               PROVE  /\ ~Plays(pending'[i], op.change.v)
                      /\ Restarts(pending'[i], op.change.v) /\ pending'[i].old # op.change.old =>
                           voice'[pending'[i].old].sid = Voices!NoSource
    BY <1>1
  <2>1. PICK x \in Positions : x = i + 1 /\ pending[x] = pending'[i]
    BY WorksPlaces
  <2>2. /\ ~Plays(pending[x], op.change.v)
        /\ Restarts(pending[x], op.change.v) /\ pending[x].old # op.change.old =>
             voice[pending[x].old].sid = Voices!NoSource
    BY <1>1 DEF Kept, CallIsRight
  <2>3. Restarts(pending[x], op.change.v) => pending[x].old \in Voices!Voices
    BY <1>1, NamedVoices DEF Restarts
  <2> QED BY <2>1, <2>2, <2>3, WorksIs
<1>10. op'.pc \in Sends /\ op'.call = "pause" =>
        /\ op'.change.v = source'[op'.change.s].vidx
        /\ op'.pc # "append" /\ pending' = <<>> /\ voice'[op'.change.v].sid = op'.change.s =>
             voice'[op'.change.v].play # "Playing"
  <2> SUFFICES ASSUME op.pc \in Sends, op.call = "pause"
               PROVE  /\ op.change.v = source[op.change.s].vidx
                      /\ op.pc # "append" /\ pending' = <<>> => voice'[op.change.v].play # "Playing"
    BY <1>1
  <2>1. op.change.v = source[op.change.s].vidx
    BY <1>1 DEF Kept, CallIsRight
  <2>2. ASSUME op.pc # "append", pending' = <<>> PROVE voice'[op.change.v].play # "Playing"
    <3>1. Len(pending) = 1 /\ pending # <<>>
      <4>1. Len(pending') = 0
        BY <2>2
      <4>2. pending = <<>> => Positions = {}
        BY DEF Positions
      <4> QED BY <4>1, <4>2 DEF Works
    <3>2. pending[1] = op.change
      BY <1>1, <2>2, <3>1 DEF Kept, WaitsForMix
    <3>3. op.change.state = "Pause"
      BY <1>1 DEF CallKnows
    <3> QED BY <3>2, <3>3 DEF Works
  <2> QED BY <2>1, <2>2
<1> QED BY <1>5, <1>6, <1>7, <1>8, <1>9, <1>10 DEF CallIsRight

LEMMA ProcessKept == ASSUME Whole, Voices!ProcessChange PROVE Kept'
<1>1. PICK c \in ChangeRecords : Works(c)
  BY ProcessWorks
<1> QED BY <1>1, WorksChanges, WorksVoices, WorksHushed, WorksCall DEF Kept

-----------------------------------------------------------------------------
(* The invariant holds at first and after every step.                      *)
LEMMA WholeInit == ASSUME Voices!Init PROVE Whole
<1>1. /\ source = [s \in Source |-> Voices!Ungiven] /\ voice = [v \in Voices!Voices |-> Voices!Fresh]
      /\ active = FirstVoices /\ pending = <<>> /\ connected = TRUE /\ mixing = FALSE
      /\ mix.pc = "idle" /\ op.pc = "idle" /\ reset = "no"
      /\ mix = Voices!Resting /\ op = Voices!Idle
  BY DEF Voices!Init, Voices!Resting, Voices!Idle
<1>2. /\ Voices!Ungiven \in SourceRecords /\ ~Voices!Ungiven.alive /\ Voices!Ungiven.state = "INITIAL"
      /\ Voices!Ungiven.vidx = Voices!NoVoice /\ Voices!Ungiven.head = 1 /\ Voices!Ungiven.tail = 1
  BY VoicesAssumptions DEF Voices!Ungiven, SourceRecords, MaybeVoice, Voices!NoVoice
<1>3. \A v \in Voices!Voices : /\ voice[v] = Voices!Fresh /\ voice[v].sid = Voices!NoSource /\ ~voice[v].change
                               /\ voice[v].buffer = Voices!NoItem /\ voice[v].play = "Stopped"
  BY <1>1, FreshIs
<1>4. Positions = {} /\ \A w : ~EndPending(w)
  BY <1>1 DEF Positions, EndPending
<1>5. \A w : ~Ahead(w)
  BY <1>1 DEF Ahead
<1>6. \A s \in Source : ~Voices!HasVoice(s) /\ source[s].vidx = Voices!NoVoice
  BY <1>1, <1>2 DEF Voices!HasVoice, Voices!NoVoice
<1>7. op.pc \notin Sends
  BY <1>1, LaterIs DEF Sends
<1>8. active \in Voices!Voices /\ active \in Int /\ active >= 1
  BY <1>1, VoicesAssumptions DEF Voices!Voices
<1>9. Typed
  <2>1. Voices!Resting \in MixRecords
    BY DEF Voices!Resting, MixRecords
  <2>2. source \in [Source -> SourceRecords] /\ voice \in [Voices!Voices -> VoiceRecords]
    BY <1>1, <1>2, FreshIs
  <2>3. pending \in Seq(ChangeRecords)
    BY <1>1
  <2> QED BY <1>1, <1>8, <2>1, <2>2, <2>3, IdleIs DEF Typed
<1>10. InBounds
  <2>1. \A s \in Source :
          /\ 1 <= source[s].head /\ source[s].head <= source[s].tail
          /\ source[s].tail <= MaxItem[s] + 1
          /\ source[s].vidx <= active
          /\ ~source[s].alive => source[s].vidx = Voices!NoVoice
    <3> SUFFICES ASSUME NEW s \in Source
                 PROVE  /\ 1 <= source[s].head /\ source[s].head <= source[s].tail
                        /\ source[s].tail <= MaxItem[s] + 1
                        /\ source[s].vidx <= active
                        /\ ~source[s].alive => source[s].vidx = Voices!NoVoice
      OBVIOUS
    <3>1. source[s].head = 1 /\ source[s].tail = 1 /\ source[s].vidx = 0 /\ MaxItem[s] \in Nat
      BY <1>1, <1>2, VoicesAssumptions DEF Voices!NoVoice
    <3>2. 0 <= active
      BY <1>8
    <3> QED BY <1>6, <3>1, <3>2
  <2>2. Len(pending) = 0 /\ 0 <= MaxPending
    BY <1>1, VoicesAssumptions
  <2> QED BY <1>1, <2>1, <2>2 DEF InBounds
<1>11. InPhase
  BY <1>1 DEF InPhase, Sweeping
<1>12. CallKnows
  <2>1. op.pc \notin Later
    BY <1>7 DEF Sends
  <2> QED BY <1>1, <1>7, <2>1 DEF CallKnows
<1>13. GoneIsLetGo
  BY <1>1, <1>3, <1>4, <1>7 DEF GoneIsLetGo, Lost
<1>14. ChangeIsAhead /\ EndsOnce /\ EndIsLast /\ RestartIsFirst /\ ChangesOK
  <2>1. ChangeIsAhead /\ EndsOnce
    BY <1>3, <1>4, <1>5 DEF ChangeIsAhead, EndsOnce
  <2>2. EndIsLast /\ RestartIsFirst /\ ChangesOK
    BY <1>1, <1>4 DEF EndIsLast, RestartIsFirst, ChangesOK
  <2> QED BY <2>1, <2>2
<1>15. VoiceIsKnown /\ EndIsByCall /\ VoiceHasState /\ BeyondIsFresh
  BY <1>3, <1>6 DEF VoiceIsKnown, EndIsByCall, VoiceHasState, BeyondIsFresh
<1>16. ItemIsQueued /\ LoadedIsSo /\ WaitsForMix
  BY <1>1, <1>3, <1>4 DEF ItemIsQueued, LoadedIsSo, WaitsForMix, Sweeping
<1>17. PausedIsHushed /\ CallIsRight
  <2>1. \A s \in Source : Quiet(s)
    BY <1>3, <1>4 DEF Quiet, NotPlayed
  <2>2. CallIsRight
    BY <1>1, <1>7 DEF CallIsRight
  <2> QED BY <1>1, <2>1, <2>2 DEF PausedIsHushed, Hushed
<1> QED BY <1>9, <1>10, <1>11, <1>12, <1>13, <1>14, <1>15, <1>16, <1>17 DEF Whole, Always,
    Kept

LEMMA LostUntilReset ==
  ASSUME Whole, Lost, Voices!Next, ~Voices!ResetLists
  PROVE  Lost'
<1>1. ~connected /\ StopOnDisconnect /\ reset # "connect"
  BY DEF Lost
<1>2. CASE Voices!Call \/ Voices!CallGoesOn
  <2>1. UNCHANGED <<connected, reset>>
    BY <1>2 DEF Voices!Call, Voices!CallGoesOn, Voices!alGenSources,
        Voices!alSourceQueueBuffers, Voices!PlayLook, Voices!StopLook,
       Voices!DeleteLook, Voices!alSourceUnqueueBuffers, Voices!SetBuffer,
       Voices!PauseLook, Voices!RewindLook, Voices!SeekLook, Voices!LoopLook,
       Voices!PlayStart, Voices!SeekFails, Voices!SeekStart, Voices!LoopStore,
       Voices!LoopWait, Voices!SendAppend, Voices!SendLoad, Voices!SendWait,
       Voices!SendDrop, Voices!PauseEnds, Voices!DeleteEnds, Voices!SeekOld,
       Voices!SeekNew, Voices!SeekLast, Voices!SeekLetGo, Voices!Mixer
  <2> QED BY <1>1, <2>1 DEF Lost
<1>3. CASE Voices!Mix
  <2>1. UNCHANGED <<connected, reset>>
    BY <1>3 DEF Voices!Mix, Voices!MixBegin, Voices!ProcessChange, Voices!ChangesDone,
        Voices!MixSkip, Voices!MixLoad, Voices!MixFaded, Voices!MixStore,
       Voices!MixEnded, Voices!MixEnd, Voices!Calls
  <2> QED BY <1>1, <2>1 DEF Lost
<1>4. CASE Voices!Device
  <2>1. CASE Voices!ResetConnect
    BY <1>1, <2>1 DEF Voices!ResetConnect
  <2>2. CASE Voices!UpdateDeviceParams
    BY <1>1, <2>2 DEF Voices!UpdateDeviceParams, Lost
  <2>3. CASE Voices!Disconnected
    BY <1>1, <2>3 DEF Voices!Disconnected, Voices!Calls, Lost
  <2>4. CASE Voices!Disconnect \/ Voices!StopVoice \/ Voices!DisconnectEnds \/ Voices!Halt \/ Voices!Start
    <3>1. UNCHANGED <<connected, reset>>
      BY <2>4 DEF Voices!Disconnect, Voices!StopVoice, Voices!DisconnectEnds, Voices!Halt,
          Voices!Start, Voices!Calls
    <3> QED BY <1>1, <3>1 DEF Lost
  <2> QED BY <1>4, <2>1, <2>2, <2>3, <2>4 DEF Voices!Device
<1> QED BY <1>2, <1>3, <1>4 DEF Voices!Next

LEMMA MixKept == ASSUME Whole, ~Lost, Voices!Mix \/ Voices!Device, ~Lost' PROVE Kept'
<1>1. ~Voices!StopVoice
  BY StopVoiceDoes
<1> QED BY <1>1, WaitsKept, ProcessKept, NextVoiceKept, MixStoreKept, UpdateKept,
    ResetStillKept
        DEF Voices!Mix, Voices!Device, Waits

LEMMA WholeNext == ASSUME Whole, ~Voices!TakesItsOwn, Voices!Next PROVE Whole'
<1>1. Always'
  BY AlwaysNext
<1>2. ASSUME ~Lost' PROVE Kept'
  <2>1. CASE Lost
    BY <1>2, <2>1, LostUntilReset, ResetFreshKept
  <2>2. CASE ~Lost
    BY <1>2, <2>2, CallKept, CallGoesOnKept, MixKept DEF Voices!Next
  <2> QED BY <2>1, <2>2
<1> QED BY <1>1, <1>2 DEF Whole

LEMMA WholeStill == ASSUME Whole, UNCHANGED Voices!vars PROVE Whole'
<1>1. UNCHANGED <<source, voice, active, pending, connected, mixing, mix, op, reset>>
  BY DEF Voices!vars
<1>2. Always' <=> Always
  <2>1. Typed' /\ InBounds' /\ InPhase'
    <3>1. Typed'
      BY <1>1 DEF Whole, Always, Typed
    <3>2. InBounds'
      BY <1>1 DEF Whole, Always, InBounds
    <3>3. InPhase'
      BY <1>1 DEF Whole, Always, InPhase, Sweeping
    <3> QED BY <3>1, <3>2, <3>3
  <2>2. CallKnows'
    BY <1>1 DEF Whole, Always, CallKnows, Voices!FreeVoices, Voices!Free
  <2>3. GoneIsLetGo'
    BY <1>1 DEF Whole, Always, GoneIsLetGo, Lost, Positions
  <2> QED BY <2>1, <2>2, <2>3 DEF Whole, Always
<1>3. Kept => Kept'
  <2> SUFFICES ASSUME Kept PROVE Kept'
    OBVIOUS
  <2>1. ChangeIsAhead' /\ EndsOnce' /\ EndIsLast' /\ RestartIsFirst' /\ ChangesOK'
    BY <1>1 DEF Kept, ChangeIsAhead, EndsOnce, EndIsLast, RestartIsFirst, ChangesOK,
          Positions, EndPending, Ends, Plays, Restarts, Ahead, ChangeOK,
          Voices!HasVoice, InQueue, Voices!Queue, Voices!Playable, MayLoop, Sweeping,
          Hushed, Quiet, PausedAt, NotPlayed, Asleep, Wakes
  <2>2. VoiceIsKnown' /\ EndIsByCall' /\ VoiceHasState' /\ BeyondIsFresh'
    BY <1>1 DEF Kept, VoiceIsKnown, EndIsByCall, VoiceHasState, BeyondIsFresh,
          Positions, EndPending, Ends, Plays, Restarts, Ahead, ChangeOK,
          Voices!HasVoice, InQueue, Voices!Queue, Voices!Playable, MayLoop, Sweeping,
          Hushed, Quiet, PausedAt, NotPlayed, Asleep, Wakes
  <2>3. ItemIsQueued' /\ LoadedIsSo' /\ WaitsForMix'
    BY <1>1 DEF Kept, ItemIsQueued, LoadedIsSo, WaitsForMix,
          Positions, EndPending, Ends, Plays, Restarts, Ahead, ChangeOK,
          Voices!HasVoice, InQueue, Voices!Queue, Voices!Playable, MayLoop, Sweeping,
          Hushed, Quiet, PausedAt, NotPlayed, Asleep, Wakes
  <2>4. PausedIsHushed' /\ CallIsRight'
    BY <1>1 DEF Kept, PausedIsHushed, CallIsRight,
          Positions, EndPending, Ends, Plays, Restarts, Ahead, ChangeOK,
          Voices!HasVoice, InQueue, Voices!Queue, Voices!Playable, MayLoop, Sweeping,
          Hushed, Quiet, PausedAt, NotPlayed, Asleep, Wakes
  <2> QED BY <2>1, <2>2, <2>3, <2>4 DEF Kept
<1>4. Lost' <=> Lost
  BY <1>1 DEF Lost
<1> QED BY <1>2, <1>3, <1>4 DEF Whole

LEMMA WholeAlways == Voices!Spec => [](retaken \/ Whole)
<1>1. Voices!Init => retaken \/ Whole
  BY WholeInit
<1>2. (retaken \/ Whole) /\ [Voices!Next]_(Voices!vars) => (retaken \/ Whole)'
  <2>1. ASSUME retaken \/ Whole, Voices!Next PROVE (retaken \/ Whole)'
    <3>1. CASE retaken \/ Voices!TakesItsOwn
      BY <2>1, <3>1 DEF Voices!Next
    <3>2. CASE ~retaken /\ ~Voices!TakesItsOwn
      BY <2>1, <3>2, WholeNext
    <3> QED BY <3>1, <3>2
  <2>2. ASSUME retaken \/ Whole, UNCHANGED Voices!vars PROVE (retaken \/ Whole)'
    BY <2>2, WholeStill DEF Voices!vars
  <2> QED BY <2>1, <2>2
<1> QED BY <1>1, <1>2, PTL DEF Voices!Spec

-----------------------------------------------------------------------------
(* What the invariant says of the properties.                              *)
LEMMA WholeTypes == ASSUME Whole PROVE Voices!TypeOK
<1>1. Typed /\ InBounds
  BY DEF Whole, Always
<1>2. \A s \in Source :
        /\ source[s].state \in {"INITIAL", "PLAYING", "PAUSED", "STOPPED"}
        /\ source[s].vidx \in Voices!Voices \cup {Voices!NoVoice}
        /\ 1 <= source[s].head /\ source[s].head <= source[s].tail
        /\ source[s].tail <= MaxItem[s] + 1
  BY <1>1, SourceFields, MaybeIs DEF InBounds
<1>3. \A v \in Voices!Voices :
        /\ voice[v].sid \in Source \cup {Voices!NoSource}
        /\ voice[v].play \in {"Stopped", "Playing", "Stopping", "Pending"}
        /\ \A item \in {voice[v].buffer, voice[v].loop} :
             item = Voices!NoItem \/ item \in Voices!Items
  BY <1>1, VoiceFields DEF Sids, MaybeItem
<1> QED BY <1>1, <1>2, <1>3 DEF Voices!TypeOK, Typed, InBounds, Voices!Voices

LEMMA WholeMeansPlaying == ASSUME Whole PROVE Voices!VoiceMeansPlaying
<1> SUFFICES ASSUME NEW s \in Source, Voices!HasVoice(s), op.pc = "idle", connected
             PROVE  source[s].state \in {"PLAYING", "PAUSED"} /\ Voices!Playable(s) # {}
  BY DEF Voices!VoiceMeansPlaying
<1>1. ~Lost
  BY DEF Lost
<1> QED BY <1>1, VoicedIs

LEMMA WholeUnheard == ASSUME Whole PROVE Voices!FreeIsUnheard
<1> DEFINE v == mix.v
<1> SUFFICES ASSUME mix.pc \in {"reading", "ended"}, v \in Voices!FreeVoices PROVE FALSE
  BY DEF Voices!FreeIsUnheard
<1>1. voice[v].play = "Stopped"
  BY DEF Voices!FreeVoices, Voices!Free
<1>2. Typed /\ LoadedIsSo
  BY SweepIs DEF Sweeping, Whole, Always, Kept
<1> QED BY <1>1, <1>2, MixFields DEF LoadedIsSo

LEMMA WholeSilent == ASSUME Whole PROVE Voices!GoneIsSilent
<1> SUFFICES ASSUME ~connected, StopOnDisconnect, mix.pc = "off", op.pc = "idle",
                    NEW v \in Voices!Voices, voice[v].sid # Voices!NoSource
             PROVE  FALSE
  BY DEF Voices!GoneIsSilent
<1>1. CASE reset = "connect"
  BY <1>1 DEF Whole, Always, GoneIsLetGo
<1>2. CASE reset # "connect"
  BY <1>2 DEF Whole, Always, GoneIsLetGo, Lost
<1> QED BY <1>1, <1>2

LEMMA WholeInv == ASSUME Whole PROVE Voices!Inv /\ Voices!GoneIsSilent
<1>1. Voices!VoiceIsFound
  BY DEF Whole, Always, CallKnows, Voices!VoiceIsFound
<1> QED BY <1>1, WholeTypes, WholeMeansPlaying, WholeUnheard, WholeSilent DEF Voices!Inv

LEMMA WholeUses == ASSUME Whole PROVE Voices!NoUseAfterFree
<1> SUFFICES ASSUME mix.pc = "reading", mix.buffer # Voices!NoItem
             PROVE  /\ mix.buffer \in Voices!Live
                    /\ mix.loop # Voices!NoItem => mix.loop \in Voices!Live
  BY DEF Voices!NoUseAfterFree
<1>1. Sweeping /\ Kept /\ Typed
  BY SweepIs DEF Sweeping, Whole, Always
<1>2. PICK x \in Voices!Voices : x = mix.v
  BY <1>1, MixFields
<1>3. /\ voice[x].buffer = mix.buffer
      /\ mix.loop # Voices!NoItem => mix.loop \in Voices!Queue(voice[x].sid)
  BY <1>1, <1>2 DEF Kept, LoadedIsSo
<1>4. voice[x].sid # Voices!NoSource
  BY <1>1, <1>3 DEF Kept, ItemIsQueued
<1>5. PICK s \in Source : s = voice[x].sid
  BY <1>1, <1>4, VoiceFields DEF Sids
<1>6. mix.buffer \in Voices!Queue(s)
  BY <1>1, <1>3, <1>4, <1>5 DEF Kept, ItemIsQueued, InQueue
<1> QED BY <1>3, <1>5, <1>6 DEF Voices!Live

(* A mix takes no voice from a source that is paused.                      *)
LEMMA PausedStays ==
  ASSUME Whole, op.pc = "idle", Voices!Mix, NEW s \in Source, source[s].state = "PAUSED", Voices!HasVoice(s)
  PROVE  Voices!HasVoice(s)'
<1>1. UNCHANGED <<source, active>> /\ active \in Voices!Voices
  BY MixStill DEF Whole, Always, Typed
<1>2. PICK x \in Voices!Voices : x = source[s].vidx /\ x \in 1..active /\ voice[x].sid = s
  BY <1>1, VoicesAssumptions DEF Voices!HasVoice, Voices!Voices
<1>3. voice'[x].sid = s
  <2>1. CASE Waits \/ Voices!MixSkip \/ Voices!MixFaded \/ Voices!MixEnded
    BY <1>2, <2>1, WaitsDoes, MixSkipDoes, MixFadedDoes, MixEndedDoes DEF Fades
  <2>2. CASE Voices!ProcessChange
    <3>1. PICK c \in ChangeRecords : Works(c)
      BY <2>2, ProcessWorks
    <3>2. ~voice[x].change
      BY <1>2, <3>1 DEF Works, Kept, EndIsByCall
    <3>3. ~EndPending(x)
      BY <1>2, <3>1, <3>2 DEF Works, Kept, ChangeIsAhead
    <3> QED BY <1>2, <3>1, <3>3, WorksIs
  <2>3. CASE Voices!MixStore
    <3>1. PICK v \in Voices!Voices :
            /\ mix.pc = "reading" /\ Kept /\ Others(v) /\ voice[v].play = "Playing"
      BY <2>3, MixStoreDoes
    <3>2. pending = <<>>
      BY <3>1 DEF Kept, WaitsForMix, Sweeping
    <3>3. Positions = {}
      BY <3>2 DEF Positions
    <3>4. Quiet(s)
      BY <3>1, <3>3 DEF Kept, PausedIsHushed, Hushed
    <3>5. x # v
      BY <1>2, <3>1, <3>4 DEF Quiet
    <3> QED BY <1>2, <3>1, <3>5 DEF Others
  <2> QED BY <2>1, <2>2, <2>3 DEF Voices!Mix, Waits
<1> QED BY <1>1, <1>2, <1>3 DEF Voices!HasVoice

(* Only the start and the seek of a source give it a voice.                *)
LEMMA SidsStay ==
  ASSUME Whole, Voices!Next, ~Voices!PlayStart, ~Voices!SeekStart, NEW w \in Voices!Voices
  PROVE  voice'[w].sid \in {voice[w].sid, Voices!NoSource}
<1>1. Typed /\ InBounds /\ CallKnows
  BY DEF Whole, Always
<1>2. CASE Voices!Call
  <2>1. CASE Voices!alGenSources
    BY <2>1 DEF Voices!alGenSources
  <2>2. ASSUME NEW s \in Source,
               \/ Voices!alSourceQueueBuffers(s) \/ Voices!alSourceUnqueueBuffers(s) \/ Voices!SetBuffer(s)
               \/ Voices!PauseLook(s) \/ Voices!SeekLook(s) \/ Voices!LoopLook(s)
        PROVE  UNCHANGED voice
    BY <2>2 DEF Voices!alSourceQueueBuffers, Voices!alSourceUnqueueBuffers,
        Voices!SetBuffer, Voices!PauseLook, Voices!SeekLook,
                Voices!LoopLook
  <2>3. ASSUME NEW s \in Source, Voices!PlayLook(s) \/ Voices!StopLook(s) \/ Voices!RewindLook(s) \/ Voices!DeleteLook(s)
        PROVE  UNCHANGED voice \/ \E v : Marks(v)
    BY <1>1, <2>3, PlayLookDoes, StopLookDoes, RewindLookDoes, DeleteLookDoes
  <2>4. UNCHANGED voice \/ \E v : Marks(v)
    BY <1>2, <2>1, <2>2, <2>3, VoicesAssumptions DEF Voices!Call, Voices!alGenSources
  <2> QED BY <2>4 DEF Marks
<1>3. CASE Voices!CallGoesOn
  <2>1. CASE Voices!LoopStore
    BY <1>1, <2>1, LoopStoreDoes
  <2>2. CASE Voices!SendDrop
    BY <1>1, <2>2, SendDropDoes
  <2>3. CASE Voices!SeekLetGo
    BY <1>1, <2>3, SeekLetGoDoes DEF Others
  <2>4. CASE Voices!SeekFails \/ Voices!LoopWait \/ Voices!SendAppend \/ Voices!SendLoad \/ Voices!SendWait \/ Voices!PauseEnds
             \/ Voices!DeleteEnds \/ Voices!SeekOld \/ Voices!SeekNew \/ Voices!SeekLast
    BY <2>4 DEF Voices!SeekFails, Voices!LoopWait, Voices!SendAppend, Voices!SendLoad,
        Voices!SendWait, Voices!PauseEnds, Voices!DeleteEnds,
                Voices!SeekOld, Voices!SeekNew, Voices!SeekLast
  <2> QED BY <1>3, <2>1, <2>2, <2>3, <2>4 DEF Voices!CallGoesOn
<1>4. CASE Voices!Mix \/ Voices!Device
  BY <1>4, MixKeeps DEF MixKeepsOne
<1> QED BY <1>2, <1>3, <1>4 DEF Voices!Next

(* A step that leaves a source as it is neither gives it a voice nor, when *)
(* it is the start or the seek of another source, takes its voice.         *)
LEMMA GivesNoOther ==
  ASSUME Whole, ~Voices!TakesItsOwn, Voices!Next, NEW s \in Source, source'[s] = source[s]
  PROVE  /\ Voices!HasVoice(s)' => Voices!HasVoice(s)
         /\ op.pc \in {"start", "seek"} /\ op' # op => (Voices!HasVoice(s) => Voices!HasVoice(s)')
<1>1. Typed /\ InBounds /\ CallKnows /\ active \in Voices!Voices /\ active \in Int
  BY DEF Whole, Always, Typed, Voices!Voices
<1>2. source[s].vidx <= active /\ source[s].vidx \in Int
  BY <1>1, SourceFields DEF InBounds
<1>3. ASSUME NEW x \in Int, x = source[s].vidx, 1 <= x
      PROVE  x \in 1..active /\ x \in Voices!Voices
  BY <1>1, <1>2, <1>3, VoicesAssumptions DEF Voices!Voices
<1>4. CASE Voices!PlayStart \/ Voices!SeekStart
  <2>1. \E u \in Source, v \in Voices!Voices :
          /\ u # s /\ \A w \in Voices!Voices : w # v => voice'[w].sid = voice[w].sid
          /\ voice'[v].sid = u /\ (voice[v].sid = Voices!NoSource \/ v > active)
          /\ active' \in Voices!Voices /\ active <= active'
    <3>1. CASE Voices!PlayStart
      <4>1. PICK u \in Source, v \in Voices!Voices :
              /\ op.pc = "start" /\ op.s = u /\ v <= active /\ Voices!Free(v)
              /\ Gives(v, u, "Stopped") /\ Others(v) /\ Sets(u, "PLAYING", v)
              /\ UNCHANGED active
        BY <1>1, <3>1, PlayStartDoes
      <4>2. u # s
        BY <1>1, <4>1 DEF CallKnows, Voices!Free, Sets
      <4>3. voice[v].sid = Voices!NoSource /\ voice'[v].sid = u
        BY <4>1 DEF Voices!Free, Gives
      <4>4. \A w \in Voices!Voices : w # v => voice'[w].sid = voice[w].sid
        BY <4>1 DEF Others
      <4>5. active' \in Voices!Voices /\ active <= active'
        BY <1>1, <4>1
      <4> QED BY <4>2, <4>3, <4>4, <4>5
    <3>2. CASE Voices!SeekStart
      <4>1. PICK u \in Source, v \in Voices!Voices :
              /\ op.pc = "seek" /\ op.s = u /\ op.old \in Voices!Voices /\ op.old <= active /\ op.old # v
              /\ active' \in Voices!Voices
              /\ \/ v <= active /\ Voices!Free(v) /\ active' = active
                 \/ v = active + 1 /\ active' = active + 1
              /\ Gives(v, u, "Pending")
              /\ voice'[op.old] = [voice[op.old] EXCEPT !.change = TRUE]
              /\ \A w \in Voices!Voices : w # v /\ w # op.old => voice'[w] = voice[w]
              /\ Sets(u, source[u].state, v)
        BY <1>1, <3>2, SeekStartDoes
      <4>2. u # s
        BY <1>1, <4>1 DEF CallKnows, Sets
      <4>3. voice'[v].sid = u /\ (voice[v].sid = Voices!NoSource \/ v > active)
        BY <1>1, <4>1 DEF Voices!Free, Gives
      <4>4. voice'[op.old].sid = voice[op.old].sid
        BY <1>1, <4>1, VoiceFields DEF VoiceRecords
      <4>5. \A w \in Voices!Voices : w # v => voice'[w].sid = voice[w].sid
        BY <4>1, <4>4
      <4>6. active <= active'
        BY <1>1, <4>1
      <4> QED BY <4>1, <4>2, <4>3, <4>5, <4>6
    <3> QED BY <1>4, <3>1, <3>2
  <2>2. PICK u \in Source, v \in Voices!Voices :
          /\ u # s /\ \A w \in Voices!Voices : w # v => voice'[w].sid = voice[w].sid
          /\ voice'[v].sid = u /\ (voice[v].sid = Voices!NoSource \/ v > active)
          /\ active' \in Voices!Voices /\ active <= active'
    BY <2>1
  <2>3. ASSUME Voices!HasVoice(s)' PROVE Voices!HasVoice(s)
    <3>1. PICK x \in Int : x = source[s].vidx /\ 1 <= x /\ voice'[x].sid = s
      BY <1>2, <2>3 DEF Voices!HasVoice
    <3>2. x \in 1..active /\ x \in Voices!Voices
      BY <1>3, <3>1
    <3>3. voice[x].sid = s
      BY <2>2, <3>1, <3>2
    <3> QED BY <3>1, <3>2, <3>3 DEF Voices!HasVoice
  <2>4. ASSUME Voices!HasVoice(s) PROVE Voices!HasVoice(s)'
    <3>1. PICK x \in Int : x = source[s].vidx /\ 1 <= x /\ x <= active /\ voice[x].sid = s
      BY <1>2, <2>4 DEF Voices!HasVoice
    <3>2. x \in Voices!Voices /\ x # v
      BY <1>1, <1>3, <2>2, <3>1, VoicesAssumptions DEF Voices!Voices
    <3>3. voice'[x].sid = s
      BY <2>2, <3>1, <3>2
    <3>4. active' \in Int /\ x <= active'
      BY <1>1, <2>2, <3>1 DEF Voices!Voices
    <3> QED BY <3>1, <3>3, <3>4 DEF Voices!HasVoice
  <2> QED BY <2>3, <2>4
<1>5. CASE ~(Voices!PlayStart \/ Voices!SeekStart)
  <2>1. ASSUME Voices!HasVoice(s)' PROVE Voices!HasVoice(s)
    <3>1. PICK x \in Int : x = source[s].vidx /\ 1 <= x /\ voice'[x].sid = s
      BY <1>2, <2>1 DEF Voices!HasVoice
    <3>2. x \in 1..active /\ x \in Voices!Voices
      BY <1>3, <3>1
    <3>3. voice[x].sid = s
      BY <1>5, <3>1, <3>2, SidsStay, VoicesAssumptions
    <3> QED BY <3>1, <3>2, <3>3 DEF Voices!HasVoice
  <2>2. op.pc \in {"start", "seek"} /\ op' # op => UNCHANGED <<voice, active>>
    <3> SUFFICES ASSUME op.pc \in {"start", "seek"}, op' # op PROVE UNCHANGED <<voice, active>>
      OBVIOUS
    <3>1. ~(Voices!Mix \/ Voices!Device)
      BY MixStill
    <3>2. ~Voices!Call
      BY DEF Voices!Call, Voices!alGenSources, Voices!alSourceQueueBuffers,
          Voices!alSourceUnqueueBuffers, Voices!SetBuffer, Voices!PlayLook,
             Voices!StopLook, Voices!DeleteLook, Voices!PauseLook, Voices!RewindLook,
             Voices!SeekLook, Voices!LoopLook, Voices!CanCall
    <3>3. Voices!SeekFails
      BY <1>5, <3>1, <3>2 DEF Voices!Next, Voices!CallGoesOn, Voices!LoopStore,
          Voices!LoopWait, Voices!SendAppend, Voices!SendLoad, Voices!SendWait,
         Voices!SendDrop, Voices!PauseEnds, Voices!DeleteEnds, Voices!SeekOld,
         Voices!SeekNew, Voices!SeekLast, Voices!SeekLetGo
    <3> QED BY <3>3 DEF Voices!SeekFails
  <2>3. UNCHANGED <<voice, active>> => (Voices!HasVoice(s) => Voices!HasVoice(s)')
    BY DEF Voices!HasVoice
  <2> QED BY <2>1, <2>2, <2>3
<1> QED BY <1>4, <1>5

-----------------------------------------------------------------------------
(* The properties of the specification of the calls and the mixes: of the  *)
(* states ...                                                              *)
LEMMA VoicesHoldTogether ==
  Voices!Spec => [](retaken \/ (Voices!Inv /\ Voices!GoneIsSilent /\ Voices!NoUseAfterFree))
<1>1. Whole => Voices!Inv /\ Voices!GoneIsSilent /\ Voices!NoUseAfterFree
  BY WholeInv, WholeUses
<1> QED BY <1>1, WholeAlways, PTL

(* ... of a mix, which leaves a paused source its voice ...                *)
LEMMA PausedHolds == Voices!Spec => Voices!PausedLasts
<1>1. (retaken \/ Whole) /\ [Voices!Next]_(Voices!vars) =>
        [~retaken /\ op.pc = "idle" /\ Voices!Mix =>
           \A s \in Source : source[s].state = "PAUSED" /\ Voices!HasVoice(s) => Voices!HasVoice(s)']_(Voices!vars)
  BY PausedStays
<1> QED BY <1>1, WholeAlways, PTL DEF Voices!Spec, Voices!PausedLasts

(* A source that a step leaves as it is can only end.                      *)
LEMMA StateByVoice ==
  ASSUME Whole, ~Voices!TakesItsOwn, Voices!Next, NEW s \in Source,
         Voices!GetSourceState(s)' # Voices!GetSourceState(s), source'[s] = source[s]
  PROVE  /\ Voices!GetSourceState(s) = "PLAYING"
         /\ op.pc \in {"start", "seek"} => op' = op
<1>1. source[s].state = "PLAYING" /\ ~(Voices!HasVoice(s)' <=> Voices!HasVoice(s))
  BY DEF Voices!GetSourceState
<1>2. Voices!HasVoice(s) /\ ~Voices!HasVoice(s)'
  BY <1>1, GivesNoOther
<1>3. op.pc \in {"start", "seek"} => op' = op
  BY <1>2, GivesNoOther
<1> QED BY <1>1, <1>2, <1>3 DEF Voices!GetSourceState

(* ... and of a step of one source, as another source sees it.             *)
LEMMA OthersAreLeft == Voices!Spec => Voices!OthersLeaveAlone
<1>1. (retaken \/ Whole) /\ [Voices!Next]_(Voices!vars) =>
        [~retaken' => \A s \in Source :
           Voices!GetSourceState(s)' # Voices!GetSourceState(s) /\ source[s]' = source[s] =>
             /\ Voices!GetSourceState(s) = "PLAYING"
             /\ op.pc \in {"start", "seek"} => op' = op]_(Voices!vars)
  <2>1. ~retaken' /\ Voices!Next => ~retaken /\ ~Voices!TakesItsOwn
    BY DEF Voices!Next
  <2> QED BY <2>1, StateByVoice
<1> QED BY <1>1, WholeAlways, PTL DEF Voices!Spec, Voices!OthersLeaveAlone


-----------------------------------------------------------------------------
(* Of the specification that the runs check.                               *)

(* A step of the whole is a step of the calls and the mixes, or leaves all *)
(* that they keep as it is.                                                *)
LEMMA VoicesImplied == MCSpec => Voices!Spec
<1>1. MCInit => Voices!Init
  BY DEF MCInit
<1>2. [MCNext]_<<vars, voiceVars, lifeVars, part>> => [Voices!Next]_(Voices!vars)
  BY DEF MCNext, voiceVars, Voices!vars
<1> QED BY <1>1, <1>2, PTL DEF MCSpec, Voices!Spec

(* Until a seek takes the voice it was to replace, calls and mixes agree   *)
(* on which voices are free and which sources play, a call that needs a    *)
(* voice finds one, and a device that is gone leaves no source a voice     *)
(* (al/source.cpp, alc/alu.cpp).                                           *)
THEOREM VoicesAreShared == MCSpec => [](retaken \/ VoicesInv)
<1>1. Voices!Inv /\ Voices!GoneIsSilent /\ Voices!NoUseAfterFree => VoicesInv
  BY DEF VoicesInv
<1> QED BY <1>1, VoicesImplied, VoicesHoldTogether, PTL

(* And until then the mixer reads no item that has left its source's queue *)
(* (core/voice.cpp, al/source.cpp).                                        *)
THEOREM ItemsOutliveTheMix == MCSpec => [](retaken \/ NoUseAfterFree)
<1>1. Voices!Inv /\ Voices!GoneIsSilent /\ Voices!NoUseAfterFree => NoUseAfterFree
  BY DEF NoUseAfterFree
<1> QED BY <1>1, VoicesImplied, VoicesHoldTogether, PTL

(* While no call is under way, no mix takes its voice from a source that   *)
(* is paused (alSourcePausev, alc/alu.cpp): said until then, by the        *)
(* property.                                                               *)
THEOREM PausedKeepsItsVoice == MCSpec => PausedLasts
<1>1. Voices!PausedLasts => PausedLasts
  BY DEF PausedLasts
<1> QED BY <1>1, VoicesImplied, PausedHolds, PTL

(* A source that a step leaves as it is changes its state only by ending,  *)
(* and never by the start or the seek of another source (al/source.cpp):   *)
(* said until then, by the property.                                       *)
THEOREM NoOtherSourceChanges == MCSpec => OthersLeaveAlone
<1>1. Voices!OthersLeaveAlone => OthersLeaveAlone
  BY DEF OthersLeaveAlone
<1> QED BY <1>1, VoicesImplied, OthersAreLeft, PTL
=============================================================================
