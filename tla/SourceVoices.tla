---------------------------- MODULE SourceVoices ----------------------------
(***************************************************************************)
(* The sources and the voices of one OpenAL context.                       *)
(*                                                                         *)
(* The threads of the app act on sources, one call at a time because every *)
(* call holds mSourceLock; the thread of the backend mixes voices and      *)
(* takes no lock.  The two meet in the atomics of a voice, in a list of    *)
(* voice changes that the mixer works off at the start of a mix, and in    *)
(* waitForMix, with which a call outlasts the mix that may not have seen   *)
(* its change.  A call is split wherever a mix can come between two of its *)
(* accesses that matter.                                                   *)
(*                                                                         *)
(* An item of a source's queue is a pair <<source, number>>; numbers are   *)
(* not used again, so a pointer that outlives its item can be told.  The   *)
(* samples of an item are only whether there are any.                      *)
(***************************************************************************)
EXTENDS Integers, Sequences, FiniteSets

CONSTANTS
  Source,            \* the names alGenSources can give out
  Handled,           \* those on which more is called than soundMixer.go calls
  NVoices,           \* bound on mActiveVoiceCount
  FirstVoices,       \* the voices a context starts with
  MaxItem,           \* bound on the items each source ever queues
  Empty,             \* the items without samples
  MaxPending,        \* bound on the voice changes not yet processed
  StopOnDisconnect,  \* AL_STOP_SOURCES_ON_DISCONNECT_SOFT
  CallsAfter         \* bound: calls begin even once retaken is TRUE

VARIABLES
  source,     \* what ALsource keeps
  voice,      \* what Voice keeps
  active,     \* mActiveVoiceCount
  pending,    \* the voice changes after mCurrentVoiceChange
  connected,  \* DeviceBase::Connected
  mixing,     \* MixCount is odd
  mix,        \* where the thread of the backend stands
  op,         \* the call that holds mSourceLock
  reset,      \* how far ResetDeviceParams has come
  retaken     \* history: a seek has taken the voice it was to replace

vars == <<source, voice, active, pending, connected, mixing, mix, op, reset, retaken>>

NoSource == "no source"
NoItem == <<>>

Voices == 1..NVoices
NoVoice == 0
(* Where an item is or the next will be: front() of an empty queue too.    *)
Items == UNION {{s} \X (1..(MaxItem[s] + 1)) : s \in Source}
Fresh == [sid |-> NoSource, play |-> "Stopped", change |-> FALSE,
          buffer |-> NoItem, loop |-> NoItem, static |-> FALSE]
Ungiven == [alive |-> FALSE, state |-> "INITIAL", vidx |-> NoVoice,
            type |-> "UNDETERMINED", head |-> 1, tail |-> 1, looping |-> FALSE]
Idle == [pc |-> "idle"]
Resting == [pc |-> "idle"]
Halted == [pc |-> "off"]

Queue(s) == {<<s, n>> : n \in source[s].head .. source[s].tail - 1}
Front(s) == <<s, source[s].head>>
Playable(s) == Queue(s) \ Empty
Live == UNION {Queue(s) : s \in Source}

Init ==
  /\ source = [s \in Source |-> Ungiven]
  /\ voice = [v \in Voices |-> Fresh]
  /\ active = FirstVoices
  /\ pending = <<>>
  /\ connected = TRUE
  /\ mixing = FALSE
  /\ mix = Resting
  /\ op = Idle
  /\ reset = "no"
  /\ retaken = FALSE

-----------------------------------------------------------------------------
(* What the calls share.                                                   *)

HasVoice(s) ==
  /\ source[s].vidx \in 1..active
  /\ voice[source[s].vidx].sid = s

GetSourceVoice(s) == IF HasVoice(s) THEN source[s].vidx ELSE NoVoice

GetSourceState(s) ==
  IF source[s].state = "PLAYING" /\ ~HasVoice(s) THEN "STOPPED" ELSE source[s].state

(* A source after a call has looked for its voice and for its state.       *)
Seen(s) == [source[s] EXCEPT !.vidx = GetSourceVoice(s), !.state = GetSourceState(s)]

(* A mutant: a voice with a change ahead of it counts as free.             *)
FreeEarly(v) ==
  /\ voice[v].play = "Stopped"
  /\ voice[v].sid = NoSource

Free(v) ==
  /\ voice[v].play = "Stopped"
  /\ voice[v].sid = NoSource
  /\ ~voice[v].change

FreeVoices == {v \in 1..active : Free(v)}

(* A mutant: the search takes any voice that is not heard.                 *)
FirstStopped ==
  CHOOSE v \in {w \in 1..active : voice[w].play = "Stopped"} :
    \A w \in 1..active : voice[w].play = "Stopped" => v <= w

FirstFree == CHOOSE v \in FreeVoices : \A w \in FreeVoices : v <= w

(* With no voice free the context activates one more.                      *)
Grow ==
  /\ FreeVoices = {} => active < NVoices
  /\ active' = IF FreeVoices = {} THEN active + 1 ELSE active

InitVoice(v, s, item) ==
  [voice[v] EXCEPT !.sid = s, !.buffer = item,
                   !.loop = IF source[s].looping THEN Front(s) ELSE NoItem,
                   !.static = source[s].type = "STATIC"]

Changing(v) ==
  IF v = NoVoice THEN voice ELSE [voice EXCEPT ![v].change = TRUE]

VoiceChange(state, s, v, old) == [state |-> state, s |-> s, v |-> v, old |-> old]

CanCall(s) ==
  /\ op.pc = "idle"
  /\ source[s].alive
  /\ Len(pending) < MaxPending

Send(name, change) == op' = [pc |-> "append", call |-> name, change |-> change]
Return == op' = Idle
Mixer == <<mixing, mix, connected, reset>>

-----------------------------------------------------------------------------
(* Calls that neither wait nor send anything.                              *)

alGenSources ==
  /\ op.pc = "idle"
  /\ \E s \in Source :
       /\ ~source[s].alive
       /\ source[s].tail <= MaxItem[s]
       /\ source' = [source EXCEPT ![s] = [Ungiven EXCEPT !.alive = TRUE,
                                                          !.head = source[s].tail,
                                                          !.tail = source[s].tail]]
  /\ UNCHANGED <<voice, active, pending, op, Mixer>>

alSourceQueueBuffers(s) ==
  /\ CanCall(s)
  /\ source[s].type # "STATIC"
  /\ source[s].tail <= MaxItem[s]
  /\ source' = [source EXCEPT ![s].type = "STREAMING", ![s].tail = @ + 1]
  /\ UNCHANGED <<voice, active, pending, op, Mixer>>

Processed(s) ==
  IF source[s].state = "INITIAL" THEN {}
  ELSE IF HasVoice(s) /\ voice[source[s].vidx].buffer \in Queue(s)
       THEN {i \in Queue(s) : i[2] < voice[source[s].vidx].buffer[2]}
       ELSE Queue(s)

alSourceUnqueueBuffers(s) ==
  /\ CanCall(s)
  /\ source[s].type = "STREAMING"
  /\ ~source[s].looping
  /\ \E n \in 1..Cardinality(Processed(s)) :
       source' = [source EXCEPT ![s].head = @ + n,
                                ![s].vidx = IF source[s].state = "INITIAL" THEN @
                                            ELSE GetSourceVoice(s)]
  /\ UNCHANGED <<voice, active, pending, op, Mixer>>

(* alSourcei(AL_BUFFER): the queue is dropped for one static item or none. *)
SetBuffer(s) ==
  /\ CanCall(s)
  /\ GetSourceState(s) \notin {"PLAYING", "PAUSED"}
  /\ \/ /\ source[s].tail <= MaxItem[s]
        /\ source' = [source EXCEPT ![s] = [Seen(s) EXCEPT !.type = "STATIC",
                                              !.head = source[s].tail, !.tail = @ + 1]]
     \/ source' = [source EXCEPT ![s] = [Seen(s) EXCEPT !.type = "UNDETERMINED",
                                           !.head = source[s].tail]]
  /\ UNCHANGED <<voice, active, pending, op, Mixer>>

-----------------------------------------------------------------------------
(* Calls that send a voice change.                                         *)

(* alSourcePlay gives up at once when voices stop with the device, and     *)
(* when nothing of the queue has samples.                                  *)
PlayLook(s) ==
  /\ CanCall(s)
  /\ IF ~connected /\ StopOnDisconnect
     THEN /\ source' = [source EXCEPT ![s].state = "STOPPED"]
          /\ Return
          /\ UNCHANGED <<active, voice>>
     ELSE /\ Grow
          /\ IF Playable(s) = {}
             THEN /\ source' = [source EXCEPT ![s].state = "STOPPED"]
                  /\ Return
                  /\ UNCHANGED voice
             ELSE LET v == GetSourceVoice(s)
                      was == GetSourceState(s)
                  IN IF was = "PAUSED" /\ v # NoVoice
                     THEN /\ source' = [source EXCEPT ![s].state = "PLAYING"]
                          /\ Send("play", VoiceChange("Play", s, v, NoVoice))
                          /\ UNCHANGED voice
                     ELSE LET old == IF was = "PLAYING" THEN v ELSE NoVoice
                          IN /\ source' = [source EXCEPT ![s] = Seen(s)]
                             /\ voice' = Changing(old)
                             /\ op' = [pc |-> "start", s |-> s, old |-> old]
  /\ UNCHANGED <<pending, Mixer>>

(* An offset set on a source that has no voice moves the first item.  The  *)
(* code takes for granted that a voice is free: see VoiceIsFound.          *)
PlayStart ==
  /\ op.pc = "start"
  /\ FreeVoices # {}
  /\ LET s == op.s
     IN /\ \E item \in {Front(s)} \cup Playable(s) :
             voice' = [voice EXCEPT ![FirstFree] = InitVoice(FirstFree, s, item)]
        /\ source' = [source EXCEPT ![s].vidx = FirstFree, ![s].state = "PLAYING"]
        /\ Send("play", VoiceChange("Play", s, FirstFree, op.old))
  /\ UNCHANGED <<active, pending, Mixer>>

PauseLook(s) ==
  /\ CanCall(s)
  /\ source' = [source EXCEPT ![s] = Seen(s)]
  /\ IF GetSourceState(s) = "PLAYING"
     THEN Send("pause", VoiceChange("Pause", s, source[s].vidx, NoVoice))
     ELSE Return
  /\ UNCHANGED <<voice, active, pending, Mixer>>

StopLook(s) ==
  /\ CanCall(s)
  /\ IF HasVoice(s)
     THEN /\ source' = [source EXCEPT ![s].state = "STOPPED", ![s].vidx = NoVoice]
          /\ voice' = Changing(source[s].vidx)
          /\ Send("stop", VoiceChange("Stop", s, source[s].vidx, NoVoice))
     ELSE /\ source' = [source EXCEPT ![s].vidx = NoVoice]
          /\ Return
          /\ UNCHANGED voice
  /\ UNCHANGED <<active, pending, Mixer>>

RewindLook(s) ==
  /\ CanCall(s)
  /\ source' = [source EXCEPT ![s].state = "INITIAL", ![s].vidx = NoVoice]
  /\ IF source[s].state # "INITIAL"
     THEN /\ voice' = Changing(GetSourceVoice(s))
          /\ Send("rewind", VoiceChange("Reset", s, GetSourceVoice(s), NoVoice))
     ELSE /\ Return
          /\ UNCHANGED voice
  /\ UNCHANGED <<active, pending, Mixer>>

Destroyed(s) == [Ungiven EXCEPT !.head = source[s].tail, !.tail = source[s].tail]

DeleteLook(s) ==
  /\ CanCall(s)
  /\ IF HasVoice(s)
     THEN /\ voice' = Changing(source[s].vidx)
          /\ Send("delete", VoiceChange("Stop", s, source[s].vidx, NoVoice))
          /\ UNCHANGED source
     ELSE /\ source' = [source EXCEPT ![s] = Destroyed(s)]
          /\ Return
          /\ UNCHANGED voice
  /\ UNCHANGED <<active, pending, Mixer>>

(* Moving a source that has a voice starts a second voice at the offset.   *)
SeekLook(s) ==
  /\ CanCall(s)
  /\ HasVoice(s)
  /\ FreeVoices = {} => active < NVoices
  /\ op' = [pc |-> "seek", s |-> s, old |-> source[s].vidx]
  /\ UNCHANGED <<source, voice, active, pending, Mixer>>

(* GetSampleOffset finds the item the offset falls on, or none.            *)
SeekFails ==
  /\ op.pc = "seek"
  /\ Return
  /\ UNCHANGED <<source, voice, active, pending, Mixer>>

(* SetVoiceOffset, up to sending the change.  Two mixes since the call has *)
(* looked, the old voice may have ended and faded, and be the first free.  *)
SeekStart ==
  /\ op.pc = "seek"
  /\ Grow
  /\ LET s == op.s
         new == IF FreeVoices = {} THEN active + 1 ELSE FirstFree
     IN /\ \E item \in Playable(s) :
             voice' = [[voice EXCEPT ![new] = [InitVoice(new, s, item)
                                                 EXCEPT !.play = "Pending"]]
                         EXCEPT ![op.old].change = TRUE]
        /\ source' = [source EXCEPT ![s].vidx = new]
        /\ Send("seek", VoiceChange("Restart", s, new, op.old))
  /\ UNCHANGED <<pending, Mixer>>

LoopLook(s) ==
  /\ CanCall(s)
  /\ source' = [source EXCEPT ![s].looping = ~@, ![s].vidx = GetSourceVoice(s)]
  /\ IF HasVoice(s)
     THEN op' = [pc |-> "loop", s |-> s]
     ELSE Return
  /\ UNCHANGED <<voice, active, pending, Mixer>>

LoopStore ==
  /\ op.pc = "loop"
  /\ voice' = [voice EXCEPT ![source[op.s].vidx].loop =
                 IF source[op.s].looping THEN Front(op.s) ELSE NoItem]
  /\ op' = [pc |-> "looped"]
  /\ UNCHANGED <<source, active, pending, Mixer>>

(* A mutant: the mix that may be looping back is not awaited.              *)
LoopGoesOn ==
  /\ op.pc = "looped"
  /\ Return
  /\ UNCHANGED <<source, voice, active, pending, Mixer>>

LoopWait ==
  /\ op.pc = "looped"
  /\ ~mixing
  /\ Return
  /\ UNCHANGED <<source, voice, active, pending, Mixer>>

(* SendVoiceChanges: link the change, load Connected, outlast the mix, and *)
(* on a device that is gone with its voices let go of what was pending.    *)
SendAppend ==
  /\ op.pc = "append"
  /\ pending' = Append(pending, op.change)
  /\ op' = [op EXCEPT !.pc = "load"]
  /\ UNCHANGED <<source, voice, active, Mixer>>

(* A mutant: Connected is looked at before the change is linked.           *)
SendLoadTrue ==
  /\ op.pc = "load"
  /\ op' = [op EXCEPT !.pc = "wait"]
  /\ UNCHANGED <<source, voice, active, pending, Mixer>>

SendLoad ==
  /\ op.pc = "load"
  /\ op' = [op EXCEPT !.pc = IF connected \/ ~StopOnDisconnect THEN "wait" ELSE "drop"]
  /\ UNCHANGED <<source, voice, active, pending, Mixer>>

Sent == IF op.call \in {"pause", "delete", "seek"} THEN [op EXCEPT !.pc = "sent"] ELSE Idle

(* A mutant: the mix that may not have seen the change is not awaited.     *)
SendGoesOn ==
  /\ op.pc = "wait"
  /\ op' = Sent
  /\ UNCHANGED <<source, voice, active, pending, Mixer>>

SendWait ==
  /\ op.pc = "wait"
  /\ ~mixing
  /\ op' = Sent
  /\ UNCHANGED <<source, voice, active, pending, Mixer>>

SendDrop ==
  /\ op.pc = "drop"
  /\ ~mixing
  /\ voice' = [v \in Voices |->
                 IF \E i \in DOMAIN pending : pending[i].v = v
                 THEN [voice[v] EXCEPT !.sid = NoSource] ELSE voice[v]]
  /\ pending' = <<>>
  /\ op' = Sent
  /\ UNCHANGED <<source, active, Mixer>>

(* What a call does once its change is sent, when it does anything.        *)
PauseEnds ==
  /\ op.pc = "sent"
  /\ op.call = "pause"
  /\ LET s == op.change.s
     IN source' = [source EXCEPT ![s] =
                     [Seen(s) EXCEPT !.state = IF @ = "PLAYING" THEN "PAUSED" ELSE @]]
  /\ Return
  /\ UNCHANGED <<voice, active, pending, Mixer>>

DeleteEnds ==
  /\ op.pc = "sent"
  /\ op.call = "delete"
  /\ source' = [source EXCEPT ![op.change.s] = Destroyed(op.change.s)]
  /\ Return
  /\ UNCHANGED <<voice, active, pending, Mixer>>

(* The end of SetVoiceOffset: the change-over works on the next mix while  *)
(* the old voice lasts, has happened once the new voice is not pending any *)
(* more, and has failed when neither holds after one more mix.             *)
SeekOld ==
  /\ op.pc = "sent"
  /\ op.call = "seek"
  /\ IF voice[op.change.old].sid # NoSource
     THEN Return
     ELSE op' = [op EXCEPT !.pc = "new"]
  /\ UNCHANGED <<source, voice, active, pending, Mixer>>

SeekNew ==
  /\ op.pc = "new"
  /\ IF voice[op.change.v].play # "Pending"
     THEN Return
     ELSE op' = [op EXCEPT !.pc = "new, after a mix"]
  /\ UNCHANGED <<source, voice, active, pending, Mixer>>

SeekLast ==
  /\ op.pc = "new, after a mix"
  /\ ~mixing
  /\ op' = [op EXCEPT !.pc = "let go"]
  /\ UNCHANGED <<source, voice, active, pending, Mixer>>

SeekLetGo ==
  /\ op.pc = "let go"
  /\ LET new == op.change.v
     IN voice' = IF voice[new].play # "Pending" THEN voice
                 ELSE [voice EXCEPT ![new] = [@ EXCEPT !.buffer = NoItem, !.loop = NoItem,
                                                !.sid = NoSource, !.play = "Stopped"]]
  /\ Return
  /\ UNCHANGED <<source, active, pending, Mixer>>

Call ==
  \/ alGenSources
  \/ \E s \in Source :
       \/ alSourceQueueBuffers(s) \/ PlayLook(s) \/ StopLook(s) \/ DeleteLook(s)
  \/ \E s \in Handled :
       \/ alSourceUnqueueBuffers(s) \/ SetBuffer(s) \/ PauseLook(s) \/ RewindLook(s)
       \/ SeekLook(s) \/ LoopLook(s)

CallGoesOn ==
  \/ PlayStart \/ SeekFails \/ SeekStart \/ LoopStore \/ LoopWait
  \/ SendAppend \/ SendLoad \/ SendWait \/ SendDrop
  \/ PauseEnds \/ DeleteEnds
  \/ SeekOld \/ SeekNew \/ SeekLast \/ SeekLetGo

-----------------------------------------------------------------------------
(* The thread of the backend.                                              *)

Calls == <<source, active, op, reset>>
At(pc, v) == [pc |-> pc, v |-> v, last |-> mix.last]

MixBegin ==
  /\ mix.pc = "idle"
  /\ mixing' = TRUE
  /\ mix' = [pc |-> "changes", last |-> active]
  /\ UNCHANGED <<voice, pending, connected, Calls>>

Silenced(v) == [voice[v] EXCEPT !.buffer = NoItem, !.loop = NoItem, !.sid = NoSource]

(* compare_exchange_strong(Playing, Stopping)                              *)
Stopping(play) == IF play = "Playing" THEN "Stopping" ELSE play

(* A voice as its change leaves it, for the changes that end it.           *)
LetGo(v) ==
  [Silenced(v) EXCEPT !.play = Stopping(@), !.change = FALSE]

(* One turn of the loop of ProcessVoiceChanges.                            *)
Change(c) ==
  CASE c.state \in {"Reset", "Stop"} ->
         IF c.v = NoVoice THEN voice ELSE [voice EXCEPT ![c.v] = LetGo(c.v)]
    [] c.state = "Pause" ->
         [voice EXCEPT ![c.v].play = Stopping(@)]
    [] c.state = "Play" ->
         [v \in Voices |-> IF v = c.v THEN [voice[v] EXCEPT !.play = "Playing"]
                           ELSE IF v = c.old THEN LetGo(v) ELSE voice[v]]
    [] c.state = "Restart" ->
         LET old == voice[c.old]
             gone == [voice EXCEPT ![c.old] = LetGo(c.old)]
         IN IF old.sid = NoSource
            THEN [voice EXCEPT ![c.old] = [@ EXCEPT !.buffer = NoItem, !.loop = NoItem,
                                                     !.change = FALSE]]
            ELSE [gone EXCEPT ![c.v].play =
                    IF old.play = "Playing" THEN "Playing" ELSE "Stopped"]

ProcessChange ==
  /\ mix.pc \in {"changes", "gone, changes"}
  /\ pending # <<>>
  /\ voice' = Change(Head(pending))
  /\ pending' = Tail(pending)
  /\ UNCHANGED <<mixing, mix, connected, Calls>>

ChangesDone ==
  /\ mix.pc = "changes"
  /\ pending = <<>>
  /\ mix' = At("voices", 1)
  /\ UNCHANGED <<voice, pending, mixing, connected, Calls>>

NextVoice == mix' = At("voices", mix.v + 1)

(* A voice that is not to be heard is passed over, and one that is may be: *)
(* its start may be ahead, or its first parameters held back.              *)
MixSkip ==
  /\ mix.pc = "voices"
  /\ mix.v <= mix.last
  /\ voice' = [voice EXCEPT ![mix.v].play = IF @ = "Stopping" THEN "Stopped" ELSE @]
  /\ NextVoice
  /\ UNCHANGED <<pending, mixing, connected, Calls>>

(* Voice::mix loads what it will read from.                                *)
MixLoad ==
  /\ mix.pc = "voices"
  /\ mix.v <= mix.last
  /\ LET it == voice[mix.v]
     IN /\ it.play \in {"Playing", "Stopping"}
        /\ mix' = [pc |-> "reading", v |-> mix.v, last |-> mix.last,
                   play |-> it.play, buffer |-> it.buffer, loop |-> it.loop]
  /\ UNCHANGED <<voice, pending, mixing, connected, Calls>>

MixFaded ==
  /\ mix.pc = "reading"
  /\ mix.play = "Stopping"
  /\ voice' = [voice EXCEPT ![mix.v].play = "Stopped"]
  /\ NextVoice
  /\ UNCHANGED <<pending, mixing, connected, Calls>>

(* Where the samples of one mix can lead: on through the queue as far as   *)
(* it is linked by now, back to the loop's item, or past the end.          *)
Reached ==
  LET s == mix.buffer[1]
      from(i) == {j \in Playable(s) : j[2] >= i[2]}
  IN IF mix.buffer = NoItem THEN {NoItem}
     ELSE IF voice[mix.v].static THEN {mix.buffer, NoItem}
     ELSE IF mix.loop = NoItem THEN from(mix.buffer) \cup {NoItem}
     ELSE from(mix.buffer) \cup from(mix.loop)

MixStore ==
  /\ mix.pc = "reading"
  /\ mix.play = "Playing"
  /\ \E item \in Reached :
       IF item = NoItem
       THEN /\ voice' = [voice EXCEPT ![mix.v] = Silenced(mix.v)]
            /\ mix' = At("ended", mix.v)
       ELSE /\ voice' = [voice EXCEPT ![mix.v].buffer = item]
            /\ NextVoice
  /\ UNCHANGED <<pending, mixing, connected, Calls>>

MixEnded ==
  /\ mix.pc = "ended"
  /\ voice' = [voice EXCEPT ![mix.v].play = "Stopping"]
  /\ NextVoice
  /\ UNCHANGED <<pending, mixing, connected, Calls>>

MixEnd ==
  /\ mix.pc = "voices"
  /\ mix.v > mix.last
  /\ mixing' = FALSE
  /\ mix' = Resting
  /\ UNCHANGED <<voice, pending, connected, Calls>>

(* handleDisconnect, on the backend's thread or where a start fails.       *)
Disconnect ==
  /\ mix.pc = "idle" \/ (mix.pc = "off" /\ connected /\ reset = "no")
  /\ mixing' = TRUE
  /\ mix' = [pc |-> "gone", last |-> active]
  /\ UNCHANGED <<voice, pending, connected, Calls>>

Disconnected ==
  /\ mix.pc = "gone"
  /\ connected' = FALSE
  /\ mix' = IF StopOnDisconnect THEN [pc |-> "gone, voices", v |-> 1, last |-> active]
            ELSE [pc |-> "gone, changes"]
  /\ UNCHANGED <<voice, pending, mixing, Calls>>

StopVoice ==
  /\ mix.pc = "gone, voices"
  /\ mix.v <= mix.last
  /\ voice' = [voice EXCEPT ![mix.v] = [Silenced(mix.v) EXCEPT !.play = "Stopped"]]
  /\ mix' = At("gone, voices", mix.v + 1)
  /\ UNCHANGED <<pending, mixing, connected, Calls>>

DisconnectEnds ==
  /\ \/ mix.pc = "gone, voices" /\ mix.v > mix.last
     \/ mix.pc = "gone, changes" /\ pending = <<>>
  /\ mixing' = FALSE
  /\ mix' = Halted
  /\ UNCHANGED <<voice, pending, connected, Calls>>

(* The backend stops between two mixes, and starts once a reset is over.   *)
Halt ==
  /\ mix.pc = "idle"
  /\ mix' = Halted
  /\ UNCHANGED <<voice, pending, mixing, connected, Calls>>

Start ==
  /\ mix.pc = "off"
  /\ connected
  /\ reset = "no"
  /\ mix' = Resting
  /\ UNCHANGED <<voice, pending, mixing, connected, Calls>>

(* ResetDeviceParams: each of its parts on a context takes mSourceLock.    *)
ResetLists ==
  /\ mix.pc = "off"
  /\ reset = "no"
  /\ IF connected
     THEN reset' = "prepare" /\ UNCHANGED <<voice, pending>>
     ELSE /\ reset' = "connect"
          /\ IF StopOnDisconnect
             THEN /\ op.pc = "idle"
                  /\ pending' = <<>>
                  /\ voice' = [v \in Voices |-> Fresh]
             ELSE UNCHANGED <<voice, pending>>
  /\ UNCHANGED <<source, active, op, mixing, mix, connected>>

ResetConnect ==
  /\ reset = "connect"
  /\ connected' = TRUE
  /\ reset' = "prepare"
  /\ UNCHANGED <<source, voice, active, pending, mixing, mix, op>>

UpdateDeviceParams ==
  /\ reset = "prepare"
  /\ op.pc = "idle"
  /\ voice' = [v \in Voices |-> [voice[v] EXCEPT !.play = IF @ = "Stopping" THEN "Stopped"
                                                          ELSE @]]
  /\ reset' = "no"
  /\ UNCHANGED <<source, active, pending, mixing, mix, connected, op>>

Mix ==
  \/ MixBegin \/ ProcessChange \/ ChangesDone \/ MixSkip \/ MixLoad \/ MixFaded
  \/ MixStore \/ MixEnded \/ MixEnd

Device ==
  \/ Disconnect \/ Disconnected \/ StopVoice \/ DisconnectEnds
  \/ Halt \/ Start \/ ResetLists \/ ResetConnect \/ UpdateDeviceParams

(* A seek takes for its new voice the one it is to replace.                *)
TakesItsOwn ==
  op.pc = "seek" /\ op'.pc = "append" /\ op'.change.v = op'.change.old

Next ==
  /\ \/ Call /\ (CallsAfter \/ ~retaken)
     \/ CallGoesOn \/ Mix \/ Device
  /\ retaken' = (retaken \/ TakesItsOwn)

Spec == Init /\ [][Next]_vars

-----------------------------------------------------------------------------
(* What holds.                                                             *)

(* A call leaves no trace once it has returned; none of the pointers the   *)
(* model keeps is of another kind than the code's.                         *)
TypeOK ==
  /\ \A s \in Source :
       /\ source[s].state \in {"INITIAL", "PLAYING", "PAUSED", "STOPPED"}
       /\ source[s].vidx \in Voices \cup {NoVoice}
       /\ 1 <= source[s].head /\ source[s].head <= source[s].tail
       /\ source[s].tail <= MaxItem[s] + 1
  /\ \A v \in Voices :
       /\ voice[v].sid \in Source \cup {NoSource}
       /\ voice[v].play \in {"Stopped", "Playing", "Stopping", "Pending"}
       /\ \A item \in {voice[v].buffer, voice[v].loop} : item = NoItem \/ item \in Items
  /\ active \in 1..NVoices
  /\ Len(pending) <= MaxPending
  /\ mixing = (mix.pc \notin {"idle", "off"})

(* source.cpp 2868: the search for a voice to start with finds one.  It    *)
(* does unless a seek has taken the voice it was to replace, whose change  *)
(* ends the voice it starts: the voice then is free to one call and marked *)
(* or sounding to the next.                                                *)
VoiceIsFound == op.pc = "start" => FreeVoices # {}

(* source.cpp 2784 to 2787 and 2847: nothing that has no playable buffer,  *)
(* and nothing that is stopped or initial, has a voice.                    *)
VoiceMeansPlaying ==
  op.pc = "idle" /\ connected =>
    \A s \in Source :
      HasVoice(s) => source[s].state \in {"PLAYING", "PAUSED"} /\ Playable(s) # {}

(* A free voice is not one the mixer is working on.                        *)
FreeIsUnheard ==
  mix.pc \in {"reading", "ended"} => mix.v \notin FreeVoices

Inv == TypeOK /\ (retaken \/ VoiceIsFound) /\ VoiceMeansPlaying /\ FreeIsUnheard

(* The mixer never reads an item that has left its source's queue: neither *)
(* one unqueued nor one of a queue that was replaced or deleted.           *)
NoUseAfterFree ==
  mix.pc = "reading" /\ mix.buffer # NoItem =>
    /\ mix.buffer \in Live
    /\ mix.loop # NoItem /\ ~voice[mix.v].static => mix.loop \in Live

(* Once a device is gone with its voices, no call that has returned leaves *)
(* a voice with a source.                                                  *)
GoneIsSilent ==
  ~connected /\ StopOnDisconnect /\ mix.pc = "off" /\ op.pc = "idle" =>
    \A v \in Voices : voice[v].sid = NoSource

(* A source that alSourcePause has left paused keeps its voice, whatever   *)
(* the mixer does: it does not end.  Said until a seek takes the voice it  *)
(* was to replace: see VoiceIsFound.                                       *)
PausedLasts ==
  [][~retaken /\ op.pc = "idle" /\ Mix =>
       \A s \in Source : source[s].state = "PAUSED" /\ HasVoice(s) => HasVoice(s)']_vars

(* A source changes its state by a call on it; or it ends, which neither   *)
(* the start nor the seek of another source makes it do by taking its      *)
(* voice.  Said until a seek takes the voice it was to replace.            *)
OthersLeaveAlone ==
  [][~retaken' => \A s \in Source :
       GetSourceState(s)' # GetSourceState(s) /\ source[s]' = source[s] =>
         /\ GetSourceState(s) = "PLAYING"
         /\ op.pc \in {"start", "seek"} => op' = op]_vars

(* source.cpp 1643 to 1645: setting AL_LOOPING waits for the mix "to ensure *)
(* it isn't currently looping back or reaching the end".  A static voice   *)
(* that is mixed with an item to loop to has an item it stands at, whose   *)
(* mLoopEnd the mixer reads (voice.cpp 727).                               *)
LoopingHasItem ==
  mix.pc = "reading" /\ voice[mix.v].static /\ mix.loop # NoItem =>
    mix.buffer # NoItem

=============================================================================
