--------------------------- MODULE OpenSLPlayback ---------------------------
(***************************************************************************)
(* The output on Android: a mixer thread renders into the slots of a ring  *)
(* and hands them to a player's queue; the player plays them in place and  *)
(* calls back for each it is done with.  The ring has no lock: its write   *)
(* pointer is the mixer's, its read pointer the callback's.                *)
(*                                                                         *)
(* Calls on the device start, stop and reset all this, one at a time under *)
(* StateLock.  A call may fail to reset or to start; the thread may fail   *)
(* to play or to queue, and disconnects the device.                        *)
(*                                                                         *)
(* The player is external: it dequeues a buffer before it calls back, it   *)
(* can be stopped, cleared and destroyed, and no callback is under way     *)
(* once the one registered has been taken back.                            *)
(***************************************************************************)
EXTENDS Integers, Sequences

CONSTANTS
  NumUpdates,  \* num_updates: how many slots the ring may hold
  MaxPosts     \* bound on the semaphore's count

VARIABLES
  ring,      \* the pointers w and r, or NoRing
  sem,       \* mSem
  mKillNow,
  mixer,     \* where the mixer thread stands
  player,    \* queue, whether it plays, whether it has the callback
  callback,  \* where process stands
  device,    \* connected, running, paused, and whether it has a context
  call       \* where the call on the device stands

vars == <<ring, sem, mKillNow, mixer, player, callback, device, call>>

Thread == <<mKillNow, mixer>>
Player == <<player, callback>>
Device == <<device, call>>

Idle == [pc |-> "idle"]
Gone == [pc |-> "gone"]
NoRing == [w |-> 0, r |-> 0, there |-> FALSE]
EmptyRing == [w |-> 0, r |-> 0, there |-> TRUE]
NoPlayer == [queue |-> <<>>, plays |-> FALSE, registered |-> FALSE]

Init ==
  /\ ring = NoRing
  /\ sem = 0
  /\ mKillNow = TRUE
  /\ mixer = Gone
  /\ player = NoPlayer
  /\ callback = Idle
  /\ device = [connected |-> TRUE, running |-> FALSE, paused |-> FALSE, context |-> FALSE]
  /\ call = Idle

-----------------------------------------------------------------------------
(* The ring, whose cells are the next power of two but which holds no more *)
(* than NumUpdates of them.                                                *)

PowerOfTwo ==
  LET bits == CHOOSE b \in 0..NumUpdates : 2^b > NumUpdates /\ 2^b <= 2 * NumUpdates
  IN 2^bits
Cells == PowerOfTwo
Slot == 0..(Cells - 1)

ReadSpace == (ring.w - ring.r) % Cells

(* A mutant: the ring is not limited.                                      *)
WriteSpaceUnlimited == (ring.r - ring.w - 1) % Cells

WriteSpace == (ring.r + NumUpdates - (Cells - 1) - ring.w - 1) % Cells

SlotsFrom(first, n) == [i \in 1..n |-> (first + i - 1) % Cells]

Post == sem' = IF sem < MaxPosts THEN sem + 1 ELSE sem

-----------------------------------------------------------------------------
(* The player, and process, which it calls for each buffer.                *)

Finishes ==
  /\ player.plays /\ player.queue # <<>>
  /\ callback = Idle
  /\ player' = [player EXCEPT !.queue = Tail(@)]
  /\ callback' = IF player.registered THEN [pc |-> "advance", slot |-> Head(player.queue)]
                                      ELSE Idle
  /\ UNCHANGED <<ring, sem, Thread, Device>>

ProcessAdvances ==
  /\ callback.pc = "advance"
  /\ ring' = [ring EXCEPT !.r = (@ + 1) % Cells]
  /\ callback' = [pc |-> "post"]
  /\ UNCHANGED <<sem, Thread, player, Device>>

(* A mutant: the mixer is not told.                                        *)
ProcessReturns ==
  /\ callback.pc = "post"
  /\ callback' = Idle
  /\ UNCHANGED <<ring, sem, Thread, player, Device>>

ProcessPosts ==
  /\ callback.pc = "post"
  /\ Post
  /\ callback' = Idle
  /\ UNCHANGED <<ring, Thread, player, Device>>

-----------------------------------------------------------------------------
(* mixerProc.                                                              *)

MixerGoes(to) == mixer' = to /\ UNCHANGED mKillNow

Disconnects ==
  /\ device' = [device EXCEPT !.connected = FALSE]
  /\ MixerGoes(Gone)

(* The thread fails to get at its player.                                  *)
MixerFails ==
  /\ mixer.pc = "begin"
  /\ Disconnects
  /\ UNCHANGED <<ring, sem, Player, call>>

MixerBegins ==
  /\ mixer.pc = "begin"
  /\ MixerGoes([pc |-> "loop"])
  /\ UNCHANGED <<ring, sem, Player, Device>>

MixerLoops ==
  /\ mixer.pc = "loop"
  /\ MixerGoes(IF mKillNow \/ ~device.connected THEN Gone
               ELSE IF WriteSpace = 0 THEN [pc |-> "play"] ELSE [pc |-> "render"])
  /\ UNCHANGED <<ring, sem, Player, Device>>

(* The ring is full: the player is made to play, if it does not, and the   *)
(* ring looked at again.                                                   *)
MixerPlays ==
  /\ mixer.pc = "play"
  /\ \/ /\ player' = [player EXCEPT !.plays = TRUE]
        /\ MixerGoes([pc |-> "full"])
        /\ UNCHANGED device
     \/ Disconnects /\ UNCHANGED player
  /\ UNCHANGED <<ring, sem, callback, call>>

MixerLooksAgain ==
  /\ mixer.pc = "full"
  /\ MixerGoes(IF WriteSpace = 0 THEN [pc |-> "wait"] ELSE [pc |-> "render"])
  /\ UNCHANGED <<ring, sem, Player, Device>>

MixerWaits ==
  /\ mixer.pc = "wait"
  /\ sem > 0
  /\ sem' = sem - 1
  /\ MixerGoes([pc |-> "loop"])
  /\ UNCHANGED <<ring, Player, Device>>

(* getWriteVector and renderSamples, then writeAdvance, under mMutex.      *)
MixerRenders ==
  /\ mixer.pc = "render"
  /\ MixerGoes([pc |-> "advance", slots |-> SlotsFrom(ring.w, WriteSpace)])
  /\ UNCHANGED <<ring, sem, Player, Device>>

MixerAdvances ==
  /\ mixer.pc = "advance"
  /\ ring' = [ring EXCEPT !.w = (@ + Len(mixer.slots)) % Cells]
  /\ MixerGoes([mixer EXCEPT !.pc = "enqueue"])
  /\ UNCHANGED <<sem, Player, Device>>

(* Enqueue fails for want of room, or for reasons of its own.              *)
MixerEnqueues ==
  /\ mixer.pc = "enqueue"
  /\ \/ /\ Len(player.queue) < NumUpdates
        /\ player' = [player EXCEPT !.queue = Append(@, Head(mixer.slots))]
        /\ MixerGoes(IF Len(mixer.slots) = 1 THEN [pc |-> "loop"]
                     ELSE [mixer EXCEPT !.slots = Tail(@)])
        /\ UNCHANGED device
     \/ Disconnects /\ UNCHANGED player
  /\ UNCHANGED <<ring, sem, callback, call>>

mixerProc ==
  \/ MixerBegins \/ MixerFails \/ MixerLoops \/ MixerPlays \/ MixerLooksAgain
  \/ MixerWaits \/ MixerRenders \/ MixerAdvances \/ MixerEnqueues

-----------------------------------------------------------------------------
(* start, stop and reset.  A call's rest is what it does after.            *)

CallGoes(pc) == call' = [call EXCEPT !.pc = pc]
Returns(d) == device' = d /\ call' = Idle

(* What alcCreateContext adds when it succeeds.                            *)
Succeeds(d) == Returns([d EXCEPT !.context = @ \/ call.rest = "create"])

(* With no ring the program crashes.                                       *)
StartCrashes ==
  /\ call.pc = "start"
  /\ ~ring.there
  /\ CallGoes("crashed")
  /\ UNCHANGED <<ring, sem, Thread, Player, device>>

Start ==
  /\ call.pc = "start"
  /\ ring.there
  /\ ring' = EmptyRing
  /\ \/ /\ player' = [player EXCEPT !.registered = TRUE]
        /\ mKillNow' = FALSE
        /\ mixer' = [pc |-> "begin"]
        /\ Succeeds([device EXCEPT !.running = TRUE])
     \/ Returns([device EXCEPT !.connected = FALSE]) /\ UNCHANGED <<Thread, player>>
  /\ UNCHANGED <<sem, callback>>

(* A mutant: the thread is not woken.                                      *)
StopKillsQuietly ==
  /\ call.pc = "stop"
  /\ IF mKillNow THEN CallGoes(call.rest) ELSE CallGoes("join")
  /\ mKillNow' = TRUE
  /\ UNCHANGED <<ring, sem, mixer, Player, device>>

StopKills ==
  /\ call.pc = "stop"
  /\ IF mKillNow THEN CallGoes(call.rest) /\ UNCHANGED sem
                 ELSE CallGoes("join") /\ Post
  /\ mKillNow' = TRUE
  /\ UNCHANGED <<ring, mixer, Player, device>>

StopJoins ==
  /\ call.pc = "join"
  /\ mixer = Gone
  /\ player' = [player EXCEPT !.plays = FALSE]
  /\ CallGoes("clear")
  /\ UNCHANGED <<ring, sem, Thread, callback, device>>

StopClears ==
  /\ call.pc = "clear"
  /\ callback = Idle
  /\ player' = [player EXCEPT !.queue = <<>>, !.registered = FALSE]
  /\ CallGoes("drained")
  /\ UNCHANGED <<ring, sem, Thread, callback, device>>

StopEnds ==
  /\ call.pc = "drained"
  /\ ring' = EmptyRing
  /\ CallGoes(call.rest)
  /\ UNCHANGED <<sem, Thread, Player, device>>

(* OpenSLPlayback::reset, and what UpdateDeviceParams does after.          *)
Reset ==
  /\ call.pc = "reset"
  /\ player' = NoPlayer
  /\ callback = Idle
  /\ \/ /\ ring' = NoRing
        /\ Returns([device EXCEPT !.connected = FALSE])
     \/ /\ ring' = EmptyRing
        /\ IF device.paused THEN Succeeds(device) ELSE CallGoes("start") /\ UNCHANGED device
  /\ UNCHANGED <<sem, Thread, callback>>

Backend == StartCrashes \/ Start \/ StopKills \/ StopJoins \/ StopClears \/ StopEnds \/ Reset

-----------------------------------------------------------------------------
(* The calls on the device.                                                *)

Stopping(rest) ==
  call' = [pc |-> IF device.running THEN "stop" ELSE rest, rest |-> rest]

(* The first context; a later one finds the device running, or resets it.  *)
CreateContext ==
  /\ call = Idle
  /\ device.connected /\ ~device.running
  /\ call' = [pc |-> "reset", rest |-> "create"]
  /\ UNCHANGED <<ring, sem, Thread, Player, device>>

DevicePause ==
  /\ call = Idle
  /\ ~device.paused
  /\ Stopping("paused")
  /\ UNCHANGED <<ring, sem, Thread, Player, device>>

PauseEnds ==
  /\ call.pc = "paused"
  /\ Returns([device EXCEPT !.running = FALSE, !.paused = TRUE])
  /\ UNCHANGED <<ring, sem, Thread, Player>>

DeviceResume ==
  /\ call = Idle
  /\ device.paused
  /\ device' = [device EXCEPT !.paused = FALSE]
  /\ call' = IF device.context THEN [pc |-> "start", rest |-> "resume"] ELSE Idle
  /\ UNCHANGED <<ring, sem, Thread, Player>>

(* alcResetDeviceSOFT.                                                     *)
ResetDevice ==
  /\ call = Idle
  /\ Stopping("reconnect")
  /\ UNCHANGED <<ring, sem, Thread, Player, device>>

Reconnects ==
  /\ call.pc = "reconnect"
  /\ device' = [device EXCEPT !.running = FALSE, !.connected = TRUE]
  /\ CallGoes("reset")
  /\ UNCHANGED <<ring, sem, Thread, Player>>

(* alcReopenDeviceSOFT, which finds no other output.                       *)
ReopenDevice ==
  /\ call = Idle
  /\ Stopping("go on")
  /\ UNCHANGED <<ring, sem, Thread, Player, device>>

ReopenGoesOn ==
  /\ call.pc = "go on"
  /\ LET d == [device EXCEPT !.running = FALSE]
     IN IF d.connected /\ ~d.paused /\ d.context THEN device' = d /\ CallGoes("start") ELSE Returns(d)
  /\ UNCHANGED <<ring, sem, Thread, Player>>

CallEnds == PauseEnds \/ Reconnects \/ ReopenGoesOn
CallBegins == CreateContext \/ DevicePause \/ DeviceResume \/ ResetDevice \/ ReopenDevice

Next ==
  \/ Finishes \/ ProcessAdvances \/ ProcessPosts
  \/ mixerProc \/ Backend \/ CallEnds \/ CallBegins

Spec == Init /\ [][Next]_vars

(* The scheduler leaves out no thread for good.  The player may stall.     *)
Fairness ==
  /\ WF_vars(ProcessAdvances \/ ProcessPosts)
  /\ WF_vars(mixerProc) /\ WF_vars(Backend \/ CallEnds)
FairSpec == Spec /\ Fairness

-----------------------------------------------------------------------------
(* What holds.                                                             *)

TypeOK ==
  /\ ring \in [w : Slot, r : Slot, there : BOOLEAN]
  /\ sem \in 0..MaxPosts
  /\ device \in [connected : BOOLEAN, running : BOOLEAN, paused : BOOLEAN, context : BOOLEAN]
  /\ player \in [queue : Seq(Slot), plays : BOOLEAN, registered : BOOLEAN]

(* While the mixer has not given up, what the ring holds is, in order, the *)
(* slot that is called back for, those the player has, and those it is     *)
(* still to get; so nothing is rendered into a slot that plays.            *)
SlotsInOrder ==
  mixer # Gone =>
    SlotsFrom(ring.r, ReadSpace)
      = (IF callback.pc = "advance" THEN <<callback.slot>> ELSE <<>>)
        \o player.queue \o (IF mixer.pc = "enqueue" THEN mixer.slots ELSE <<>>)

(* The player has room for every slot it is to get.                        *)
QueueHasRoom ==
  mixer.pc = "enqueue" => Len(player.queue) + Len(mixer.slots) <= NumUpdates

Inv == TypeOK /\ SlotsInOrder /\ QueueHasRoom

(* A device that runs keeps rendering while its player plays what it has:  *)
(* the mixer never waits for a player that has nothing left to say,        *)
(* whatever stop, start and reset left of posts and slots.                 *)
Rendering ==
  device.running /\ device.connected /\ call = Idle
    ~> mixer.pc = "render" \/ ~device.connected \/ call # Idle
RendersOn == WF_vars(Finishes) => Rendering

(* A call that stops the output returns, though the player stalls.         *)
StopReturns == call.pc = "stop" ~> call.pc \notin {"stop", "join", "clear", "drained"}

(* The comment in alcReopenDeviceSOFT: when resetting fails, all is as if  *)
(* the device were disconnected thereafter; calls on it do no harm.        *)
FailedIsDisconnected == call.pc # "crashed"

=============================================================================
