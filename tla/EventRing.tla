----------------------------- MODULE EventRing ------------------------------
(***************************************************************************)
(* The events of a context on their way from the mixer to the program's    *)
(* callback: a ring that one writes and one reads without a lock, a        *)
(* semaphore, and an event thread that takes what it finds in the ring.    *)
(*                                                                         *)
(* mEventCbLock is held by the thread for what it found at a look, and     *)
(* taken by calls that change the callback or disable events, so that no   *)
(* callback they rule out comes after them.  StopEventThrd puts an event   *)
(* of its own into the ring, once no mix reaches the context any more.     *)
(***************************************************************************)
EXTENDS Naturals

CONSTANTS
  Kind,       \* what events report, "disconnect" and "state" among it
  Callback,   \* the program's callbacks
  None,
  Mask,       \* mSizeMask: the ring has Mask + 1 cells, and holds Mask
  MaxEvents,  \* bound on the events written
  MaxLeft,    \* bound on the events written without waking the thread
  MaxPosts    \* bound on the semaphore's count

ASSUME RingAssumptions ==
  /\ Mask \in Nat /\ MaxPosts \in Nat
  /\ None \notin Callback

VARIABLES
  cell,      \* what the ring's cells hold
  w, r,      \* mWritePtr and mReadPtr, masked
  sem,       \* mEventSem
  enabled,   \* mEnabledEvts
  callback,  \* mEventCb
  cbLock,    \* mEventCbLock is held by the event thread
  thread,    \* where the event thread stands
  mixer,     \* where the mixer stands
  control,   \* where alEventControlSOFT stands
  stop,      \* where StopEventThrd stands
  written,   \* how many events were written
  left,      \* how many of them at disconnections, since the thread was woken
  served     \* the number of the latest that was taken

vars == <<cell, w, r, sem, enabled, callback, cbLock, thread, mixer, control, stop,
          written, left, served>>

Empty == [k |-> "empty", n |-> 0]
KillThread == "kill"
Cells == 0..Mask
Idle == [pc |-> "idle"]

Init ==
  /\ cell = [i \in Cells |-> Empty]
  /\ w = 0 /\ r = 0 /\ sem = 0
  /\ enabled = {} /\ callback = None /\ cbLock = FALSE
  /\ thread = [pc |-> "look"]
  /\ mixer = Idle
  /\ control = Idle /\ stop = Idle
  /\ written = 0 /\ left = 0 /\ served = 0

Ring == <<cell, w, r, written, served>>
Control == <<enabled, callback, control>>
Thread == <<thread, cbLock>>

-----------------------------------------------------------------------------
(* The ring.                                                               *)

ReadSpace == (w + Mask + 1 - r) % (Mask + 1)

(* A mutant: all the cells count, and a full ring passes for an empty one. *)
WriteSpaceToTheLast == ((r + Mask - w) % (Mask + 1)) + 1

WriteSpace == (r + Mask - w) % (Mask + 1)

(* getReadVector's first part: to the end of the cells at most.            *)
FirstRead == IF r + ReadSpace > Mask + 1 THEN Mask + 1 - r ELSE ReadSpace
FirstWrite == IF w + WriteSpace > Mask + 1 THEN Mask + 1 - w ELSE WriteSpace

Construct(k) == cell' = [cell EXCEPT ![w] = [k |-> k, n |-> written + 1]]

WriteAdvance ==
  /\ w' = (w + 1) % (Mask + 1)
  /\ written' = written + 1

(* Posts beyond the bound would wake the thread for nothing.               *)
Post ==
  /\ sem' = IF sem < MaxPosts THEN sem + 1 ELSE sem
  /\ left' = 0

NoPost == UNCHANGED <<sem, left>>

-----------------------------------------------------------------------------
(* The mixer.                                                              *)

MixBegins ==
  /\ mixer.pc = "idle" /\ stop.pc = "idle"
  /\ mixer' = [pc |-> "mix"]
  /\ UNCHANGED <<Ring, Thread, Control, sem, left, stop>>

(* A source changes state, a voice is done with buffers, an effect's state *)
(* is to be released: with no room the event is dropped.                   *)
MixWrites(k) ==
  /\ mixer.pc \in {"mix", "leave"}
  /\ mixer.pc = "leave" => k = "state" /\ left < MaxLeft
  /\ k \in enabled
  /\ written < MaxEvents
  /\ FirstWrite > 0
  /\ Construct(k)
  /\ mixer' = [pc |-> "advance", then |-> mixer.pc]
  /\ left' = IF mixer.pc = "leave" THEN left + 1 ELSE left
  /\ UNCHANGED <<w, r, written, served, Thread, Control, sem, stop>>

MixAdvances ==
  /\ mixer.pc = "advance"
  /\ WriteAdvance
  /\ mixer' = [pc |-> mixer.then]
  /\ UNCHANGED <<cell, r, served, Thread, Control, sem, left, stop>>

(* A mutant: the thread is woken only by the first event in the ring.      *)
MixEndsAtFirst ==
  /\ mixer.pc = "mix"
  /\ IF ReadSpace = 1 THEN Post ELSE NoPost
  /\ mixer' = Idle
  /\ UNCHANGED <<Ring, Thread, Control, stop>>

MixEnds ==
  /\ mixer.pc = "mix"
  /\ IF ReadSpace > 0 THEN Post ELSE NoPost
  /\ mixer' = Idle
  /\ UNCHANGED <<Ring, Thread, Control, stop>>

(* handleDisconnect posts for its own event.  Of the changes of state that *)
(* were pending it writes events and does not post.                        *)
Disconnects ==
  /\ mixer.pc = "idle" /\ stop.pc = "idle"
  /\ IF "disconnect" \in enabled /\ FirstWrite > 0 /\ written < MaxEvents
     THEN /\ Construct("disconnect")
          /\ mixer' = [pc |-> "report"]
     ELSE /\ mixer' = [pc |-> "leave"]
          /\ UNCHANGED cell
  /\ UNCHANGED <<w, r, written, served, Thread, Control, sem, left, stop>>

DisconnectReported ==
  /\ mixer.pc = "report"
  /\ WriteAdvance
  /\ Post
  /\ mixer' = [pc |-> "leave"]
  /\ UNCHANGED <<cell, r, served, Thread, Control, stop>>

Leaves ==
  /\ mixer.pc = "leave"
  /\ mixer' = [pc |-> "gone"]
  /\ UNCHANGED <<Ring, Thread, Control, sem, left, stop>>

(* The device is reset.                                                    *)
Resets ==
  /\ mixer.pc = "gone"
  /\ mixer' = Idle
  /\ UNCHANGED <<Ring, Thread, Control, sem, left, stop>>

Mix ==
  \/ MixBegins \/ \E k \in Kind : MixWrites(k)
  \/ MixAdvances \/ MixEnds \/ DisconnectReported \/ Leaves

-----------------------------------------------------------------------------
(* The event thread.                                                       *)

Looks ==
  /\ thread.pc = "look"
  /\ thread' = IF FirstRead = 0 THEN [pc |-> "wait"] ELSE [pc |-> "lock", len |-> FirstRead]
  /\ UNCHANGED <<Ring, Control, cbLock, sem, left, mixer, stop>>

Waits ==
  /\ thread.pc = "wait"
  /\ sem > 0
  /\ sem' = sem - 1
  /\ thread' = [pc |-> "look"]
  /\ UNCHANGED <<Ring, Control, cbLock, left, mixer, stop>>

LocksCallback ==
  /\ thread.pc = "lock"
  /\ cbLock' = TRUE
  /\ thread' = [pc |-> "copy", len |-> thread.len]
  /\ UNCHANGED <<Ring, Control, sem, left, mixer, stop>>

Copies ==
  /\ thread.pc = "copy"
  /\ thread' = [pc |-> "advance", len |-> thread.len - 1, event |-> cell[r]]
  /\ cell' = [cell EXCEPT ![r] = Empty]
  /\ UNCHANGED <<w, r, written, served, Control, cbLock, sem, left, mixer, stop>>

Advances ==
  /\ thread.pc = "advance"
  /\ r' = (r + 1) % (Mask + 1)
  /\ served' = thread.event.n
  /\ thread' = [thread EXCEPT !.pc = "serve"]
  /\ UNCHANGED <<cell, w, written, Control, cbLock, sem, left, mixer, stop>>

(* On to the next event that was there at the look, or to another look.    *)
Goes(len) ==
  IF len = 0 THEN thread' = [pc |-> "look"] /\ cbLock' = FALSE
             ELSE thread' = [pc |-> "copy", len |-> len] /\ UNCHANGED cbLock

Serves ==
  /\ thread.pc = "serve"
  /\ IF thread.event.k = KillThread
     THEN thread' = [pc |-> "gone"] /\ cbLock' = FALSE
     ELSE IF callback # None /\ thread.event.k \in enabled
     THEN /\ thread' = [pc |-> "callback", len |-> thread.len, event |-> thread.event,
                        to |-> callback]
          /\ UNCHANGED cbLock
     ELSE Goes(thread.len)
  /\ UNCHANGED <<Ring, Control, sem, left, mixer, stop>>

CallbackReturns ==
  /\ thread.pc = "callback"
  /\ Goes(thread.len)
  /\ UNCHANGED <<Ring, Control, sem, left, mixer, stop>>

EventThread ==
  Looks \/ Waits \/ LocksCallback \/ Copies \/ Advances \/ Serves \/ CallbackReturns

-----------------------------------------------------------------------------
(* The calls.                                                              *)

Enable(k) ==
  /\ control.pc = "idle"
  /\ k \notin enabled
  /\ enabled' = enabled \cup {k}
  /\ UNCHANGED <<Ring, Thread, callback, control, sem, left, mixer, stop>>

Disable(k) ==
  /\ control.pc = "idle"
  /\ k \in enabled
  /\ enabled' = enabled \ {k}
  /\ control' = [pc |-> "await", k |-> k]
  /\ UNCHANGED <<Ring, Thread, callback, sem, left, mixer, stop>>

(* A mutant: the flag is cleared and the lock not taken.                   *)
DisableReturnsAtOnce ==
  /\ control.pc = "await"
  /\ control' = Idle
  /\ UNCHANGED <<Ring, Thread, enabled, callback, sem, left, mixer, stop>>

DisableReturns ==
  /\ control.pc = "await"
  /\ ~cbLock
  /\ control' = Idle
  /\ UNCHANGED <<Ring, Thread, enabled, callback, sem, left, mixer, stop>>

alEventCallbackSOFT(cb) ==
  /\ ~cbLock
  /\ callback # cb
  /\ callback' = cb
  /\ UNCHANGED <<Ring, Thread, enabled, control, sem, left, mixer, stop>>

(* The context is out of the device's array and no mix is under way.       *)
StopBegins ==
  /\ stop.pc = "idle"
  /\ mixer.pc \in {"idle", "gone"}
  /\ stop' = [pc |-> "write"]
  /\ UNCHANGED <<Ring, Thread, Control, sem, left, mixer>>

StopWrites ==
  /\ stop.pc = "write"
  /\ FirstWrite > 0
  /\ Construct(KillThread)
  /\ stop' = [pc |-> "advance"]
  /\ UNCHANGED <<w, r, written, served, Thread, Control, sem, left, mixer>>

(* A mutant: the thread is not woken.                                      *)
StopAdvancesQuietly ==
  /\ stop.pc = "advance"
  /\ WriteAdvance
  /\ stop' = [pc |-> "join"]
  /\ UNCHANGED <<cell, r, served, Thread, Control, sem, left, mixer>>

StopAdvances ==
  /\ stop.pc = "advance"
  /\ WriteAdvance
  /\ Post
  /\ stop' = [pc |-> "join"]
  /\ UNCHANGED <<cell, r, served, Thread, Control, mixer>>

StopJoins ==
  /\ stop.pc = "join"
  /\ thread.pc = "gone"
  /\ stop' = [pc |-> "stopped"]
  /\ UNCHANGED <<Ring, Thread, Control, sem, left, mixer>>

StopEventThrd == StopWrites \/ StopAdvances \/ StopJoins

Calls ==
  \/ \E k \in Kind : Enable(k) \/ Disable(k)
  \/ DisableReturns
  \/ \E cb \in Callback \cup {None} : alEventCallbackSOFT(cb)
  \/ StopBegins

Next == Mix \/ Disconnects \/ Resets \/ EventThread \/ Calls \/ StopEventThrd

Spec == Init /\ [][Next]_vars

(* The device mixes on, and the scheduler leaves out no thread for good.   *)
Fairness ==
  /\ WF_vars(MixBegins \/ MixAdvances \/ MixEnds \/ DisconnectReported \/ Leaves)
  /\ WF_vars(EventThread)
  /\ WF_vars(StopEventThrd)
FairSpec == Spec /\ Fairness

-----------------------------------------------------------------------------
(* What holds.                                                             *)

TypeOK ==
  /\ w \in Cells /\ r \in Cells
  /\ enabled \subseteq Kind /\ callback \in Callback \cup {None}
  /\ sem \in 0..MaxPosts

(* What lies between the pointers is every event written and not taken, in *)
(* the order of writing, and nothing else; the cell beyond is free for the *)
(* one to come.  None is lost, served twice, or read half written.         *)
InOrder ==
  /\ ReadSpace \in 0..Mask
  /\ \A i \in 0..Mask :
       LET c == (r + i) % (Mask + 1)
           taken == i = 0 /\ thread.pc = "advance"
       IN i < ReadSpace => IF taken THEN cell[c] = Empty
                           ELSE cell[c] # Empty /\ cell[c].n = served + 1 + i
  /\ served + ReadSpace = written
  /\ thread.pc = "advance" => thread.event # Empty /\ thread.event.n = served + 1

Inv == TypeOK /\ InOrder

(* A callback that is under way is the one that is set, and of an event    *)
(* that is enabled unless the call that disables it has not returned: what *)
(* the two calls promise by waiting for mEventCbLock.                      *)
QuietOnceToldSo ==
  thread.pc = "callback" =>
    /\ thread.to = callback
    /\ thread.event.k \in enabled \/ (control.pc = "await" /\ control.k = thread.event.k)

(* While the device mixes on, the thread takes every event, the last once  *)
(* no more are written.                                                    *)
EventsArrive == []<>(served = written \/ mixer.pc = "gone")

(* StopEventThrd, which alcDestroyContext and alcCloseDevice wait for,     *)
(* returns.                                                                *)
StopReturns == stop.pc = "write" ~> stop.pc = "stopped"

=============================================================================
