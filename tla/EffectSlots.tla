----------------------------- MODULE EffectSlots ----------------------------
(***************************************************************************)
(* The auxiliary effect slots of a context.  Calls make slots, give them   *)
(* effects and targets, play, stop and delete them; what the mixer is to   *)
(* know goes to it in a container of each slot's Update, and which slots   *)
(* it processes in an array that calls replace and it reads.               *)
(*                                                                         *)
(* A call that replaced the array waits for the mix under way.  The mixer  *)
(* sorts the slots of an array once, so that each comes before its target, *)
(* and again when a target changed.  It may free no memory: the state of   *)
(* an effect that only it still holds goes to the event thread.            *)
(*                                                                         *)
(* Calls that set properties hold mPropLock as applyAllUpdates does, all   *)
(* calls mEffectSlotLock.  Null is an effect whose state is not counted.   *)
(***************************************************************************)
EXTENDS Integers, Sequences, SequencesExt, FiniteSets

CONSTANTS
  Slot,      \* the slots a context has room for, numbered from 1
  Effect,    \* states of effects
  Null, None,
  MaxCalls   \* bound on the calls made, but for alProcessUpdatesSOFT

VARIABLES
  api,      \* a slot as calls see it
  update,   \* a slot's Update, or None
  core,     \* a slot as the mixer sees it: target and effect
  free,     \* mFreeEffectslotProps: the states the free containers hold
  events,   \* the states given to the event thread
  active,   \* mActiveAuxSlots: slots, and sorted, empty when it is not
  deferred, \* mDeferUpdates
  hold,     \* mHoldUpdates
  updating, \* mUpdateCount is odd
  mixer,    \* where the mixer stands
  call,     \* the call that has mEffectSlotLock and waits for the mixer
  applier,  \* where applyAllUpdates stands
  calls     \* how many calls were made

vars == <<api, update, core, free, events, active, deferred, hold, updating, mixer, call,
          applier, calls>>

Supply == <<update, free>>
Flags == <<deferred, hold, updating>>
Idle == [pc |-> "idle"]
Array(s) == [slots |-> s, sorted |-> <<>>]
Unused == [used |-> FALSE, state |-> "Initial", target |-> None, effect |-> Null,
           dirty |-> FALSE]

(* The context has some slots already, that play to one another or to the  *)
(* output, as the mixer knows.                                             *)
Init ==
  /\ \E n \in 0..Cardinality(Slot) : \E to \in [1..n -> 0..n] :
       /\ \A s \in 1..n : to[s] < s
       /\ LET target(s) == IF to[s] = 0 THEN None ELSE to[s]
          IN /\ api = [s \in Slot |-> IF s > n THEN Unused
                        ELSE [Unused EXCEPT !.used = TRUE, !.state = "Playing",
                                            !.target = target(s)]]
             /\ core = [s \in Slot |-> IF s > n THEN [target |-> None, effect |-> None]
                                       ELSE [target |-> target(s), effect |-> Null]]
       /\ active = Array([i \in 1..n |-> n + 1 - i])
       /\ free = IF n = 0 THEN <<>> ELSE <<Null>>
  /\ update = [s \in Slot |-> None]
  /\ events = {}
  /\ deferred = FALSE /\ hold = FALSE /\ updating = FALSE
  /\ mixer = Idle /\ call = Idle /\ applier = Idle
  /\ calls = 0

Used == {s \in Slot : api[s].used}

(* The states that someone holds.                                          *)
Live ==
  {api[s].effect : s \in Slot} \cup {core[s].effect : s \in Slot}
  \cup {update[s].effect : s \in {s \in Slot : update[s] # None}}
  \cup events \cup Range(free)

-----------------------------------------------------------------------------
(* Providing updates, under mEffectSlotLock.                               *)

(* What updateProps of the slots of S, in their order, leaves of the free  *)
(* list.  A container is taken while there is one; one that an update      *)
(* displaces goes there without its state, and is what the next slot takes,*)
(* so that the last slot alone may leave one.                              *)
Left(S, freed) ==
  LET taken == Cardinality({s \in S : update[s] = None})
  IN IF S = {} THEN freed
     ELSE IF update[Max(S)] = None THEN SubSeq(freed, taken + 1, Len(freed))
     ELSE <<Null>> \o SubSeq(freed, taken + 2, Len(freed))

Settings(a, s) == [target |-> a[s].target, effect |-> a[s].effect]

(* updateProps of the slots of S, as their settings are in a.              *)
Provide(a, S, freed) ==
  /\ update' = [s \in Slot |-> IF s \in S THEN Settings(a, s) ELSE update[s]]
  /\ free' = Left(S, freed)

updateProps(a, s) == Provide(a, {s}, free)

(* UpdateProps: at once, or when updates are applied.                      *)
UpdateProps(a, s, freed) ==
  IF ~deferred /\ a[s].state = "Playing"
  THEN api' = a /\ Provide(a, {s}, freed)
  ELSE api' = [a EXCEPT ![s].dirty = TRUE] /\ free' = freed /\ UNCHANGED update

-----------------------------------------------------------------------------
(* The array.                                                              *)

Swaps(array) ==
  /\ active' = array
  /\ mixer' = IF "same" \in DOMAIN mixer THEN [mixer EXCEPT !.same = FALSE] ELSE mixer

(* An array has no slot twice.                                             *)
Without(slots, s) ==
  IF s \in Range(slots) THEN RemoveAt(slots, CHOOSE i \in DOMAIN slots : slots[i] = s) ELSE slots

AddActiveEffectSlots(s) == Swaps(Array(<<s>> \o Without(active.slots, s)))

RemoveActiveEffectSlots(s) == Swaps(Array(Without(active.slots, s)))

(* waitForMix: by the parity of MixCount.                                  *)
Mixed == mixer.pc = "idle"

-----------------------------------------------------------------------------
(* The calls.                                                              *)

Begins == calls < MaxCalls /\ calls' = calls + 1
Free == call = Idle
HasProps == applier = Idle

(* The slot and, in the pool, the mixer's slot are the first not in use;   *)
(* the latter keeps the target of its former life.                         *)
Gen ==
  /\ Begins /\ Free
  /\ LET s == CHOOSE x \in Slot \ Used : \A y \in Slot \ Used : x <= y
     IN /\ Used # Slot
        /\ api' = [api EXCEPT ![s] = [Unused EXCEPT !.used = TRUE]]
        /\ core' = [core EXCEPT ![s].effect = Null]
  /\ UNCHANGED <<Supply, events, active, Flags, mixer, call, applier>>

Waits(s, then) == call' = [pc |-> "wait", slot |-> s, then |-> then]

(* initEffect takes the states out of the free containers.  The first      *)
(* effect of a slot makes it play.                                         *)
SetEffect(s, e) ==
  /\ Begins /\ Free /\ HasProps
  /\ s \in Used
  /\ e = Null \/ e \notin Live
  /\ LET a == [api EXCEPT ![s].effect = e]
         emptied == [i \in DOMAIN free |-> Null]
     IN IF api[s].state = "Initial"
        THEN /\ api' = [a EXCEPT ![s].dirty = FALSE]
             /\ Provide(a, {s}, emptied)
             /\ AddActiveEffectSlots(s)
             /\ Waits(s, "Playing")
        ELSE UpdateProps(a, s, emptied) /\ UNCHANGED <<active, mixer, call>>
  /\ UNCHANGED <<core, events, Flags, applier>>

(* The slots that s leads to: those in every set that has s and, of what   *)
(* it has, the target.                                                     *)
Chain(s) ==
  {x \in Slot : s # None /\ \A S \in SUBSET Slot :
                  s \in S /\ (\A y \in S : api[y].target \in S \cup {None}) => x \in S}

(* With a former target, which may be about to be deleted, the update is   *)
(* forced.                                                                 *)
SetTarget(s, t) ==
  /\ Begins /\ Free /\ HasProps
  /\ s \in Used /\ t \in Used \cup {None} /\ api[s].target # t
  /\ s \notin Chain(t)
  /\ LET a == [api EXCEPT ![s].target = t]
     IN IF api[s].target # None THEN api' = a /\ updateProps(a, s)
                                ELSE UpdateProps(a, s, free)
  /\ UNCHANGED <<core, events, active, Flags, mixer, call, applier>>

Play(s) ==
  /\ Begins /\ Free
  /\ s \in Used /\ api[s].state # "Playing"
  /\ api' = [api EXCEPT ![s].dirty = FALSE]
  /\ updateProps(api, s)
  /\ AddActiveEffectSlots(s)
  /\ Waits(s, "Playing")
  /\ UNCHANGED <<core, events, Flags, applier>>

Stop(s) ==
  /\ Begins /\ Free
  /\ s \in Used
  /\ RemoveActiveEffectSlots(s)
  /\ Waits(s, "Stopped")
  /\ UNCHANGED <<api, Supply, core, events, Flags, applier>>

Delete(s) ==
  /\ Begins /\ Free
  /\ s \in Used /\ \A x \in Used : api[x].target # s
  /\ RemoveActiveEffectSlots(s)
  /\ Waits(s, "deleted")
  /\ UNCHANGED <<api, Supply, core, events, Flags, applier>>

(* A mutant: the slot goes while a mix may still process it.               *)
CallEndsAtOnce ==
  /\ call.pc = "wait"
  /\ LET s == call.slot
     IN IF call.then = "deleted"
        THEN /\ api' = [api EXCEPT ![s] = Unused]
             /\ update' = [update EXCEPT ![s] = None]
             /\ core' = [core EXCEPT ![s].effect = None]
        ELSE api' = [api EXCEPT ![s].state = call.then] /\ UNCHANGED <<update, core>>
  /\ call' = Idle
  /\ UNCHANGED <<free, events, active, Flags, mixer, applier, calls>>

(* ~ALeffectslot deletes an update that was not applied.                   *)
CallEnds ==
  /\ call.pc = "wait"
  /\ Mixed
  /\ LET s == call.slot
     IN IF call.then = "deleted"
        THEN /\ api' = [api EXCEPT ![s] = Unused]
             /\ update' = [update EXCEPT ![s] = None]
             /\ core' = [core EXCEPT ![s].effect = None]
        ELSE api' = [api EXCEPT ![s].state = call.then] /\ UNCHANGED <<update, core>>
  /\ call' = Idle
  /\ UNCHANGED <<free, events, active, Flags, mixer, applier, calls>>

(* UpdateDeviceParams, of a device that was stopped.                       *)
ResetDevice ==
  /\ Begins /\ Free /\ Mixed
  /\ active' = Array(active.slots)
  /\ Provide(api, Used, free)
  /\ UNCHANGED <<api, core, events, Flags, mixer, call, applier>>

Calls ==
  \/ Gen \/ CallEnds \/ ResetDevice
  \/ \E s \in Slot :
       \/ Play(s) \/ Stop(s) \/ Delete(s)
       \/ \E e \in Effect \cup {Null} : SetEffect(s, e)
       \/ \E t \in Slot \cup {None} : SetTarget(s, t)

-----------------------------------------------------------------------------
(* alDeferUpdatesSOFT, and alProcessUpdatesSOFT with applyAllUpdates.      *)

deferUpdates ==
  /\ Begins /\ HasProps /\ ~deferred
  /\ deferred' = TRUE
  /\ UNCHANGED <<api, Supply, core, events, active, hold, updating, mixer, call, applier>>

HoldUpdates ==
  /\ HasProps /\ deferred
  /\ deferred' = FALSE /\ hold' = TRUE
  /\ applier' = [pc |-> "await"]
  /\ UNCHANGED <<api, Supply, core, events, active, updating, mixer, call, calls>>

AwaitUpdate ==
  /\ applier.pc = "await"
  /\ ~updating
  /\ applier' = [pc |-> "provide"]
  /\ UNCHANGED <<api, Supply, core, events, active, Flags, mixer, call, calls>>

UpdateAllEffectSlotProps ==
  /\ applier.pc = "provide"
  /\ Free
  /\ LET due == {s \in Used : api[s].state # "Stopped" /\ api[s].dirty}
     IN /\ Provide(api, due, free)
        /\ api' = [s \in Slot |-> IF s \in due THEN [api[s] EXCEPT !.dirty = FALSE] ELSE api[s]]
  /\ applier' = [pc |-> "release"]
  /\ UNCHANGED <<core, events, active, Flags, mixer, call, calls>>

ReleaseUpdates ==
  /\ applier.pc = "release"
  /\ hold' = FALSE
  /\ applier' = Idle
  /\ UNCHANGED <<api, Supply, core, events, active, deferred, updating, mixer, call, calls>>

Deferring == deferUpdates \/ HoldUpdates \/ AwaitUpdate \/ UpdateAllEffectSlotProps
             \/ ReleaseUpdates

-----------------------------------------------------------------------------
(* The mixer.                                                              *)

MixBegins ==
  /\ mixer.pc = "idle"
  /\ mixer' = [pc |-> "load"]
  /\ UNCHANGED <<api, Supply, core, events, active, Flags, call, applier, calls>>

MixLoads ==
  /\ mixer.pc = "load"
  /\ mixer' = [pc |-> "hold", array |-> active, same |-> TRUE, held |-> FALSE, todo |-> <<>>,
               left |-> 0, next |-> 0]
  /\ updating' = TRUE
  /\ UNCHANGED <<api, Supply, core, events, active, deferred, hold, call, applier, calls>>

MixLooks ==
  /\ mixer.pc = "hold"
  /\ mixer' = IF hold THEN [mixer EXCEPT !.pc = "updated", !.held = TRUE]
              ELSE [mixer EXCEPT !.pc = "update", !.todo = mixer.array.slots]
  /\ UNCHANGED <<api, Supply, core, events, active, Flags, call, applier, calls>>

(* A mutant: the event is written or the state is lost.                    *)
ReleasedIfRoom(s, given) == {"dropped", "event"}

(* Where the state that the slot had may go: nowhere when others hold it;  *)
(* else to the event thread or, when the ring of events is full, back with *)
(* the container.                                                          *)
Released(s, given) ==
  LET old == core[s].effect
      others == \/ old \notin Effect \/ old = given.effect
                \/ \E x \in Slot : \/ api[x].effect = old
                                   \/ x # s /\ core[x].effect = old
                                   \/ x # s /\ update[x] # None /\ update[x].effect = old
                \/ old \in events \/ \E i \in DOMAIN free : free[i] = old
  IN IF others THEN {"dropped"} ELSE {"event", "kept"}

CalcEffectSlotParams(s) ==
  LET given == update[s]
      resort == core[s].target # given.target
  IN /\ update' = [update EXCEPT ![s] = None]
     /\ core' = [core EXCEPT ![s] = given]
     /\ \E released \in Released(s, given) :
          /\ events' = events \cup IF released = "event" THEN {core[s].effect} ELSE {}
          /\ free' = <<IF released = "kept" THEN core[s].effect ELSE Null>> \o free
     /\ mixer' = [mixer EXCEPT !.todo = Tail(@),
                               !.array.sorted = IF resort THEN <<>> ELSE @]

MixUpdates ==
  /\ mixer.pc = "update" /\ mixer.todo # <<>>
  /\ LET s == Head(mixer.todo)
     IN IF update[s] # None THEN CalcEffectSlotParams(s)
        ELSE /\ mixer' = [mixer EXCEPT !.todo = Tail(@)]
             /\ UNCHANGED <<update, core, events, free>>
  /\ UNCHANGED <<api, active, Flags, call, applier, calls>>

MixUpdated ==
  /\ mixer.pc \in {"update", "updated"} /\ mixer.todo = <<>>
  /\ updating' = FALSE
  /\ mixer' = [mixer EXCEPT !.pc = "sort"]
  /\ UNCHANGED <<api, Supply, core, events, active, deferred, hold, call, applier, calls>>

(* std::partition of the first k: those of P first, in whatever order, and *)
(* the split between them and the others.                                  *)
Partitions(s, k, P) ==
  {r \in [order: [DOMAIN s -> Range(s)], split: 0..k] :
     /\ IsInjective(r.order)
     /\ \A i \in DOMAIN s : i > k => r.order[i] = s[i]
     /\ \A i \in 1..k : r.order[i] \in P <=> i <= r.split}

(* The slots without a target go last, unless the array is sorted.         *)
MixSorts ==
  /\ mixer.pc = "sort"
  /\ LET slots == mixer.array.slots
         P == {s \in Range(slots) : core[s].target # None}
     IN IF slots = <<>> \/ mixer.array.sorted # <<>>
        THEN mixer' = [mixer EXCEPT !.pc = "process"]
        ELSE \E r \in Partitions(slots, Len(slots), P) :
               mixer' = [mixer EXCEPT !.pc = "partition", !.array.sorted = r.order,
                                      !.left = r.split, !.next = Len(slots)]
  /\ UNCHANGED <<api, Supply, core, events, active, Flags, call, applier, calls>>

(* The first of the order are left to be sorted, and something is still to *)
(* be looked at as their target.                                           *)
Unsorted == mixer.left > 1 /\ mixer.next # mixer.left

(* Those whose target is the next from the end go before what is sorted.   *)
MixPartitions ==
  /\ mixer.pc = "partition" /\ Unsorted
  /\ LET order == mixer.array.sorted
         P == {s \in Range(order) : core[s].target # order[mixer.next]}
     IN \E r \in Partitions(order, mixer.left, P) :
          mixer' = [mixer EXCEPT !.array.sorted = r.order, !.left = r.split, !.next = @ - 1]
  /\ UNCHANGED <<api, Supply, core, events, active, Flags, call, applier, calls>>

MixSorted ==
  /\ mixer.pc = "partition" /\ ~Unsorted
  /\ mixer' = [mixer EXCEPT !.pc = "process", !.left = 0, !.next = 0]
  /\ UNCHANGED <<api, Supply, core, events, active, Flags, call, applier, calls>>

(* Every slot has been processed.  The sorted slots are part of the array. *)
MixEnds ==
  /\ mixer.pc = "process"
  /\ mixer' = Idle
  /\ active' = IF mixer.same THEN mixer.array ELSE active
  /\ UNCHANGED <<api, Supply, core, events, Flags, call, applier, calls>>

Mix ==
  \/ MixBegins \/ MixLoads \/ MixLooks \/ MixUpdates \/ MixUpdated \/ MixSorts
  \/ MixPartitions \/ MixSorted \/ MixEnds

(* The event thread lets a state go.                                       *)
EventThread ==
  /\ \E e \in events : events' = events \ {e}
  /\ UNCHANGED <<api, Supply, core, active, Flags, mixer, call, applier, calls>>

Next == Calls \/ Deferring \/ Mix \/ EventThread

Spec == Init /\ [][Next]_vars

-----------------------------------------------------------------------------
(* What holds.                                                             *)

TypeOK ==
  /\ \A s \in Slot : /\ api[s].target \in Slot \cup {None}
                     /\ core[s].target \in Slot \cup {None}
                     /\ core[s].effect \in Effect \cup {Null, None}
  /\ events \subseteq Effect
  /\ IsInjective(active.slots) /\ Range(active.slots) \subseteq Used

(* What the mixer comes across is in use and has an effect.                *)
ProcessedIsUsed ==
  "array" \in DOMAIN mixer =>
    \A s \in Range(mixer.array.slots) : s \in Used /\ core[s].effect # None

(* A slot that plays is known to the mixer as calls have set it, but for   *)
(* an update on its way or due.                                            *)
NoneForgotten ==
  \A s \in Used :
    api[s].state = "Playing" /\ update[s] = None /\ ~api[s].dirty =>
      core[s] = [target |-> api[s].target, effect |-> api[s].effect]

(* A slot that is processed leads to one in use: a slot can be deleted as  *)
(* soon as nothing targets it, though the mixer may not know yet.  The     *)
(* update that auxeffectslot.cpp 620 forces "in case it's about to be      *)
(* deleted" is not taken by a mix from which updates are held: there a slot*)
(* may lead to a deleted one, while the update that leads elsewhere waits. *)
TargetIsUsed(s) == core[s].target \in Used \cup {None}

Processing == "array" \in DOMAIN mixer /\ mixer.pc \in {"sort", "partition", "process"}

TargetsAreUsed ==
  Processing => \A s \in Range(mixer.array.slots) :
    \/ TargetIsUsed(s)
    \/ mixer.held /\ update[s] # None /\ update[s].target \in Used \cup {None}

(* Of the slots of S, s leads to the output: it is in no part of S from    *)
(* which nothing does.                                                     *)
Reaches(s, S) ==
  \A C \in SUBSET S :
    s \in C => \E x \in C : core[x].target = None \/ core[x].target \in S \ C

(* A slot whose effect contributes to the output is processed before the   *)
(* slot it feeds.                                                          *)
BeforeItsTarget ==
  mixer.pc = "process" =>
    LET order == mixer.array.sorted
    IN \A i, j \in DOMAIN order :
         core[order[i]].target = order[j] /\ Reaches(order[j], Range(order)) => i < j

Inv == TypeOK /\ ProcessedIsUsed /\ NoneForgotten

(* The mixer frees nothing.                                                *)
MixFreesNothing == [][Mix => Live \cap Effect \subseteq Live']_vars

(* The assertion in ProcessContexts: at least one slot has no target.      *)
SomeSlotHasNoTarget ==
  mixer.pc = "sort" /\ mixer.array.slots # <<>> /\ mixer.array.sorted = <<>> =>
    \E s \in Range(mixer.array.slots) : core[s].target = None

=============================================================================
