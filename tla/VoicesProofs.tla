---------------------------- MODULE VoicesProofs -----------------------------
(***************************************************************************)
(* Proofs about ContextLife, as MCVoices instantiates it: for any finite   *)
(* sets of threads and of contexts, every reference that is counted is     *)
(* held, and nothing that is freed is used, by a call or by the mixer; and *)
(* at the end about KeyboardTouches: what is pressed, drawn and falls is   *)
(* the same key, for any number of keys and fingers.                       *)
(*                                                                         *)
(* The argument for ContextLife, part by part of the invariant Whole: a    *)
(* step moves the call of one thread (CallMoves), so each part has a law   *)
(* of what such a move may do (XStep: whoever else was in order stays so)  *)
(* and a lemma that every action obeys the law (XNext, a case for each     *)
(* action).                                                                *)
(***************************************************************************)
EXTENDS MCVoices, FiniteSetTheorems, TLAPS

(* ALCcontext::deinit, and the records that a call of a thread may be. *)
DeinitPcs == {"deinit", "global", "await", "array", "old", "events"}
MaybeContext == Context \cup {None}

CallRecords ==
  [pc: {"idle", "load", "unmake", "close", "stop", "pause", "resume", "reset", "reopen"}]
  \cup [pc: {"count", "unlock", "make", "exchange", "made", "thread"}, c: MaybeContext]
  \cup [pc: {"using", "create", "update", "new", "fail", "list", "effect"}, c: Context]
  \cup [pc: {"created"}, c: Context, old: Nat]
  \cup [pc: {"destroy", "last", "destroyed"} \cup DeinitPcs, c: Context, old: Nat,
        then: {"last"}]
  \cup [pc: {"orphans"}, orphans: SUBSET Context, gone: SUBSET Context]
  \cup [pc: {"orphans"} \cup DeinitPcs, c: Context, old: Nat, then: {"orphans"},
        orphans: SUBSET Context, gone: SUBSET Context]

DeviceRecords ==
  [listed: BOOLEAN, refs: Nat, live: BOOLEAN, running: BOOLEAN, paused: BOOLEAN, connected: BOOLEAN]

(* The calls by kind: one that creates, destroys or closes; and where a    *)
(* call stands when it is in a lock.                                       *)
Creating(r) == r.pc \in {"create", "update", "new", "fail", "created", "list"}
Destroying(r) ==
  \/ r.pc \in {"destroy", "last", "destroyed"}
  \/ r.pc \in DeinitPcs /\ r.then = "last"
Closing(r) ==
  \/ r.pc = "orphans"
  \/ r.pc \in DeinitPcs /\ r.then = "orphans"

InState(r) ==
  r.pc \in {"update", "new", "fail", "created", "last", "orphans", "stop"} \cup DeinitPcs
InList(r) == r.pc \in {"create", "close", "reset", "reopen"} \/ Destroying(r)
InGlobal(r) == r.pc \in {"load", "count", "unlock", "exchange", "made", "unmake"}

(* The references a call holds: to a context, to one it has taken out of   *)
(* sGlobalContext, and to the device.                                      *)
HoldsIt(r, c) ==
  \/ r.pc \in {"using", "make", "exchange", "made", "thread", "unlock", "created", "list"} /\ r.c = c
  \/ Destroying(r) /\ r.c = c
  \/ Closing(r) /\ c \in r.orphans
TakesOut(r, c) == r.pc = "await" /\ r.c = c
HoldsDevice(r) ==
  \/ Creating(r) \/ Closing(r)
  \/ r.pc \in {"effect", "close", "stop", "pause", "resume", "reset", "reopen"}

(* A call owns the context that it makes or takes down: no other call has  *)
(* a hand in its lists.  Such a context is in the array of contexts, and   *)
(* has its event thread, from one place of the call to another.            *)
Owns(r, c) ==
  \/ (Creating(r) \/ Destroying(r)) /\ r.c = c
  \/ Closing(r) /\ c \in r.orphans
Placed(r, c) ==
  \/ r.pc \in {"created", "list", "destroy"} /\ r.c = c
  \/ r.pc \in {"deinit", "global", "await", "array"} /\ r.c = c
  \/ Closing(r) /\ c \in r.orphans \ r.gone
Serves(r, c) ==
  \/ r.pc \in {"created", "list", "destroy"} \cup DeinitPcs /\ r.c = c
  \/ Closing(r) /\ c \in r.orphans \ r.gone

(* The parts of the invariant.  First the types, which say of a call that  *)
(* closes the device that whom it takes down is one of its orphans.        *)
Typed ==
  /\ life \in [Context -> {"unmade", "making", "live", "freed"}]
  /\ refs \in [Context -> Nat]
  /\ events \subseteq Context /\ ContextList \subseteq Context
  /\ device \in DeviceRecords
  /\ global \in MaybeContext /\ globalLock \in BOOLEAN
  /\ local \in [Thread -> MaybeContext]
  /\ ListLock \in Thread \cup {None} /\ StateLock \in Thread \cup {None}
  /\ call \in [Thread -> CallRecords]
  /\ \A t \in Thread : Closing(call[t]) =>
       /\ call[t].gone \subseteq call[t].orphans
       /\ call[t].pc # "orphans" => call[t].c \in call[t].gone
ArraysTyped ==
  /\ DOMAIN arrays \subseteq Nat /\ IsFiniteSet(DOMAIN arrays)
  /\ arrays \in [DOMAIN arrays -> SUBSET Context]
  /\ 0 \in DOMAIN arrays /\ arrays[0] = {}
  /\ mContexts \in DOMAIN arrays
MixTyped ==
  render \in [pc: {"idle", "begun"}] \cup [pc: {"contexts"}, array: Nat, left: SUBSET Context]

(* The locks: who is in one has it, and only who is in StateLock has that. *)
(* The device of a call that resets or reopens it stays listed.            *)
StateLocked == \A t \in Thread : InState(call[t]) <=> StateLock = t
ListLocked ==
  /\ \A t \in Thread : InList(call[t]) => ListLock = t
  /\ \A t \in Thread : call[t].pc \in {"reset", "reopen"} => device.listed
GlobalLocked ==
  /\ \A t \in Thread : InGlobal(call[t]) => globalLock
  /\ \A t, u \in Thread : InGlobal(call[t]) /\ InGlobal(call[u]) => t = u

(* A context loaded from sGlobalContext and not yet counted is still held: *)
(* as the current one, or by the call that took it out and now waits.      *)
LoadedIsHeld ==
  \A t \in Thread : Life!At(t, "count") /\ call[t].c # None =>
    global = call[t].c \/ \E u \in Thread : TakesOut(call[u], call[t].c)

(* The counts: of the device, by contexts, the list and calls; those of    *)
(* the contexts follow below.                                              *)
One(b) == IF b THEN 1 ELSE 0
Live == {c \in Context : life[c] = "live"}
DeviceHolders == {t \in Thread : HoldsDevice(call[t])}
DeviceCounted ==
  /\ device.refs = Cardinality(Live) + One(device.listed) + Cardinality(DeviceHolders)
  /\ device.live = (device.refs > 0)

(* Nobody but its owner has a hand in a context, and it is not listed. *)
OneOwner ==
  /\ \A t, u \in Thread : \A c \in Context : Owns(call[t], c) /\ Owns(call[u], c) => t = u
  /\ \A t \in Thread : \A c \in ContextList : ~Owns(call[t], c)
MakingOK == \A t \in Thread : call[t].pc \in {"create", "update", "new", "fail"} => life[call[t].c] = "making"

(* What the array and the event threads have is what the list and the      *)
(* calls say.                                                              *)
PlacedOK == arrays[mContexts] = {c \in Context : c \in ContextList \/ \E t \in Thread : Placed(call[t], c)}
EventsOK == events = {c \in Context : c \in ContextList \/ \E t \in Thread : Serves(call[t], c)}

(* The array a call has replaced is not the one in place, and has nothing  *)
(* that goes beyond the one in place and the context that leaves.          *)
OldOK == \A t \in Thread :
  /\ call[t].pc \in {"created", "old"} => call[t].old \in DOMAIN arrays /\ call[t].old # mContexts
  /\ call[t].pc = "created" => arrays[call[t].old] \subseteq arrays[mContexts]
  /\ call[t].pc = "old" => arrays[call[t].old] \subseteq arrays[mContexts] \cup {call[t].c}

(* The mixer is in the array in place or in one that a call still keeps,   *)
(* and a device in which it mixes runs.  A device runs only while it has   *)
(* contexts, is listed, or a call is about to stop it.                     *)
MixOK ==
  /\ render.pc = "contexts" =>
       /\ render.array \in DOMAIN arrays /\ render.left \subseteq arrays[render.array]
       /\ \/ render.array \in {0, mContexts}
          \/ \E t \in Thread : call[t].pc \in {"created", "old"} /\ call[t].old = render.array
  /\ Life!Mixing => device.running
RunningOK == device.running =>
  \/ device.listed \/ arrays[mContexts] # {}
  \/ \E t \in Thread : \/ call[t].pc \in {"new", "close", "stop", "last"}
                       \/ Closing(call[t])
                       \/ call[t].pc \in {"old", "events"}

-----------------------------------------------------------------------------
(* Steps: a call that keeps its context, or more, goes on to its next place. *)
LEMMA MoveNamed ==
  ASSUME NEW r \in CallRecords, NEW q,
         \/ r.pc \in {"count", "unlock", "make", "exchange", "made", "thread"}
            /\ q \in {"count", "unlock", "make", "exchange", "made", "thread"}
         \/ r.pc \in {"create", "update", "new", "fail"} /\ q \in {"create", "update", "new", "fail"}
  PROVE  /\ [r EXCEPT !.pc = q] \in CallRecords
         /\ [r EXCEPT !.pc = q].pc = q /\ [r EXCEPT !.pc = q].c = r.c
  BY DEF CallRecords, DeinitPcs, MaybeContext

LEMMA MoveDeinit ==
  ASSUME NEW r \in CallRecords, NEW q,
         \/ r.pc \in DeinitPcs /\ q \in DeinitPcs \cup {r.then}
         \/ r.pc = "destroy" /\ q = "deinit"
         \/ r.pc = "last" /\ q = "destroyed"
  PROVE  /\ [r EXCEPT !.pc = q] \in CallRecords
         /\ [r EXCEPT !.pc = q].pc = q /\ [r EXCEPT !.pc = q].c = r.c
         /\ [r EXCEPT !.pc = q].old = r.old /\ [r EXCEPT !.pc = q].then = r.then
         /\ r.then = "orphans" => /\ [r EXCEPT !.pc = q].orphans = r.orphans
                                  /\ [r EXCEPT !.pc = q].gone = r.gone
  BY DEF CallRecords, DeinitPcs

-----------------------------------------------------------------------------
(* A step of thread t, and what it does to the call of t. *)
LifeStep(t) ==
  \/ Life!GetContextRef(t) \/ Life!EndUse(t) \/ Life!MakeContextCurrent(t)
  \/ Life!CreateContext(t) \/ Life!deinit(t) \/ Life!DestroyContext(t)
  \/ Life!CloseDevice(t) \/ Life!DeviceCalls(t)

Closer(r) == Closing(r) => r.gone \subseteq r.orphans /\ (r.pc # "orphans" => r.c \in r.gone)

Moves(t) ==
  call'[t] \in CallRecords /\ Closer(call'[t]) /\ call' = [call EXCEPT ![t] = call'[t]]

(* A step of a thread moves the call of that thread, to a record of the    *)
(* right kind, and no other.                                               *)
LEMMA CallMoves ==
  ASSUME Typed, ArraysTyped, NEW t \in Thread, LifeStep(t)
  PROVE  Moves(t)
<1> USE DEF Moves, Closer, Closing, DeinitPcs, Life!Goes, Life!Steps, Life!At, Life!Idle
<1>0. /\ call[t] \in CallRecords /\ call \in [Thread -> CallRecords] /\ Closer(call[t])
      /\ local[t] \in MaybeContext /\ global \in MaybeContext /\ ContextList \subseteq Context
      /\ mContexts \in Nat
  BY DEF Typed, ArraysTyped
<1>1. CASE Life!GetThreads(t)
  BY <1>1, <1>0 DEF Life!GetThreads, CallRecords, MaybeContext, Life!EmptyContextArray
<1>2. CASE Life!GetLocks(t)
  BY <1>2, <1>0 DEF Life!GetLocks, CallRecords, MaybeContext, Life!EmptyContextArray
<1>3. CASE Life!GetLoads(t)
  BY <1>3, <1>0 DEF Life!GetLoads, CallRecords, MaybeContext, Life!EmptyContextArray
<1>4. CASE Life!GetCounts(t)
  BY <1>4, <1>0, MoveNamed DEF Life!GetCounts, CallRecords
<1>5. CASE Life!GetUnlocks(t)
  BY <1>5, <1>0 DEF Life!GetUnlocks, CallRecords, MaybeContext, Life!EmptyContextArray
<1>6. CASE Life!EndUse(t)
  BY <1>6, <1>0 DEF Life!EndUse, CallRecords, MaybeContext, Life!EmptyContextArray
<1>7. CASE Life!Verify(t, "make")
  BY <1>7, <1>0 DEF Life!Verify, Life!VerifyContext, Life!VerifyNone, CallRecords, MaybeContext
<1>8. CASE Life!Verify(t, "thread")
  BY <1>8, <1>0 DEF Life!Verify, Life!VerifyContext, Life!VerifyNone, CallRecords, MaybeContext
<1>9. CASE Life!MakeLocks(t)
  BY <1>9, <1>0, MoveNamed DEF Life!MakeLocks, CallRecords
<1>10. CASE Life!MakeExchanges(t)
  BY <1>10, <1>0 DEF Life!MakeExchanges, CallRecords, MaybeContext, Life!EmptyContextArray
<1>11. CASE Life!MakeDrops(t)
  BY <1>11, <1>0 DEF Life!MakeDrops, CallRecords, MaybeContext, Life!EmptyContextArray
<1>12. CASE Life!MakeUnlocks(t)
  BY <1>12, <1>0 DEF Life!MakeUnlocks, CallRecords, MaybeContext, Life!EmptyContextArray
<1>13. CASE Life!SetThreadContext(t)
  BY <1>13, <1>0 DEF Life!SetThreadContext, CallRecords, MaybeContext, Life!EmptyContextArray
<1>14. CASE Life!CreateVerifies(t)
  BY <1>14, <1>0 DEF Life!CreateVerifies, CallRecords, MaybeContext, Life!EmptyContextArray
<1>15. CASE Life!CreateLocks(t)
  BY <1>15, <1>0, MoveNamed DEF Life!CreateLocks, CallRecords
<1>16. CASE Life!CreateStops(t)
  BY <1>16, <1>0 DEF Life!CreateStops
<1>17. CASE Life!CreateUpdates(t)
  BY <1>17, <1>0, MoveNamed DEF Life!CreateUpdates, CallRecords
<1>18. CASE Life!CreateFails(t)
  BY <1>18, <1>0 DEF Life!CreateFails, CallRecords, MaybeContext, Life!EmptyContextArray
<1>19. CASE Life!CreateMakes(t)
  BY <1>19, <1>0 DEF Life!CreateMakes, CallRecords, MaybeContext, Life!EmptyContextArray
<1>20. CASE Life!CreateUnlocks(t)
  BY <1>20, <1>0 DEF Life!CreateUnlocks, CallRecords, MaybeContext, Life!EmptyContextArray
<1>21. CASE Life!CreateLists(t)
  BY <1>21, <1>0 DEF Life!CreateLists, CallRecords, MaybeContext, Life!EmptyContextArray
<1>42. CASE Life!CreateEnds(t)
  BY <1>42, <1>0 DEF Life!CreateEnds, CallRecords
<1>22. CASE Life!DeinitLocal(t)
  BY <1>22, <1>0, MoveDeinit DEF Life!DeinitLocal, CallRecords
<1>23. CASE Life!DeinitGlobal(t)
  BY <1>23, <1>0, MoveDeinit DEF Life!DeinitGlobal, CallRecords
<1>24. CASE Life!DeinitAwaits(t)
  BY <1>24, <1>0, MoveDeinit DEF Life!DeinitAwaits, CallRecords
<1>25. CASE Life!DeinitSwaps(t)
  BY <1>25, <1>0, MoveDeinit DEF Life!DeinitSwaps, CallRecords
<1>26. CASE Life!DeinitDeletes(t)
  BY <1>26, <1>0, MoveDeinit DEF Life!DeinitDeletes, CallRecords
<1>27. CASE Life!DeinitStopsEvents(t)
  BY <1>27, <1>0, MoveDeinit DEF Life!DeinitStopsEvents, CallRecords
<1>28. ASSUME NEW c \in Context, Life!DestroyVerifies(t, c)
     PROVE  Moves(t)
  BY <1>28, <1>0 DEF Life!DestroyVerifies, CallRecords, Life!EmptyContextArray
<1>29. CASE Life!DestroyLocks(t)
  BY <1>29, <1>0, MoveDeinit DEF Life!DestroyLocks, CallRecords
<1>30. CASE Life!DestroyStops(t)
  BY <1>30, <1>0, MoveDeinit DEF Life!DestroyStops, CallRecords
<1>31. CASE Life!DestroyDrops(t)
  BY <1>31, <1>0 DEF Life!DestroyDrops, CallRecords, MaybeContext, Life!EmptyContextArray
<1>32. CASE Life!CloseVerifies(t)
  BY <1>32, <1>0 DEF Life!CloseVerifies, CallRecords, MaybeContext, Life!EmptyContextArray
<1>33. CASE Life!CloseLocks(t)
  BY <1>33, <1>0 DEF Life!CloseLocks, CallRecords, MaybeContext, Life!EmptyContextArray
<1>34. CASE Life!CloseOrphan(t)
  BY <1>34, <1>0 DEF Life!CloseOrphan, CallRecords, MaybeContext, Life!EmptyContextArray
<1>35. CASE Life!CloseDrops(t)
  BY <1>35, <1>0 DEF Life!CloseDrops, CallRecords, MaybeContext, Life!EmptyContextArray
<1>36. CASE Life!CloseStops(t)
  BY <1>36, <1>0 DEF Life!CloseStops, CallRecords, MaybeContext, Life!EmptyContextArray
<1>37. ASSUME NEW pc \in {"pause", "resume", "reset", "reopen"}, Life!VerifyDevice(t, pc)
     PROVE  Moves(t)
  BY <1>37, <1>0 DEF Life!VerifyDevice, CallRecords
<1>38. CASE Life!DevicePause(t)
  BY <1>38, <1>0 DEF Life!DevicePause, CallRecords, MaybeContext, Life!EmptyContextArray
<1>39. CASE Life!DeviceResume(t)
  BY <1>39, <1>0 DEF Life!DeviceResume, CallRecords, MaybeContext, Life!EmptyContextArray
<1>40. CASE Life!ResetDevice(t)
  BY <1>40, <1>0 DEF Life!ResetDevice, CallRecords, MaybeContext, Life!EmptyContextArray
<1>41. CASE Life!ReopenDevice(t)
  BY <1>41, <1>0 DEF Life!ReopenDevice, CallRecords, MaybeContext, Life!EmptyContextArray
<1> QED
  BY <1>1, <1>2, <1>3, <1>4, <1>5, <1>6, <1>7, <1>8, <1>9, <1>10, <1>11, <1>12, <1>13, <1>14,
     <1>15, <1>16, <1>17, <1>18, <1>19, <1>20, <1>21, <1>22, <1>23, <1>24, <1>25, <1>26, <1>27,
     <1>28, <1>29, <1>30, <1>31, <1>32, <1>33, <1>34, <1>35, <1>36, <1>37, <1>38, <1>39, <1>40,
     <1>41, <1>42
  DEF LifeStep, Life!GetContextRef, Life!MakeContextCurrent, Life!CreateContext, Life!deinit,
      Life!DestroyContext, Life!CloseDevice, Life!DeviceCalls

-----------------------------------------------------------------------------
(* The references of t to c: by its call, by what it took out, as its own. *)
Weight(r, m, c) == One(HoldsIt(r, c)) + One(TakesOut(r, c)) + One(m = c)

Holders(c) == {t \in Thread : HoldsIt(call[t], c)}
Takers(c) == {t \in Thread : TakesOut(call[t], c)}
Locals(c) == {t \in Thread : local[t] = c}

Held(c) ==
  Cardinality(Holders(c)) + Cardinality(Takers(c)) + Cardinality(Locals(c))
  + One(global = c) + One(c \in ContextList)

(* A context is counted as often as it is held, and lives while it is. *)
RefsCounted == \A c \in Context : refs[c] = Held(c) /\ (life[c] = "live" <=> refs[c] > 0)

(* ContextLife counts with the Cardinality of its instance: it is the same. *)
LEMMA SameCardinality == ASSUME NEW S PROVE Life!Cardinality(S) = Cardinality(S)
  BY DEF Life!Cardinality, Cardinality, Life!IsFiniteSet, IsFiniteSet
LEMMA SameFinite == ASSUME NEW S PROVE Life!IsFiniteSet(S) = IsFiniteSet(S)
  BY DEF Life!IsFiniteSet, IsFiniteSet

(* A count of a set that changes in one element changes by one. *)
LEMMA CountByOne ==
  ASSUME NEW S, IsFiniteSet(S), NEW R, NEW t, \A u : u # t => (u \in R <=> u \in S)
  PROVE  /\ IsFiniteSet(R) /\ Cardinality(R) \in Nat /\ Cardinality(S) \in Nat
         /\ Cardinality(R) = Cardinality(S) + One(t \in R) - One(t \in S)
<1> DEFINE Rest == S \ {t}
           s == Cardinality(S)
           rest == Cardinality(Rest)
<1>1. IsFiniteSet(Rest) /\ rest = IF t \in S THEN s - 1 ELSE s
  BY FS_RemoveElement
<1>2. s \in Nat /\ rest \in Nat
  BY <1>1, FS_CardinalityType
<1>3. IsFiniteSet(R) /\ Cardinality(R) = IF t \in R THEN rest + 1 ELSE rest
  <2>1. CASE t \in R
    <3>1. R = Rest \cup {t} /\ t \notin Rest
      BY <2>1
    <3> HIDE DEF Rest
    <3>2. IsFiniteSet(Rest \cup {t}) /\ Cardinality(Rest \cup {t}) = rest + 1
      BY <3>1, <1>1, FS_AddElement
    <3> QED BY <3>1, <3>2, <2>1
  <2>2. CASE t \notin R
    <3>1. R = Rest BY <2>2
    <3> QED BY <3>1, <2>2, <1>1
  <2> QED BY <2>1, <2>2
<1> HIDE DEF Rest, s, rest
<1>4. s = Cardinality(S)
  BY DEF s
<1> QED BY <1>1, <1>2, <1>3, <1>4 DEF One

LEMMA CountOfThreads ==
  ASSUME NEW S \in SUBSET Thread, NEW R \in SUBSET Thread, NEW t \in Thread,
         \A u \in Thread : u # t => (u \in R <=> u \in S)
  PROVE  /\ Cardinality(R) \in Nat /\ Cardinality(S) \in Nat
         /\ Cardinality(R) = Cardinality(S) + One(t \in R) - One(t \in S)
<1>1. IsFiniteSet(S)
  BY LifeAssumptions, FS_Subset
<1>2. \A u : u # t => (u \in R <=> u \in S)
  OBVIOUS
<1> QED BY <1>1, <1>2, CountByOne

LEMMA HeldTyped ==
  ASSUME NEW c
  PROVE  /\ Cardinality(Holders(c)) \in Nat /\ Cardinality(Takers(c)) \in Nat
         /\ Cardinality(Locals(c)) \in Nat
<1>1. Holders(c) \in SUBSET Thread /\ Takers(c) \in SUBSET Thread /\ Locals(c) \in SUBSET Thread
  BY DEF Holders, Takers, Locals
<1>2. IsFiniteSet(Holders(c)) /\ IsFiniteSet(Takers(c)) /\ IsFiniteSet(Locals(c))
  BY <1>1, LifeAssumptions, FS_Subset
<1> QED BY <1>2, FS_CardinalityType

(* What a step of t does to the holders of a context: t alone gains and    *)
(* loses, with its call and its own context, and the two shared places.    *)
LEMMA Recount ==
  ASSUME Typed, NEW t \in Thread, Moves(t), NEW c \in Context,
         \A u \in Thread : u # t => local'[u] = local[u]
  PROVE  /\ Held(c) \in Nat
         /\ Held(c)' = Held(c) + Weight(call'[t], local'[t], c) - Weight(call[t], local[t], c)
               + One(global' = c) - One(global = c) + One(c \in ContextList') - One(c \in ContextList)
<1>1. \A u \in Thread : u # t => call'[u] = call[u]
  BY DEF Moves, Typed
<1>2. /\ Cardinality(Holders(c))' = Cardinality(Holders(c)) + One(HoldsIt(call'[t], c)) - One(HoldsIt(call[t], c))
      /\ Cardinality(Holders(c)) \in Nat
  <2>1. \A u \in Thread : u # t => (u \in Holders(c)' <=> u \in Holders(c))
    BY <1>1 DEF Holders
  <2>2. (t \in Holders(c)' <=> HoldsIt(call'[t], c)) /\ (t \in Holders(c) <=> HoldsIt(call[t], c))
    BY DEF Holders
  <2>3. Holders(c) \in SUBSET Thread /\ Holders(c)' \in SUBSET Thread
    BY DEF Holders
  <2>4. /\ Cardinality(Holders(c)') = Cardinality(Holders(c)) + One(t \in Holders(c)') - One(t \in Holders(c))
        /\ Cardinality(Holders(c)) \in Nat
    BY <2>1, <2>3, CountOfThreads
  <2> QED BY <2>2, <2>4 DEF One
<1>3. /\ Cardinality(Takers(c))' = Cardinality(Takers(c)) + One(TakesOut(call'[t], c)) - One(TakesOut(call[t], c))
      /\ Cardinality(Takers(c)) \in Nat
  <2>1. \A u \in Thread : u # t => (u \in Takers(c)' <=> u \in Takers(c))
    BY <1>1 DEF Takers
  <2>2. (t \in Takers(c)' <=> TakesOut(call'[t], c)) /\ (t \in Takers(c) <=> TakesOut(call[t], c))
    BY DEF Takers
  <2>3. Takers(c) \in SUBSET Thread /\ Takers(c)' \in SUBSET Thread
    BY DEF Takers
  <2>4. /\ Cardinality(Takers(c)') = Cardinality(Takers(c)) + One(t \in Takers(c)') - One(t \in Takers(c))
        /\ Cardinality(Takers(c)) \in Nat
    BY <2>1, <2>3, CountOfThreads
  <2> QED BY <2>2, <2>4 DEF One
<1>4. /\ Cardinality(Locals(c))' = Cardinality(Locals(c)) + One(local'[t] = c) - One(local[t] = c)
      /\ Cardinality(Locals(c)) \in Nat
  <2>1. \A u \in Thread : u # t => (u \in Locals(c)' <=> u \in Locals(c))
    BY DEF Locals
  <2>2. (t \in Locals(c)' <=> local'[t] = c) /\ (t \in Locals(c) <=> local[t] = c)
    BY DEF Locals
  <2>3. Locals(c) \in SUBSET Thread /\ Locals(c)' \in SUBSET Thread
    BY DEF Locals
  <2>4. /\ Cardinality(Locals(c)') = Cardinality(Locals(c)) + One(t \in Locals(c)') - One(t \in Locals(c))
        /\ Cardinality(Locals(c)) \in Nat
    BY <2>1, <2>3, CountOfThreads
  <2> QED BY <2>2, <2>4 DEF One
<1> QED BY <1>2, <1>3, <1>4 DEF Held, Weight, One

LEMMA HeldIsCounted ==
  ASSUME Typed, NEW t \in Thread, NEW c \in Context,
         HoldsIt(call[t], c) \/ TakesOut(call[t], c) \/ local[t] = c \/ global = c \/ c \in ContextList
  PROVE  Held(c) >= 1
<1>1. CASE HoldsIt(call[t], c)
  <2>1. t \in Holders(c) BY <1>1 DEF Holders
  <2>2. IsFiniteSet(Holders(c)) BY LifeAssumptions, FS_Subset DEF Holders
  <2>3. Cardinality(Holders(c)) # 0 BY <2>1, <2>2, FS_EmptySet
  <2> QED BY <2>3, HeldTyped DEF Held, One
<1>2. CASE TakesOut(call[t], c)
  <2>1. t \in Takers(c) BY <1>2 DEF Takers
  <2>2. IsFiniteSet(Takers(c)) BY LifeAssumptions, FS_Subset DEF Takers
  <2>3. Cardinality(Takers(c)) # 0 BY <2>1, <2>2, FS_EmptySet
  <2> QED BY <2>3, HeldTyped DEF Held, One
<1>3. CASE local[t] = c
  <2>1. t \in Locals(c) BY <1>3 DEF Locals
  <2>2. IsFiniteSet(Locals(c)) BY LifeAssumptions, FS_Subset DEF Locals
  <2>3. Cardinality(Locals(c)) # 0 BY <2>1, <2>2, FS_EmptySet
  <2> QED BY <2>3, HeldTyped DEF Held, One
<1>4. CASE global = c \/ c \in ContextList
  BY <1>4, HeldTyped DEF Held, One
<1> QED BY <1>1, <1>2, <1>3, <1>4

-----------------------------------------------------------------------------
(* The counts of the contexts follow their holders. *)
LEMMA RefsStep ==
  ASSUME Typed, RefsCounted, NEW t \in Thread, Moves(t),
         \A u \in Thread : u # t => local'[u] = local[u],
         \A c \in Context :
           /\ refs'[c] = refs[c] + Weight(call'[t], local'[t], c) - Weight(call[t], local[t], c)
                + One(global' = c) - One(global = c)
                + One(c \in ContextList') - One(c \in ContextList)
           /\ life'[c] = "live" <=> refs'[c] > 0
  PROVE  RefsCounted'
  BY Recount DEF RefsCounted

LEMMA RefsNext ==
  ASSUME Typed, ArraysTyped, RefsCounted, LoadedIsHeld, OneOwner, MakingOK,
         NEW t \in Thread, LifeStep(t)
  PROVE  RefsCounted'
<1> USE DEF Closing, Destroying, DeinitPcs, Life!Goes, Life!Steps, Life!At, Life!Idle, HoldsIt, TakesOut
<1>a. Moves(t)
  BY CallMoves
<1>b. /\ call[t] \in CallRecords /\ call \in [Thread -> CallRecords]
      /\ local[t] \in MaybeContext /\ local \in [Thread -> MaybeContext]
      /\ global \in MaybeContext /\ ContextList \subseteq Context
      /\ refs \in [Context -> Nat] /\ life \in [Context -> {"unmade", "making", "live", "freed"}]
  BY DEF Typed
<1> DEFINE P(c) ==
             /\ refs'[c] = refs[c] + Weight(call'[t], local'[t], c) - Weight(call[t], local[t], c)
                  + One(global' = c) - One(global = c)
                  + One(c \in ContextList') - One(c \in ContextList)
             /\ life'[c] = "live" <=> refs'[c] > 0
<1>c. \A c \in Context : life[c] = "live" <=> refs[c] > 0
  BY DEF RefsCounted
<1>d. \A c \in Context :
        HoldsIt(call[t], c) \/ TakesOut(call[t], c) \/ local[t] = c \/ global = c \/ c \in ContextList
          => refs[c] >= 1
  BY HeldIsCounted DEF RefsCounted
<1>1. CASE Life!GetThreads(t)
  <2>1. \A c \in Context : P(c)
    BY <1>1, <1>b, <1>c, <1>d, LifeAssumptions
    DEF Life!GetThreads, Weight, One, CallRecords, MaybeContext, Life!Drop, Life!DropAny, Life!AddRef,
        Life!Contexts, Life!Current
  <2>2. \A u \in Thread : u # t => local'[u] = local[u]
    BY <1>1, <1>b DEF Life!GetThreads, Life!Current
  <2> QED BY <2>1, <2>2, <1>a, RefsStep
<1>2. CASE Life!GetLocks(t)
  <2>1. \A c \in Context : P(c)
    BY <1>2, <1>b, <1>c, <1>d, LifeAssumptions
    DEF Life!GetLocks, Weight, One, CallRecords, MaybeContext, Life!Drop, Life!DropAny, Life!AddRef,
        Life!Contexts, Life!Current
  <2>2. \A u \in Thread : u # t => local'[u] = local[u]
    BY <1>2, <1>b DEF Life!GetLocks, Life!Current
  <2> QED BY <2>1, <2>2, <1>a, RefsStep
<1>3. CASE Life!GetLoads(t)
  <2>1. \A c \in Context : P(c)
    BY <1>3, <1>b, <1>c, <1>d, LifeAssumptions
    DEF Life!GetLoads, Weight, One, CallRecords, MaybeContext, Life!Drop, Life!DropAny, Life!AddRef,
        Life!Contexts, Life!Current
  <2>2. \A u \in Thread : u # t => local'[u] = local[u]
    BY <1>3, <1>b DEF Life!GetLoads, Life!Current
  <2> QED BY <2>1, <2>2, <1>a, RefsStep
<1>4. CASE Life!GetCounts(t)
  <2>0. call[t].c \in MaybeContext /\ (call[t].c # None => refs[call[t].c] >= 1)
    <3>1. call[t].c \in MaybeContext
      BY <1>4, <1>b DEF Life!GetCounts, CallRecords
    <3>2. ASSUME call[t].c # None, NEW u \in Thread, TakesOut(call[u], call[t].c)
          PROVE  refs[call[t].c] >= 1
      BY <3>1, <3>2, HeldIsCounted DEF RefsCounted, MaybeContext
    <3> QED BY <3>1, <3>2, <1>4, <1>d DEF LoadedIsHeld, Life!GetCounts, MaybeContext
  <2>1. \A c \in Context : P(c)
    BY <2>0, <1>4, <1>b, <1>c, <1>d, LifeAssumptions, MoveNamed
    DEF Life!GetCounts, Weight, One, CallRecords, MaybeContext, Life!Drop, Life!DropAny, Life!AddRef,
        Life!Contexts, Life!Current
  <2>2. \A u \in Thread : u # t => local'[u] = local[u]
    BY <1>4, <1>b DEF Life!GetCounts, Life!Current
  <2> QED BY <2>1, <2>2, <1>a, RefsStep
<1>5. CASE Life!GetUnlocks(t)
  <2>1. \A c \in Context : P(c)
    BY <1>5, <1>b, <1>c, <1>d, LifeAssumptions
    DEF Life!GetUnlocks, Weight, One, CallRecords, MaybeContext, Life!Drop, Life!DropAny, Life!AddRef,
        Life!Contexts, Life!Current
  <2>2. \A u \in Thread : u # t => local'[u] = local[u]
    BY <1>5, <1>b DEF Life!GetUnlocks, Life!Current
  <2> QED BY <2>1, <2>2, <1>a, RefsStep
<1>6. CASE Life!EndUse(t)
  <2>1. \A c \in Context : P(c)
    BY <1>6, <1>b, <1>c, <1>d, LifeAssumptions
    DEF Life!EndUse, Weight, One, CallRecords, MaybeContext, Life!Drop, Life!DropAny, Life!AddRef,
        Life!Contexts, Life!Current
  <2>2. \A u \in Thread : u # t => local'[u] = local[u]
    BY <1>6, <1>b DEF Life!EndUse, Life!Current
  <2> QED BY <2>1, <2>2, <1>a, RefsStep
<1>7. CASE Life!Verify(t, "make")
  <2>1. \A c \in Context : P(c)
    BY <1>7, <1>b, <1>c, <1>d, LifeAssumptions
    DEF Life!Verify, Life!VerifyContext, Life!VerifyNone, Weight, One, CallRecords,
        MaybeContext, Life!Drop, Life!DropAny, Life!AddRef,
        Life!Contexts, Life!Current
  <2>2. \A u \in Thread : u # t => local'[u] = local[u]
    BY <1>7, <1>b DEF Life!Verify, Life!VerifyContext, Life!VerifyNone, Life!Current
  <2> QED BY <2>1, <2>2, <1>a, RefsStep
<1>8. CASE Life!Verify(t, "thread")
  <2>1. \A c \in Context : P(c)
    BY <1>8, <1>b, <1>c, <1>d, LifeAssumptions
    DEF Life!Verify, Life!VerifyContext, Life!VerifyNone, Weight, One, CallRecords,
        MaybeContext, Life!Drop, Life!DropAny, Life!AddRef,
        Life!Contexts, Life!Current
  <2>2. \A u \in Thread : u # t => local'[u] = local[u]
    BY <1>8, <1>b DEF Life!Verify, Life!VerifyContext, Life!VerifyNone, Life!Current
  <2> QED BY <2>1, <2>2, <1>a, RefsStep
<1>9. CASE Life!MakeLocks(t)
  <2>1. \A c \in Context : P(c)
    BY <1>9, <1>b, <1>c, <1>d, LifeAssumptions, MoveNamed
    DEF Life!MakeLocks, Weight, One, CallRecords, MaybeContext, Life!Drop, Life!DropAny, Life!AddRef,
        Life!Contexts, Life!Current
  <2>2. \A u \in Thread : u # t => local'[u] = local[u]
    BY <1>9, <1>b DEF Life!MakeLocks, Life!Current
  <2> QED BY <2>1, <2>2, <1>a, RefsStep
<1>10. CASE Life!MakeExchanges(t)
  <2>1. \A c \in Context : P(c)
    BY <1>10, <1>b, <1>c, <1>d, LifeAssumptions
    DEF Life!MakeExchanges, Weight, One, CallRecords, MaybeContext, Life!Drop, Life!DropAny,
        Life!AddRef,
        Life!Contexts, Life!Current
  <2>2. \A u \in Thread : u # t => local'[u] = local[u]
    BY <1>10, <1>b DEF Life!MakeExchanges, Life!Current
  <2> QED BY <2>1, <2>2, <1>a, RefsStep
<1>11. CASE Life!MakeDrops(t)
  <2>1. \A c \in Context : P(c)
    BY <1>11, <1>b, <1>c, <1>d, LifeAssumptions
    DEF Life!MakeDrops, Weight, One, CallRecords, MaybeContext, Life!Drop, Life!DropAny, Life!AddRef,
        Life!Contexts, Life!Current
  <2>2. \A u \in Thread : u # t => local'[u] = local[u]
    BY <1>11, <1>b DEF Life!MakeDrops, Life!Current
  <2> QED BY <2>1, <2>2, <1>a, RefsStep
<1>12. CASE Life!MakeUnlocks(t)
  <2>1. \A c \in Context : P(c)
    BY <1>12, <1>b, <1>c, <1>d, LifeAssumptions
    DEF Life!MakeUnlocks, Weight, One, CallRecords, MaybeContext, Life!Drop, Life!DropAny, Life!AddRef,
        Life!Contexts, Life!Current
  <2>2. \A u \in Thread : u # t => local'[u] = local[u]
    BY <1>12, <1>b DEF Life!MakeUnlocks, Life!Current
  <2> QED BY <2>1, <2>2, <1>a, RefsStep
<1>13. CASE Life!SetThreadContext(t)
  <2>1. \A c \in Context : P(c)
    BY <1>13, <1>b, <1>c, <1>d, LifeAssumptions
    DEF Life!SetThreadContext, Weight, One, CallRecords, MaybeContext, Life!Drop, Life!DropAny,
        Life!AddRef,
        Life!Contexts, Life!Current
  <2>2. \A u \in Thread : u # t => local'[u] = local[u]
    BY <1>13, <1>b DEF Life!SetThreadContext, Life!Current
  <2> QED BY <2>1, <2>2, <1>a, RefsStep
<1>14. CASE Life!CreateVerifies(t)
  <2>1. \A c \in Context : P(c)
    BY <1>14, <1>b, <1>c, <1>d, LifeAssumptions
    DEF Life!CreateVerifies, Weight, One, CallRecords, MaybeContext, Life!Drop, Life!DropAny,
        Life!AddRef,
        Life!Contexts, Life!Current
  <2>2. \A u \in Thread : u # t => local'[u] = local[u]
    BY <1>14, <1>b DEF Life!CreateVerifies, Life!Current
  <2> QED BY <2>1, <2>2, <1>a, RefsStep
<1>15. CASE Life!CreateLocks(t)
  <2>1. \A c \in Context : P(c)
    BY <1>15, <1>b, <1>c, <1>d, LifeAssumptions, MoveNamed
    DEF Life!CreateLocks, Weight, One, CallRecords, MaybeContext, Life!Drop, Life!DropAny, Life!AddRef,
        Life!Contexts, Life!Current
  <2>2. \A u \in Thread : u # t => local'[u] = local[u]
    BY <1>15, <1>b DEF Life!CreateLocks, Life!Current
  <2> QED BY <2>1, <2>2, <1>a, RefsStep
<1>16. CASE Life!CreateStops(t)
  <2>1. \A c \in Context : P(c)
    BY <1>16, <1>b, <1>c, <1>d, LifeAssumptions
    DEF Life!CreateStops, Weight, One, CallRecords, MaybeContext, Life!Drop, Life!DropAny, Life!AddRef,
        Life!Contexts, Life!Current
  <2>2. \A u \in Thread : u # t => local'[u] = local[u]
    BY <1>16, <1>b DEF Life!CreateStops, Life!Current
  <2> QED BY <2>1, <2>2, <1>a, RefsStep
<1>17. CASE Life!CreateUpdates(t)
  <2>1. \A c \in Context : P(c)
    BY <1>17, <1>b, <1>c, <1>d, LifeAssumptions, MoveNamed
    DEF Life!CreateUpdates, Weight, One, CallRecords, MaybeContext, Life!Drop, Life!DropAny,
        Life!AddRef,
        Life!Contexts, Life!Current
  <2>2. \A u \in Thread : u # t => local'[u] = local[u]
    BY <1>17, <1>b DEF Life!CreateUpdates, Life!Current
  <2> QED BY <2>1, <2>2, <1>a, RefsStep
<1>18. CASE Life!CreateFails(t)
  <2>0. call[t].c \in Context /\ life[call[t].c] = "making"
    BY <1>18, <1>b DEF MakingOK, Life!CreateFails, CallRecords
  <2>1. \A c \in Context : P(c)
    BY <2>0, <1>18, <1>b, <1>c, <1>d, LifeAssumptions
    DEF Life!CreateFails, Weight, One, CallRecords, MaybeContext, Life!Drop, Life!DropAny, Life!AddRef,
        Life!Contexts, Life!Current
  <2>2. \A u \in Thread : u # t => local'[u] = local[u]
    BY <1>18, <1>b DEF Life!CreateFails, Life!Current
  <2> QED BY <2>1, <2>2, <1>a, RefsStep
<1>19. CASE Life!CreateMakes(t)
  <2>1. \A c \in Context : P(c)
    BY <1>19, <1>b, <1>c, <1>d, LifeAssumptions
    DEF Life!CreateMakes, Weight, One, CallRecords, MaybeContext, Life!Drop, Life!DropAny, Life!AddRef,
        Life!Contexts, Life!Current
  <2>2. \A u \in Thread : u # t => local'[u] = local[u]
    BY <1>19, <1>b DEF Life!CreateMakes, Life!Current
  <2> QED BY <2>1, <2>2, <1>a, RefsStep
<1>20. CASE Life!CreateUnlocks(t)
  <2>1. \A c \in Context : P(c)
    BY <1>20, <1>b, <1>c, <1>d, LifeAssumptions
    DEF Life!CreateUnlocks, Weight, One, CallRecords, MaybeContext, Life!Drop, Life!DropAny,
        Life!AddRef,
        Life!Contexts, Life!Current
  <2>2. \A u \in Thread : u # t => local'[u] = local[u]
    BY <1>20, <1>b DEF Life!CreateUnlocks, Life!Current
  <2> QED BY <2>1, <2>2, <1>a, RefsStep
<1>21. CASE Life!CreateLists(t)
  <2>0. call[t].c \in Context \ ContextList
    <3>1. call[t].c \in Context
      BY <1>21, <1>b DEF Life!CreateLists, CallRecords
    <3>2. Owns(call[t], call[t].c)
      BY <1>21 DEF Life!CreateLists, Owns, Creating
    <3> QED BY <3>1, <3>2 DEF OneOwner
  <2>1. \A c \in Context : P(c)
    BY <2>0, <1>21, <1>b, <1>c, <1>d, LifeAssumptions
    DEF Life!CreateLists, Weight, One, CallRecords, MaybeContext, Life!Drop, Life!DropAny, Life!AddRef,
        Life!Contexts, Life!Current
  <2>2. \A u \in Thread : u # t => local'[u] = local[u]
    BY <1>21, <1>b DEF Life!CreateLists, Life!Current
  <2> QED BY <2>1, <2>2, <1>a, RefsStep
<1>42. CASE Life!CreateEnds(t)
  <2>1. \A c \in Context : P(c)
    BY <1>42, <1>b, <1>c, LifeAssumptions
    DEF Life!CreateEnds, Weight, One, CallRecords, MaybeContext, Life!Contexts, Life!Current
  <2>2. \A u \in Thread : u # t => local'[u] = local[u]
    BY <1>42, <1>b DEF Life!CreateEnds, Life!Current
  <2> QED BY <2>1, <2>2, <1>a, RefsStep
<1>22. CASE Life!DeinitLocal(t)
  <2>1. \A c \in Context : P(c)
    BY <1>22, <1>b, <1>c, <1>d, LifeAssumptions, MoveDeinit
    DEF Life!DeinitLocal, Weight, One, CallRecords, MaybeContext, Life!Drop, Life!DropAny, Life!AddRef,
        Life!Contexts, Life!Current
  <2>2. \A u \in Thread : u # t => local'[u] = local[u]
    BY <1>22, <1>b DEF Life!DeinitLocal, Life!Current
  <2> QED BY <2>1, <2>2, <1>a, RefsStep
<1>23. CASE Life!DeinitGlobal(t)
  <2>1. \A c \in Context : P(c)
    BY <1>23, <1>b, <1>c, <1>d, LifeAssumptions, MoveDeinit
    DEF Life!DeinitGlobal, Weight, One, CallRecords, MaybeContext, Life!Drop, Life!DropAny, Life!AddRef,
        Life!Contexts, Life!Current
  <2>2. \A u \in Thread : u # t => local'[u] = local[u]
    BY <1>23, <1>b DEF Life!DeinitGlobal, Life!Current
  <2> QED BY <2>1, <2>2, <1>a, RefsStep
<1>24. CASE Life!DeinitAwaits(t)
  <2>1. \A c \in Context : P(c)
    BY <1>24, <1>b, <1>c, <1>d, LifeAssumptions, MoveDeinit
    DEF Life!DeinitAwaits, Weight, One, CallRecords, MaybeContext, Life!Drop, Life!DropAny, Life!AddRef,
        Life!Contexts, Life!Current
  <2>2. \A u \in Thread : u # t => local'[u] = local[u]
    BY <1>24, <1>b DEF Life!DeinitAwaits, Life!Current
  <2> QED BY <2>1, <2>2, <1>a, RefsStep
<1>25. CASE Life!DeinitSwaps(t)
  <2>1. \A c \in Context : P(c)
    BY <1>25, <1>b, <1>c, <1>d, LifeAssumptions, MoveDeinit
    DEF Life!DeinitSwaps, Weight, One, CallRecords, MaybeContext, Life!Drop, Life!DropAny, Life!AddRef,
        Life!Contexts, Life!Current
  <2>2. \A u \in Thread : u # t => local'[u] = local[u]
    BY <1>25, <1>b DEF Life!DeinitSwaps, Life!Current
  <2> QED BY <2>1, <2>2, <1>a, RefsStep
<1>26. CASE Life!DeinitDeletes(t)
  <2>1. \A c \in Context : P(c)
    BY <1>26, <1>b, <1>c, <1>d, LifeAssumptions, MoveDeinit
    DEF Life!DeinitDeletes, Weight, One, CallRecords, MaybeContext, Life!Drop, Life!DropAny,
        Life!AddRef,
        Life!Contexts, Life!Current
  <2>2. \A u \in Thread : u # t => local'[u] = local[u]
    BY <1>26, <1>b DEF Life!DeinitDeletes, Life!Current
  <2> QED BY <2>1, <2>2, <1>a, RefsStep
<1>27. CASE Life!DeinitStopsEvents(t)
  <2>1. \A c \in Context : P(c)
    BY <1>27, <1>b, <1>c, <1>d, LifeAssumptions, MoveDeinit
    DEF Life!DeinitStopsEvents, Weight, One, CallRecords, MaybeContext, Life!Drop,
        Life!DropAny, Life!AddRef,
        Life!Contexts, Life!Current
  <2>2. \A u \in Thread : u # t => local'[u] = local[u]
    BY <1>27, <1>b DEF Life!DeinitStopsEvents, Life!Current
  <2> QED BY <2>1, <2>2, <1>a, RefsStep
<1>28. ASSUME NEW c \in Context, Life!DestroyVerifies(t, c)
     PROVE  RefsCounted'
  <2>1. \A k \in Context : P(k)
    BY <1>28, <1>b, <1>c, <1>d, LifeAssumptions
    DEF Life!DestroyVerifies, Weight, One, CallRecords, MaybeContext, Life!Drop, Life!DropAny,
        Life!AddRef,
        Life!Contexts, Life!Current
  <2>2. \A u \in Thread : u # t => local'[u] = local[u]
    BY <1>28, <1>b DEF Life!DestroyVerifies, Life!Current
  <2> QED BY <2>1, <2>2, <1>a, RefsStep
<1>29. CASE Life!DestroyLocks(t)
  <2>1. \A c \in Context : P(c)
    BY <1>29, <1>b, <1>c, <1>d, LifeAssumptions, MoveDeinit
    DEF Life!DestroyLocks, Weight, One, CallRecords, MaybeContext, Life!Drop, Life!DropAny, Life!AddRef,
        Life!Contexts, Life!Current
  <2>2. \A u \in Thread : u # t => local'[u] = local[u]
    BY <1>29, <1>b DEF Life!DestroyLocks, Life!Current
  <2> QED BY <2>1, <2>2, <1>a, RefsStep
<1>30. CASE Life!DestroyStops(t)
  <2>1. \A c \in Context : P(c)
    BY <1>30, <1>b, <1>c, <1>d, LifeAssumptions, MoveDeinit
    DEF Life!DestroyStops, Weight, One, CallRecords, MaybeContext, Life!Drop, Life!DropAny, Life!AddRef,
        Life!Contexts, Life!Current
  <2>2. \A u \in Thread : u # t => local'[u] = local[u]
    BY <1>30, <1>b DEF Life!DestroyStops, Life!Current
  <2> QED BY <2>1, <2>2, <1>a, RefsStep
<1>31. CASE Life!DestroyDrops(t)
  <2>1. \A c \in Context : P(c)
    BY <1>31, <1>b, <1>c, <1>d, LifeAssumptions
    DEF Life!DestroyDrops, Weight, One, CallRecords, MaybeContext, Life!Drop, Life!DropAny, Life!AddRef,
        Life!Contexts, Life!Current
  <2>2. \A u \in Thread : u # t => local'[u] = local[u]
    BY <1>31, <1>b DEF Life!DestroyDrops, Life!Current
  <2> QED BY <2>1, <2>2, <1>a, RefsStep
<1>32. CASE Life!CloseVerifies(t)
  <2>1. \A c \in Context : P(c)
    BY <1>32, <1>b, <1>c, <1>d, LifeAssumptions
    DEF Life!CloseVerifies, Weight, One, CallRecords, MaybeContext, Life!Drop, Life!DropAny,
        Life!AddRef,
        Life!Contexts, Life!Current
  <2>2. \A u \in Thread : u # t => local'[u] = local[u]
    BY <1>32, <1>b DEF Life!CloseVerifies, Life!Current
  <2> QED BY <2>1, <2>2, <1>a, RefsStep
<1>33. CASE Life!CloseLocks(t)
  <2>1. \A c \in Context : P(c)
    BY <1>33, <1>b, <1>c, <1>d, LifeAssumptions
    DEF Life!CloseLocks, Weight, One, CallRecords, MaybeContext, Life!Drop, Life!DropAny, Life!AddRef,
        Life!Contexts, Life!Current
  <2>2. \A u \in Thread : u # t => local'[u] = local[u]
    BY <1>33, <1>b DEF Life!CloseLocks, Life!Current
  <2> QED BY <2>1, <2>2, <1>a, RefsStep
<1>34. CASE Life!CloseOrphan(t)
  <2>1. \A c \in Context : P(c)
    BY <1>34, <1>b, <1>c, <1>d, LifeAssumptions
    DEF Life!CloseOrphan, Weight, One, CallRecords, MaybeContext, Life!Drop, Life!DropAny, Life!AddRef,
        Life!Contexts, Life!Current
  <2>2. \A u \in Thread : u # t => local'[u] = local[u]
    BY <1>34, <1>b DEF Life!CloseOrphan, Life!Current
  <2> QED BY <2>1, <2>2, <1>a, RefsStep
<1>35. CASE Life!CloseDrops(t)
  <2>1. \A c \in Context : P(c)
    <3>1. call[t] \in CallRecords /\ call[t].pc = "orphans" /\ call[t].orphans \subseteq Context
      BY <1>35, <1>b DEF Life!CloseDrops, CallRecords
    <3>2. ASSUME NEW d \in call[t].orphans, Life!Drop(d),
                 call'[t] = [pc |-> "orphans", orphans |-> call[t].orphans \ {d},
                             gone |-> call[t].gone \ {d}]
          PROVE  \A c \in Context : P(c)
      <4>1. refs[d] >= 1
        BY <3>1, <1>d
      <4>2. \A c \in Context : Weight(call'[t], local[t], c) = Weight(call[t], local[t], c) - One(c = d)
        BY <3>1, <3>2 DEF Weight, One
      <4>3. UNCHANGED <<local, global, ContextList>>
        BY <1>35 DEF Life!CloseDrops, Life!Current
      <4> QED BY <3>1, <3>2, <4>1, <4>2, <4>3, <1>b, <1>c DEF One, Life!Drop, Weight
    <3>3. CASE call'[t] = [pc |-> "stop"] /\ call[t].orphans = {} /\ UNCHANGED <<refs, life>>
      BY <3>1, <3>3, <1>35, <1>b, <1>c DEF Life!CloseDrops, Weight, One, Life!Current
    <3> QED BY <1>35, <1>b, <3>2, <3>3 DEF Life!CloseDrops
  <2>2. \A u \in Thread : u # t => local'[u] = local[u]
    BY <1>35, <1>b DEF Life!CloseDrops, Life!Current
  <2> QED BY <2>1, <2>2, <1>a, RefsStep
<1>36. CASE Life!CloseStops(t)
  <2>1. \A c \in Context : P(c)
    BY <1>36, <1>b, <1>c, <1>d, LifeAssumptions
    DEF Life!CloseStops, Weight, One, CallRecords, MaybeContext, Life!Drop, Life!DropAny, Life!AddRef,
        Life!Contexts, Life!Current
  <2>2. \A u \in Thread : u # t => local'[u] = local[u]
    BY <1>36, <1>b DEF Life!CloseStops, Life!Current
  <2> QED BY <2>1, <2>2, <1>a, RefsStep
<1>37. ASSUME NEW pc \in {"pause", "resume", "reset", "reopen"}, Life!VerifyDevice(t, pc)
     PROVE  RefsCounted'
  <2>1. \A c \in Context : P(c)
    BY <1>37, <1>b, <1>c, <1>d, LifeAssumptions
    DEF Life!VerifyDevice, Weight, One, CallRecords, MaybeContext, Life!Drop, Life!DropAny, Life!AddRef,
        Life!Contexts, Life!Current
  <2>2. \A u \in Thread : u # t => local'[u] = local[u]
    BY <1>37, <1>b DEF Life!VerifyDevice, Life!Current
  <2> QED BY <2>1, <2>2, <1>a, RefsStep
<1>38. CASE Life!DevicePause(t)
  <2>1. \A c \in Context : P(c)
    BY <1>38, <1>b, <1>c, <1>d, LifeAssumptions
    DEF Life!DevicePause, Weight, One, CallRecords, MaybeContext, Life!Drop, Life!DropAny, Life!AddRef,
        Life!Contexts, Life!Current
  <2>2. \A u \in Thread : u # t => local'[u] = local[u]
    BY <1>38, <1>b DEF Life!DevicePause, Life!Current
  <2> QED BY <2>1, <2>2, <1>a, RefsStep
<1>39. CASE Life!DeviceResume(t)
  <2>1. \A c \in Context : P(c)
    BY <1>39, <1>b, <1>c, <1>d, LifeAssumptions
    DEF Life!DeviceResume, Weight, One, CallRecords, MaybeContext, Life!Drop, Life!DropAny, Life!AddRef,
        Life!Contexts, Life!Current
  <2>2. \A u \in Thread : u # t => local'[u] = local[u]
    BY <1>39, <1>b DEF Life!DeviceResume, Life!Current
  <2> QED BY <2>1, <2>2, <1>a, RefsStep
<1>40. CASE Life!ResetDevice(t)
  <2>1. \A c \in Context : P(c)
    BY <1>40, <1>b, <1>c, <1>d, LifeAssumptions
    DEF Life!ResetDevice, Weight, One, CallRecords, MaybeContext, Life!Drop, Life!DropAny, Life!AddRef,
        Life!Contexts, Life!Current
  <2>2. \A u \in Thread : u # t => local'[u] = local[u]
    BY <1>40, <1>b DEF Life!ResetDevice, Life!Current
  <2> QED BY <2>1, <2>2, <1>a, RefsStep
<1>41. CASE Life!ReopenDevice(t)
  <2>1. \A c \in Context : P(c)
    BY <1>41, <1>b, <1>c, <1>d, LifeAssumptions
    DEF Life!ReopenDevice, Weight, One, CallRecords, MaybeContext, Life!Drop, Life!DropAny, Life!AddRef,
        Life!Contexts, Life!Current
  <2>2. \A u \in Thread : u # t => local'[u] = local[u]
    BY <1>41, <1>b DEF Life!ReopenDevice, Life!Current
  <2> QED BY <2>1, <2>2, <1>a, RefsStep
<1> QED
  BY <1>1, <1>2, <1>3, <1>4, <1>5, <1>6, <1>7, <1>8, <1>9, <1>10, <1>11, <1>12, <1>13, <1>14,
     <1>15, <1>16, <1>17, <1>18, <1>19, <1>20, <1>21, <1>22, <1>23, <1>24, <1>25, <1>26, <1>27,
     <1>28, <1>29, <1>30, <1>31, <1>32, <1>33, <1>34, <1>35, <1>36, <1>37, <1>38, <1>39, <1>40,
     <1>41, <1>42
  DEF LifeStep, Life!GetContextRef, Life!MakeContextCurrent, Life!CreateContext, Life!deinit,
      Life!DestroyContext, Life!CloseDevice, Life!DeviceCalls

-----------------------------------------------------------------------------
(* The count of the device follows the live contexts, the list and the     *)
(* calls that hold it.                                                     *)
LEMMA LiveByOne ==
  ASSUME NEW c, \A d \in Context : d # c => (life'[d] = "live" <=> life[d] = "live")
  PROVE  /\ Cardinality(Live) \in Nat /\ Cardinality(Live') \in Nat
         /\ Cardinality(Live') = Cardinality(Live) + One(c \in Live') - One(c \in Live)
<1>1. IsFiniteSet(Live)
  BY LifeAssumptions, FS_Subset DEF Live
<1>2. \A d : d # c => (d \in Live' <=> d \in Live)
  BY DEF Live
<1> QED BY <1>1, <1>2, CountByOne

LEMMA DeviceStep ==
  ASSUME Typed, DeviceCounted, NEW t \in Thread, Moves(t), NEW c,
         \A d \in Context : d # c => (life'[d] = "live" <=> life[d] = "live"),
         device'.refs = device.refs + One(c \in Live') - One(c \in Live)
           + One(device'.listed) - One(device.listed)
           + One(HoldsDevice(call'[t])) - One(HoldsDevice(call[t])),
         device'.live = (device'.refs > 0)
  PROVE  DeviceCounted' /\ device'.refs \in Nat
<1>1. \A u \in Thread : u # t => (u \in DeviceHolders' <=> u \in DeviceHolders)
  BY DEF DeviceHolders, Moves, Typed
<1>2. /\ Cardinality(DeviceHolders') = Cardinality(DeviceHolders) + One(t \in DeviceHolders')
                                         - One(t \in DeviceHolders)
      /\ Cardinality(DeviceHolders) \in Nat /\ Cardinality(DeviceHolders') \in Nat
  <2>1. DeviceHolders \in SUBSET Thread /\ DeviceHolders' \in SUBSET Thread
    BY DEF DeviceHolders
  <2> QED BY <2>1, <1>1, CountOfThreads
<1>3. (t \in DeviceHolders' <=> HoldsDevice(call'[t])) /\ (t \in DeviceHolders <=> HoldsDevice(call[t]))
  BY DEF DeviceHolders
<1>4. /\ Cardinality(Live) \in Nat /\ Cardinality(Live') \in Nat
      /\ Cardinality(Live') = Cardinality(Live) + One(c \in Live') - One(c \in Live)
  BY LiveByOne
<1> QED BY <1>2, <1>3, <1>4 DEF DeviceCounted, One

LEMMA DeviceHeldIsCounted ==
  ASSUME Typed, DeviceCounted, NEW t \in Thread,
         HoldsDevice(call[t]) \/ device.listed \/ \E c \in Context : life[c] = "live"
  PROVE  device.refs >= 1
<1>1. DeviceHolders \in SUBSET Thread /\ Live \in SUBSET Context
  BY DEF DeviceHolders, Live
<1>2. /\ IsFiniteSet(DeviceHolders) /\ IsFiniteSet(Live)
      /\ Cardinality(DeviceHolders) \in Nat /\ Cardinality(Live) \in Nat
  BY <1>1, LifeAssumptions, FS_Subset, FS_CardinalityType
<1>3. HoldsDevice(call[t]) => DeviceHolders # {}
  BY DEF DeviceHolders
<1>4. (\E c \in Context : life[c] = "live") => Live # {}
  BY DEF Live
<1>5. /\ HoldsDevice(call[t]) => Cardinality(DeviceHolders) # 0
      /\ (\E c \in Context : life[c] = "live") => Cardinality(Live) # 0
  BY <1>2, <1>3, <1>4, FS_EmptySet
<1> QED BY <1>2, <1>5 DEF DeviceCounted, One

(* A device with other settings, but counted and listed as before. *)
Resembles(d, e) ==
  /\ d \in DeviceRecords /\ e \in DeviceRecords
  /\ d.refs = e.refs /\ d.listed = e.listed /\ d.live = e.live

LEMMA SettingsResemble ==
  ASSUME NEW d \in DeviceRecords
  PROVE  /\ Resembles([d EXCEPT !.running = FALSE], d)
         /\ Resembles([d EXCEPT !.running = TRUE], d)
         /\ Resembles([d EXCEPT !.connected = FALSE], d)
         /\ Resembles([d EXCEPT !.connected = TRUE], d)
         /\ Resembles([d EXCEPT !.paused = FALSE], d)
         /\ Resembles([d EXCEPT !.paused = TRUE], d)
  BY DEF Resembles, DeviceRecords

LEMMA ResembleOnwards ==
  ASSUME NEW d, NEW e, NEW f, Resembles(d, e), Resembles(e, f)
  PROVE  Resembles(d, f)
  BY DEF Resembles

LEMMA UpdatesResemble ==
  ASSUME NEW d \in DeviceRecords
  PROVE  /\ \A e \in Life!Started(d) : Resembles(e, d)
         /\ \A e \in Life!Resets(d) : Resembles(e, d)
         /\ Resembles(Life!Updated(d), d)
         /\ Resembles(Life!Disconnected(d), d)
<1>0. \A e \in DeviceRecords : Resembles(Life!Updated(e), e) /\ Resembles(Life!Disconnected(e), e)
  <2> TAKE e \in DeviceRecords
  <2>1. Resembles(e, e)
    BY DEF Resembles
  <2> QED BY <2>1, SettingsResemble DEF Life!Updated, Life!Disconnected
<1>1. Resembles([d EXCEPT !.connected = TRUE], d) /\ [d EXCEPT !.connected = TRUE] \in DeviceRecords
  BY SettingsResemble DEF Resembles
<1>2. \A e \in Life!Resets(d) : Resembles(e, d)
  BY <1>0, <1>1, ResembleOnwards DEF Life!Resets
<1> QED BY <1>0, <1>2, SettingsResemble DEF Life!Started

(* dec_ref of a device that is held. *)
LEMMA DropTyped ==
  ASSUME NEW d \in DeviceRecords, d.refs >= 1
  PROVE  /\ Life!DropDevice(d) \in DeviceRecords
         /\ Life!DropDevice(d).refs = d.refs - 1
         /\ Life!DropDevice(d).listed = d.listed
         /\ Life!DropDevice(d).live = (d.refs - 1 > 0)
<1> DEFINE b == d.refs > 1
           e == [d EXCEPT !.refs = d.refs - 1, !.live = b]
<1>1. d.refs - 1 \in Nat /\ b \in BOOLEAN /\ b = (d.refs - 1 > 0)
  BY DEF DeviceRecords
<1>2. Life!DropDevice(d) = e
  BY DEF Life!DropDevice
<1> HIDE DEF b
<1>3. e \in DeviceRecords
  BY <1>1 DEF DeviceRecords
<1>4. e.refs = d.refs - 1 /\ e.listed = d.listed
  BY <1>1 DEF DeviceRecords
<1>5. e.live = b
  BY <1>1 DEF DeviceRecords
<1> QED BY <1>1, <1>2, <1>3, <1>4, <1>5

(* The four ways a step may touch the device: with a context that goes,    *)
(* by the return of a call, not at all but for settings, and by a call that *)
(* takes it.                                                               *)
LEMMA DropCounts ==
  ASSUME Typed, RefsCounted, DeviceCounted, NEW t \in Thread, Moves(t),
         NEW c \in Context, refs[c] >= 1, Life!Drop(c),
         HoldsDevice(call'[t]) <=> HoldsDevice(call[t])
  PROVE  DeviceCounted' /\ device' \in DeviceRecords
<1>1. life[c] = "live" /\ device \in DeviceRecords /\ refs[c] \in Nat
  BY DEF RefsCounted, Typed
<1>2. device.refs >= 1
  BY <1>1, DeviceHeldIsCounted
<1>3. /\ \A d \in Context : d # c => (life'[d] = "live" <=> life[d] = "live")
      /\ c \in Live /\ (c \in Live' <=> refs[c] # 1)
  BY <1>1 DEF Life!Drop, Typed, Live
<1>4. CASE refs[c] = 1
  <2>1. device' = Life!DropDevice(device)
    BY <1>4 DEF Life!Drop
  <2>2. /\ device' \in DeviceRecords /\ device'.refs = device.refs - 1
        /\ device'.listed = device.listed /\ device'.live = (device'.refs > 0)
    BY <2>1, <1>1, <1>2, DropTyped
  <2>3. device'.refs = device.refs + One(c \in Live') - One(c \in Live)
           + One(device'.listed) - One(device.listed)
           + One(HoldsDevice(call'[t])) - One(HoldsDevice(call[t]))
    BY <2>2, <1>1, <1>3, <1>4 DEF One, DeviceRecords
  <2> QED BY <2>2, <2>3, <1>3, DeviceStep
<1>5. CASE refs[c] # 1
  <2>1. device' = device
    BY <1>5 DEF Life!Drop
  <2>3. device'.refs = device.refs + One(c \in Live') - One(c \in Live)
           + One(device'.listed) - One(device.listed)
           + One(HoldsDevice(call'[t])) - One(HoldsDevice(call[t]))
    BY <2>1, <1>1, <1>3, <1>5 DEF One, DeviceRecords
  <2> QED BY <2>1, <2>3, <1>1, <1>3, DeviceStep DEF DeviceCounted
<1> QED BY <1>4, <1>5

LEMMA ReturnCounts ==
  ASSUME Typed, DeviceCounted, NEW t \in Thread, Moves(t),
         NEW d, Resembles(d, device), device' = Life!DropDevice(d),
         HoldsDevice(call[t]), ~HoldsDevice(call'[t]),
         \A c \in Context : life'[c] = "live" <=> life[c] = "live"
  PROVE  DeviceCounted' /\ device' \in DeviceRecords
<1>1. device.refs >= 1 /\ d.refs >= 1 /\ device \in DeviceRecords /\ d \in DeviceRecords
  BY DeviceHeldIsCounted DEF Resembles, Typed
<1>2. /\ device' \in DeviceRecords /\ device'.refs = device.refs - 1
      /\ device'.listed = device.listed /\ device'.live = (device'.refs > 0)
  BY <1>1, DropTyped DEF Resembles
<1>3. None \in Live <=> None \in Live'
  BY LifeAssumptions DEF Live
<1>4. device'.refs = device.refs + One(None \in Live') - One(None \in Live)
         + One(device'.listed) - One(device.listed)
         + One(HoldsDevice(call'[t])) - One(HoldsDevice(call[t]))
  BY <1>1, <1>2, <1>3 DEF One, DeviceRecords
<1> QED BY <1>2, <1>4, DeviceStep

LEMMA KeepCounts ==
  ASSUME Typed, DeviceCounted, NEW t \in Thread, Moves(t), Resembles(device', device),
         HoldsDevice(call[t]) <=> HoldsDevice(call'[t]),
         \A c \in Context : life'[c] = "live" <=> life[c] = "live"
  PROVE  DeviceCounted' /\ device' \in DeviceRecords
<1>1. None \in Live <=> None \in Live'
  BY LifeAssumptions DEF Live
<1>2. device'.refs = device.refs + One(None \in Live') - One(None \in Live)
         + One(device'.listed) - One(device.listed)
         + One(HoldsDevice(call'[t])) - One(HoldsDevice(call[t]))
  BY <1>1 DEF One, Resembles, DeviceRecords
<1>3. device'.live = (device'.refs > 0) /\ device' \in DeviceRecords
  BY DEF Resembles, DeviceCounted
<1> QED BY <1>2, <1>3, DeviceStep

LEMMA TakeCounts ==
  ASSUME Typed, DeviceCounted, NEW t \in Thread, Moves(t),
         device' = [device EXCEPT !.refs = @ + 1], device.refs >= 1,
         HoldsDevice(call'[t]), ~HoldsDevice(call[t]),
         \A c \in Context : life'[c] = "live" <=> life[c] = "live"
  PROVE  DeviceCounted' /\ device' \in DeviceRecords
<1>1. /\ device' \in DeviceRecords /\ device \in DeviceRecords /\ device'.refs = device.refs + 1
      /\ device'.listed = device.listed /\ device'.live = device.live
  BY DEF Typed, DeviceRecords
<1>2. device'.live = (device'.refs > 0)
  BY <1>1 DEF DeviceCounted, DeviceRecords
<1>3. None \in Live <=> None \in Live'
  BY LifeAssumptions DEF Live
<1>4. device'.refs = device.refs + One(None \in Live') - One(None \in Live)
         + One(device'.listed) - One(device.listed)
         + One(HoldsDevice(call'[t])) - One(HoldsDevice(call[t]))
  BY <1>1, <1>3 DEF One, DeviceRecords
<1> QED BY <1>1, <1>2, <1>4, DeviceStep

LEMMA DropKeeps ==
  ASSUME NEW d \in DeviceRecords
  PROVE  /\ Life!DropDevice(d).listed = d.listed /\ Life!DropDevice(d).running = d.running
         /\ Life!DropDevice(d).connected = d.connected /\ Life!DropDevice(d).paused = d.paused
  BY DEF Life!DropDevice, DeviceRecords

(* A call on the device returns it with other settings, and lets it go. *)
LEMMA DeviceReturns ==
  ASSUME Typed, NEW t \in Thread,
         \/ Life!DevicePause(t) \/ Life!DeviceResume(t)
         \/ Life!ResetDevice(t) \/ Life!ReopenDevice(t)
  PROVE  \E d : Resembles(d, device) /\ device' = Life!DropDevice(d)
<1>1. device \in DeviceRecords
  BY DEF Typed
<1>2. Resembles(Life!Stopped, device) /\ Life!Stopped \in DeviceRecords
  BY <1>1, SettingsResemble DEF Life!Stopped, Resembles
<1>3. CASE Life!DevicePause(t)
  <2>1. Resembles([Life!Stopped EXCEPT !.paused = TRUE], device)
    BY <1>2, SettingsResemble, ResembleOnwards
  <2> QED BY <2>1, <1>3 DEF Life!DevicePause
<1>4. CASE Life!DeviceResume(t)
  <2> DEFINE d == [device EXCEPT !.paused = FALSE]
  <2>1. Resembles(d, device) /\ d \in DeviceRecords
    BY <1>1, SettingsResemble DEF Resembles
  <2>2. \A e \in Life!Started(d) : Resembles(e, device)
    BY <2>1, UpdatesResemble, ResembleOnwards
  <2>3. device' = Life!DropDevice(d) \/ \E e \in Life!Started(d) : device' = Life!DropDevice(e)
    BY <1>4 DEF Life!DeviceResume
  <2> HIDE DEF d
  <2> QED BY <2>1, <2>2, <2>3
<1>5. CASE Life!ResetDevice(t) \/ Life!ReopenDevice(t)
  <2>1. \A e \in Life!Started(Life!Stopped) \cup Life!Resets(Life!Stopped) : Resembles(e, device)
    BY <1>2, UpdatesResemble, ResembleOnwards
  <2>2. \/ device' = Life!DropDevice(Life!Stopped)
        \/ \E e \in Life!Started(Life!Stopped) \cup Life!Resets(Life!Stopped) : device' = Life!DropDevice(e)
    BY <1>5 DEF Life!ResetDevice, Life!ReopenDevice
  <2> QED BY <1>2, <2>1, <2>2
<1> QED BY <1>3, <1>4, <1>5

LEMMA DeviceNext ==
  ASSUME Typed, ArraysTyped, RefsCounted, DeviceCounted, OneOwner, MakingOK,
         NEW t \in Thread, LifeStep(t)
  PROVE  DeviceCounted' /\ device' \in DeviceRecords
<1> USE DEF Closing, Destroying, Creating, DeinitPcs, Life!Goes, Life!Steps, Life!At, Life!Idle, HoldsDevice
<1>a. Moves(t)
  BY CallMoves
<1>b. /\ call[t] \in CallRecords /\ call \in [Thread -> CallRecords]
      /\ device \in DeviceRecords /\ Resembles(device, device)
      /\ local[t] \in MaybeContext
      /\ refs \in [Context -> Nat] /\ life \in [Context -> {"unmade", "making", "live", "freed"}]
  BY DEF Typed, Resembles
<1>c. \A c \in Context : HoldsIt(call[t], c) \/ TakesOut(call[t], c) \/ local[t] = c => refs[c] >= 1
  BY HeldIsCounted DEF RefsCounted
<1>d. device.listed => device.refs >= 1
  BY DeviceHeldIsCounted
<1>1. CASE Life!GetThreads(t)
  <2>1. HoldsDevice(call'[t]) <=> HoldsDevice(call[t])
    BY <1>1, <1>b DEF Life!GetThreads, CallRecords
  <2>2. Resembles(device', device)
    BY <1>1, <1>b, SettingsResemble, UpdatesResemble DEF Life!GetThreads, Life!Stopped
  <2> QED BY <2>1, <2>2, <1>1, <1>a, KeepCounts DEF Life!GetThreads, Life!Contexts
<1>2. CASE Life!GetLocks(t)
  <2>1. HoldsDevice(call'[t]) <=> HoldsDevice(call[t])
    BY <1>2, <1>b DEF Life!GetLocks, CallRecords
  <2>2. Resembles(device', device)
    BY <1>2, <1>b, SettingsResemble, UpdatesResemble DEF Life!GetLocks, Life!Stopped
  <2> QED BY <2>1, <2>2, <1>2, <1>a, KeepCounts DEF Life!GetLocks, Life!Contexts
<1>3. CASE Life!GetLoads(t)
  <2>1. HoldsDevice(call'[t]) <=> HoldsDevice(call[t])
    BY <1>3, <1>b DEF Life!GetLoads, CallRecords
  <2>2. Resembles(device', device)
    BY <1>3, <1>b, SettingsResemble, UpdatesResemble DEF Life!GetLoads, Life!Stopped
  <2> QED BY <2>1, <2>2, <1>3, <1>a, KeepCounts DEF Life!GetLoads, Life!Contexts
<1>4. CASE Life!GetCounts(t)
  <2>1. HoldsDevice(call'[t]) <=> HoldsDevice(call[t])
    BY <1>4, <1>b, MoveNamed DEF Life!GetCounts, CallRecords
  <2>2. Resembles(device', device)
    BY <1>4, <1>b, SettingsResemble, UpdatesResemble DEF Life!GetCounts, Life!Stopped
  <2> QED BY <2>1, <2>2, <1>4, <1>a, KeepCounts DEF Life!GetCounts, Life!Contexts
<1>5. CASE Life!GetUnlocks(t)
  <2>1. HoldsDevice(call'[t]) <=> HoldsDevice(call[t])
    BY <1>5, <1>b DEF Life!GetUnlocks, CallRecords
  <2>2. Resembles(device', device)
    BY <1>5, <1>b, SettingsResemble, UpdatesResemble DEF Life!GetUnlocks, Life!Stopped
  <2> QED BY <2>1, <2>2, <1>5, <1>a, KeepCounts DEF Life!GetUnlocks, Life!Contexts
<1>6. CASE Life!EndUse(t)
  <2>1. HoldsDevice(call'[t]) <=> HoldsDevice(call[t])
    BY <1>6, <1>b DEF Life!EndUse, CallRecords
  <2>2. CASE UNCHANGED <<device, life>>
    BY <2>1, <2>2, <1>a, <1>b, KeepCounts
  <2>3. CASE call[t].c \in Context /\ refs[call[t].c] >= 1 /\ Life!Drop(call[t].c)
    BY <2>1, <2>3, <1>a, DropCounts
  <2> QED
    BY <2>2, <2>3, <1>6, <1>b, <1>c
    DEF Life!EndUse, CallRecords, MaybeContext, HoldsIt, TakesOut, Life!DropAny
<1>7. CASE Life!Verify(t, "make")
  <2>1. HoldsDevice(call'[t]) <=> HoldsDevice(call[t])
    BY <1>7, <1>b DEF Life!Verify, Life!VerifyContext, Life!VerifyNone, CallRecords
  <2>2. Resembles(device', device)
    BY <1>7, <1>b, SettingsResemble, UpdatesResemble DEF Life!Verify, Life!VerifyContext,
       Life!VerifyNone, Life!Stopped
  <2> QED BY <2>1, <2>2, <1>7, <1>a, KeepCounts DEF Life!Verify, Life!VerifyContext, Life!VerifyNone, Life!Contexts
<1>8. CASE Life!Verify(t, "thread")
  <2>1. HoldsDevice(call'[t]) <=> HoldsDevice(call[t])
    BY <1>8, <1>b DEF Life!Verify, Life!VerifyContext, Life!VerifyNone, CallRecords
  <2>2. Resembles(device', device)
    BY <1>8, <1>b, SettingsResemble, UpdatesResemble DEF Life!Verify, Life!VerifyContext,
       Life!VerifyNone, Life!Stopped
  <2> QED BY <2>1, <2>2, <1>8, <1>a, KeepCounts DEF Life!Verify, Life!VerifyContext, Life!VerifyNone, Life!Contexts
<1>9. CASE Life!MakeLocks(t)
  <2>1. HoldsDevice(call'[t]) <=> HoldsDevice(call[t])
    BY <1>9, <1>b, MoveNamed DEF Life!MakeLocks, CallRecords
  <2>2. Resembles(device', device)
    BY <1>9, <1>b, SettingsResemble, UpdatesResemble DEF Life!MakeLocks, Life!Stopped
  <2> QED BY <2>1, <2>2, <1>9, <1>a, KeepCounts DEF Life!MakeLocks, Life!Contexts
<1>10. CASE Life!MakeExchanges(t)
  <2>1. HoldsDevice(call'[t]) <=> HoldsDevice(call[t])
    BY <1>10, <1>b DEF Life!MakeExchanges, CallRecords
  <2>2. Resembles(device', device)
    BY <1>10, <1>b, SettingsResemble, UpdatesResemble DEF Life!MakeExchanges, Life!Stopped
  <2> QED BY <2>1, <2>2, <1>10, <1>a, KeepCounts DEF Life!MakeExchanges, Life!Contexts
<1>11. CASE Life!MakeDrops(t)
  <2>1. HoldsDevice(call'[t]) <=> HoldsDevice(call[t])
    BY <1>11, <1>b DEF Life!MakeDrops, CallRecords
  <2>2. CASE UNCHANGED <<device, life>>
    BY <2>1, <2>2, <1>a, <1>b, KeepCounts
  <2>3. CASE call[t].c \in Context /\ refs[call[t].c] >= 1 /\ Life!Drop(call[t].c)
    BY <2>1, <2>3, <1>a, DropCounts
  <2> QED
    BY <2>2, <2>3, <1>11, <1>b, <1>c
    DEF Life!MakeDrops, CallRecords, MaybeContext, HoldsIt, TakesOut, Life!DropAny
<1>12. CASE Life!MakeUnlocks(t)
  <2>1. HoldsDevice(call'[t]) <=> HoldsDevice(call[t])
    BY <1>12, <1>b DEF Life!MakeUnlocks, CallRecords
  <2>2. Resembles(device', device)
    BY <1>12, <1>b, SettingsResemble, UpdatesResemble DEF Life!MakeUnlocks, Life!Stopped
  <2> QED BY <2>1, <2>2, <1>12, <1>a, KeepCounts DEF Life!MakeUnlocks, Life!Contexts
<1>13. CASE Life!SetThreadContext(t)
  <2>1. HoldsDevice(call'[t]) <=> HoldsDevice(call[t])
    BY <1>13, <1>b DEF Life!SetThreadContext, CallRecords
  <2>2. CASE UNCHANGED <<device, life>>
    BY <2>1, <2>2, <1>a, <1>b, KeepCounts
  <2>3. CASE local[t] \in Context /\ refs[local[t]] >= 1 /\ Life!Drop(local[t])
    BY <2>1, <2>3, <1>a, DropCounts
  <2> QED
    BY <2>2, <2>3, <1>13, <1>b, <1>c
    DEF Life!SetThreadContext, CallRecords, MaybeContext, HoldsIt, TakesOut, Life!DropAny
<1>14. CASE Life!CreateVerifies(t)
  <2>1. HoldsDevice(call'[t]) /\ ~HoldsDevice(call[t])
    BY <1>14, <1>b DEF Life!CreateVerifies, CallRecords
  <2>2. \A c \in Context : life'[c] = "live" <=> life[c] = "live"
    BY <1>14, <1>b DEF Life!CreateVerifies, Life!Contexts
  <2> QED BY <2>1, <2>2, <1>14, <1>a, <1>d, TakeCounts DEF Life!CreateVerifies
<1>15. CASE Life!CreateLocks(t)
  <2>1. HoldsDevice(call'[t]) <=> HoldsDevice(call[t])
    BY <1>15, <1>b, MoveNamed DEF Life!CreateLocks, CallRecords
  <2>2. Resembles(device', device)
    BY <1>15, <1>b, SettingsResemble, UpdatesResemble DEF Life!CreateLocks, Life!Stopped
  <2> QED BY <2>1, <2>2, <1>15, <1>a, KeepCounts DEF Life!CreateLocks, Life!Contexts
<1>16. CASE Life!CreateStops(t)
  <2>1. HoldsDevice(call'[t]) <=> HoldsDevice(call[t])
    BY <1>16, <1>b DEF Life!CreateStops, CallRecords
  <2>2. Resembles(device', device)
    BY <1>16, <1>b, SettingsResemble, UpdatesResemble DEF Life!CreateStops, Life!Stopped
  <2> QED BY <2>1, <2>2, <1>16, <1>a, KeepCounts DEF Life!CreateStops, Life!Contexts
<1>17. CASE Life!CreateUpdates(t)
  <2>1. HoldsDevice(call'[t]) <=> HoldsDevice(call[t])
    BY <1>17, <1>b, MoveNamed DEF Life!CreateUpdates, CallRecords
  <2>2. Resembles(device', device)
    BY <1>17, <1>b, SettingsResemble, UpdatesResemble DEF Life!CreateUpdates, Life!Stopped
  <2> QED BY <2>1, <2>2, <1>17, <1>a, KeepCounts DEF Life!CreateUpdates, Life!Contexts
<1>18. CASE Life!CreateFails(t)
  <2>1. HoldsDevice(call[t]) /\ ~HoldsDevice(call'[t])
    BY <1>18, <1>b DEF Life!CreateFails, CallRecords
  <2>2. Resembles(device, device)
    BY <1>b, SettingsResemble DEF Life!Stopped
  <2>3. call[t].c \in Context /\ life[call[t].c] = "making"
    BY <1>18, <1>b DEF MakingOK, Life!CreateFails, CallRecords
  <2> QED BY <2>1, <2>2, <2>3, <1>18, <1>a, <1>b, ReturnCounts DEF Life!CreateFails
<1>19. CASE Life!CreateMakes(t)
  <2>1. HoldsDevice(call'[t]) /\ HoldsDevice(call[t])
    BY <1>19, <1>b DEF Life!CreateMakes, CallRecords
  <2>2. call[t].c \in Context /\ life[call[t].c] = "making"
    BY <1>19, <1>b DEF MakingOK, Life!CreateMakes, CallRecords
  <2>3. /\ \A d \in Context : d # call[t].c => (life'[d] = "live" <=> life[d] = "live")
        /\ call[t].c \in Live' /\ call[t].c \notin Live
    BY <2>2, <1>19, <1>b DEF Life!CreateMakes, Live
  <2>4. /\ device' \in DeviceRecords /\ device'.refs = device.refs + 1
        /\ device'.listed = device.listed /\ device'.live = device.live
    BY <1>19, <1>b DEF Life!CreateMakes, DeviceRecords
  <2>5. device.refs >= 1
    BY <2>1, DeviceHeldIsCounted
  <2>6. device'.live = (device'.refs > 0)
    BY <2>4, <2>5, <1>b DEF DeviceCounted, DeviceRecords
  <2>7. device'.refs = device.refs + One(call[t].c \in Live') - One(call[t].c \in Live)
         + One(device'.listed) - One(device.listed)
         + One(HoldsDevice(call'[t])) - One(HoldsDevice(call[t]))
    BY <2>1, <2>3, <2>4, <1>b DEF One, DeviceRecords
  <2> QED BY <2>3, <2>4, <2>6, <2>7, <1>a, DeviceStep
<1>20. CASE Life!CreateUnlocks(t)
  <2>1. HoldsDevice(call'[t]) <=> HoldsDevice(call[t])
    BY <1>20, <1>b DEF Life!CreateUnlocks, CallRecords
  <2>2. Resembles(device', device)
    BY <1>20, <1>b, SettingsResemble, UpdatesResemble DEF Life!CreateUnlocks, Life!Stopped
  <2> QED BY <2>1, <2>2, <1>20, <1>a, KeepCounts DEF Life!CreateUnlocks, Life!Contexts
<1>21. CASE Life!CreateLists(t)
  <2>1. HoldsDevice(call'[t]) <=> HoldsDevice(call[t])
    BY <1>21, <1>b DEF Life!CreateLists, CallRecords
  <2>2. Resembles(device', device)
    BY <1>21, <1>b, SettingsResemble DEF Life!CreateLists, Life!Stopped
  <2> QED BY <2>1, <2>2, <1>21, <1>a, KeepCounts DEF Life!CreateLists, Life!Contexts
<1>42. CASE Life!CreateEnds(t)
  <2>1. HoldsDevice(call[t]) /\ ~HoldsDevice(call'[t])
    BY <1>42, <1>b DEF Life!CreateEnds, CallRecords
  <2>2. Resembles(device, device)
    BY <1>b, SettingsResemble DEF Life!Stopped
  <2> QED BY <2>1, <2>2, <1>42, <1>a, ReturnCounts DEF Life!CreateEnds, Life!Contexts
<1>22. CASE Life!DeinitLocal(t)
  <2>1. HoldsDevice(call'[t]) <=> HoldsDevice(call[t])
    BY <1>22, <1>b, MoveDeinit DEF Life!DeinitLocal, CallRecords
  <2>2. CASE UNCHANGED <<device, life>>
    BY <2>1, <2>2, <1>a, <1>b, KeepCounts
  <2>3. CASE call[t].c \in Context /\ refs[call[t].c] >= 1 /\ Life!Drop(call[t].c)
    BY <2>1, <2>3, <1>a, DropCounts
  <2> QED
    BY <2>2, <2>3, <1>22, <1>b, <1>c
    DEF Life!DeinitLocal, CallRecords, MaybeContext, HoldsIt, TakesOut, Life!DropAny
<1>23. CASE Life!DeinitGlobal(t)
  <2>1. HoldsDevice(call'[t]) <=> HoldsDevice(call[t])
    BY <1>23, <1>b, MoveDeinit DEF Life!DeinitGlobal, CallRecords
  <2>2. Resembles(device', device)
    BY <1>23, <1>b, SettingsResemble, UpdatesResemble DEF Life!DeinitGlobal, Life!Stopped
  <2> QED BY <2>1, <2>2, <1>23, <1>a, KeepCounts DEF Life!DeinitGlobal, Life!Contexts
<1>24. CASE Life!DeinitAwaits(t)
  <2>1. HoldsDevice(call'[t]) <=> HoldsDevice(call[t])
    BY <1>24, <1>b, MoveDeinit DEF Life!DeinitAwaits, CallRecords
  <2>2. CASE UNCHANGED <<device, life>>
    BY <2>1, <2>2, <1>a, <1>b, KeepCounts
  <2>3. CASE call[t].c \in Context /\ refs[call[t].c] >= 1 /\ Life!Drop(call[t].c)
    BY <2>1, <2>3, <1>a, DropCounts
  <2> QED
    BY <2>2, <2>3, <1>24, <1>b, <1>c
    DEF Life!DeinitAwaits, CallRecords, MaybeContext, HoldsIt, TakesOut, Life!DropAny
<1>25. CASE Life!DeinitSwaps(t)
  <2>1. HoldsDevice(call'[t]) <=> HoldsDevice(call[t])
    BY <1>25, <1>b, MoveDeinit DEF Life!DeinitSwaps, CallRecords
  <2>2. Resembles(device', device)
    BY <1>25, <1>b, SettingsResemble, UpdatesResemble DEF Life!DeinitSwaps, Life!Stopped
  <2> QED BY <2>1, <2>2, <1>25, <1>a, KeepCounts DEF Life!DeinitSwaps, Life!Contexts
<1>26. CASE Life!DeinitDeletes(t)
  <2>1. HoldsDevice(call'[t]) <=> HoldsDevice(call[t])
    BY <1>26, <1>b, MoveDeinit DEF Life!DeinitDeletes, CallRecords
  <2>2. Resembles(device', device)
    BY <1>26, <1>b, SettingsResemble, UpdatesResemble DEF Life!DeinitDeletes, Life!Stopped
  <2> QED BY <2>1, <2>2, <1>26, <1>a, KeepCounts DEF Life!DeinitDeletes, Life!Contexts
<1>27. CASE Life!DeinitStopsEvents(t)
  <2>1. HoldsDevice(call'[t]) <=> HoldsDevice(call[t])
    BY <1>27, <1>b, MoveDeinit DEF Life!DeinitStopsEvents, CallRecords
  <2>2. Resembles(device', device)
    BY <1>27, <1>b, SettingsResemble, UpdatesResemble DEF Life!DeinitStopsEvents, Life!Stopped
  <2> QED BY <2>1, <2>2, <1>27, <1>a, KeepCounts DEF Life!DeinitStopsEvents, Life!Contexts
<1>28. ASSUME NEW c \in Context, Life!DestroyVerifies(t, c)
     PROVE  DeviceCounted' /\ device' \in DeviceRecords
  <2>1. HoldsDevice(call'[t]) <=> HoldsDevice(call[t])
    BY <1>28, <1>b DEF Life!DestroyVerifies, CallRecords
  <2>2. Resembles(device', device)
    BY <1>28, <1>b, SettingsResemble, UpdatesResemble DEF Life!DestroyVerifies, Life!Stopped
  <2> QED BY <2>1, <2>2, <1>28, <1>a, KeepCounts DEF Life!DestroyVerifies, Life!Contexts
<1>29. CASE Life!DestroyLocks(t)
  <2>1. HoldsDevice(call'[t]) <=> HoldsDevice(call[t])
    BY <1>29, <1>b, MoveDeinit DEF Life!DestroyLocks, CallRecords
  <2>2. Resembles(device', device)
    BY <1>29, <1>b, SettingsResemble, UpdatesResemble DEF Life!DestroyLocks, Life!Stopped
  <2> QED BY <2>1, <2>2, <1>29, <1>a, KeepCounts DEF Life!DestroyLocks, Life!Contexts
<1>30. CASE Life!DestroyStops(t)
  <2>1. HoldsDevice(call'[t]) <=> HoldsDevice(call[t])
    BY <1>30, <1>b, MoveDeinit DEF Life!DestroyStops, CallRecords
  <2>2. Resembles(device', device)
    BY <1>30, <1>b, SettingsResemble, UpdatesResemble DEF Life!DestroyStops, Life!Stopped
  <2> QED BY <2>1, <2>2, <1>30, <1>a, KeepCounts DEF Life!DestroyStops, Life!Contexts
<1>31. CASE Life!DestroyDrops(t)
  <2>1. HoldsDevice(call'[t]) <=> HoldsDevice(call[t])
    BY <1>31, <1>b DEF Life!DestroyDrops, CallRecords
  <2>2. CASE UNCHANGED <<device, life>>
    BY <2>1, <2>2, <1>a, <1>b, KeepCounts
  <2>3. CASE call[t].c \in Context /\ refs[call[t].c] >= 1 /\ Life!Drop(call[t].c)
    BY <2>1, <2>3, <1>a, DropCounts
  <2> QED
    BY <2>2, <2>3, <1>31, <1>b, <1>c
    DEF Life!DestroyDrops, CallRecords, MaybeContext, HoldsIt, TakesOut, Life!DropAny
<1>32. CASE Life!CloseVerifies(t)
  <2>1. HoldsDevice(call'[t]) /\ ~HoldsDevice(call[t])
    BY <1>32, <1>b DEF Life!CloseVerifies, CallRecords
  <2>2. /\ device' \in DeviceRecords /\ device'.refs = device.refs
        /\ device.listed /\ ~device'.listed /\ device'.live = device.live
    BY <1>32, <1>b DEF Life!CloseVerifies, DeviceRecords
  <2>3. device'.live = (device'.refs > 0)
    BY <2>2 DEF DeviceCounted
  <2>4. None \in Live <=> None \in Live'
    BY LifeAssumptions DEF Live
  <2>5. device'.refs = device.refs + One(None \in Live') - One(None \in Live)
         + One(device'.listed) - One(device.listed)
         + One(HoldsDevice(call'[t])) - One(HoldsDevice(call[t]))
    BY <2>1, <2>2, <2>4, <1>b DEF One, DeviceRecords
  <2> QED BY <2>2, <2>3, <2>5, <1>32, <1>a, DeviceStep DEF Life!CloseVerifies, Life!Contexts
<1>33. CASE Life!CloseLocks(t)
  <2>1. HoldsDevice(call'[t]) <=> HoldsDevice(call[t])
    BY <1>33, <1>b DEF Life!CloseLocks, CallRecords
  <2>2. Resembles(device', device)
    BY <1>33, <1>b, SettingsResemble, UpdatesResemble DEF Life!CloseLocks, Life!Stopped
  <2> QED BY <2>1, <2>2, <1>33, <1>a, KeepCounts DEF Life!CloseLocks, Life!Contexts
<1>34. CASE Life!CloseOrphan(t)
  <2>1. HoldsDevice(call'[t]) <=> HoldsDevice(call[t])
    BY <1>34, <1>b DEF Life!CloseOrphan, CallRecords
  <2>2. Resembles(device', device)
    BY <1>34, <1>b, SettingsResemble, UpdatesResemble DEF Life!CloseOrphan, Life!Stopped
  <2> QED BY <2>1, <2>2, <1>34, <1>a, KeepCounts DEF Life!CloseOrphan, Life!Contexts
<1>35. CASE Life!CloseDrops(t)
  <2>1. HoldsDevice(call'[t]) <=> HoldsDevice(call[t])
    BY <1>35, <1>b DEF Life!CloseDrops, CallRecords
  <2>2. CASE UNCHANGED <<device, life>>
    BY <2>1, <2>2, <1>a, <1>b, KeepCounts
  <2>3. ASSUME NEW c \in call[t].orphans, Life!Drop(c)
        PROVE  DeviceCounted' /\ device' \in DeviceRecords
    <3>1. c \in Context /\ refs[c] >= 1
      BY <1>35, <1>b, <1>c DEF Life!CloseDrops, CallRecords, HoldsIt
    <3> QED BY <2>1, <2>3, <3>1, <1>a, DropCounts
  <2> QED BY <2>2, <2>3, <1>35 DEF Life!CloseDrops
<1>36. CASE Life!CloseStops(t)
  <2>1. HoldsDevice(call[t]) /\ ~HoldsDevice(call'[t])
    BY <1>36, <1>b DEF Life!CloseStops, CallRecords
  <2>2. Resembles(Life!Stopped, device)
    BY <1>b, SettingsResemble DEF Life!Stopped
  <2> QED BY <2>1, <2>2, <1>36, <1>a, ReturnCounts DEF Life!CloseStops, Life!Contexts
<1>37. ASSUME NEW pc \in {"pause", "resume", "reset", "reopen"}, Life!VerifyDevice(t, pc)
     PROVE  DeviceCounted' /\ device' \in DeviceRecords
  <2>1. HoldsDevice(call'[t]) /\ ~HoldsDevice(call[t])
    BY <1>37, <1>b DEF Life!VerifyDevice, CallRecords
  <2>2. \A c \in Context : life'[c] = "live" <=> life[c] = "live"
    BY <1>37, <1>b DEF Life!VerifyDevice, Life!Contexts
  <2> QED BY <2>1, <2>2, <1>37, <1>a, <1>d, TakeCounts DEF Life!VerifyDevice
<1>38. CASE Life!DevicePause(t)
  <2>1. HoldsDevice(call[t]) /\ ~HoldsDevice(call'[t])
    BY <1>38, <1>b DEF Life!DevicePause, CallRecords
  <2>2. PICK d : Resembles(d, device) /\ device' = Life!DropDevice(d)
    BY <1>38, DeviceReturns
  <2> QED BY <2>1, <2>2, <1>38, <1>a, ReturnCounts DEF Life!DevicePause, Life!Contexts
<1>39. CASE Life!DeviceResume(t)
  <2>1. HoldsDevice(call[t]) /\ ~HoldsDevice(call'[t])
    BY <1>39, <1>b DEF Life!DeviceResume, CallRecords
  <2>2. PICK d : Resembles(d, device) /\ device' = Life!DropDevice(d)
    BY <1>39, DeviceReturns
  <2> QED BY <2>1, <2>2, <1>39, <1>a, ReturnCounts DEF Life!DeviceResume, Life!Contexts
<1>40. CASE Life!ResetDevice(t)
  <2>1. HoldsDevice(call[t]) /\ ~HoldsDevice(call'[t])
    BY <1>40, <1>b DEF Life!ResetDevice, CallRecords
  <2>2. PICK d : Resembles(d, device) /\ device' = Life!DropDevice(d)
    BY <1>40, DeviceReturns
  <2> QED BY <2>1, <2>2, <1>40, <1>a, ReturnCounts DEF Life!ResetDevice, Life!Contexts
<1>41. CASE Life!ReopenDevice(t)
  <2>1. HoldsDevice(call[t]) /\ ~HoldsDevice(call'[t])
    BY <1>41, <1>b DEF Life!ReopenDevice, CallRecords
  <2>2. PICK d : Resembles(d, device) /\ device' = Life!DropDevice(d)
    BY <1>41, DeviceReturns
  <2> QED BY <2>1, <2>2, <1>41, <1>a, ReturnCounts DEF Life!ReopenDevice, Life!Contexts
<1> QED
  BY <1>1, <1>2, <1>3, <1>4, <1>5, <1>6, <1>7, <1>8, <1>9, <1>10, <1>11, <1>12, <1>13, <1>14,
     <1>15, <1>16, <1>17, <1>18, <1>19, <1>20, <1>21, <1>22, <1>23, <1>24, <1>25, <1>26, <1>27,
     <1>28, <1>29, <1>30, <1>31, <1>32, <1>33, <1>34, <1>35, <1>36, <1>37, <1>38, <1>39, <1>40,
     <1>41, <1>42
  DEF LifeStep, Life!GetContextRef, Life!MakeContextCurrent, Life!CreateContext, Life!deinit,
      Life!DestroyContext, Life!CloseDevice, Life!DeviceCalls

-----------------------------------------------------------------------------
(* Calls that use the current context, or change which it is. *)
CurrentCalls(t) == Life!GetContextRef(t) \/ Life!EndUse(t) \/ Life!MakeContextCurrent(t)

CurrentPcs == {"idle", "load", "count", "unlock", "using", "make", "exchange", "made", "unmake", "thread"}

Quiet(t) ==
  /\ call[t].pc \in CurrentPcs /\ call'[t].pc \in CurrentPcs
  /\ UNCHANGED <<events, ContextList, ListLock, StateLock, arrays, mContexts, render>>
  /\ device'.listed = device.listed /\ device'.running = device.running
  /\ \A c \in Context : life[c] = "making" <=> life'[c] = "making"

(* A reference let go leaves alone what the lists and the arrays guard. *)
LEMMA DropsQuietly ==
  ASSUME Typed, RefsCounted, NEW c \in Context, Life!Drop(c)
  PROVE  /\ device'.listed = device.listed /\ device'.running = device.running
         /\ \A d \in Context : life[d] = "making" <=> life'[d] = "making"
<1>1. device \in DeviceRecords /\ life \in [Context -> {"unmade", "making", "live", "freed"}]
  BY DEF Typed
<1>2. /\ Life!DropDevice(device).listed = device.listed
      /\ Life!DropDevice(device).running = device.running
  BY <1>1 DEF Life!DropDevice, DeviceRecords
<1>3. device'.listed = device.listed /\ device'.running = device.running
  BY <1>2 DEF Life!Drop
<1>4. refs[c] = 1 => life[c] = "live"
  BY DEF RefsCounted
<1> QED BY <1>1, <1>3, <1>4 DEF Life!Drop

(* A call on the current context leaves lists, arrays and locks alone. *)
LEMMA CurrentCallsQuiet ==
  ASSUME Typed, RefsCounted, NEW t \in Thread, CurrentCalls(t)
  PROVE  Quiet(t)
<1>b. /\ call[t] \in CallRecords /\ call \in [Thread -> CallRecords]
      /\ refs \in [Context -> Nat] /\ life \in [Context -> {"unmade", "making", "live", "freed"}]
  BY DEF Typed
<1>1. CASE CurrentCalls(t)
  <2>1. CASE Life!GetThreads(t)
    BY <2>1, <1>b
    DEF Life!GetThreads, Quiet, CurrentPcs, Life!Goes, Life!Steps, Life!At, Life!Idle,
        Life!Locks, Life!Array, Life!Contexts, Life!Drop, Life!DropAny, Life!AddRef
  <2>2. CASE Life!GetLocks(t)
    BY <2>2, <1>b
    DEF Life!GetLocks, Quiet, CurrentPcs, Life!Goes, Life!Steps, Life!At, Life!Idle, Life!Locks,
        Life!Array, Life!Contexts, Life!Drop, Life!DropAny, Life!AddRef
  <2>3. CASE Life!GetLoads(t)
    BY <2>3, <1>b
    DEF Life!GetLoads, Quiet, CurrentPcs, Life!Goes, Life!Steps, Life!At, Life!Idle, Life!Locks,
        Life!Array, Life!Contexts, Life!Drop, Life!DropAny, Life!AddRef
  <2>4. CASE Life!GetCounts(t)
    BY <2>4, <1>b, MoveNamed
    DEF Life!GetCounts, Quiet, CurrentPcs, Life!Goes, Life!Steps, Life!At, Life!Idle, Life!Locks,
        Life!Array, Life!Contexts, Life!Drop, Life!DropAny, Life!AddRef
  <2>5. CASE Life!GetUnlocks(t)
    BY <2>5, <1>b
    DEF Life!GetUnlocks, Quiet, CurrentPcs, Life!Goes, Life!Steps, Life!At, Life!Idle,
        Life!Locks, Life!Array, Life!Contexts, Life!Drop, Life!DropAny, Life!AddRef
  <2>6. CASE Life!EndUse(t)
    <3>1. call[t].pc \in CurrentPcs /\ call'[t].pc \in CurrentPcs
      BY <2>6, <1>b DEF Life!EndUse, CurrentPcs, Life!Goes, Life!Steps, Life!At, Life!Idle
    <3>2. UNCHANGED <<events, ContextList, ListLock, StateLock, arrays, mContexts, render>>
      BY <2>6 DEF Life!EndUse, Life!Locks, Life!Array
    <3>3. call[t].c \in Context
      BY <2>6, <1>b DEF Life!EndUse, CallRecords, MaybeContext, Life!At
    <3>4. UNCHANGED <<device, life>> \/ (call[t].c \in Context /\ Life!Drop(call[t].c))
      BY <3>3, <2>6, <1>b DEF Life!EndUse, Life!DropAny, MaybeContext
    <3>5. CASE UNCHANGED <<device, life>>
      BY <3>1, <3>2, <3>5 DEF Quiet
    <3>6. CASE call[t].c \in Context /\ Life!Drop(call[t].c)
      BY <3>1, <3>2, <3>6, DropsQuietly DEF Quiet
    <3> QED BY <3>4, <3>5, <3>6
  <2>7. ASSUME NEW pc \in {"make", "thread"}, Life!Verify(t, pc)
        PROVE  Quiet(t)
    BY <2>7, <1>b
    DEF Life!Verify, Life!VerifyContext, Life!VerifyNone, Quiet, CurrentPcs, Life!Goes,
        Life!Steps, Life!At, Life!Idle, Life!Locks, Life!Array, Life!Contexts, Life!Drop,
        Life!DropAny, Life!AddRef
  <2>8. CASE Life!MakeLocks(t)
    BY <2>8, <1>b, MoveNamed
    DEF Life!MakeLocks, Quiet, CurrentPcs, Life!Goes, Life!Steps, Life!At, Life!Idle, Life!Locks,
        Life!Array, Life!Contexts, Life!Drop, Life!DropAny, Life!AddRef
  <2>9. CASE Life!MakeExchanges(t)
    BY <2>9, <1>b
    DEF Life!MakeExchanges, Quiet, CurrentPcs, Life!Goes, Life!Steps, Life!At, Life!Idle,
        Life!Locks, Life!Array, Life!Contexts, Life!Drop, Life!DropAny, Life!AddRef
  <2>10. CASE Life!MakeDrops(t)
    <3>1. call[t].pc \in CurrentPcs /\ call'[t].pc \in CurrentPcs
      BY <2>10, <1>b DEF Life!MakeDrops, CurrentPcs, Life!Goes, Life!Steps, Life!At, Life!Idle
    <3>2. UNCHANGED <<events, ContextList, ListLock, StateLock, arrays, mContexts, render>>
      BY <2>10 DEF Life!MakeDrops, Life!Locks, Life!Array
    <3>3. call[t].c \in MaybeContext
      BY <2>10, <1>b DEF Life!MakeDrops, CallRecords, MaybeContext, Life!At
    <3>4. UNCHANGED <<device, life>> \/ (call[t].c \in Context /\ Life!Drop(call[t].c))
      BY <3>3, <2>10, <1>b DEF Life!MakeDrops, Life!DropAny, MaybeContext
    <3>5. CASE UNCHANGED <<device, life>>
      BY <3>1, <3>2, <3>5 DEF Quiet
    <3>6. CASE call[t].c \in Context /\ Life!Drop(call[t].c)
      BY <3>1, <3>2, <3>6, DropsQuietly DEF Quiet
    <3> QED BY <3>4, <3>5, <3>6
  <2>11. CASE Life!MakeUnlocks(t)
    BY <2>11, <1>b
    DEF Life!MakeUnlocks, Quiet, CurrentPcs, Life!Goes, Life!Steps, Life!At, Life!Idle,
        Life!Locks, Life!Array, Life!Contexts, Life!Drop, Life!DropAny, Life!AddRef
  <2>12. CASE Life!SetThreadContext(t)
    <3>1. call[t].pc \in CurrentPcs /\ call'[t].pc \in CurrentPcs
      BY <2>12, <1>b DEF Life!SetThreadContext, CurrentPcs, Life!Goes, Life!Steps, Life!At, Life!Idle
    <3>2. UNCHANGED <<events, ContextList, ListLock, StateLock, arrays, mContexts, render>>
      BY <2>12 DEF Life!SetThreadContext, Life!Locks, Life!Array
    <3>3. local[t] \in MaybeContext
      BY <2>12, <1>b DEF Typed
    <3>4. UNCHANGED <<device, life>> \/ (local[t] \in Context /\ Life!Drop(local[t]))
      BY <3>3, <2>12, <1>b DEF Life!SetThreadContext, Life!DropAny, MaybeContext
    <3>5. CASE UNCHANGED <<device, life>>
      BY <3>1, <3>2, <3>5 DEF Quiet
    <3>6. CASE local[t] \in Context /\ Life!Drop(local[t])
      BY <3>1, <3>2, <3>6, DropsQuietly DEF Quiet
    <3> QED BY <3>4, <3>5, <3>6
  <2> QED
    BY <1>1, <2>1, <2>2, <2>3, <2>4, <2>5, <2>6, <2>7, <2>8, <2>9, <2>10, <2>11, <2>12
    DEF CurrentCalls, Life!GetContextRef, Life!MakeContextCurrent
<1> QED BY <1>1

(* StateLock is with who is in it. *)
LEMMA StateLockStep ==
  ASSUME Typed, StateLocked, NEW t \in Thread, Moves(t),
         \/ StateLock' = StateLock /\ (InState(call'[t]) <=> InState(call[t]))
         \/ StateLock = None /\ StateLock' = t /\ InState(call'[t])
         \/ StateLock' = None /\ InState(call[t]) /\ ~InState(call'[t])
  PROVE  StateLocked'
<1>1. \A u \in Thread : u # t => call'[u] = call[u]
  BY DEF Moves, Typed
<1> QED BY <1>1, LifeAssumptions DEF StateLocked

LEMMA StateLockNext ==
  ASSUME Typed, ArraysTyped, RefsCounted, StateLocked, NEW t \in Thread, LifeStep(t)
  PROVE  StateLocked'
<1> DEFINE Lawful ==
      \/ StateLock' = StateLock /\ (InState(call'[t]) <=> InState(call[t]))
      \/ StateLock = None /\ StateLock' = t /\ InState(call'[t])
      \/ StateLock' = None /\ InState(call[t]) /\ ~InState(call'[t])
<1>a. Moves(t)
  BY CallMoves
<1> SUFFICES Lawful
  BY <1>a, StateLockStep
<1>b. call[t] \in CallRecords /\ call \in [Thread -> CallRecords]
  BY DEF Typed
<1> USE DEF InState, DeinitPcs, Life!Goes, Life!Steps, Life!At, Life!Idle, Life!Locks
<1>1. CASE CurrentCalls(t)
  BY <1>1, CurrentCallsQuiet DEF Quiet, CurrentPcs
<1>2. CASE Life!CreateContext(t)
  <2>1. CASE Life!CreateVerifies(t)
    BY <2>1, <1>b
    DEF Life!CreateVerifies
  <2>2. CASE Life!CreateLocks(t)
    BY <2>2, <1>b, MoveNamed
    DEF Life!CreateLocks
  <2>3. CASE Life!CreateStops(t)
    BY <2>3, <1>b
    DEF Life!CreateStops
  <2>4. CASE Life!CreateUpdates(t)
    BY <2>4, <1>b, MoveNamed
    DEF Life!CreateUpdates, CallRecords
  <2>5. CASE Life!CreateFails(t)
    BY <2>5, <1>b
    DEF Life!CreateFails
  <2>6. CASE Life!CreateMakes(t)
    BY <2>6, <1>b
    DEF Life!CreateMakes
  <2>7. CASE Life!CreateUnlocks(t)
    BY <2>7, <1>b
    DEF Life!CreateUnlocks
  <2>8. CASE Life!CreateLists(t)
    BY <2>8, <1>b
    DEF Life!CreateLists
  <2>9. CASE Life!CreateEnds(t)
    BY <2>9, <1>b
    DEF Life!CreateEnds
  <2> QED
    BY <1>2, <2>1, <2>2, <2>3, <2>4, <2>5, <2>6, <2>7, <2>8, <2>9
    DEF Life!CreateContext
<1>3. CASE Life!deinit(t)
  BY <1>3, <1>b, MoveDeinit
  DEF Life!deinit, Life!DeinitLocal, Life!DeinitGlobal, Life!DeinitAwaits, Life!DeinitSwaps,
      Life!DeinitDeletes, Life!DeinitStopsEvents, CallRecords
<1>4. CASE Life!DestroyContext(t)
  BY <1>4, <1>b, MoveDeinit
  DEF Life!DestroyContext, Life!DestroyVerifies, Life!DestroyLocks, Life!DestroyStops,
      Life!DestroyDrops, CallRecords
<1>5. CASE Life!CloseDevice(t)
  BY <1>5, <1>b
  DEF Life!CloseDevice, Life!CloseVerifies, Life!CloseLocks, Life!CloseOrphan, Life!CloseDrops,
      Life!CloseStops, CallRecords
<1>6. CASE Life!DeviceCalls(t)
  BY <1>6, <1>b
  DEF Life!DeviceCalls, Life!VerifyDevice, Life!DevicePause, Life!DeviceResume, Life!ResetDevice,
      Life!ReopenDevice, CallRecords
<1> QED BY <1>1, <1>2, <1>3, <1>4, <1>5, <1>6 DEF LifeStep, CurrentCalls

(* ListLock is with who is in it. *)
LEMMA ListLockStep ==
  ASSUME Typed, ListLocked, NEW t \in Thread, Moves(t),
         InList(call'[t]) => ListLock' = t,
         call'[t].pc \in {"reset", "reopen"} => device'.listed,
         \/ ListLock' = ListLock
         \/ ListLock = None /\ ListLock' = t
         \/ InList(call[t]) /\ ListLock' = None,
         device'.listed = device.listed \/ ListLock = None
  PROVE  ListLocked'
<1>1. \A u \in Thread : u # t => call'[u] = call[u]
  BY DEF Moves, Typed
<1>2. \A u \in Thread : call[u].pc \in {"reset", "reopen"} => InList(call[u])
  BY DEF InList
<1>3. \A u \in Thread : u # t /\ InList(call[u]) => ListLock' = ListLock
  BY LifeAssumptions DEF ListLocked
<1>4. \A u \in Thread : InList(call'[u]) => ListLock' = u
  BY <1>1, <1>3 DEF ListLocked
<1>5. \A u \in Thread : call'[u].pc \in {"reset", "reopen"} => device'.listed
  BY <1>1, <1>2, LifeAssumptions DEF ListLocked
<1> QED BY <1>4, <1>5 DEF ListLocked

LEMMA ListLockNext ==
  ASSUME Typed, ArraysTyped, RefsCounted, ListLocked, NEW t \in Thread, LifeStep(t)
  PROVE  ListLocked'
<1> DEFINE Lawful ==
      /\ InList(call'[t]) => ListLock' = t
      /\ call'[t].pc \in {"reset", "reopen"} => device'.listed
      /\ \/ ListLock' = ListLock
         \/ ListLock = None /\ ListLock' = t
         \/ InList(call[t]) /\ ListLock' = None
      /\ device'.listed = device.listed \/ ListLock = None
<1>a. Moves(t)
  BY CallMoves
<1> SUFFICES Lawful
  BY <1>a, ListLockStep
<1>b. call[t] \in CallRecords /\ call \in [Thread -> CallRecords] /\ device \in DeviceRecords
  BY DEF Typed
<1>e. \A d \in DeviceRecords : Life!DropDevice(d).listed = d.listed
  BY DropKeeps
<1>c. /\ Life!DropDevice(device).listed = device.listed
      /\ Resembles(Life!Updated(device), device) /\ Resembles(Life!Stopped, device)
      /\ Resembles(Life!Disconnected(device), device)
  BY <1>b, UpdatesResemble, SettingsResemble DEF Life!DropDevice, DeviceRecords, Life!Stopped
<1>d. InList(call[t]) => ListLock = t
  BY DEF ListLocked
<1> USE DEF InList, Destroying, DeinitPcs, Life!Goes, Life!Steps, Life!At, Life!Idle, Life!Locks
<1>1. CASE CurrentCalls(t)
  BY <1>1, CurrentCallsQuiet DEF Quiet, CurrentPcs
<1>2. CASE Life!CreateContext(t)
  <2>1. CASE Life!CreateVerifies(t)
    BY <2>1, <1>b, <1>c, <1>d
    DEF Life!CreateVerifies, Resembles, DeviceRecords, Life!Drop
  <2>2. CASE Life!CreateLocks(t)
    BY <2>2, <1>b, <1>c, <1>d, MoveNamed
    DEF Life!CreateLocks, Resembles, DeviceRecords, Life!Drop
  <2>3. CASE Life!CreateStops(t)
    BY <2>3, <1>b, <1>c, <1>d
    DEF Life!CreateStops, Resembles, DeviceRecords, Life!Drop
  <2>4. CASE Life!CreateUpdates(t)
    BY <2>4, <1>b, <1>c, <1>d, MoveNamed
    DEF Life!CreateUpdates, Resembles, DeviceRecords, Life!Drop, CallRecords
  <2>5. CASE Life!CreateFails(t)
    BY <2>5, <1>b, <1>c, <1>d
    DEF Life!CreateFails, Resembles, DeviceRecords, Life!Drop
  <2>6. CASE Life!CreateMakes(t)
    BY <2>6, <1>b, <1>c, <1>d
    DEF Life!CreateMakes, Resembles, DeviceRecords, Life!Drop
  <2>7. CASE Life!CreateUnlocks(t)
    BY <2>7, <1>b, <1>c, <1>d
    DEF Life!CreateUnlocks, Resembles, DeviceRecords, Life!Drop
  <2>8. CASE Life!CreateLists(t)
    BY <2>8, <1>b, <1>c, <1>d
    DEF Life!CreateLists, Resembles, DeviceRecords, Life!Drop
  <2>9. CASE Life!CreateEnds(t)
    BY <2>9, <1>b, <1>c, <1>d
    DEF Life!CreateEnds, Resembles, DeviceRecords, Life!Drop
  <2> QED
    BY <1>2, <2>1, <2>2, <2>3, <2>4, <2>5, <2>6, <2>7, <2>8, <2>9
    DEF Life!CreateContext
<1>3. CASE Life!deinit(t)
  BY <1>3, <1>b, <1>c, <1>d, MoveDeinit
  DEF Life!deinit, Life!DeinitLocal, Life!DeinitGlobal, Life!DeinitAwaits, Life!DeinitSwaps,
      Life!DeinitDeletes, Life!DeinitStopsEvents, CallRecords, Resembles, DeviceRecords,
      Life!Drop
<1>4. CASE Life!DestroyContext(t)
  BY <1>4, <1>b, <1>c, <1>d, MoveDeinit
  DEF Life!DestroyContext, Life!DestroyVerifies, Life!DestroyLocks, Life!DestroyStops,
      Life!DestroyDrops, CallRecords, Resembles, DeviceRecords, Life!Drop
<1>5. CASE Life!CloseDevice(t)
  <2>1. CASE Life!CloseVerifies(t)
    BY <2>1, <1>b, <1>c, <1>d
    DEF Life!CloseVerifies, CallRecords, Resembles, DeviceRecords, Life!Drop
  <2>2. CASE Life!CloseLocks(t)
    BY <2>2, <1>b, <1>c, <1>d
    DEF Life!CloseLocks, CallRecords, Resembles, DeviceRecords, Life!Drop
  <2>3. CASE Life!CloseOrphan(t)
    BY <2>3, <1>b, <1>c, <1>d
    DEF Life!CloseOrphan, CallRecords, Resembles, DeviceRecords, Life!Drop
  <2>4. CASE Life!CloseDrops(t)
    BY <2>4, <1>b, <1>c, <1>d
    DEF Life!CloseDrops, CallRecords, Resembles, DeviceRecords, Life!Drop
  <2>5. CASE Life!CloseStops(t)
    BY <2>5, <1>b, <1>c, <1>d, <1>e
    DEF Life!CloseStops, CallRecords, Resembles, DeviceRecords, Life!Drop
  <2> QED
    BY <1>5, <2>1, <2>2, <2>3, <2>4, <2>5
    DEF Life!CloseDevice
<1>6. CASE Life!DeviceCalls(t)
  <2>1. ASSUME NEW pc \in {"pause", "resume", "reset", "reopen"}, Life!VerifyDevice(t, pc)
        PROVE  Lawful
    BY <2>1, <1>b, <1>c, <1>d
    DEF Life!VerifyDevice, CallRecords, Resembles, DeviceRecords, Life!Drop
  <2>2. CASE Life!DevicePause(t)
    <3>1. PICK d : Resembles(d, device) /\ device' = Life!DropDevice(d)
      BY <2>2, DeviceReturns
    <3>2. device'.listed = device.listed
      BY <3>1, <1>e DEF Resembles
    <3>3. call'[t].pc = "idle" /\ call[t].pc # "idle"
      BY <2>2, <1>b DEF Life!DevicePause
    <3> QED BY <2>2, <3>2, <3>3, <1>d DEF Life!DevicePause
  <2>3. CASE Life!DeviceResume(t)
    <3>1. PICK d : Resembles(d, device) /\ device' = Life!DropDevice(d)
      BY <2>3, DeviceReturns
    <3>2. device'.listed = device.listed
      BY <3>1, <1>e DEF Resembles
    <3>3. call'[t].pc = "idle" /\ call[t].pc # "idle"
      BY <2>3, <1>b DEF Life!DeviceResume
    <3> QED BY <2>3, <3>2, <3>3, <1>d DEF Life!DeviceResume
  <2>4. CASE Life!ResetDevice(t)
    <3>1. PICK d : Resembles(d, device) /\ device' = Life!DropDevice(d)
      BY <2>4, DeviceReturns
    <3>2. device'.listed = device.listed
      BY <3>1, <1>e DEF Resembles
    <3>3. call'[t].pc = "idle" /\ call[t].pc # "idle"
      BY <2>4, <1>b DEF Life!ResetDevice
    <3> QED BY <2>4, <3>2, <3>3, <1>d DEF Life!ResetDevice
  <2>5. CASE Life!ReopenDevice(t)
    <3>1. PICK d : Resembles(d, device) /\ device' = Life!DropDevice(d)
      BY <2>5, DeviceReturns
    <3>2. device'.listed = device.listed
      BY <3>1, <1>e DEF Resembles
    <3>3. call'[t].pc = "idle" /\ call[t].pc # "idle"
      BY <2>5, <1>b DEF Life!ReopenDevice
    <3> QED BY <2>5, <3>2, <3>3, <1>d DEF Life!ReopenDevice
  <2> QED
    BY <1>6, <2>1, <2>2, <2>3, <2>4, <2>5
    DEF Life!DeviceCalls
<1> QED BY <1>1, <1>2, <1>3, <1>4, <1>5, <1>6 DEF LifeStep, CurrentCalls

-----------------------------------------------------------------------------
(* The spin lock of sGlobalContext has at most one in it. *)
LEMMA GlobalLockStep ==
  ASSUME Typed, GlobalLocked, NEW t \in Thread, Moves(t),
         \/ globalLock' = globalLock /\ (InGlobal(call'[t]) <=> InGlobal(call[t]))
         \/ ~globalLock /\ globalLock' /\ InGlobal(call'[t])
         \/ InGlobal(call[t]) /\ ~InGlobal(call'[t])
  PROVE  GlobalLocked'
<1>1. \A u \in Thread : u # t => call'[u] = call[u]
  BY DEF Moves, Typed
<1>2. \A u \in Thread : InGlobal(call'[u]) => globalLock'
  BY <1>1 DEF GlobalLocked
<1>3. \A u, v \in Thread : InGlobal(call'[u]) /\ InGlobal(call'[v]) => u = v
  BY <1>1 DEF GlobalLocked
<1> QED BY <1>2, <1>3 DEF GlobalLocked

LEMMA GlobalLockNext ==
  ASSUME Typed, ArraysTyped, GlobalLocked, NEW t \in Thread, LifeStep(t)
  PROVE  GlobalLocked'
<1> DEFINE Lawful ==
      \/ globalLock' = globalLock /\ (InGlobal(call'[t]) <=> InGlobal(call[t]))
      \/ ~globalLock /\ globalLock' /\ InGlobal(call'[t])
      \/ InGlobal(call[t]) /\ ~InGlobal(call'[t])
<1>a. Moves(t)
  BY CallMoves
<1> SUFFICES Lawful
  BY <1>a, GlobalLockStep
<1>b. call[t] \in CallRecords /\ call \in [Thread -> CallRecords]
  BY DEF Typed
<1> USE DEF InGlobal, Life!Current, DeinitPcs, Life!Goes, Life!Steps, Life!At, Life!Idle
<1>1. CASE CurrentCalls(t)
  <2>1. CASE Life!GetThreads(t)
    BY <2>1, <1>b
    DEF Life!GetThreads, CallRecords
  <2>2. CASE Life!GetLocks(t)
    BY <2>2, <1>b
    DEF Life!GetLocks, CallRecords
  <2>3. CASE Life!GetLoads(t)
    BY <2>3, <1>b
    DEF Life!GetLoads, CallRecords
  <2>4. CASE Life!GetCounts(t)
    BY <2>4, <1>b, MoveNamed
    DEF Life!GetCounts, CallRecords
  <2>5. CASE Life!GetUnlocks(t)
    BY <2>5, <1>b
    DEF Life!GetUnlocks, CallRecords
  <2>6. CASE Life!EndUse(t)
    BY <2>6, <1>b
    DEF Life!EndUse, CallRecords
  <2>7. ASSUME NEW pc \in {"make", "thread"}, Life!Verify(t, pc)
        PROVE  Lawful
    BY <2>7, <1>b
    DEF Life!Verify, Life!VerifyContext, Life!VerifyNone, CallRecords
  <2>8. CASE Life!MakeLocks(t)
    BY <2>8, <1>b, MoveNamed
    DEF Life!MakeLocks, CallRecords
  <2>9. CASE Life!MakeExchanges(t)
    BY <2>9, <1>b
    DEF Life!MakeExchanges, CallRecords
  <2>10. CASE Life!MakeDrops(t)
    BY <2>10, <1>b
    DEF Life!MakeDrops, CallRecords
  <2>11. CASE Life!MakeUnlocks(t)
    BY <2>11, <1>b
    DEF Life!MakeUnlocks, CallRecords
  <2>12. CASE Life!SetThreadContext(t)
    BY <2>12, <1>b
    DEF Life!SetThreadContext, CallRecords
  <2> QED
    BY <1>1, <2>1, <2>2, <2>3, <2>4, <2>5, <2>6, <2>7, <2>8, <2>9, <2>10, <2>11, <2>12
    DEF CurrentCalls, Life!GetContextRef, Life!MakeContextCurrent
<1>2. CASE Life!CreateContext(t)
  <2>1. CASE Life!CreateVerifies(t)
    BY <2>1, <1>b
    DEF Life!CreateVerifies
  <2>2. CASE Life!CreateLocks(t)
    BY <2>2, <1>b, MoveNamed
    DEF Life!CreateLocks
  <2>3. CASE Life!CreateStops(t)
    BY <2>3, <1>b
    DEF Life!CreateStops
  <2>4. CASE Life!CreateUpdates(t)
    BY <2>4, <1>b, MoveNamed
    DEF Life!CreateUpdates, CallRecords
  <2>5. CASE Life!CreateFails(t)
    BY <2>5, <1>b
    DEF Life!CreateFails
  <2>6. CASE Life!CreateMakes(t)
    BY <2>6, <1>b
    DEF Life!CreateMakes
  <2>7. CASE Life!CreateUnlocks(t)
    BY <2>7, <1>b
    DEF Life!CreateUnlocks
  <2>8. CASE Life!CreateLists(t)
    BY <2>8, <1>b
    DEF Life!CreateLists
  <2>9. CASE Life!CreateEnds(t)
    BY <2>9, <1>b
    DEF Life!CreateEnds
  <2> QED
    BY <1>2, <2>1, <2>2, <2>3, <2>4, <2>5, <2>6, <2>7, <2>8, <2>9
    DEF Life!CreateContext
<1>3. CASE Life!deinit(t)
  BY <1>3, <1>b, MoveDeinit
  DEF Life!deinit, Life!DeinitLocal, Life!DeinitGlobal, Life!DeinitAwaits, Life!DeinitSwaps,
      Life!DeinitDeletes, Life!DeinitStopsEvents, CallRecords
<1>4. CASE Life!DestroyContext(t)
  BY <1>4, <1>b, MoveDeinit
  DEF Life!DestroyContext, Life!DestroyVerifies, Life!DestroyLocks, Life!DestroyStops,
      Life!DestroyDrops, CallRecords
<1>5. CASE Life!CloseDevice(t)
  BY <1>5, <1>b
  DEF Life!CloseDevice, Life!CloseVerifies, Life!CloseLocks, Life!CloseOrphan, Life!CloseDrops,
      Life!CloseStops, CallRecords
<1>6. CASE Life!DeviceCalls(t)
  BY <1>6, <1>b
  DEF Life!DeviceCalls, Life!VerifyDevice, Life!DevicePause, Life!DeviceResume, Life!ResetDevice,
      Life!ReopenDevice, CallRecords
<1> QED BY <1>1, <1>2, <1>3, <1>4, <1>5, <1>6 DEF LifeStep, CurrentCalls

(* Who takes the current context out waits for whoever may have loaded it. *)
LEMMA LoadedStep ==
  ASSUME Typed, LoadedIsHeld, GlobalLocked, NEW t \in Thread, Moves(t),
         call'[t].pc = "count" => call'[t].c \in {None, global'},
         \/ global' = global
         \/ InGlobal(call[t])
         \/ TakesOut(call'[t], global),
         \/ \A c : TakesOut(call[t], c) => TakesOut(call'[t], c)
         \/ ~globalLock
  PROVE  LoadedIsHeld'
<1>1. \A u \in Thread : u # t => call'[u] = call[u]
  BY DEF Moves, Typed
<1> SUFFICES ASSUME NEW u \in Thread, call'[u].pc = "count", call'[u].c # None
             PROVE  global' = call'[u].c \/ \E v \in Thread : TakesOut(call'[v], call'[u].c)
  BY DEF LoadedIsHeld, Life!At
<1>2. CASE u # t
  <2>1. call'[u] = call[u] /\ InGlobal(call[u]) /\ globalLock
    BY <1>1, <1>2 DEF InGlobal, GlobalLocked
  <2>2. ~InGlobal(call[t])
    BY <2>1, <1>2 DEF GlobalLocked
  <2>3. \A c : TakesOut(call[t], c) => TakesOut(call'[t], c)
    BY <2>1
  <2>4. CASE global = call[u].c
    BY <2>1, <2>2, <2>4
  <2>5. ASSUME NEW v \in Thread, TakesOut(call[v], call[u].c)
        PROVE  \E w \in Thread : TakesOut(call'[w], call'[u].c)
    BY <2>1, <2>3, <2>5, <1>1
  <2> QED BY <2>1, <2>4, <2>5 DEF LoadedIsHeld, Life!At
<1>3. CASE u = t
  BY <1>3
<1> QED BY <1>2, <1>3

LEMMA LoadedNext ==
  ASSUME Typed, ArraysTyped, LoadedIsHeld, GlobalLocked, NEW t \in Thread, LifeStep(t)
  PROVE  LoadedIsHeld'
<1> DEFINE Lawful ==
      /\ call'[t].pc = "count" => call'[t].c \in {None, global'}
      /\ global' = global \/ InGlobal(call[t]) \/ TakesOut(call'[t], global)
      /\ (\A c : TakesOut(call[t], c) => TakesOut(call'[t], c)) \/ ~globalLock
<1>a. Moves(t)
  BY CallMoves
<1> SUFFICES Lawful
  BY <1>a, LoadedStep
<1>b. call[t] \in CallRecords /\ call \in [Thread -> CallRecords]
  BY DEF Typed
<1> USE DEF InGlobal, TakesOut, Life!Current, DeinitPcs, Life!Goes, Life!Steps, Life!At, Life!Idle
<1>1. CASE CurrentCalls(t)
  <2>1. CASE Life!GetThreads(t)
    BY <2>1, <1>b
    DEF Life!GetThreads, CallRecords
  <2>2. CASE Life!GetLocks(t)
    BY <2>2, <1>b
    DEF Life!GetLocks, CallRecords
  <2>3. CASE Life!GetLoads(t)
    BY <2>3, <1>b
    DEF Life!GetLoads, CallRecords
  <2>4. CASE Life!GetCounts(t)
    BY <2>4, <1>b, MoveNamed
    DEF Life!GetCounts, CallRecords
  <2>5. CASE Life!GetUnlocks(t)
    BY <2>5, <1>b
    DEF Life!GetUnlocks, CallRecords
  <2>6. CASE Life!EndUse(t)
    BY <2>6, <1>b
    DEF Life!EndUse, CallRecords
  <2>7. ASSUME NEW pc \in {"make", "thread"}, Life!Verify(t, pc)
        PROVE  Lawful
    BY <2>7, <1>b
    DEF Life!Verify, Life!VerifyContext, Life!VerifyNone, CallRecords
  <2>8. CASE Life!MakeLocks(t)
    BY <2>8, <1>b, MoveNamed
    DEF Life!MakeLocks, CallRecords
  <2>9. CASE Life!MakeExchanges(t)
    BY <2>9, <1>b
    DEF Life!MakeExchanges, CallRecords
  <2>10. CASE Life!MakeDrops(t)
    BY <2>10, <1>b
    DEF Life!MakeDrops, CallRecords
  <2>11. CASE Life!MakeUnlocks(t)
    BY <2>11, <1>b
    DEF Life!MakeUnlocks, CallRecords
  <2>12. CASE Life!SetThreadContext(t)
    BY <2>12, <1>b
    DEF Life!SetThreadContext, CallRecords
  <2> QED
    BY <1>1, <2>1, <2>2, <2>3, <2>4, <2>5, <2>6, <2>7, <2>8, <2>9, <2>10, <2>11, <2>12
    DEF CurrentCalls, Life!GetContextRef, Life!MakeContextCurrent
<1>2. CASE Life!CreateContext(t)
  <2>1. CASE Life!CreateVerifies(t)
    BY <2>1, <1>b
    DEF Life!CreateVerifies
  <2>2. CASE Life!CreateLocks(t)
    BY <2>2, <1>b, MoveNamed
    DEF Life!CreateLocks
  <2>3. CASE Life!CreateStops(t)
    BY <2>3, <1>b
    DEF Life!CreateStops
  <2>4. CASE Life!CreateUpdates(t)
    BY <2>4, <1>b, MoveNamed
    DEF Life!CreateUpdates, CallRecords
  <2>5. CASE Life!CreateFails(t)
    BY <2>5, <1>b
    DEF Life!CreateFails
  <2>6. CASE Life!CreateMakes(t)
    BY <2>6, <1>b
    DEF Life!CreateMakes
  <2>7. CASE Life!CreateUnlocks(t)
    BY <2>7, <1>b
    DEF Life!CreateUnlocks
  <2>8. CASE Life!CreateLists(t)
    BY <2>8, <1>b
    DEF Life!CreateLists
  <2>9. CASE Life!CreateEnds(t)
    BY <2>9, <1>b
    DEF Life!CreateEnds
  <2> QED
    BY <1>2, <2>1, <2>2, <2>3, <2>4, <2>5, <2>6, <2>7, <2>8, <2>9
    DEF Life!CreateContext
<1>3. CASE Life!deinit(t)
  <2>1. CASE Life!DeinitLocal(t)
    BY <2>1, <1>b, MoveDeinit
    DEF Life!DeinitLocal, CallRecords
  <2>2. CASE Life!DeinitGlobal(t)
    BY <2>2, <1>b, MoveDeinit
    DEF Life!DeinitGlobal, CallRecords
  <2>3. CASE Life!DeinitAwaits(t)
    BY <2>3, <1>b, MoveDeinit
    DEF Life!DeinitAwaits, CallRecords
  <2>4. CASE Life!DeinitSwaps(t)
    BY <2>4, <1>b, MoveDeinit
    DEF Life!DeinitSwaps, CallRecords
  <2>5. CASE Life!DeinitDeletes(t)
    BY <2>5, <1>b, MoveDeinit
    DEF Life!DeinitDeletes, CallRecords
  <2>6. CASE Life!DeinitStopsEvents(t)
    BY <2>6, <1>b, MoveDeinit
    DEF Life!DeinitStopsEvents, CallRecords
  <2> QED
    BY <1>3, <2>1, <2>2, <2>3, <2>4, <2>5, <2>6
    DEF Life!deinit
<1>4. CASE Life!DestroyContext(t)
  BY <1>4, <1>b, MoveDeinit
  DEF Life!DestroyContext, Life!DestroyVerifies, Life!DestroyLocks, Life!DestroyStops,
      Life!DestroyDrops, CallRecords
<1>5. CASE Life!CloseDevice(t)
  BY <1>5, <1>b
  DEF Life!CloseDevice, Life!CloseVerifies, Life!CloseLocks, Life!CloseOrphan, Life!CloseDrops,
      Life!CloseStops, CallRecords
<1>6. CASE Life!DeviceCalls(t)
  BY <1>6, <1>b
  DEF Life!DeviceCalls, Life!VerifyDevice, Life!DevicePause, Life!DeviceResume, Life!ResetDevice,
      Life!ReopenDevice, CallRecords
<1> QED BY <1>1, <1>2, <1>3, <1>4, <1>5, <1>6 DEF LifeStep, CurrentCalls

-----------------------------------------------------------------------------
(* A context has one owner, from its making to its end. *)
LEMMA UnmadeIsUnowned ==
  ASSUME Typed, RefsCounted, MakingOK, NEW c \in Context, life[c] = "unmade"
  PROVE  \A u \in Thread : ~Owns(call[u], c) /\ c \notin ContextList
<1> SUFFICES ASSUME NEW u \in Thread, Owns(call[u], c) \/ c \in ContextList
             PROVE  FALSE
  OBVIOUS
<1>1. refs[c] \in Nat /\ ~(refs[c] > 0) /\ refs[c] = Held(c)
  BY DEF RefsCounted, Typed
<1>2. ~HoldsIt(call[u], c) /\ c \notin ContextList
  BY <1>1, HeldIsCounted
<1>3. call[u].pc \in {"create", "update", "new", "fail"} /\ call[u].c = c
  BY <1>2 DEF Owns, HoldsIt, Creating
<1> QED BY <1>3 DEF MakingOK

LEMMA OwnersStep ==
  ASSUME Typed, OneOwner, NEW t \in Thread, Moves(t), ContextList' \subseteq Context,
         \A c \in Context :
           /\ Owns(call'[t], c) =>
                c \notin ContextList' /\ (Owns(call[t], c) \/ \A u \in Thread : ~Owns(call[u], c))
           /\ c \in ContextList' => c \in ContextList \/ Owns(call[t], c)
  PROVE  OneOwner'
<1>1. \A u \in Thread : u # t => call'[u] = call[u]
  BY DEF Moves, Typed
<1>2. \A u \in Thread, c \in Context : u # t /\ Owns(call'[t], c) => ~Owns(call'[u], c)
  BY <1>1 DEF OneOwner
<1>3. \A u, v \in Thread : \A c \in Context : Owns(call'[u], c) /\ Owns(call'[v], c) => u = v
  BY <1>1, <1>2 DEF OneOwner
<1>4. \A u \in Thread : \A c \in ContextList' : ~Owns(call'[u], c)
  BY <1>1 DEF OneOwner
<1> QED BY <1>3, <1>4 DEF OneOwner

LEMMA OwnersNext ==
  ASSUME Typed, ArraysTyped, RefsCounted, OneOwner, MakingOK, NEW t \in Thread, LifeStep(t)
  PROVE  OneOwner' /\ ContextList' \subseteq Context
<1> DEFINE Lawful ==
      /\ ContextList' \subseteq Context
      /\ \A c \in Context :
           /\ Owns(call'[t], c) =>
                c \notin ContextList' /\ (Owns(call[t], c) \/ \A u \in Thread : ~Owns(call[u], c))
           /\ c \in ContextList' => c \in ContextList \/ Owns(call[t], c)
<1>a. Moves(t)
  BY CallMoves
<1> SUFFICES Lawful
  BY <1>a, OwnersStep
<1>b. call[t] \in CallRecords /\ call \in [Thread -> CallRecords]
  BY DEF Typed
<1>c. /\ ContextList \subseteq Context
      /\ \A c \in Context : Owns(call[t], c) => c \notin ContextList
      /\ \A c \in ContextList : \A u \in Thread : ~Owns(call[u], c)
  BY DEF OneOwner, Typed
<1>d. \A c \in Context : life[c] = "unmade" => \A u \in Thread : ~Owns(call[u], c) /\ c \notin ContextList
  BY UnmadeIsUnowned
<1> USE DEF Owns, Creating, Destroying, Closing, DeinitPcs, Life!Goes, Life!Steps, Life!At, Life!Idle
<1>1. CASE CurrentCalls(t)
  BY <1>1, <1>c, CurrentCallsQuiet DEF Quiet, CurrentPcs
<1>2. CASE Life!CreateContext(t)
  <2>1. CASE Life!CreateVerifies(t)
    BY <2>1, <1>b, <1>c, <1>d
    DEF Life!CreateVerifies, CallRecords
  <2>2. CASE Life!CreateLocks(t)
    BY <2>2, <1>b, <1>c, <1>d, MoveNamed
    DEF Life!CreateLocks, CallRecords
  <2>3. CASE Life!CreateStops(t)
    BY <2>3, <1>b, <1>c, <1>d
    DEF Life!CreateStops, CallRecords
  <2>4. CASE Life!CreateUpdates(t)
    BY <2>4, <1>b, <1>c, <1>d, MoveNamed
    DEF Life!CreateUpdates, CallRecords
  <2>5. CASE Life!CreateFails(t)
    BY <2>5, <1>b, <1>c, <1>d
    DEF Life!CreateFails, CallRecords
  <2>6. CASE Life!CreateMakes(t)
    BY <2>6, <1>b, <1>c, <1>d
    DEF Life!CreateMakes, CallRecords
  <2>7. CASE Life!CreateUnlocks(t)
    BY <2>7, <1>b, <1>c, <1>d
    DEF Life!CreateUnlocks, CallRecords
  <2>8. CASE Life!CreateLists(t)
    BY <2>8, <1>b, <1>c, <1>d
    DEF Life!CreateLists, CallRecords
  <2>9. CASE Life!CreateEnds(t)
    BY <2>9, <1>b, <1>c, <1>d
    DEF Life!CreateEnds, CallRecords
  <2> QED
    BY <1>2, <2>1, <2>2, <2>3, <2>4, <2>5, <2>6, <2>7, <2>8, <2>9
    DEF Life!CreateContext
<1>3. CASE Life!deinit(t)
  <2>1. CASE Life!DeinitLocal(t)
    BY <2>1, <1>b, <1>c, MoveDeinit
    DEF Life!DeinitLocal, CallRecords
  <2>2. CASE Life!DeinitGlobal(t)
    BY <2>2, <1>b, <1>c, MoveDeinit
    DEF Life!DeinitGlobal, CallRecords
  <2>3. CASE Life!DeinitAwaits(t)
    BY <2>3, <1>b, <1>c, MoveDeinit
    DEF Life!DeinitAwaits, CallRecords
  <2>4. CASE Life!DeinitSwaps(t)
    BY <2>4, <1>b, <1>c, MoveDeinit
    DEF Life!DeinitSwaps, CallRecords
  <2>5. CASE Life!DeinitDeletes(t)
    BY <2>5, <1>b, <1>c, MoveDeinit
    DEF Life!DeinitDeletes, CallRecords
  <2>6. CASE Life!DeinitStopsEvents(t)
    BY <2>6, <1>b, <1>c, MoveDeinit
    DEF Life!DeinitStopsEvents, CallRecords
  <2> QED
    BY <1>3, <2>1, <2>2, <2>3, <2>4, <2>5, <2>6
    DEF Life!deinit
<1>4. CASE Life!DestroyContext(t)
  <2>1. ASSUME NEW c \in Context, Life!DestroyVerifies(t, c)
        PROVE  Lawful
    BY <2>1, <1>b, <1>c
    DEF Life!DestroyVerifies, CallRecords
  <2>2. CASE Life!DestroyLocks(t)
    BY <2>2, <1>b, <1>c, MoveDeinit
    DEF Life!DestroyLocks, CallRecords
  <2>3. CASE Life!DestroyStops(t)
    BY <2>3, <1>b, <1>c, MoveDeinit
    DEF Life!DestroyStops, CallRecords
  <2>4. CASE Life!DestroyDrops(t)
    BY <2>4, <1>b, <1>c
    DEF Life!DestroyDrops, CallRecords
  <2> QED
    BY <1>4, <2>1, <2>2, <2>3, <2>4
    DEF Life!DestroyContext
<1>5. CASE Life!CloseDevice(t)
  <2>1. CASE Life!CloseVerifies(t)
    BY <2>1, <1>b, <1>c
    DEF Life!CloseVerifies, CallRecords
  <2>2. CASE Life!CloseLocks(t)
    BY <2>2, <1>b, <1>c
    DEF Life!CloseLocks, CallRecords
  <2>3. CASE Life!CloseOrphan(t)
    BY <2>3, <1>b, <1>c
    DEF Life!CloseOrphan, CallRecords
  <2>4. CASE Life!CloseDrops(t)
    BY <2>4, <1>b, <1>c
    DEF Life!CloseDrops, CallRecords
  <2>5. CASE Life!CloseStops(t)
    BY <2>5, <1>b, <1>c
    DEF Life!CloseStops, CallRecords
  <2> QED
    BY <1>5, <2>1, <2>2, <2>3, <2>4, <2>5
    DEF Life!CloseDevice
<1>6. CASE Life!DeviceCalls(t)
  BY <1>6, <1>b, <1>c
  DEF Life!DeviceCalls, Life!VerifyDevice, Life!DevicePause, Life!DeviceResume, Life!ResetDevice,
      Life!ReopenDevice, CallRecords
<1> QED BY <1>1, <1>2, <1>3, <1>4, <1>5, <1>6 DEF LifeStep, CurrentCalls

LEMMA MakingStep ==
  ASSUME Typed, OneOwner, MakingOK, NEW t \in Thread, Moves(t),
         call'[t].pc \in {"create", "update", "new", "fail"} => life'[call'[t].c] = "making",
         \A c \in Context : life[c] = "making" => life'[c] = "making" \/ Owns(call[t], c)
  PROVE  MakingOK'
<1>1. \A u \in Thread : u # t => call'[u] = call[u]
  BY DEF Moves, Typed
<1>2. ASSUME NEW u \in Thread, u # t, call[u].pc \in {"create", "update", "new", "fail"}
      PROVE  life'[call[u].c] = "making"
  <2>1. call[u].c \in Context
    BY <1>2 DEF Typed, CallRecords, DeinitPcs
  <2>2. Owns(call[u], call[u].c)
    BY <1>2 DEF Owns, Creating
  <2> QED BY <2>1, <2>2, <1>2 DEF MakingOK, OneOwner
<1> QED BY <1>1, <1>2 DEF MakingOK

LEMMA MakingNext ==
  ASSUME Typed, ArraysTyped, RefsCounted, OneOwner, MakingOK, NEW t \in Thread, LifeStep(t)
  PROVE  MakingOK'
<1> DEFINE Lawful ==
      /\ call'[t].pc \in {"create", "update", "new", "fail"} => life'[call'[t].c] = "making"
      /\ \A c \in Context : life[c] = "making" => life'[c] = "making" \/ Owns(call[t], c)
<1>a. Moves(t)
  BY CallMoves
<1> SUFFICES Lawful
  BY <1>a, MakingStep
<1>b. call[t] \in CallRecords /\ call \in [Thread -> CallRecords]
  BY DEF Typed
<1>c. /\ call[t].pc \in {"create", "update", "new", "fail"} => life[call[t].c] = "making"
      /\ life \in [Context -> {"unmade", "making", "live", "freed"}]
  BY DEF MakingOK, Typed
<1>d. \A c \in Context : refs[c] = 1 => life[c] = "live"
  BY DEF RefsCounted
<1> USE DEF Owns, Creating, Destroying, Closing, DeinitPcs, Life!Goes, Life!Steps, Life!At, Life!Idle
<1>1. CASE CurrentCalls(t)
  BY <1>1, <1>c, CurrentCallsQuiet DEF Quiet, CurrentPcs
<1>2. CASE Life!CreateContext(t)
  <2>1. CASE Life!CreateVerifies(t)
    BY <2>1, <1>b, <1>c, <1>d
    DEF Life!CreateVerifies, CallRecords, Life!Contexts, Life!Drop
  <2>2. CASE Life!CreateLocks(t)
    BY <2>2, <1>b, <1>c, <1>d, MoveNamed
    DEF Life!CreateLocks, CallRecords, Life!Contexts, Life!Drop
  <2>3. CASE Life!CreateStops(t)
    BY <2>3, <1>b, <1>c, <1>d
    DEF Life!CreateStops, CallRecords, Life!Contexts, Life!Drop
  <2>4. CASE Life!CreateUpdates(t)
    BY <2>4, <1>b, <1>c, <1>d, MoveNamed
    DEF Life!CreateUpdates, CallRecords, Life!Contexts, Life!Drop
  <2>5. CASE Life!CreateFails(t)
    BY <2>5, <1>b, <1>c, <1>d
    DEF Life!CreateFails, CallRecords, Life!Contexts, Life!Drop
  <2>6. CASE Life!CreateMakes(t)
    BY <2>6, <1>b, <1>c, <1>d
    DEF Life!CreateMakes, CallRecords, Life!Contexts, Life!Drop
  <2>7. CASE Life!CreateUnlocks(t)
    BY <2>7, <1>b, <1>c, <1>d
    DEF Life!CreateUnlocks, CallRecords, Life!Contexts, Life!Drop
  <2>8. CASE Life!CreateLists(t)
    BY <2>8, <1>b, <1>c, <1>d
    DEF Life!CreateLists, CallRecords, Life!Contexts, Life!Drop
  <2>9. CASE Life!CreateEnds(t)
    BY <2>9, <1>b, <1>c, <1>d
    DEF Life!CreateEnds, CallRecords, Life!Contexts, Life!Drop
  <2> QED
    BY <1>2, <2>1, <2>2, <2>3, <2>4, <2>5, <2>6, <2>7, <2>8, <2>9
    DEF Life!CreateContext
<1>3. CASE Life!deinit(t)
  <2>1. CASE Life!DeinitLocal(t)
    BY <2>1, <1>b, <1>c, <1>d, MoveDeinit
    DEF Life!DeinitLocal, CallRecords, Life!Contexts, Life!Drop
  <2>2. CASE Life!DeinitGlobal(t)
    BY <2>2, <1>b, <1>c, <1>d, MoveDeinit
    DEF Life!DeinitGlobal, CallRecords, Life!Contexts, Life!Drop
  <2>3. CASE Life!DeinitAwaits(t)
    BY <2>3, <1>b, <1>c, <1>d, MoveDeinit
    DEF Life!DeinitAwaits, CallRecords, Life!Contexts, Life!Drop
  <2>4. CASE Life!DeinitSwaps(t)
    BY <2>4, <1>b, <1>c, <1>d, MoveDeinit
    DEF Life!DeinitSwaps, CallRecords, Life!Contexts, Life!Drop
  <2>5. CASE Life!DeinitDeletes(t)
    BY <2>5, <1>b, <1>c, <1>d, MoveDeinit
    DEF Life!DeinitDeletes, CallRecords, Life!Contexts, Life!Drop
  <2>6. CASE Life!DeinitStopsEvents(t)
    BY <2>6, <1>b, <1>c, <1>d, MoveDeinit
    DEF Life!DeinitStopsEvents, CallRecords, Life!Contexts, Life!Drop
  <2> QED
    BY <1>3, <2>1, <2>2, <2>3, <2>4, <2>5, <2>6
    DEF Life!deinit
<1>4. CASE Life!DestroyContext(t)
  <2>1. ASSUME NEW c \in Context, Life!DestroyVerifies(t, c)
        PROVE  Lawful
    BY <2>1, <1>b, <1>c, <1>d
    DEF Life!DestroyVerifies, CallRecords, Life!Contexts, Life!Drop
  <2>2. CASE Life!DestroyLocks(t)
    BY <2>2, <1>b, <1>c, <1>d, MoveDeinit
    DEF Life!DestroyLocks, CallRecords, Life!Contexts, Life!Drop
  <2>3. CASE Life!DestroyStops(t)
    BY <2>3, <1>b, <1>c, <1>d, MoveDeinit
    DEF Life!DestroyStops, CallRecords, Life!Contexts, Life!Drop
  <2>4. CASE Life!DestroyDrops(t)
    BY <2>4, <1>b, <1>c, <1>d
    DEF Life!DestroyDrops, CallRecords, Life!Contexts, Life!Drop
  <2> QED
    BY <1>4, <2>1, <2>2, <2>3, <2>4
    DEF Life!DestroyContext
<1>5. CASE Life!CloseDevice(t)
  <2>1. CASE Life!CloseVerifies(t)
    BY <2>1, <1>b, <1>c, <1>d
    DEF Life!CloseVerifies, CallRecords, Life!Contexts, Life!Drop
  <2>2. CASE Life!CloseLocks(t)
    BY <2>2, <1>b, <1>c, <1>d
    DEF Life!CloseLocks, CallRecords, Life!Contexts, Life!Drop
  <2>3. CASE Life!CloseOrphan(t)
    BY <2>3, <1>b, <1>c, <1>d
    DEF Life!CloseOrphan, CallRecords, Life!Contexts, Life!Drop
  <2>4. CASE Life!CloseDrops(t)
    BY <2>4, <1>b, <1>c, <1>d
    DEF Life!CloseDrops, CallRecords, Life!Contexts, Life!Drop
  <2>5. CASE Life!CloseStops(t)
    BY <2>5, <1>b, <1>c, <1>d
    DEF Life!CloseStops, CallRecords, Life!Contexts, Life!Drop
  <2> QED
    BY <1>5, <2>1, <2>2, <2>3, <2>4, <2>5
    DEF Life!CloseDevice
<1>6. CASE Life!DeviceCalls(t)
  BY <1>6, <1>b, <1>c, <1>d
  DEF Life!DeviceCalls, Life!VerifyDevice, Life!DevicePause, Life!DeviceResume, Life!ResetDevice,
      Life!ReopenDevice, CallRecords, Life!Contexts, Life!Drop
<1> QED BY <1>1, <1>2, <1>3, <1>4, <1>5, <1>6 DEF LifeStep, CurrentCalls

-----------------------------------------------------------------------------
(* There is a number for a new array. *)
LEMMA NewNumber ==
  ASSUME NEW D \in SUBSET Nat, IsFiniteSet(D)
  PROVE  \E n \in 0..Cardinality(D) : n \notin D
<1> DEFINE n == Cardinality(D)
           I == 0..n
<1>1. n \in Nat
  BY FS_CardinalityType
<1>2. IsFiniteSet(I) /\ Cardinality(I) = n + 1
  BY <1>1, FS_Interval
<1>3. I \subseteq D => Cardinality(I) <= n
  BY FS_Subset
<1> HIDE DEF n, I
<1>4. ~(I \subseteq D)
  BY <1>1, <1>2, <1>3
<1> QED BY <1>4 DEF n, I

(* A new array is beside the others and has what it is made with. *)
LEMMA NewArrayMakes ==
  ASSUME ArraysTyped, NEW s \in SUBSET Context, Life!NewArray(s)
  PROVE  /\ ArraysTyped'
         /\ arrays'[mContexts'] = s
         /\ \A a \in DOMAIN arrays : a \in DOMAIN arrays' /\ arrays'[a] = arrays[a]
         /\ s = {} => mContexts' = 0
         /\ s # {} => mContexts' \notin DOMAIN arrays
<1>1. CASE s = {}
  BY <1>1 DEF ArraysTyped, Life!NewArray, Life!EmptyContextArray
<1>2. CASE s # {}
  <2>1. PICK a \in Nat : /\ a \notin DOMAIN arrays /\ mContexts' = a
                         /\ arrays' = [n \in DOMAIN arrays \cup {a} |-> IF n = a THEN s ELSE arrays[n]]
    <3> DEFINE n == CHOOSE n \in 0..Life!Cardinality(DOMAIN arrays) : n \notin DOMAIN arrays
    <3>1. \E m \in 0..Cardinality(DOMAIN arrays) : m \notin DOMAIN arrays
      BY NewNumber DEF ArraysTyped
    <3>2. Life!Cardinality(DOMAIN arrays) = Cardinality(DOMAIN arrays)
      BY SameCardinality
    <3>3. n \in 0..Cardinality(DOMAIN arrays) /\ n \notin DOMAIN arrays
      BY <3>1, <3>2
    <3>4. /\ mContexts' = n
          /\ arrays' = [m \in DOMAIN arrays \cup {n} |-> IF m = n THEN s ELSE arrays[m]]
      BY <1>2 DEF Life!NewArray
    <3> HIDE DEF n
    <3>5. n \in Nat
      BY <3>3, FS_CardinalityType DEF ArraysTyped
    <3> QED BY <3>3, <3>4, <3>5
  <2>2. DOMAIN arrays' = DOMAIN arrays \cup {a} /\ arrays'[a] = s
    BY <2>1
  <2>3. \A n \in DOMAIN arrays : arrays'[n] = arrays[n]
    BY <2>1
  <2>4. IsFiniteSet(DOMAIN arrays') /\ DOMAIN arrays' \subseteq Nat
    BY <2>1, <2>2, FS_AddElement DEF ArraysTyped
  <2>5. arrays' \in [DOMAIN arrays' -> SUBSET Context]
    BY <2>1, <2>2 DEF ArraysTyped
  <2> QED BY <2>1, <2>2, <2>3, <2>4, <2>5, <1>2 DEF ArraysTyped
<1> QED BY <1>1, <1>2

(* An old array goes, and the others stay as they are. *)
LEMMA OldArrayGoes ==
  ASSUME ArraysTyped, NEW t, Life!DeletesOld(t), call[t].old \in Nat, call[t].old # mContexts
  PROVE  /\ ArraysTyped' /\ mContexts' = mContexts
         /\ \A a \in DOMAIN arrays :
              a # call[t].old \/ a = 0 => a \in DOMAIN arrays' /\ arrays'[a] = arrays[a]
<1> DEFINE D == (DOMAIN arrays \ {call[t].old}) \cup {0}
<1>1. arrays' = [n \in D |-> arrays[n]] /\ mContexts' = mContexts
  BY DEF Life!DeletesOld, Life!EmptyContextArray
<1>2. IsFiniteSet(D)
  BY FS_RemoveElement, FS_AddElement DEF ArraysTyped
<1>3. D \subseteq DOMAIN arrays /\ 0 \in D /\ mContexts \in D
  BY DEF ArraysTyped
<1> HIDE DEF D
<1>4. DOMAIN arrays' = D /\ \A a \in D : arrays'[a] = arrays[a]
  BY <1>1
<1>5. arrays' \in [D -> SUBSET Context]
  BY <1>1, <1>3 DEF ArraysTyped
<1>6. ArraysTyped'
  BY <1>1, <1>2, <1>3, <1>4, <1>5 DEF ArraysTyped
<1> QED BY <1>1, <1>4, <1>6 DEF D

LEMMA ArraysNext ==
  ASSUME Typed, ArraysTyped, RefsCounted, OldOK, NEW t \in Thread, LifeStep(t)
  PROVE  ArraysTyped'
<1>b. call[t] \in CallRecords /\ arrays[mContexts] \subseteq Context
  BY DEF Typed, ArraysTyped
<1> USE DEF DeinitPcs, Life!Goes, Life!Steps, Life!At, Life!Idle, Life!Array
<1>1. CASE CurrentCalls(t)
  BY <1>1, CurrentCallsQuiet DEF Quiet, ArraysTyped
<1>2. CASE Life!CreateContext(t)
  <2>1. CASE Life!CreateVerifies(t)
    BY <2>1
    DEF Life!CreateVerifies, ArraysTyped
  <2>2. CASE Life!CreateLocks(t)
    BY <2>2, MoveNamed
    DEF Life!CreateLocks, ArraysTyped
  <2>3. CASE Life!CreateStops(t)
    BY <2>3
    DEF Life!CreateStops, ArraysTyped
  <2>4. CASE Life!CreateUpdates(t)
    BY <2>4, MoveNamed
    DEF Life!CreateUpdates, ArraysTyped
  <2>5. CASE Life!CreateFails(t)
    BY <2>5
    DEF Life!CreateFails, ArraysTyped
  <2>6. CASE Life!CreateMakes(t)
    <3>1. call[t].c \in Context
      BY <2>6, <1>b DEF Life!CreateMakes, CallRecords
    <3>2. Life!NewArray(arrays[mContexts] \cup {call[t].c}) \/ UNCHANGED <<arrays, mContexts>>
      BY <2>6 DEF Life!CreateMakes
    <3>3. arrays[mContexts] \cup {call[t].c} \in SUBSET Context
      BY <3>1, <1>b
    <3> QED BY <3>2, <3>3, NewArrayMakes DEF ArraysTyped
  <2>7. CASE Life!CreateUnlocks(t)
    <3>1. call[t].old \in Nat /\ call[t].old # mContexts
      BY <2>7, <1>b DEF Life!CreateUnlocks, CallRecords, OldOK
    <3>2. Life!DeletesOld(t)
      BY <2>7 DEF Life!CreateUnlocks
    <3> QED BY <3>1, <3>2, OldArrayGoes
  <2>8. CASE Life!CreateLists(t)
    BY <2>8
    DEF Life!CreateLists, ArraysTyped
  <2>9. CASE Life!CreateEnds(t)
    BY <2>9
    DEF Life!CreateEnds, ArraysTyped
  <2> QED
    BY <1>2, <2>1, <2>2, <2>3, <2>4, <2>5, <2>6, <2>7, <2>8, <2>9
    DEF Life!CreateContext
<1>3. CASE Life!deinit(t)
  <2>1. CASE Life!DeinitLocal(t)
    BY <2>1, MoveDeinit
    DEF Life!DeinitLocal, ArraysTyped
  <2>2. CASE Life!DeinitGlobal(t)
    BY <2>2, MoveDeinit
    DEF Life!DeinitGlobal, ArraysTyped
  <2>3. CASE Life!DeinitAwaits(t)
    BY <2>3, MoveDeinit
    DEF Life!DeinitAwaits, ArraysTyped
  <2>4. CASE Life!DeinitSwaps(t)
    <3>1. call[t].c \in Context
      BY <2>4, <1>b DEF Life!DeinitSwaps, CallRecords
    <3>2. Life!NewArray(arrays[mContexts] \ {call[t].c}) \/ UNCHANGED <<arrays, mContexts>>
      BY <2>4 DEF Life!DeinitSwaps
    <3>3. arrays[mContexts] \ {call[t].c} \in SUBSET Context
      BY <3>1, <1>b
    <3> QED BY <3>2, <3>3, NewArrayMakes DEF ArraysTyped
  <2>5. CASE Life!DeinitDeletes(t)
    <3>1. call[t].old \in Nat /\ call[t].old # mContexts
      BY <2>5, <1>b DEF Life!DeinitDeletes, CallRecords, OldOK
    <3>2. Life!DeletesOld(t)
      BY <2>5 DEF Life!DeinitDeletes
    <3> QED BY <3>1, <3>2, OldArrayGoes
  <2>6. CASE Life!DeinitStopsEvents(t)
    BY <2>6, MoveDeinit
    DEF Life!DeinitStopsEvents, ArraysTyped
  <2> QED
    BY <1>3, <2>1, <2>2, <2>3, <2>4, <2>5, <2>6
    DEF Life!deinit
<1>4. CASE Life!DestroyContext(t)
  BY <1>4, MoveDeinit
  DEF Life!DestroyContext, Life!DestroyVerifies, Life!DestroyLocks, Life!DestroyStops,
      Life!DestroyDrops, ArraysTyped
<1>5. CASE Life!CloseDevice(t)
  BY <1>5
  DEF Life!CloseDevice, Life!CloseVerifies, Life!CloseLocks, Life!CloseOrphan, Life!CloseDrops,
      Life!CloseStops, ArraysTyped
<1>6. CASE Life!DeviceCalls(t)
  BY <1>6
  DEF Life!DeviceCalls, Life!VerifyDevice, Life!DevicePause, Life!DeviceResume, Life!ResetDevice,
      Life!ReopenDevice, ArraysTyped
<1> QED BY <1>1, <1>2, <1>3, <1>4, <1>5, <1>6 DEF LifeStep, CurrentCalls

(* The array of contexts changes with the list and the calls. *)
LEMMA PlacedStep ==
  ASSUME Typed, PlacedOK, OneOwner, NEW t \in Thread, Moves(t), arrays'[mContexts'] \subseteq Context,
         \/ /\ arrays'[mContexts'] = arrays[mContexts]
            /\ \A c \in Context : c \in ContextList' \/ Placed(call'[t], c)
                                <=> c \in ContextList \/ Placed(call[t], c)
         \/ \E d \in Context :
              /\ arrays'[mContexts'] = arrays[mContexts] \cup {d} /\ ContextList' = ContextList
              /\ \A c \in Context : Placed(call'[t], c) <=> Placed(call[t], c) \/ c = d
         \/ \E d \in Context :
              /\ arrays'[mContexts'] = arrays[mContexts] \ {d} /\ ContextList' = ContextList
              /\ Owns(call[t], d)
              /\ \A c \in Context : Placed(call'[t], c) <=> Placed(call[t], c) /\ c # d
  PROVE  PlacedOK'
<1>1. \A u \in Thread : u # t => call'[u] = call[u]
  BY DEF Moves, Typed
<1>2. \A c \in Context : c \in arrays[mContexts] <=> c \in ContextList \/ \E u \in Thread : Placed(call[u], c)
  BY DEF PlacedOK
<1>3. \A u \in Thread, c \in Context : Placed(call[u], c) => Owns(call[u], c)
  BY DEF Placed, Owns, Creating, Destroying, Closing, Typed, CallRecords, DeinitPcs
<1> SUFFICES \A c \in Context :
       c \in arrays'[mContexts'] <=> c \in ContextList' \/ \E u \in Thread : Placed(call'[u], c)
  BY DEF PlacedOK
<1> TAKE c \in Context
<1>4. CASE arrays'[mContexts'] = arrays[mContexts] /\ (c \in ContextList' \/ Placed(call'[t], c) <=> c \in ContextList \/ Placed(call[t], c))
  BY <1>1, <1>2, <1>4
<1>5. ASSUME NEW d \in Context, arrays'[mContexts'] = arrays[mContexts] \cup {d}, ContextList' = ContextList,
             Placed(call'[t], c) <=> Placed(call[t], c) \/ c = d
      PROVE  c \in arrays'[mContexts'] <=> c \in ContextList' \/ \E u \in Thread : Placed(call'[u], c)
  BY <1>1, <1>2, <1>5
<1>6. ASSUME NEW d \in Context, arrays'[mContexts'] = arrays[mContexts] \ {d}, ContextList' = ContextList, Owns(call[t], d),
             Placed(call'[t], c) <=> Placed(call[t], c) /\ c # d
      PROVE  c \in arrays'[mContexts'] <=> c \in ContextList' \/ \E u \in Thread : Placed(call'[u], c)
  <2>1. CASE c = d
    <3>1. c \notin ContextList /\ \A u \in Thread : u # t => ~Placed(call[u], c)
      BY <2>1, <1>3, <1>6 DEF OneOwner
    <3> QED BY <3>1, <2>1, <1>1, <1>6
  <2>2. CASE c # d
    BY <2>2, <1>1, <1>2, <1>6
  <2> QED BY <2>1, <2>2
<1> QED BY <1>4, <1>5, <1>6

LEMMA PlacedNext ==
  ASSUME Typed, ArraysTyped, RefsCounted, OneOwner, PlacedOK, OldOK, MakingOK,
         NEW t \in Thread, LifeStep(t)
  PROVE  PlacedOK'
<1> DEFINE Lawful ==
      /\ arrays'[mContexts'] \subseteq Context
      /\ \/ /\ arrays'[mContexts'] = arrays[mContexts]
            /\ \A c \in Context : c \in ContextList' \/ Placed(call'[t], c)
                                <=> c \in ContextList \/ Placed(call[t], c)
         \/ \E d \in Context :
              /\ arrays'[mContexts'] = arrays[mContexts] \cup {d} /\ ContextList' = ContextList
              /\ \A c \in Context : Placed(call'[t], c) <=> Placed(call[t], c) \/ c = d
         \/ \E d \in Context :
              /\ arrays'[mContexts'] = arrays[mContexts] \ {d} /\ ContextList' = ContextList
              /\ Owns(call[t], d)
              /\ \A c \in Context : Placed(call'[t], c) <=> Placed(call[t], c) /\ c # d
<1>a. Moves(t)
  BY CallMoves
<1> SUFFICES Lawful
  BY <1>a, PlacedStep
<1>b. call[t] \in CallRecords /\ call \in [Thread -> CallRecords]
  BY DEF Typed
<1>c. arrays[mContexts] \subseteq Context /\ ContextList \subseteq Context /\ Closer(call[t])
  BY DEF Typed, ArraysTyped, Closer
<1> USE DEF Placed, Closing, DeinitPcs, Life!Goes, Life!Steps, Life!At, Life!Idle
<1>1. CASE CurrentCalls(t)
  BY <1>1, <1>c, CurrentCallsQuiet DEF Quiet, CurrentPcs
<1>2. CASE Life!CreateContext(t)
  <2>1. CASE Life!CreateVerifies(t)
    BY <2>1, <1>b, <1>c
    DEF Life!CreateVerifies, CallRecords, Life!Array, Life!Contexts, Closer
  <2>2. CASE Life!CreateLocks(t)
    BY <2>2, <1>b, <1>c, MoveNamed
    DEF Life!CreateLocks, CallRecords, Life!Array, Life!Contexts, Closer
  <2>3. CASE Life!CreateStops(t)
    BY <2>3, <1>b, <1>c
    DEF Life!CreateStops, CallRecords, Life!Array, Life!Contexts, Closer
  <2>4. CASE Life!CreateUpdates(t)
    BY <2>4, <1>b, <1>c, MoveNamed
    DEF Life!CreateUpdates, CallRecords, Life!Array, Life!Contexts, Closer
  <2>5. CASE Life!CreateFails(t)
    BY <2>5, <1>b, <1>c
    DEF Life!CreateFails, CallRecords, Life!Array, Life!Contexts, Closer
  <2>6. CASE Life!CreateMakes(t)
    <3>1. call[t].c \in Context /\ arrays[mContexts] \cup {call[t].c} \in SUBSET Context
      BY <2>6, <1>b, <1>c DEF Life!CreateMakes, CallRecords
    <3>2. arrays'[mContexts'] = arrays[mContexts] \cup {call[t].c}
      BY <3>1, <2>6, NewArrayMakes DEF Life!CreateMakes
    <3>3. \A c \in Context : Placed(call'[t], c) <=> Placed(call[t], c) \/ c = call[t].c
      BY <2>6, <1>b DEF Life!CreateMakes
    <3> QED BY <3>1, <3>2, <3>3, <2>6 DEF Life!CreateMakes
  <2>7. CASE Life!CreateUnlocks(t)
    <3>1. call[t].old \in Nat /\ call[t].old # mContexts
      BY <2>7, <1>b DEF Life!CreateUnlocks, CallRecords, OldOK
    <3>2. mContexts' = mContexts /\ arrays'[mContexts] = arrays[mContexts]
      BY <3>1, <2>7, OldArrayGoes DEF Life!CreateUnlocks, ArraysTyped
    <3>3. \A c \in Context : Placed(call'[t], c) <=> Placed(call[t], c)
      BY <2>7, <1>b DEF Life!CreateUnlocks, CallRecords
    <3> QED BY <3>2, <3>3, <2>7, <1>c DEF Life!CreateUnlocks
  <2>8. CASE Life!CreateLists(t)
    BY <2>8, <1>b, <1>c
    DEF Life!CreateLists, CallRecords, Life!Array, Life!Contexts, Closer
  <2>9. CASE Life!CreateEnds(t)
    BY <2>9, <1>b, <1>c
    DEF Life!CreateEnds, CallRecords, Life!Array, Life!Contexts, Closer
  <2> QED
    BY <1>2, <2>1, <2>2, <2>3, <2>4, <2>5, <2>6, <2>7, <2>8, <2>9
    DEF Life!CreateContext
<1>3. CASE Life!deinit(t)
  <2>1. CASE Life!DeinitLocal(t)
    BY <2>1, <1>b, <1>c, MoveDeinit
    DEF Life!DeinitLocal, CallRecords, Life!Array, Life!Contexts, Closer
  <2>2. CASE Life!DeinitGlobal(t)
    BY <2>2, <1>b, <1>c, MoveDeinit
    DEF Life!DeinitGlobal, CallRecords, Life!Array, Life!Contexts, Closer
  <2>3. CASE Life!DeinitAwaits(t)
    BY <2>3, <1>b, <1>c, MoveDeinit
    DEF Life!DeinitAwaits, CallRecords, Life!Array, Life!Contexts, Closer
  <2>4. CASE Life!DeinitSwaps(t)
    <3>1. /\ call[t].c \in Context /\ arrays[mContexts] \ {call[t].c} \in SUBSET Context
          /\ Placed(call[t], call[t].c) /\ Owns(call[t], call[t].c)
      BY <2>4, <1>b, <1>c DEF Life!DeinitSwaps, CallRecords, Closer, Owns, Destroying
    <3>2. call[t].c \in arrays[mContexts]
      BY <3>1 DEF PlacedOK
    <3>3. arrays'[mContexts'] = arrays[mContexts] \ {call[t].c}
      BY <3>1, <3>2, <2>4, NewArrayMakes DEF Life!DeinitSwaps
    <3>4. \A c \in Context : Placed(call'[t], c) <=> Placed(call[t], c) /\ c # call[t].c
      BY <3>2, <2>4, <1>b, <1>c DEF Life!DeinitSwaps, CallRecords, Closer
    <3> QED BY <3>1, <3>3, <3>4, <2>4, <1>c DEF Life!DeinitSwaps
  <2>5. CASE Life!DeinitDeletes(t)
    <3>1. call[t].old \in Nat /\ call[t].old # mContexts
      BY <2>5, <1>b DEF Life!DeinitDeletes, CallRecords, OldOK
    <3>2. mContexts' = mContexts /\ arrays'[mContexts] = arrays[mContexts]
      BY <3>1, <2>5, OldArrayGoes DEF Life!DeinitDeletes, ArraysTyped
    <3>3. \A c \in Context : Placed(call'[t], c) <=> Placed(call[t], c)
      BY <2>5, <1>b, MoveDeinit DEF Life!DeinitDeletes, CallRecords
    <3> QED BY <3>2, <3>3, <2>5, <1>c DEF Life!DeinitDeletes
  <2>6. CASE Life!DeinitStopsEvents(t)
    BY <2>6, <1>b, <1>c, MoveDeinit
    DEF Life!DeinitStopsEvents, CallRecords, Life!Array, Life!Contexts, Closer
  <2> QED
    BY <1>3, <2>1, <2>2, <2>3, <2>4, <2>5, <2>6
    DEF Life!deinit
<1>4. CASE Life!DestroyContext(t)
  <2>1. ASSUME NEW c \in Context, Life!DestroyVerifies(t, c)
        PROVE  Lawful
    BY <2>1, <1>b, <1>c
    DEF Life!DestroyVerifies, CallRecords, Life!Array, Life!Contexts, Closer
  <2>2. CASE Life!DestroyLocks(t)
    BY <2>2, <1>b, <1>c, MoveDeinit
    DEF Life!DestroyLocks, CallRecords, Life!Array, Life!Contexts, Closer
  <2>3. CASE Life!DestroyStops(t)
    BY <2>3, <1>b, <1>c, MoveDeinit
    DEF Life!DestroyStops, CallRecords, Life!Array, Life!Contexts, Closer
  <2>4. CASE Life!DestroyDrops(t)
    BY <2>4, <1>b, <1>c
    DEF Life!DestroyDrops, CallRecords, Life!Array, Life!Contexts, Closer
  <2> QED
    BY <1>4, <2>1, <2>2, <2>3, <2>4
    DEF Life!DestroyContext
<1>5. CASE Life!CloseDevice(t)
  <2>1. CASE Life!CloseVerifies(t)
    BY <2>1, <1>b, <1>c
    DEF Life!CloseVerifies, CallRecords, Life!Array, Life!Contexts, Closer
  <2>2. CASE Life!CloseLocks(t)
    BY <2>2, <1>b, <1>c
    DEF Life!CloseLocks, CallRecords, Life!Array, Life!Contexts, Closer
  <2>3. CASE Life!CloseOrphan(t)
    BY <2>3, <1>b, <1>c
    DEF Life!CloseOrphan, CallRecords, Life!Array, Life!Contexts, Closer
  <2>4. CASE Life!CloseDrops(t)
    BY <2>4, <1>b, <1>c
    DEF Life!CloseDrops, CallRecords, Life!Array, Life!Contexts, Closer
  <2>5. CASE Life!CloseStops(t)
    BY <2>5, <1>b, <1>c
    DEF Life!CloseStops, CallRecords, Life!Array, Life!Contexts, Closer
  <2> QED
    BY <1>5, <2>1, <2>2, <2>3, <2>4, <2>5
    DEF Life!CloseDevice
<1>6. CASE Life!DeviceCalls(t)
  BY <1>6, <1>b, <1>c
  DEF Life!DeviceCalls, Life!VerifyDevice, Life!DevicePause, Life!DeviceResume, Life!ResetDevice,
      Life!ReopenDevice, CallRecords, Life!Array, Life!Contexts, Closer
<1> QED BY <1>1, <1>2, <1>3, <1>4, <1>5, <1>6 DEF LifeStep, CurrentCalls

(* So do the contexts whose event thread runs. *)
LEMMA EventsStep ==
  ASSUME Typed, EventsOK, OneOwner, NEW t \in Thread, Moves(t), events' \subseteq Context,
         \/ /\ events' = events
            /\ \A c \in Context : c \in ContextList' \/ Serves(call'[t], c)
                                <=> c \in ContextList \/ Serves(call[t], c)
         \/ \E d \in Context :
              /\ events' = events \cup {d} /\ ContextList' = ContextList
              /\ \A c \in Context : Serves(call'[t], c) <=> Serves(call[t], c) \/ c = d
         \/ \E d \in Context :
              /\ events' = events \ {d} /\ ContextList' = ContextList
              /\ Owns(call[t], d)
              /\ \A c \in Context : Serves(call'[t], c) <=> Serves(call[t], c) /\ c # d
  PROVE  EventsOK'
<1>1. \A u \in Thread : u # t => call'[u] = call[u]
  BY DEF Moves, Typed
<1>2. \A c \in Context : c \in events <=> c \in ContextList \/ \E u \in Thread : Serves(call[u], c)
  BY DEF EventsOK
<1>3. \A u \in Thread, c \in Context : Serves(call[u], c) => Owns(call[u], c)
  BY DEF Serves, Owns, Creating, Destroying, Closing, Typed, CallRecords, DeinitPcs
<1> SUFFICES \A c \in Context :
       c \in events' <=> c \in ContextList' \/ \E u \in Thread : Serves(call'[u], c)
  BY DEF EventsOK
<1> TAKE c \in Context
<1>4. CASE events' = events /\ (c \in ContextList' \/ Serves(call'[t], c) <=> c \in ContextList \/ Serves(call[t], c))
  BY <1>1, <1>2, <1>4
<1>5. ASSUME NEW d \in Context, events' = events \cup {d}, ContextList' = ContextList,
             Serves(call'[t], c) <=> Serves(call[t], c) \/ c = d
      PROVE  c \in events' <=> c \in ContextList' \/ \E u \in Thread : Serves(call'[u], c)
  BY <1>1, <1>2, <1>5
<1>6. ASSUME NEW d \in Context, events' = events \ {d}, ContextList' = ContextList, Owns(call[t], d),
             Serves(call'[t], c) <=> Serves(call[t], c) /\ c # d
      PROVE  c \in events' <=> c \in ContextList' \/ \E u \in Thread : Serves(call'[u], c)
  <2>1. CASE c = d
    <3>1. c \notin ContextList /\ \A u \in Thread : u # t => ~Serves(call[u], c)
      BY <2>1, <1>3, <1>6 DEF OneOwner
    <3> QED BY <3>1, <2>1, <1>1, <1>6
  <2>2. CASE c # d
    BY <2>2, <1>1, <1>2, <1>6
  <2> QED BY <2>1, <2>2
<1> QED BY <1>4, <1>5, <1>6

LEMMA EventsNext ==
  ASSUME Typed, ArraysTyped, RefsCounted, OneOwner, PlacedOK, EventsOK, OldOK, MakingOK,
         NEW t \in Thread, LifeStep(t)
  PROVE  EventsOK'
<1> DEFINE Lawful ==
      /\ events' \subseteq Context
      /\ \/ /\ events' = events
            /\ \A c \in Context : c \in ContextList' \/ Serves(call'[t], c)
                                <=> c \in ContextList \/ Serves(call[t], c)
         \/ \E d \in Context :
              /\ events' = events \cup {d} /\ ContextList' = ContextList
              /\ \A c \in Context : Serves(call'[t], c) <=> Serves(call[t], c) \/ c = d
         \/ \E d \in Context :
              /\ events' = events \ {d} /\ ContextList' = ContextList
              /\ Owns(call[t], d)
              /\ \A c \in Context : Serves(call'[t], c) <=> Serves(call[t], c) /\ c # d
<1>a. Moves(t)
  BY CallMoves
<1> SUFFICES Lawful
  BY <1>a, EventsStep
<1>b. call[t] \in CallRecords /\ call \in [Thread -> CallRecords]
  BY DEF Typed
<1>c. events \subseteq Context /\ ContextList \subseteq Context /\ Closer(call[t])
  BY DEF Typed, ArraysTyped, Closer
<1> USE DEF Serves, Closing, DeinitPcs, Life!Goes, Life!Steps, Life!At, Life!Idle
<1>1. CASE CurrentCalls(t)
  BY <1>1, <1>c, CurrentCallsQuiet DEF Quiet, CurrentPcs
<1>2. CASE Life!CreateContext(t)
  <2>1. CASE Life!CreateVerifies(t)
    BY <2>1, <1>b, <1>c
    DEF Life!CreateVerifies, CallRecords, Life!Array, Life!Contexts, Closer
  <2>2. CASE Life!CreateLocks(t)
    BY <2>2, <1>b, <1>c, MoveNamed
    DEF Life!CreateLocks, CallRecords, Life!Array, Life!Contexts, Closer
  <2>3. CASE Life!CreateStops(t)
    BY <2>3, <1>b, <1>c
    DEF Life!CreateStops, CallRecords, Life!Array, Life!Contexts, Closer
  <2>4. CASE Life!CreateUpdates(t)
    BY <2>4, <1>b, <1>c, MoveNamed
    DEF Life!CreateUpdates, CallRecords, Life!Array, Life!Contexts, Closer
  <2>5. CASE Life!CreateFails(t)
    BY <2>5, <1>b, <1>c
    DEF Life!CreateFails, CallRecords, Life!Array, Life!Contexts, Closer
  <2>6. CASE Life!CreateMakes(t)
    <3>1. call[t].c \in Context
      BY <2>6, <1>b DEF Life!CreateMakes, CallRecords
    <3>2. \A c \in Context : Serves(call'[t], c) <=> Serves(call[t], c) \/ c = call[t].c
      BY <2>6, <1>b DEF Life!CreateMakes
    <3> QED BY <3>1, <3>2, <1>c, <2>6 DEF Life!CreateMakes
  <2>7. CASE Life!CreateUnlocks(t)
    BY <2>7, <1>b, <1>c
    DEF Life!CreateUnlocks, CallRecords, Life!Array, Life!Contexts, Closer
  <2>8. CASE Life!CreateLists(t)
    BY <2>8, <1>b, <1>c
    DEF Life!CreateLists, CallRecords, Life!Array, Life!Contexts, Closer
  <2>9. CASE Life!CreateEnds(t)
    BY <2>9, <1>b, <1>c
    DEF Life!CreateEnds, CallRecords, Life!Array, Life!Contexts, Closer
  <2> QED
    BY <1>2, <2>1, <2>2, <2>3, <2>4, <2>5, <2>6, <2>7, <2>8, <2>9
    DEF Life!CreateContext
<1>3. CASE Life!deinit(t)
  <2>1. CASE Life!DeinitLocal(t)
    BY <2>1, <1>b, <1>c, MoveDeinit
    DEF Life!DeinitLocal, CallRecords, Life!Array, Life!Contexts, Closer
  <2>2. CASE Life!DeinitGlobal(t)
    BY <2>2, <1>b, <1>c, MoveDeinit
    DEF Life!DeinitGlobal, CallRecords, Life!Array, Life!Contexts, Closer
  <2>3. CASE Life!DeinitAwaits(t)
    BY <2>3, <1>b, <1>c, MoveDeinit
    DEF Life!DeinitAwaits, CallRecords, Life!Array, Life!Contexts, Closer
  <2>4. CASE Life!DeinitSwaps(t)
    BY <2>4, <1>b, <1>c, MoveDeinit
    DEF Life!DeinitSwaps, CallRecords, Life!Array, Life!Contexts, Closer
  <2>5. CASE Life!DeinitDeletes(t)
    BY <2>5, <1>b, <1>c, MoveDeinit
    DEF Life!DeinitDeletes, CallRecords, Life!Array, Life!Contexts, Closer
  <2>6. CASE Life!DeinitStopsEvents(t)
    <3>1. call[t].c \in Context /\ Owns(call[t], call[t].c)
      BY <2>6, <1>b, <1>c DEF Life!DeinitStopsEvents, CallRecords, Closer, Owns, Destroying
    <3>2. \A c \in Context : Serves(call'[t], c) <=> Serves(call[t], c) /\ c # call[t].c
      BY <2>6, <1>b, <1>c, MoveDeinit DEF Life!DeinitStopsEvents, CallRecords, Closer
    <3> QED BY <3>1, <3>2, <1>c, <2>6 DEF Life!DeinitStopsEvents
  <2> QED
    BY <1>3, <2>1, <2>2, <2>3, <2>4, <2>5, <2>6
    DEF Life!deinit
<1>4. CASE Life!DestroyContext(t)
  <2>1. ASSUME NEW c \in Context, Life!DestroyVerifies(t, c)
        PROVE  Lawful
    BY <2>1, <1>b, <1>c
    DEF Life!DestroyVerifies, CallRecords, Life!Array, Life!Contexts, Closer
  <2>2. CASE Life!DestroyLocks(t)
    BY <2>2, <1>b, <1>c, MoveDeinit
    DEF Life!DestroyLocks, CallRecords, Life!Array, Life!Contexts, Closer
  <2>3. CASE Life!DestroyStops(t)
    BY <2>3, <1>b, <1>c, MoveDeinit
    DEF Life!DestroyStops, CallRecords, Life!Array, Life!Contexts, Closer
  <2>4. CASE Life!DestroyDrops(t)
    BY <2>4, <1>b, <1>c
    DEF Life!DestroyDrops, CallRecords, Life!Array, Life!Contexts, Closer
  <2> QED
    BY <1>4, <2>1, <2>2, <2>3, <2>4
    DEF Life!DestroyContext
<1>5. CASE Life!CloseDevice(t)
  <2>1. CASE Life!CloseVerifies(t)
    BY <2>1, <1>b, <1>c
    DEF Life!CloseVerifies, CallRecords, Life!Array, Life!Contexts, Closer
  <2>2. CASE Life!CloseLocks(t)
    BY <2>2, <1>b, <1>c
    DEF Life!CloseLocks, CallRecords, Life!Array, Life!Contexts, Closer
  <2>3. CASE Life!CloseOrphan(t)
    BY <2>3, <1>b, <1>c
    DEF Life!CloseOrphan, CallRecords, Life!Array, Life!Contexts, Closer
  <2>4. CASE Life!CloseDrops(t)
    BY <2>4, <1>b, <1>c
    DEF Life!CloseDrops, CallRecords, Life!Array, Life!Contexts, Closer
  <2>5. CASE Life!CloseStops(t)
    BY <2>5, <1>b, <1>c
    DEF Life!CloseStops, CallRecords, Life!Array, Life!Contexts, Closer
  <2> QED
    BY <1>5, <2>1, <2>2, <2>3, <2>4, <2>5
    DEF Life!CloseDevice
<1>6. CASE Life!DeviceCalls(t)
  BY <1>6, <1>b, <1>c
  DEF Life!DeviceCalls, Life!VerifyDevice, Life!DevicePause, Life!DeviceResume, Life!ResetDevice,
      Life!ReopenDevice, CallRecords, Life!Array, Life!Contexts, Closer
<1> QED BY <1>1, <1>2, <1>3, <1>4, <1>5, <1>6 DEF LifeStep, CurrentCalls

-----------------------------------------------------------------------------
(* The variables that are neither the device, nor arrays, nor calls.       *)
Shaped ==
  /\ life \in [Context -> {"unmade", "making", "live", "freed"}]
  /\ refs \in [Context -> Int]
  /\ global \in MaybeContext /\ globalLock \in BOOLEAN
  /\ local \in [Thread -> MaybeContext]
  /\ ListLock \in Thread \cup {None} /\ StateLock \in Thread \cup {None}

LEMMA ShapedNext ==
  ASSUME Typed, NEW t \in Thread, LifeStep(t)
  PROVE  Shaped'
<1>b. call[t] \in CallRecords /\ Shaped
  BY DEF Typed, Shaped
<1> USE DEF DeinitPcs, MaybeContext, Life!At, Life!Idle, Life!Contexts, Life!Current, Life!Locks
<1>1. CASE CurrentCalls(t)
  <2>1. CASE Life!GetThreads(t)
    BY <2>1, <1>b
    DEF Life!GetThreads, Shaped, CallRecords, Life!Drop, Life!DropAny, Life!AddRef
  <2>2. CASE Life!GetLocks(t)
    BY <2>2, <1>b
    DEF Life!GetLocks, Shaped, CallRecords, Life!Drop, Life!DropAny, Life!AddRef
  <2>3. CASE Life!GetLoads(t)
    BY <2>3, <1>b
    DEF Life!GetLoads, Shaped, CallRecords, Life!Drop, Life!DropAny, Life!AddRef
  <2>4. CASE Life!GetCounts(t)
    BY <2>4, <1>b, MoveNamed
    DEF Life!GetCounts, Shaped, CallRecords, Life!Drop, Life!DropAny, Life!AddRef
  <2>5. CASE Life!GetUnlocks(t)
    BY <2>5, <1>b
    DEF Life!GetUnlocks, Shaped, CallRecords, Life!Drop, Life!DropAny, Life!AddRef
  <2>6. CASE Life!EndUse(t)
    BY <2>6, <1>b
    DEF Life!EndUse, Shaped, CallRecords, Life!Drop, Life!DropAny, Life!AddRef
  <2>7. ASSUME NEW pc \in {"make", "thread"}, Life!Verify(t, pc)
        PROVE  Shaped'
    <3>1. CASE Life!VerifyNone(t, pc)
      BY <3>1, <1>b DEF Life!VerifyNone, Shaped
    <3>2. ASSUME NEW c \in Context, Life!VerifyContext(t, c, pc)
          PROVE  Shaped'
      BY <3>2, <1>b DEF Life!VerifyContext, Life!AddRef, Shaped
    <3> QED BY <2>7, <3>1, <3>2 DEF Life!Verify
  <2>8. CASE Life!MakeLocks(t)
    BY <2>8, <1>b, MoveNamed
    DEF Life!MakeLocks, Shaped, CallRecords, Life!Drop, Life!DropAny, Life!AddRef
  <2>9. CASE Life!MakeExchanges(t)
    BY <2>9, <1>b
    DEF Life!MakeExchanges, Shaped, CallRecords, Life!Drop, Life!DropAny, Life!AddRef
  <2>10. CASE Life!MakeDrops(t)
    BY <2>10, <1>b
    DEF Life!MakeDrops, Shaped, CallRecords, Life!Drop, Life!DropAny, Life!AddRef
  <2>11. CASE Life!MakeUnlocks(t)
    BY <2>11, <1>b
    DEF Life!MakeUnlocks, Shaped, CallRecords, Life!Drop, Life!DropAny, Life!AddRef
  <2>12. CASE Life!SetThreadContext(t)
    BY <2>12, <1>b
    DEF Life!SetThreadContext, Shaped, CallRecords, Life!Drop, Life!DropAny, Life!AddRef
  <2> QED
    BY <1>1, <2>1, <2>2, <2>3, <2>4, <2>5, <2>6, <2>7, <2>8, <2>9, <2>10, <2>11, <2>12
    DEF CurrentCalls, Life!GetContextRef, Life!MakeContextCurrent
<1>2. CASE Life!CreateContext(t)
  <2>1. CASE Life!CreateVerifies(t)
    BY <2>1, <1>b
    DEF Life!CreateVerifies, Shaped, CallRecords, Life!Drop, Life!DropAny, Life!AddRef
  <2>2. CASE Life!CreateLocks(t)
    BY <2>2, <1>b, MoveNamed
    DEF Life!CreateLocks, Shaped, CallRecords, Life!Drop, Life!DropAny, Life!AddRef
  <2>3. CASE Life!CreateStops(t)
    BY <2>3, <1>b
    DEF Life!CreateStops, Shaped, CallRecords, Life!Drop, Life!DropAny, Life!AddRef
  <2>4. CASE Life!CreateUpdates(t)
    BY <2>4, <1>b, MoveNamed
    DEF Life!CreateUpdates, Shaped, CallRecords, Life!Drop, Life!DropAny, Life!AddRef
  <2>5. CASE Life!CreateFails(t)
    BY <2>5, <1>b
    DEF Life!CreateFails, Shaped, CallRecords, Life!Drop, Life!DropAny, Life!AddRef
  <2>6. CASE Life!CreateMakes(t)
    BY <2>6, <1>b
    DEF Life!CreateMakes, Shaped, CallRecords, Life!Drop, Life!DropAny, Life!AddRef
  <2>7. CASE Life!CreateUnlocks(t)
    BY <2>7, <1>b
    DEF Life!CreateUnlocks, Shaped, CallRecords, Life!Drop, Life!DropAny, Life!AddRef
  <2>8. CASE Life!CreateLists(t)
    BY <2>8, <1>b
    DEF Life!CreateLists, Shaped, CallRecords, Life!Drop, Life!DropAny, Life!AddRef
  <2>9. CASE Life!CreateEnds(t)
    BY <2>9, <1>b
    DEF Life!CreateEnds, Shaped, CallRecords, Life!Drop, Life!DropAny, Life!AddRef
  <2> QED
    BY <1>2, <2>1, <2>2, <2>3, <2>4, <2>5, <2>6, <2>7, <2>8, <2>9
    DEF Life!CreateContext
<1>3. CASE Life!deinit(t)
  <2>1. CASE Life!DeinitLocal(t)
    BY <2>1, <1>b, MoveDeinit
    DEF Life!DeinitLocal, Shaped, CallRecords, Life!Drop, Life!DropAny, Life!AddRef
  <2>2. CASE Life!DeinitGlobal(t)
    BY <2>2, <1>b, MoveDeinit
    DEF Life!DeinitGlobal, Shaped, CallRecords, Life!Drop, Life!DropAny, Life!AddRef
  <2>3. CASE Life!DeinitAwaits(t)
    BY <2>3, <1>b, MoveDeinit
    DEF Life!DeinitAwaits, Shaped, CallRecords, Life!Drop, Life!DropAny, Life!AddRef
  <2>4. CASE Life!DeinitSwaps(t)
    BY <2>4, <1>b, MoveDeinit
    DEF Life!DeinitSwaps, Shaped, CallRecords, Life!Drop, Life!DropAny, Life!AddRef
  <2>5. CASE Life!DeinitDeletes(t)
    BY <2>5, <1>b, MoveDeinit
    DEF Life!DeinitDeletes, Shaped, CallRecords, Life!Drop, Life!DropAny, Life!AddRef
  <2>6. CASE Life!DeinitStopsEvents(t)
    BY <2>6, <1>b, MoveDeinit
    DEF Life!DeinitStopsEvents, Shaped, CallRecords, Life!Drop, Life!DropAny, Life!AddRef
  <2> QED
    BY <1>3, <2>1, <2>2, <2>3, <2>4, <2>5, <2>6
    DEF Life!deinit
<1>4. CASE Life!DestroyContext(t)
  <2>1. ASSUME NEW c \in Context, Life!DestroyVerifies(t, c)
        PROVE  Shaped'
    BY <2>1, <1>b
    DEF Life!DestroyVerifies, Shaped, CallRecords, Life!Drop, Life!DropAny, Life!AddRef
  <2>2. CASE Life!DestroyLocks(t)
    BY <2>2, <1>b, MoveDeinit
    DEF Life!DestroyLocks, Shaped, CallRecords, Life!Drop, Life!DropAny, Life!AddRef
  <2>3. CASE Life!DestroyStops(t)
    BY <2>3, <1>b, MoveDeinit
    DEF Life!DestroyStops, Shaped, CallRecords, Life!Drop, Life!DropAny, Life!AddRef
  <2>4. CASE Life!DestroyDrops(t)
    BY <2>4, <1>b
    DEF Life!DestroyDrops, Shaped, CallRecords, Life!Drop, Life!DropAny, Life!AddRef
  <2> QED
    BY <1>4, <2>1, <2>2, <2>3, <2>4
    DEF Life!DestroyContext
<1>5. CASE Life!CloseDevice(t)
  <2>1. CASE Life!CloseVerifies(t)
    BY <2>1, <1>b
    DEF Life!CloseVerifies, Shaped, CallRecords, Life!Drop, Life!DropAny, Life!AddRef
  <2>2. CASE Life!CloseLocks(t)
    BY <2>2, <1>b
    DEF Life!CloseLocks, Shaped, CallRecords, Life!Drop, Life!DropAny, Life!AddRef
  <2>3. CASE Life!CloseOrphan(t)
    BY <2>3, <1>b
    DEF Life!CloseOrphan, Shaped, CallRecords, Life!Drop, Life!DropAny, Life!AddRef
  <2>4. CASE Life!CloseDrops(t)
    <3>1. UNCHANGED <<global, globalLock, local, ListLock, StateLock>>
      BY <2>4 DEF Life!CloseDrops
    <3>2. UNCHANGED <<refs, life>> \/ \E c \in Context : Life!Drop(c)
      BY <2>4, <1>b DEF Life!CloseDrops, CallRecords
    <3>3. ASSUME NEW c \in Context, Life!Drop(c)
          PROVE  /\ life' \in [Context -> {"unmade", "making", "live", "freed"}]
                 /\ refs' \in [Context -> Int]
      BY <3>3, <1>b DEF Life!Drop, Shaped
    <3> QED BY <3>1, <3>2, <3>3, <1>b DEF Shaped
  <2>5. CASE Life!CloseStops(t)
    BY <2>5, <1>b
    DEF Life!CloseStops, Shaped, CallRecords, Life!Drop, Life!DropAny, Life!AddRef
  <2> QED
    BY <1>5, <2>1, <2>2, <2>3, <2>4, <2>5
    DEF Life!CloseDevice
<1>6. CASE Life!DeviceCalls(t)
  <2>1. ASSUME NEW pc \in {"pause", "resume", "reset", "reopen"}, Life!VerifyDevice(t, pc)
        PROVE  Shaped'
    BY <2>1, <1>b
    DEF Life!VerifyDevice, Shaped, CallRecords, Life!Drop, Life!DropAny, Life!AddRef
  <2>2. CASE Life!DevicePause(t)
    BY <2>2, <1>b
    DEF Life!DevicePause, Shaped, CallRecords, Life!Drop, Life!DropAny, Life!AddRef
  <2>3. CASE Life!DeviceResume(t)
    BY <2>3, <1>b
    DEF Life!DeviceResume, Shaped, CallRecords, Life!Drop, Life!DropAny, Life!AddRef
  <2>4. CASE Life!ResetDevice(t)
    BY <2>4, <1>b
    DEF Life!ResetDevice, Shaped, CallRecords, Life!Drop, Life!DropAny, Life!AddRef
  <2>5. CASE Life!ReopenDevice(t)
    BY <2>5, <1>b
    DEF Life!ReopenDevice, Shaped, CallRecords, Life!Drop, Life!DropAny, Life!AddRef
  <2> QED
    BY <1>6, <2>1, <2>2, <2>3, <2>4, <2>5
    DEF Life!DeviceCalls
<1> QED BY <1>1, <1>2, <1>3, <1>4, <1>5, <1>6 DEF LifeStep, CurrentCalls

LEMMA TypedNext ==
  ASSUME Typed, NEW t \in Thread, LifeStep(t), Moves(t), ContextList' \subseteq Context, EventsOK',
         device' \in DeviceRecords, RefsCounted'
  PROVE  Typed'
<1>1. call' \in [Thread -> CallRecords]
  BY DEF Moves, Typed
<1>2. \A u \in Thread : Closer(call'[u])
  BY DEF Moves, Typed, Closer
<1>3. refs' \in [Context -> Nat]
  <2>1. \A c : Held(c)' \in Nat
    <3> TAKE c
    <3>1. /\ IsFiniteSet(Holders(c)') /\ IsFiniteSet(Takers(c)') /\ IsFiniteSet(Locals(c)')
      BY LifeAssumptions, FS_Subset DEF Holders, Takers, Locals
    <3>2. /\ Cardinality(Holders(c)') \in Nat /\ Cardinality(Takers(c)') \in Nat
          /\ Cardinality(Locals(c)') \in Nat
      BY <3>1, FS_CardinalityType
    <3> QED BY <3>2 DEF Held, One
  <2> QED BY <2>1, ShapedNext DEF Shaped, RefsCounted
<1>4. events' \subseteq Context
  BY DEF EventsOK
<1> QED BY <1>1, <1>2, <1>3, <1>4, ShapedNext DEF Typed, Shaped, Closer

-----------------------------------------------------------------------------
(* What a step of a call does to the arrays of contexts: nothing, or it    *)
(* puts a new one in place and keeps the old one, or lets that go.         *)
Keeping(r) == r.pc \in {"created", "old"}

Keeps(t) ==
  /\ UNCHANGED <<arrays, mContexts>>
  /\ ~Keeping(call[t]) /\ ~Keeping(call'[t])

Replaces(t) ==
  /\ ~Keeping(call[t]) /\ InState(call[t])
  /\ Keeping(call'[t]) /\ call'[t].old = mContexts
  /\ \E s \in SUBSET Context :
       /\ Life!NewArray(s)
       /\ s = {} => mContexts # 0
       /\ call'[t].pc = "created" => arrays[mContexts] \subseteq s
       /\ call'[t].pc = "old" => arrays[mContexts] \subseteq s \cup {call'[t].c}

Deletes(t) == Keeping(call[t]) /\ ~Keeping(call'[t]) /\ Life!DeletesOld(t)

ArrayLaw(t) == Keeps(t) \/ Replaces(t) \/ Deletes(t)

LEMMA ArrayLawNext ==
  ASSUME Typed, ArraysTyped, RefsCounted, PlacedOK, NEW t \in Thread, LifeStep(t)
  PROVE  ArrayLaw(t) /\ render' = render
<1>a. Moves(t)
  BY CallMoves
<1>b. call[t] \in CallRecords /\ call \in [Thread -> CallRecords] /\ arrays[mContexts] \subseteq Context
  BY DEF Typed, ArraysTyped
<1> USE DEF Keeping, DeinitPcs, Life!Goes, Life!Steps, Life!At, Life!Idle, Life!Array
<1>1. CASE CurrentCalls(t)
  BY <1>1, CurrentCallsQuiet DEF Quiet, CurrentPcs, ArrayLaw, Keeps
<1>2. CASE Life!CreateContext(t)
  <2>1. CASE Life!CreateVerifies(t)
    BY <2>1, <1>b
    DEF Life!CreateVerifies, CallRecords, ArrayLaw, Keeps
  <2>2. CASE Life!CreateLocks(t)
    BY <2>2, <1>b, MoveNamed
    DEF Life!CreateLocks, CallRecords, ArrayLaw, Keeps
  <2>3. CASE Life!CreateStops(t)
    BY <2>3, <1>b
    DEF Life!CreateStops, CallRecords, ArrayLaw, Keeps
  <2>4. CASE Life!CreateUpdates(t)
    BY <2>4, <1>b, MoveNamed
    DEF Life!CreateUpdates, CallRecords, ArrayLaw, Keeps
  <2>5. CASE Life!CreateFails(t)
    BY <2>5, <1>b
    DEF Life!CreateFails, CallRecords, ArrayLaw, Keeps
  <2>6. CASE Life!CreateMakes(t)
    <3> DEFINE s == arrays[mContexts] \cup {call[t].c}
    <3>1. call[t].c \in Context /\ s \in SUBSET Context /\ s # {}
      BY <2>6, <1>b DEF Life!CreateMakes, CallRecords
    <3>2. /\ Life!NewArray(s) /\ render' = render /\ arrays[mContexts] \subseteq s
          /\ call[t].pc = "new" /\ call'[t].pc = "created" /\ call'[t].old = mContexts
      BY <2>6, <1>b DEF Life!CreateMakes
    <3> HIDE DEF s
    <3> QED BY <3>1, <3>2 DEF ArrayLaw, Replaces, InState
  <2>7. CASE Life!CreateUnlocks(t)
    BY <2>7, <1>b DEF Life!CreateUnlocks, ArrayLaw, Deletes
  <2>8. CASE Life!CreateLists(t)
    BY <2>8, <1>b
    DEF Life!CreateLists, CallRecords, ArrayLaw, Keeps
  <2>9. CASE Life!CreateEnds(t)
    BY <2>9, <1>b
    DEF Life!CreateEnds, CallRecords, ArrayLaw, Keeps
  <2> QED
    BY <1>2, <2>1, <2>2, <2>3, <2>4, <2>5, <2>6, <2>7, <2>8, <2>9
    DEF Life!CreateContext
<1>3. CASE Life!deinit(t)
  <2>1. CASE Life!DeinitLocal(t)
    BY <2>1, <1>b, MoveDeinit
    DEF Life!DeinitLocal, CallRecords, ArrayLaw, Keeps
  <2>2. CASE Life!DeinitGlobal(t)
    BY <2>2, <1>b, MoveDeinit
    DEF Life!DeinitGlobal, CallRecords, ArrayLaw, Keeps
  <2>3. CASE Life!DeinitAwaits(t)
    BY <2>3, <1>b, MoveDeinit
    DEF Life!DeinitAwaits, CallRecords, ArrayLaw, Keeps
  <2>4. CASE Life!DeinitSwaps(t)
    <3> DEFINE s == arrays[mContexts] \ {call[t].c}
    <3>1. CASE call[t].c \in arrays[mContexts]
      <4>1. s \in SUBSET Context /\ arrays[mContexts] \subseteq s \cup {call[t].c} /\ mContexts # 0
        BY <1>b, <3>1 DEF ArraysTyped
      <4>2. /\ Life!NewArray(s) /\ render' = render /\ call[t].pc = "array"
            /\ call'[t] = [call[t] EXCEPT !.pc = "old", !.old = mContexts]
        BY <2>4, <1>b, <3>1 DEF Life!DeinitSwaps
      <4>3. /\ call'[t].pc = "old" /\ call'[t].old = mContexts /\ call'[t].c = call[t].c
        BY <4>2, <1>b DEF CallRecords
      <4> HIDE DEF s
      <4> QED BY <4>1, <4>2, <4>3 DEF ArrayLaw, Replaces, InState
    <3>2. CASE call[t].c \notin arrays[mContexts]
      <4>1. /\ call'[t] = [call[t] EXCEPT !.pc = "events"] /\ call[t].pc = "array"
            /\ UNCHANGED <<arrays, mContexts, render>>
        BY <2>4, <1>b, <3>2 DEF Life!DeinitSwaps
      <4>2. call'[t].pc = "events"
        BY <4>1, <1>b DEF CallRecords
      <4> QED BY <4>1, <4>2 DEF ArrayLaw, Keeps
    <3> QED BY <3>1, <3>2
  <2>5. CASE Life!DeinitDeletes(t)
    BY <2>5, <1>b, MoveDeinit DEF Life!DeinitDeletes, ArrayLaw, Deletes
  <2>6. CASE Life!DeinitStopsEvents(t)
    <3>1. call[t].then \in {"last", "orphans"}
      BY <2>6, <1>b DEF Life!DeinitStopsEvents, CallRecords
    <3> QED BY <2>6, <1>b, <3>1, MoveDeinit DEF Life!DeinitStopsEvents, ArrayLaw, Keeps
  <2> QED
    BY <1>3, <2>1, <2>2, <2>3, <2>4, <2>5, <2>6
    DEF Life!deinit
<1>4. CASE Life!DestroyContext(t)
  <2>1. ASSUME NEW c \in Context, Life!DestroyVerifies(t, c)
        PROVE  ArrayLaw(t) /\ render' = render
    BY <2>1, <1>b
    DEF Life!DestroyVerifies, CallRecords, ArrayLaw, Keeps
  <2>2. CASE Life!DestroyLocks(t)
    BY <2>2, <1>b, MoveDeinit
    DEF Life!DestroyLocks, CallRecords, ArrayLaw, Keeps
  <2>3. CASE Life!DestroyStops(t)
    BY <2>3, <1>b, MoveDeinit
    DEF Life!DestroyStops, CallRecords, ArrayLaw, Keeps
  <2>4. CASE Life!DestroyDrops(t)
    BY <2>4, <1>b
    DEF Life!DestroyDrops, CallRecords, ArrayLaw, Keeps
  <2> QED
    BY <1>4, <2>1, <2>2, <2>3, <2>4
    DEF Life!DestroyContext
<1>5. CASE Life!CloseDevice(t)
  <2>1. CASE Life!CloseVerifies(t)
    BY <2>1, <1>b
    DEF Life!CloseVerifies, CallRecords, ArrayLaw, Keeps
  <2>2. CASE Life!CloseLocks(t)
    BY <2>2, <1>b
    DEF Life!CloseLocks, CallRecords, ArrayLaw, Keeps
  <2>3. CASE Life!CloseOrphan(t)
    BY <2>3, <1>b
    DEF Life!CloseOrphan, CallRecords, ArrayLaw, Keeps
  <2>4. CASE Life!CloseDrops(t)
    BY <2>4, <1>b
    DEF Life!CloseDrops, CallRecords, ArrayLaw, Keeps
  <2>5. CASE Life!CloseStops(t)
    BY <2>5, <1>b
    DEF Life!CloseStops, CallRecords, ArrayLaw, Keeps
  <2> QED
    BY <1>5, <2>1, <2>2, <2>3, <2>4, <2>5
    DEF Life!CloseDevice
<1>6. CASE Life!DeviceCalls(t)
  <2>1. ASSUME NEW pc \in {"pause", "resume", "reset", "reopen"}, Life!VerifyDevice(t, pc)
        PROVE  ArrayLaw(t) /\ render' = render
    BY <2>1, <1>b
    DEF Life!VerifyDevice, CallRecords, ArrayLaw, Keeps
  <2>2. CASE Life!DevicePause(t)
    BY <2>2, <1>b
    DEF Life!DevicePause, CallRecords, ArrayLaw, Keeps
  <2>3. CASE Life!DeviceResume(t)
    BY <2>3, <1>b
    DEF Life!DeviceResume, CallRecords, ArrayLaw, Keeps
  <2>4. CASE Life!ResetDevice(t)
    BY <2>4, <1>b
    DEF Life!ResetDevice, CallRecords, ArrayLaw, Keeps
  <2>5. CASE Life!ReopenDevice(t)
    BY <2>5, <1>b
    DEF Life!ReopenDevice, CallRecords, ArrayLaw, Keeps
  <2> QED
    BY <1>6, <2>1, <2>2, <2>3, <2>4, <2>5
    DEF Life!DeviceCalls
<1> QED BY <1>1, <1>2, <1>3, <1>4, <1>5, <1>6 DEF LifeStep, CurrentCalls

(* What a call keeps of the old array, while others cannot replace it. *)
LEMMA OldNext ==
  ASSUME Typed, ArraysTyped, StateLocked, OldOK, NEW t \in Thread, Moves(t), ArrayLaw(t)
  PROVE  OldOK'
<1>1. \A u \in Thread : u # t => call'[u] = call[u]
  BY DEF Moves, Typed
<1>2. mContexts \in DOMAIN arrays /\ \A u \in Thread : Keeping(call[u]) => InState(call[u])
  BY DEF ArraysTyped, Keeping, InState, DeinitPcs
<1>3. CASE Keeps(t)
  BY <1>1, <1>3 DEF OldOK, Keeps, Keeping
<1>4. CASE Replaces(t)
  <2>1. \A u \in Thread : u # t => ~Keeping(call'[u])
    BY <1>1, <1>2, <1>4 DEF Replaces, StateLocked
  <2>2. PICK s \in SUBSET Context :
          /\ Life!NewArray(s)
          /\ s = {} => mContexts # 0
          /\ call'[t].pc = "created" => arrays[mContexts] \subseteq s
          /\ call'[t].pc = "old" => arrays[mContexts] \subseteq s \cup {call'[t].c}
    BY <1>4 DEF Replaces
  <2>3. /\ arrays'[mContexts'] = s /\ mContexts \in DOMAIN arrays' /\ arrays'[mContexts] = arrays[mContexts]
        /\ mContexts # mContexts'
    BY <1>2, <2>2, NewArrayMakes
  <2> QED BY <1>4, <2>1, <2>2, <2>3 DEF OldOK, Replaces, Keeping
<1>5. CASE Deletes(t)
  <2>1. \A u \in Thread : u # t => ~Keeping(call'[u])
    BY <1>1, <1>2, <1>5 DEF Deletes, StateLocked
  <2> QED BY <1>5, <2>1 DEF OldOK, Deletes, Keeping
<1> QED BY <1>3, <1>4, <1>5 DEF ArrayLaw

(* The mixer's array stays while the mixer is in it. *)
LEMMA MixKept ==
  ASSUME Typed, ArraysTyped, MixTyped, OldOK, MixOK, NEW t \in Thread, Moves(t), ArrayLaw(t),
         render' = render, Life!Mixing /\ device.running => device'.running
  PROVE  MixTyped' /\ MixOK'
<1>1. \A u \in Thread : u # t => call'[u] = call[u]
  BY DEF Moves, Typed
<1>2. MixTyped' /\ (Life!Mixing' => device'.running)
  BY DEF MixTyped, MixOK, Life!Mixing
<1>3. SUFFICES ASSUME render.pc = "contexts"
               PROVE  /\ render.array \in DOMAIN arrays' /\ arrays'[render.array] = arrays[render.array]
                      /\ \/ render.array \in {0, mContexts'}
                         \/ \E u \in Thread : Keeping(call'[u]) /\ call'[u].old = render.array
  BY <1>2 DEF MixOK, Keeping
<1>4. /\ render.array \in DOMAIN arrays
      /\ \/ render.array \in {0, mContexts}
         \/ \E u \in Thread : Keeping(call[u]) /\ call[u].old = render.array
  BY <1>3 DEF MixOK, Keeping
<1>5. CASE Keeps(t)
  BY <1>1, <1>4, <1>5 DEF Keeps
<1>6. CASE Replaces(t)
  <2>1. PICK s \in SUBSET Context : Life!NewArray(s)
    BY <1>6 DEF Replaces
  <2>2. render.array \in DOMAIN arrays' /\ arrays'[render.array] = arrays[render.array]
    BY <1>4, <2>1, NewArrayMakes
  <2> QED BY <1>1, <1>4, <1>6, <2>2 DEF Replaces
<1>7. CASE Deletes(t)
  <2>1. call[t].old = 0
    BY <1>3, <1>7 DEF Deletes, Life!DeletesOld, Life!Mixing, Life!EmptyContextArray
  <2>2. call[t].old # mContexts
    BY <1>7 DEF Deletes, OldOK, Keeping
  <2>3. /\ mContexts' = mContexts
        /\ \A a \in DOMAIN arrays : a \in DOMAIN arrays' /\ arrays'[a] = arrays[a]
    BY <1>7, <2>1, <2>2, OldArrayGoes DEF Deletes
  <2> QED BY <1>1, <1>4, <2>1, <2>3
<1> QED BY <1>5, <1>6, <1>7 DEF ArrayLaw

-----------------------------------------------------------------------------
(* Calls under which the device may run though nothing else shows why.     *)
KeepsRunning(r) == r.pc \in {"new", "close", "stop", "last", "old", "events"} \/ Closing(r)

RunningLaw(t) ==
  /\ Life!Mixing /\ device.running => device'.running
  /\ device'.running =>
       \/ device'.listed \/ arrays'[mContexts'] # {} \/ KeepsRunning(call'[t])
       \/ /\ device.running /\ device'.listed = device.listed
          /\ arrays'[mContexts'] = arrays[mContexts] /\ ~KeepsRunning(call[t])

LEMMA RunningStep ==
  ASSUME Typed, RunningOK, NEW t \in Thread, Moves(t), RunningLaw(t)
  PROVE  RunningOK'
<1>1. \A u \in Thread : u # t => call'[u] = call[u]
  BY DEF Moves, Typed
<1>2. RunningOK <=> (device.running =>
        device.listed \/ arrays[mContexts] # {} \/ \E u \in Thread : KeepsRunning(call[u]))
  BY DEF RunningOK, KeepsRunning
<1>3. RunningOK' <=> (device'.running =>
        device'.listed \/ arrays'[mContexts'] # {} \/ \E u \in Thread : KeepsRunning(call'[u]))
  BY DEF RunningOK, KeepsRunning
<1> QED BY <1>1, <1>2, <1>3 DEF RunningLaw

LEMMA RunningNext ==
  ASSUME Typed, ArraysTyped, RefsCounted, ListLocked, OldOK, PlacedOK, RunningOK,
         NEW t \in Thread, LifeStep(t)
  PROVE  RunningLaw(t)
<1>a. Moves(t)
  BY CallMoves
<1>b. /\ call[t] \in CallRecords /\ call \in [Thread -> CallRecords] /\ device \in DeviceRecords
      /\ arrays[mContexts] \subseteq Context
  BY DEF Typed, ArraysTyped
<1>c. ArrayLaw(t) /\ render' = render
  BY ArrayLawNext
<1>d. \A c \in Context : Life!Drop(c) => device'.listed = device.listed /\ device'.running = device.running
  BY DropsQuietly
<1>e. \A d \in DeviceRecords : Life!DropDevice(d).listed = d.listed /\ Life!DropDevice(d).running = d.running
  BY DropKeeps
<1>f. Life!Stopped \in DeviceRecords /\ ~Life!Stopped.running /\ Life!Stopped.listed = device.listed
  BY <1>b DEF Life!Stopped, DeviceRecords
<1> USE DEF DeinitPcs, Life!Goes, Life!Steps, Life!At, Life!Idle, Life!Array, Life!Contexts
<1>1. CASE CurrentCalls(t)
  BY <1>1, CurrentCallsQuiet DEF Quiet, CurrentPcs, RunningLaw, KeepsRunning, Closing
<1>2. CASE Life!CreateContext(t)
  <2>1. CASE Life!CreateVerifies(t)
    BY <2>1, <1>b DEF Life!CreateVerifies, DeviceRecords, RunningLaw
  <2>2. CASE Life!CreateLocks(t)
    BY <2>2, <1>b, MoveNamed
    DEF Life!CreateLocks, CallRecords, RunningLaw, KeepsRunning, Closing
  <2>3. CASE Life!CreateStops(t)
    BY <2>3, <1>b, <1>f DEF Life!CreateStops, Life!Stops, RunningLaw
  <2>4. CASE Life!CreateUpdates(t)
    <3>1. CASE device' = Life!Updated(device) /\ Life!Steps(t, "new")
      <4>1. call'[t].pc = "new"
        BY <3>1, <2>4, <1>b, MoveNamed DEF Life!CreateUpdates
      <4>2. device.running => device'.running
        BY <3>1, <1>b DEF Life!Updated
      <4> QED BY <4>1, <4>2 DEF RunningLaw, KeepsRunning
    <3>2. CASE ~device.running /\ device' = Life!Disconnected(device)
      <4>1. ~device'.running
        BY <3>2, <1>b DEF Life!Disconnected, DeviceRecords
      <4> QED BY <4>1, <3>2 DEF RunningLaw
    <3> QED BY <2>4, <3>1, <3>2 DEF Life!CreateUpdates
  <2>5. CASE Life!CreateFails(t)
    <3>1. device'.listed = device.listed /\ device'.running = device.running
      BY <2>5, <1>b, <1>e DEF Life!CreateFails
    <3> QED BY <3>1, <2>5, <1>b DEF Life!CreateFails, RunningLaw, KeepsRunning, Closing
  <2>6. CASE Life!CreateMakes(t)
    <3> DEFINE s == arrays[mContexts] \cup {call[t].c}
    <3>1. call[t].c \in Context /\ s \in SUBSET Context /\ s # {}
      BY <2>6, <1>b DEF Life!CreateMakes, CallRecords
    <3>2. Life!NewArray(s)
      BY <2>6 DEF Life!CreateMakes
    <3> HIDE DEF s
    <3>3. arrays'[mContexts'] # {}
      BY <3>1, <3>2, NewArrayMakes
    <3>4. device'.running = device.running
      BY <2>6, <1>b DEF Life!CreateMakes, DeviceRecords
    <3> QED BY <3>3, <3>4 DEF RunningLaw
  <2>7. CASE Life!CreateUnlocks(t)
    <3>1. call[t].old \in Nat /\ call[t].old # mContexts /\ mContexts \in DOMAIN arrays
      BY <2>7, <1>b DEF Life!CreateUnlocks, CallRecords, OldOK, ArraysTyped
    <3>2. arrays'[mContexts'] = arrays[mContexts]
      BY <3>1, <2>7, OldArrayGoes DEF Life!CreateUnlocks
    <3> QED BY <3>2, <2>7, <1>b DEF Life!CreateUnlocks, RunningLaw, KeepsRunning, Closing
  <2>8. CASE Life!CreateLists(t)
    <3>1. device'.listed = device.listed /\ device'.running = device.running
      BY <2>8, <1>b, <1>e DEF Life!CreateLists
    <3> QED BY <3>1, <2>8, <1>b DEF Life!CreateLists, RunningLaw, KeepsRunning, Closing
  <2>9. CASE Life!CreateEnds(t)
    <3>1. device'.listed = device.listed /\ device'.running = device.running
      BY <2>9, <1>b, <1>e DEF Life!CreateEnds
    <3> QED BY <3>1, <2>9, <1>b DEF Life!CreateEnds, RunningLaw, KeepsRunning, Closing
  <2> QED
    BY <1>2, <2>1, <2>2, <2>3, <2>4, <2>5, <2>6, <2>7, <2>8, <2>9
    DEF Life!CreateContext
<1>3. CASE Life!deinit(t)
  <2>1. CASE Life!DeinitLocal(t)
    <3>1. device'.listed = device.listed /\ device'.running = device.running
      BY <2>1, <1>b, <1>d DEF Life!DeinitLocal, CallRecords
    <3>2. KeepsRunning(call[t]) => KeepsRunning(call'[t])
      BY <2>1, <1>b, MoveDeinit DEF Life!DeinitLocal, KeepsRunning, Closing
    <3> QED BY <3>1, <3>2, <2>1 DEF Life!DeinitLocal, RunningLaw
  <2>2. CASE Life!DeinitGlobal(t)
    <3>1. PICK q \in {"await", "array"} : call'[t] = [call[t] EXCEPT !.pc = q]
      BY <2>2, <1>b DEF Life!DeinitGlobal
    <3>2. call[t].pc = "global" /\ call'[t].pc = q /\ call'[t].then = call[t].then
      BY <2>2, <1>b, <3>1, MoveDeinit DEF Life!DeinitGlobal
    <3>3. KeepsRunning(call[t]) => KeepsRunning(call'[t])
      BY <3>2 DEF KeepsRunning, Closing
    <3> QED BY <3>3, <2>2 DEF Life!DeinitGlobal, RunningLaw
  <2>3. CASE Life!DeinitAwaits(t)
    <3>1. device'.listed = device.listed /\ device'.running = device.running
      BY <2>3, <1>b, <1>d DEF Life!DeinitAwaits, CallRecords
    <3>2. KeepsRunning(call[t]) => KeepsRunning(call'[t])
      BY <2>3, <1>b, MoveDeinit DEF Life!DeinitAwaits, KeepsRunning, Closing
    <3> QED BY <3>1, <3>2, <2>3 DEF Life!DeinitAwaits, RunningLaw
  <2>4. CASE Life!DeinitSwaps(t)
    <3>1. CASE call[t].c \in arrays[mContexts]
      <4>1. call'[t].pc = "old"
        BY <2>4, <3>1, <1>b DEF Life!DeinitSwaps, CallRecords
      <4> QED BY <4>1, <2>4 DEF Life!DeinitSwaps, RunningLaw, KeepsRunning
    <3>2. CASE call[t].c \notin arrays[mContexts]
      <4>1. call'[t] = [call[t] EXCEPT !.pc = "events"]
        BY <2>4, <3>2, <1>b DEF Life!DeinitSwaps
      <4>2. call'[t].pc = "events"
        BY <4>1, <1>b DEF CallRecords
      <4> QED BY <4>2, <2>4 DEF Life!DeinitSwaps, RunningLaw, KeepsRunning
    <3> QED BY <3>1, <3>2
  <2>5. CASE Life!DeinitDeletes(t)
    <3>1. call[t].old \in Nat /\ call[t].old # mContexts /\ mContexts \in DOMAIN arrays
      BY <2>5, <1>b DEF Life!DeinitDeletes, CallRecords, OldOK, ArraysTyped
    <3>2. arrays'[mContexts'] = arrays[mContexts]
      BY <3>1, <2>5, OldArrayGoes DEF Life!DeinitDeletes
    <3> QED BY <3>2, <2>5, <1>b, MoveDeinit DEF Life!DeinitDeletes, RunningLaw, KeepsRunning, Closing
  <2>6. CASE Life!DeinitStopsEvents(t)
    <3>1. call'[t].pc \in {"last", "orphans"}
      BY <2>6, <1>b, MoveDeinit DEF Life!DeinitStopsEvents, CallRecords
    <3> QED BY <3>1, <2>6 DEF Life!DeinitStopsEvents, RunningLaw, KeepsRunning, Closing
  <2> QED
    BY <1>3, <2>1, <2>2, <2>3, <2>4, <2>5, <2>6
    DEF Life!deinit
<1>4. CASE Life!DestroyContext(t)
  <2>1. ASSUME NEW c \in Context, Life!DestroyVerifies(t, c)
        PROVE  RunningLaw(t)
    BY <2>1, <1>b
    DEF Life!DestroyVerifies, CallRecords, RunningLaw, KeepsRunning, Closing
  <2>2. CASE Life!DestroyLocks(t)
    BY <2>2, <1>b, MoveDeinit
    DEF Life!DestroyLocks, CallRecords, RunningLaw, KeepsRunning, Closing
  <2>3. CASE Life!DestroyStops(t)
    <3>1. CASE arrays[mContexts] = {} /\ device.running
      BY <3>1, <2>3, <1>f DEF Life!DestroyStops, Life!Stops, RunningLaw
    <3>2. CASE ~(arrays[mContexts] = {} /\ device.running)
      BY <3>2, <2>3 DEF Life!DestroyStops, RunningLaw
    <3> QED BY <3>1, <3>2
  <2>4. CASE Life!DestroyDrops(t)
    <3>1. device'.listed = device.listed /\ device'.running = device.running
      BY <2>4, <1>b, <1>d DEF Life!DestroyDrops, CallRecords
    <3> QED BY <3>1, <2>4, <1>b DEF Life!DestroyDrops, RunningLaw, KeepsRunning, Closing
  <2> QED
    BY <1>4, <2>1, <2>2, <2>3, <2>4
    DEF Life!DestroyContext
<1>5. CASE Life!CloseDevice(t)
  <2>1. CASE Life!CloseVerifies(t)
    <3>1. device'.running = device.running
      BY <2>1, <1>b DEF Life!CloseVerifies, DeviceRecords
    <3> QED BY <3>1, <2>1, <1>b DEF Life!CloseVerifies, RunningLaw, KeepsRunning
  <2>2. CASE Life!CloseLocks(t)
    BY <2>2, <1>b
    DEF Life!CloseLocks, CallRecords, RunningLaw, KeepsRunning, Closing
  <2>3. CASE Life!CloseOrphan(t)
    BY <2>3, <1>b
    DEF Life!CloseOrphan, CallRecords, RunningLaw, KeepsRunning, Closing
  <2>4. CASE Life!CloseDrops(t)
    <3>1. device'.listed = device.listed /\ device'.running = device.running
      BY <2>4, <1>b, <1>d DEF Life!CloseDrops, CallRecords
    <3>2. call'[t].pc \in {"orphans", "stop"}
      BY <2>4, <1>b DEF Life!CloseDrops
    <3> QED BY <3>1, <3>2, <2>4 DEF Life!CloseDrops, RunningLaw, KeepsRunning, Closing
  <2>5. CASE Life!CloseStops(t)
    <3>1. ~device'.running
      BY <2>5, <1>e, <1>f DEF Life!CloseStops
    <3> QED BY <3>1, <2>5 DEF Life!CloseStops, Life!Stops, RunningLaw
  <2> QED
    BY <1>5, <2>1, <2>2, <2>3, <2>4, <2>5
    DEF Life!CloseDevice
<1>6. CASE Life!DeviceCalls(t)
  <2>1. ASSUME NEW pc \in {"pause", "resume", "reset", "reopen"}, Life!VerifyDevice(t, pc)
        PROVE  RunningLaw(t)
    <3>1. device'.listed = device.listed /\ device'.running = device.running
      BY <2>1, <1>b DEF Life!VerifyDevice, DeviceRecords
    <3> QED BY <3>1, <2>1, <1>b DEF Life!VerifyDevice, RunningLaw, KeepsRunning, Closing
  <2>2. CASE Life!DevicePause(t)
    <3>1. [Life!Stopped EXCEPT !.paused = TRUE] \in DeviceRecords /\ ~[Life!Stopped EXCEPT !.paused = TRUE].running
      BY <1>f DEF DeviceRecords
    <3>2. ~device'.running
      BY <2>2, <1>e, <3>1 DEF Life!DevicePause
    <3> QED BY <3>2, <2>2 DEF Life!DevicePause, Life!Stops, RunningLaw
  <2>3. CASE Life!DeviceResume(t)
    <3> DEFINE d == [device EXCEPT !.paused = FALSE]
    <3>1. d \in DeviceRecords /\ d.running = device.running /\ d.listed = device.listed
      BY <1>b DEF DeviceRecords
    <3>2. CASE device' = Life!DropDevice(d)
      <4>1. device'.running = device.running /\ device'.listed = device.listed
        BY <3>1, <3>2, <1>e
      <4> QED BY <4>1, <2>3, <1>b DEF Life!DeviceResume, RunningLaw, KeepsRunning, Closing
    <3>3. CASE arrays[mContexts] # {} /\ \E started \in Life!Started(d) : device' = Life!DropDevice(started)
      <4>1. PICK started \in Life!Started(d) : device' = Life!DropDevice(started)
        BY <3>3
      <4>2. started \in DeviceRecords
        BY <3>1, <4>1, UpdatesResemble DEF Resembles
      <4>3. started.running \/ started.running = device.running
        BY <3>1, <4>1 DEF Life!Started, Life!Disconnected, DeviceRecords
      <4>4. device.running => device'.running
        BY <4>1, <4>2, <4>3, <1>e
      <4> QED BY <3>3, <4>4, <2>3 DEF Life!DeviceResume, RunningLaw
    <3> HIDE DEF d
    <3> QED BY <2>3, <3>2, <3>3 DEF Life!DeviceResume, d
  <2>4. CASE Life!ResetDevice(t)
    <3>1. device.listed
      BY <2>4 DEF Life!ResetDevice, ListLocked
    <3>2. PICK d : Resembles(d, device) /\ device' = Life!DropDevice(d)
      BY <2>4, DeviceReturns
    <3>3. device'.listed
      BY <3>1, <3>2, <1>e DEF Resembles
    <3> QED BY <3>3, <2>4 DEF Life!ResetDevice, Life!Stops, RunningLaw
  <2>5. CASE Life!ReopenDevice(t)
    <3>1. device.listed
      BY <2>5 DEF Life!ReopenDevice, ListLocked
    <3>2. PICK d : Resembles(d, device) /\ device' = Life!DropDevice(d)
      BY <2>5, DeviceReturns
    <3>3. device'.listed
      BY <3>1, <3>2, <1>e DEF Resembles
    <3> QED BY <3>3, <2>5 DEF Life!ReopenDevice, Life!Stops, RunningLaw
  <2> QED
    BY <1>6, <2>1, <2>2, <2>3, <2>4, <2>5
    DEF Life!DeviceCalls
<1> QED BY <1>1, <1>2, <1>3, <1>4, <1>5, <1>6 DEF LifeStep, CurrentCalls

-----------------------------------------------------------------------------
(* The inductive invariant of ContextLife. *)
Whole ==
  /\ Typed /\ ArraysTyped /\ MixTyped
  /\ StateLocked /\ ListLocked /\ GlobalLocked
  /\ LoadedIsHeld /\ RefsCounted /\ DeviceCounted /\ OneOwner /\ MakingOK
  /\ PlacedOK /\ EventsOK /\ OldOK /\ MixOK /\ RunningOK

(* Every step of a call keeps the invariant. *)
LEMMA CallsKeepWhole ==
  ASSUME Whole, NEW t \in Thread, LifeStep(t)
  PROVE  Whole'
<1> USE DEF Whole
<1>1. Moves(t)
  BY CallMoves
<1>2. RefsCounted'
  BY RefsNext
<1>3. DeviceCounted' /\ device' \in DeviceRecords
  BY DeviceNext
<1>4. OneOwner' /\ ContextList' \subseteq Context
  BY OwnersNext
<1>5. MakingOK'
  BY MakingNext
<1>6. StateLocked' /\ ListLocked' /\ GlobalLocked'
  BY StateLockNext, ListLockNext, GlobalLockNext
<1>7. LoadedIsHeld'
  BY LoadedNext
<1>8. ArraysTyped'
  BY ArraysNext
<1>9. PlacedOK' /\ EventsOK'
  BY PlacedNext, EventsNext
<1>10. Typed'
  BY <1>1, <1>2, <1>3, <1>4, <1>9, TypedNext
<1>11. ArrayLaw(t) /\ render' = render
  BY ArrayLawNext
<1>12. OldOK'
  BY <1>1, <1>11, OldNext
<1>13. RunningLaw(t)
  BY RunningNext
<1>14. RunningOK'
  BY <1>1, <1>13, RunningStep
<1>15. MixTyped' /\ MixOK'
  BY <1>1, <1>11, <1>13, MixKept DEF RunningLaw
<1> QED
  BY <1>2, <1>3, <1>4, <1>5, <1>6, <1>7, <1>8, <1>9, <1>10, <1>12, <1>14, <1>15

(* All but the mixer and what it may change of the device. *)
AllElse == <<life, refs, events, ContextList, arrays, mContexts, global, globalLock, local,
             ListLock, StateLock, call>>

LEMMA MixerLeaves ==
  ASSUME Whole, UNCHANGED AllElse, device' \in DeviceRecords,
         device'.refs = device.refs, device'.live = device.live,
         device'.listed = device.listed, device'.running = device.running,
         MixTyped', MixOK'
  PROVE  Whole'
<1> USE DEF Whole, AllElse
<1>1. Typed' /\ ArraysTyped'
  BY DEF Typed, ArraysTyped
<1>2. StateLocked' /\ ListLocked' /\ GlobalLocked'
  BY DEF StateLocked, ListLocked, GlobalLocked
<1>3. LoadedIsHeld' /\ OneOwner' /\ MakingOK'
  BY DEF LoadedIsHeld, Life!At, OneOwner, MakingOK
<1>4. RefsCounted'
  BY DEF RefsCounted, Held, Holders, Takers, Locals
<1>5. DeviceCounted'
  BY DEF DeviceCounted, Live, DeviceHolders
<1>6. PlacedOK' /\ EventsOK' /\ OldOK'
  BY DEF PlacedOK, EventsOK, OldOK
<1>7. RunningOK'
  BY DEF RunningOK
<1> QED BY <1>1, <1>2, <1>3, <1>4, <1>5, <1>6, <1>7

(* Every step of the mixer keeps it. *)
LEMMA MixerKeepsWhole ==
  ASSUME Whole, Life!Mix
  PROVE  Whole'
<1> USE DEF Life!Contexts, Life!Current, Life!Locks, Life!Array
<1>0. /\ device \in DeviceRecords /\ arrays[mContexts] \subseteq Context
      /\ mContexts \in DOMAIN arrays /\ mContexts \in Nat
      /\ MixTyped /\ MixOK
  BY DEF Whole, Typed, ArraysTyped
<1>1. CASE Life!MixBegins
  <2>1. UNCHANGED AllElse /\ render' = [pc |-> "begun"] /\ device.running
    BY <1>1 DEF Life!MixBegins, AllElse
  <2>2. device' = device \/ device' = Life!Disconnected(device)
    BY <1>1 DEF Life!MixBegins
  <2>3. /\ device' \in DeviceRecords /\ device'.refs = device.refs /\ device'.live = device.live
        /\ device'.listed = device.listed /\ device'.running = device.running
    BY <1>0, <2>2 DEF Life!Disconnected, DeviceRecords
  <2>4. MixTyped' /\ MixOK'
    BY <2>1, <2>3 DEF MixTyped, MixOK, Life!Mixing
  <2> QED BY <2>1, <2>3, <2>4, MixerLeaves
<1>2. CASE Life!MixLoads
  <2>1. UNCHANGED AllElse /\ UNCHANGED device
    BY <1>2 DEF Life!MixLoads, AllElse
  <2>2. render' = [pc |-> "contexts", array |-> mContexts, left |-> arrays[mContexts]] /\ Life!Mixing
    BY <1>2 DEF Life!MixLoads, Life!Mixing
  <2>3. MixTyped' /\ MixOK'
    BY <1>0, <2>1, <2>2 DEF MixTyped, MixOK, Life!Mixing, AllElse
  <2> QED BY <1>0, <2>1, <2>3, MixerLeaves
<1>3. CASE Life!MixContext
  <2>1. UNCHANGED AllElse /\ UNCHANGED device
    BY <1>3 DEF Life!MixContext, AllElse
  <2>2. PICK c \in render.left : render' = [render EXCEPT !.left = @ \ {c}] /\ render.pc = "contexts"
    BY <1>3 DEF Life!MixContext
  <2>3. /\ MixTyped' /\ render'.pc = "contexts" /\ render'.array = render.array
        /\ render'.left \subseteq render.left
    BY <1>0, <2>2 DEF MixTyped
  <2>4. MixOK'
    BY <1>0, <2>1, <2>2, <2>3 DEF MixOK, Life!Mixing, AllElse
  <2> QED BY <1>0, <2>1, <2>3, <2>4, MixerLeaves
<1>4. CASE Life!MixEnds
  <2>1. UNCHANGED AllElse /\ UNCHANGED device /\ render' = [pc |-> "idle"]
    BY <1>4 DEF Life!MixEnds, AllElse, Life!Idle
  <2>2. MixTyped' /\ MixOK'
    BY <2>1 DEF MixTyped, MixOK, Life!Mixing
  <2> QED BY <1>0, <2>1, <2>2, MixerLeaves
<1> QED BY <1>1, <1>2, <1>3, <1>4 DEF Life!Mix

LEMMA StutterKeepsWhole ==
  ASSUME Whole, UNCHANGED Life!vars
  PROVE  Whole'
<1>1. UNCHANGED AllElse /\ UNCHANGED <<device, render>>
  BY DEF Life!vars, AllElse
<1>2. MixTyped' /\ MixOK' /\ device \in DeviceRecords
  BY <1>1 DEF Whole, MixTyped, MixOK, Life!Mixing, AllElse, Typed
<1> QED BY <1>1, <1>2, MixerLeaves

(* It holds at the start. *)
LEMMA InitIsWhole ==
  ASSUME Life!Init
  PROVE  Whole
<1> USE DEF Life!Init, Life!Idle, Life!EmptyContextArray
<1>1. Typed
  <2>1. [pc |-> "idle"] \in CallRecords
    BY DEF CallRecords
  <2>2. device \in DeviceRecords
    BY DEF DeviceRecords
  <2> QED BY <2>1, <2>2 DEF Typed, MaybeContext, Closing, DeinitPcs
<1>2. ArraysTyped
  <2>1. DOMAIN arrays = {0} /\ arrays[0] = {} /\ mContexts = 0
    OBVIOUS
  <2>2. IsFiniteSet({0})
    BY FS_Singleton
  <2> QED BY <2>1, <2>2 DEF ArraysTyped
<1>3. MixTyped /\ MixOK /\ RunningOK
  BY DEF MixTyped, MixOK, Life!Mixing, RunningOK
<1>4. StateLocked /\ ListLocked /\ GlobalLocked
  BY LifeAssumptions
  DEF StateLocked, ListLocked, GlobalLocked, InState, InList, InGlobal, Destroying, DeinitPcs
<1>5. LoadedIsHeld /\ MakingOK /\ OldOK
  BY DEF LoadedIsHeld, Life!At, MakingOK, OldOK
<1>6. OneOwner
  BY DEF OneOwner, Owns, Creating, Destroying, Closing, DeinitPcs
<1>7. PlacedOK /\ EventsOK
  BY DEF PlacedOK, EventsOK, Placed, Serves, Closing, DeinitPcs
<1>8. RefsCounted
  <2> SUFFICES ASSUME NEW c \in Context PROVE Held(c) = 0 /\ refs[c] = 0 /\ life[c] # "live"
    BY DEF RefsCounted
  <2>1. Holders(c) = {} /\ Takers(c) = {} /\ Locals(c) = {}
    BY LifeAssumptions DEF Holders, HoldsIt, Destroying, Closing, DeinitPcs, Takers, TakesOut, Locals
  <2>2. Cardinality({}) = 0
    BY FS_EmptySet
  <2>3. global # c /\ c \notin ContextList
    BY LifeAssumptions
  <2> QED BY <2>1, <2>2, <2>3 DEF Held, One
<1>9. DeviceCounted
  <2>1. Live = {} /\ DeviceHolders = {}
    BY DEF Live, DeviceHolders, HoldsDevice, Creating, Closing, DeinitPcs
  <2>2. Cardinality({}) = 0
    BY FS_EmptySet
  <2>3. device.refs = 1 /\ device.listed = TRUE /\ device.live = TRUE
    OBVIOUS
  <2> HIDE DEF Life!Init
  <2>4. device.refs = Cardinality(Live) + One(device.listed) + Cardinality(DeviceHolders)
    BY <2>1, <2>2, <2>3 DEF One
  <2>5. device.live = (device.refs > 0)
    <3>1. (device.refs > 0) = TRUE
      BY <2>3
    <3> QED BY <2>3, <3>1, Zenon
  <2> QED BY <2>4, <2>5 DEF DeviceCounted
<1> QED BY <1>1, <1>2, <1>3, <1>4, <1>5, <1>6, <1>7, <1>8, <1>9 DEF Whole

-----------------------------------------------------------------------------
(* What follows from the invariant. *)

LEMMA DeviceIsKept ==
  ASSUME Typed, DeviceCounted, device.listed \/ \E c \in Context : life[c] = "live"
  PROVE  device.refs >= 1
<1>1. IsFiniteSet(DeviceHolders) /\ IsFiniteSet(Live)
  BY LifeAssumptions, FS_Subset DEF DeviceHolders, Live
<1>2. Cardinality(DeviceHolders) \in Nat /\ Cardinality(Live) \in Nat
  BY <1>1, FS_CardinalityType
<1>3. (\E c \in Context : life[c] = "live") => Cardinality(Live) # 0
  BY <1>1, FS_EmptySet DEF Live
<1> QED BY <1>2, <1>3 DEF DeviceCounted, One

LEMMA CountedIsLive ==
  ASSUME DeviceCounted, device.refs >= 1, device \in DeviceRecords
  PROVE  device.live
<1>1. (device.refs > 0) = TRUE
  BY DEF DeviceRecords
<1>2. device.live = (device.refs > 0)
  BY DEF DeviceCounted
<1> QED BY <1>1, <1>2, Zenon

(* A context that is held is live, and so is its device. *)
LEMMA HeldIsLive ==
  ASSUME Whole, NEW t \in Thread, NEW c \in Context,
         HoldsIt(call[t], c) \/ TakesOut(call[t], c) \/ local[t] = c \/ global = c \/ c \in ContextList
  PROVE  life[c] = "live" /\ device.refs >= 1
<1>1. Held(c) >= 1
  BY HeldIsCounted DEF Whole
<1>2. life[c] = "live"
  BY <1>1 DEF Whole, RefsCounted, Typed
<1> QED BY <1>2, DeviceHeldIsCounted DEF Whole

(* A context in the array has its event thread, and is held. *)
LEMMA ServedIsHeld ==
  ASSUME Whole, NEW t \in Thread, NEW c \in Context, Serves(call[t], c) \/ Placed(call[t], c)
  PROVE  Serves(call[t], c) /\ HoldsIt(call[t], c)
<1>1. call[t] \in CallRecords /\ Closer(call[t])
  BY DEF Whole, Typed, Closer
<1>2. Placed(call[t], c) => Serves(call[t], c)
  BY DEF Placed, Serves, DeinitPcs
<1> QED BY <1>1, <1>2 DEF Serves, HoldsIt, Destroying, Closing, Closer, CallRecords, DeinitPcs

LEMMA PlacedIsServed ==
  ASSUME Whole
  PROVE  arrays[mContexts] \subseteq events /\ \A c \in events : life[c] = "live" /\ device.refs >= 1
<1>1. ASSUME NEW c \in arrays[mContexts] PROVE c \in events
  <2>1. c \in Context /\ (c \in ContextList \/ \E t \in Thread : Placed(call[t], c))
    BY DEF Whole, PlacedOK
  <2> QED BY <2>1, ServedIsHeld DEF Whole, EventsOK
<1>2. ASSUME NEW c \in events PROVE life[c] = "live" /\ device.refs >= 1
  <2>1. c \in Context /\ (c \in ContextList \/ \E t \in Thread : Serves(call[t], c))
    BY DEF Whole, EventsOK
  <2>2. CASE c \in ContextList
    <3>1. life[c] = "live"
      <4>1. Held(c) >= 1
        BY <2>2, HeldTyped DEF Held, One
      <4> QED BY <2>1, <4>1 DEF Whole, RefsCounted, Typed
    <3> QED BY <2>1, <3>1, DeviceIsKept DEF Whole
  <2>3. CASE \E t \in Thread : Serves(call[t], c)
    BY <2>1, <2>3, ServedIsHeld, HeldIsLive
  <2> QED BY <2>1, <2>2, <2>3
<1> QED BY <1>1, <1>2

(* Every context the mixer is still to mix has its event thread. *)
LEMMA MixedIsServed ==
  ASSUME Whole, render.pc = "contexts"
  PROVE  render.array \in DOMAIN arrays /\ render.left \subseteq events
<1>1. /\ render.array \in DOMAIN arrays /\ render.left \subseteq arrays[render.array]
      /\ \/ render.array \in {0, mContexts}
         \/ \E t \in Thread : call[t].pc \in {"created", "old"} /\ call[t].old = render.array
  BY DEF Whole, MixOK
<1>2. arrays[0] = {}
  BY DEF Whole, ArraysTyped
<1>3. ASSUME NEW t \in Thread, call[t].pc \in {"created", "old"}
      PROVE  arrays[call[t].old] \subseteq events
  <2>1. \/ arrays[call[t].old] \subseteq arrays[mContexts]
        \/ call[t].pc = "old" /\ arrays[call[t].old] \subseteq arrays[mContexts] \cup {call[t].c}
    BY <1>3 DEF Whole, OldOK
  <2>2. call[t].pc = "old" => call[t].c \in events
    BY DEF Whole, EventsOK, Serves, Typed, CallRecords, DeinitPcs
  <2> QED BY <2>1, <2>2, PlacedIsServed
<1> QED BY <1>1, <1>2, <1>3, PlacedIsServed

(* Who is in StateLock has the device, by himself or by a context. *)
LEMMA LockedHoldsDevice ==
  ASSUME Whole, NEW t \in Thread, InState(call[t]) \/ KeepsRunning(call[t])
  PROVE  device.refs >= 1
<1>1. call[t] \in CallRecords /\ Closer(call[t])
  BY DEF Whole, Typed, Closer
<1>2. HoldsDevice(call[t]) \/ (call[t].c \in Context /\ HoldsIt(call[t], call[t].c))
  BY <1>1 DEF InState, KeepsRunning, HoldsDevice, HoldsIt, Creating, Destroying, Closing, CallRecords,
              DeinitPcs
<1> QED BY <1>2, HeldIsLive, DeviceHeldIsCounted DEF Whole

(* A device that runs is held. *)
LEMMA RunningIsLive ==
  ASSUME Whole, device.running
  PROVE  device.refs >= 1
<1>1. CASE device.listed
  BY <1>1, DeviceIsKept DEF Whole
<1>2. CASE arrays[mContexts] # {}
  BY <1>2, PlacedIsServed
<1>3. ASSUME NEW t \in Thread, KeepsRunning(call[t]) PROVE device.refs >= 1
  BY <1>3, LockedHoldsDevice
<1> QED BY <1>1, <1>2, <1>3 DEF Whole, RunningOK, KeepsRunning

-----------------------------------------------------------------------------
(* The invariant implies each property that the runs check. *)
LEMMA WholeIsTyped ==
  ASSUME Whole
  PROVE  Life!TypeOK
  BY DEF Whole, Typed, ArraysTyped, MaybeContext, Life!TypeOK

LEMMA WholeIsCounted ==
  ASSUME Whole
  PROVE  Life!RefsAreHeld
<1>1. \A b : Life!One(b) = One(b)
  BY DEF Life!One, One
<1>2. ASSUME NEW c \in Context
      PROVE  /\ refs[c] = Life!Cardinality(Life!Holding(c)) + Life!Cardinality(Life!TakenOut(c))
                          + Life!Cardinality({t \in Thread : local[t] = c})
                          + Life!One(global = c) + Life!One(c \in ContextList)
             /\ (life[c] = "live") = (refs[c] > 0)
  <2>1. Life!Holding(c) = Holders(c)
    <3>1. ASSUME NEW t \in Thread
          PROVE  t \in Life!Holding(c) <=> t \in Holders(c)
      <4>1. call[t] \in CallRecords
        BY DEF Whole, Typed
      <4>2. "orphans" \in DOMAIN call[t] <=> Closing(call[t])
        BY <4>1 DEF CallRecords, Closing, DeinitPcs
      <4> QED BY <4>2 DEF Life!Holding, Holders, HoldsIt, Destroying, DeinitPcs
    <3> QED BY <3>1 DEF Life!Holding, Holders
  <2>2. Life!TakenOut(c) = Takers(c)
    BY DEF Life!TakenOut, Life!At, Takers, TakesOut
  <2>3. {t \in Thread : local[t] = c} = Locals(c)
    BY DEF Locals
  <2>4. refs[c] = Held(c) /\ (life[c] = "live" <=> refs[c] > 0)
    BY DEF Whole, RefsCounted
  <2>5. refs[c] = Cardinality(Holders(c)) + Cardinality(Takers(c)) + Cardinality(Locals(c))
                  + One(global = c) + One(c \in ContextList)
    BY <2>4 DEF Held
  <2>6. /\ Life!Cardinality(Holders(c)) = Cardinality(Holders(c))
        /\ Life!Cardinality(Takers(c)) = Cardinality(Takers(c))
        /\ Life!Cardinality(Locals(c)) = Cardinality(Locals(c))
    BY SameCardinality
  <2>7. /\ Life!One(global = c) = One(global = c)
        /\ Life!One(c \in ContextList) = One(c \in ContextList)
    BY DEF Life!One, One
  <2>8. (life[c] = "live") = (refs[c] > 0)
    BY <2>4
  <2> QED BY <2>1, <2>2, <2>3, <2>5, <2>6, <2>7, <2>8
<1>3. device.live = (device.refs > 0)
  BY DEF Whole, DeviceCounted
<1>4. device.refs >= Life!Cardinality({c \in Context : life[c] = "live"}) + Life!One(device.listed)
  <2>1. /\ Life!Cardinality(Live) = Cardinality(Live) /\ Life!One(device.listed) = One(device.listed)
    BY SameCardinality DEF Life!One, One
  <2>2. device.refs = Cardinality(Live) + One(device.listed) + Cardinality(DeviceHolders)
    BY DEF Whole, DeviceCounted
  <2>3. Cardinality(Live) \in Nat /\ Cardinality(DeviceHolders) \in Nat
    BY LifeAssumptions, FS_Subset, FS_CardinalityType DEF Live, DeviceHolders
  <2>4. device.refs >= Cardinality(Live) + One(device.listed)
    BY <2>2, <2>3 DEF One
  <2> QED BY <2>1, <2>4 DEF Live
<1> QED BY <1>2, <1>3, <1>4 DEF Life!RefsAreHeld

LEMMA WholeHasEvents ==
  ASSUME Whole
  PROVE  Life!MixedHasEvents
  BY PlacedIsServed, MixedIsServed DEF Life!MixedHasEvents

LEMMA WholeUsesTheLiving ==
  ASSUME Whole
  PROVE  Life!NoUseAfterFree
<1>1. ASSUME NEW t \in Thread,
             call[t].pc \in {"using", "count", "deinit", "array", "events"}, call[t].c # None
      PROVE  life[call[t].c] = "live"
  <2>1. call[t] \in CallRecords /\ Closer(call[t])
    BY DEF Whole, Typed, Closer
  <2>2. call[t].c \in Context
    BY <1>1, <2>1 DEF CallRecords, MaybeContext, DeinitPcs
  <2>3. CASE call[t].pc = "count"
    <3>1. global = call[t].c \/ \E u \in Thread : TakesOut(call[u], call[t].c)
      BY <1>1, <2>3 DEF Whole, LoadedIsHeld, Life!At
    <3> QED BY <2>2, <3>1, HeldIsLive
  <2>4. CASE call[t].pc # "count"
    <3>1. HoldsIt(call[t], call[t].c)
      BY <1>1, <2>1, <2>4 DEF HoldsIt, Destroying, Closing, Closer, CallRecords, DeinitPcs
    <3> QED BY <2>2, <3>1, HeldIsLive
  <2> QED BY <2>3, <2>4
<1>2. ASSUME NEW t \in Thread, StateLock = t
      PROVE  device.live
  <2>1. device.refs >= 1
    BY <1>2, LockedHoldsDevice DEF Whole, StateLocked
  <2> QED BY <2>1, CountedIsLive DEF Whole, Typed
<1>3. render.pc = "contexts" => /\ render.array \in DOMAIN arrays
                               /\ \A c \in render.left : life[c] = "live"
  BY MixedIsServed, PlacedIsServed
<1>4. Life!Mixing => device.live /\ device.running
  <2> SUFFICES ASSUME Life!Mixing PROVE device.live /\ device.running
    OBVIOUS
  <2>1. device.running
    BY DEF Whole, MixOK
  <2>2. device.refs >= 1
    BY <2>1, RunningIsLive
  <2> QED BY <2>1, <2>2, CountedIsLive DEF Whole, Typed
<1>5. ASSUME NEW t \in Thread, Life!At(t, "effect"), call[t].c \in ContextList
      PROVE  life[call[t].c] = "live"
  <2>1. call[t].c \in Context
    BY <1>5 DEF Whole, Typed
  <2> QED BY <1>5, <2>1, HeldIsLive
<1> QED BY <1>1, <1>2, <1>3, <1>4, <1>5 DEF Life!NoUseAfterFree

-----------------------------------------------------------------------------
(* The invariant holds throughout. *)
LEMMA LifeInvariant == Life!Spec => []Whole
<1>1. Life!Init => Whole
  BY InitIsWhole
<1>2. Whole /\ [Life!Next]_(Life!vars) => Whole'
  <2> SUFFICES ASSUME Whole, [Life!Next]_(Life!vars) PROVE Whole'
    OBVIOUS
  <2>1. CASE Life!Mix
    BY <2>1, MixerKeepsWhole
  <2>2. ASSUME NEW t \in Thread, LifeStep(t) PROVE Whole'
    BY <2>2, CallsKeepWhole
  <2>3. CASE UNCHANGED Life!vars
    BY <2>3, StutterKeepsWhole
  <2> QED BY <2>1, <2>2, <2>3 DEF Life!Next, LifeStep
<1> QED BY <1>1, <1>2, PTL DEF Life!Spec

(* Every reference that is counted is held by one holder, a context lives  *)
(* as long as its count is above 0, and the device as long as anything     *)
(* holds it (intrusive_ptr.h; alc/context.cpp, alc/alc.cpp).               *)
THEOREM ReferencesAreHeld == Life!Spec => []Life!RefsAreHeld
<1>1. Whole => Life!RefsAreHeld
  BY WholeIsCounted
<1> QED BY <1>1, LifeInvariant, PTL

(* Neither a call nor a mix uses a context, an array of contexts or a      *)
(* device that is gone.                                                    *)
THEOREM NothingFreedIsUsed == Life!Spec => []Life!NoUseAfterFree
<1>1. Whole => Life!NoUseAfterFree
  BY WholeUsesTheLiving
<1> QED BY <1>1, LifeInvariant, PTL

(* The same and more, of the specification that the runs check.            *)
THEOREM LifeIsSafe == MCSpec => []LifeInv
<1>1. MCInit => Life!Init
  BY DEF MCInit
<1>2. [MCNext]_<<vars, voiceVars, lifeVars, part>> => [Life!Next]_(Life!vars)
  BY DEF MCNext, lifeVars, Life!vars
<1>3. Whole => LifeInv
  BY WholeIsTyped, WholeIsCounted, WholeHasEvents, WholeUsesTheLiving DEF LifeInv, Life!Inv
<1> QED BY <1>1, <1>2, <1>3, LifeInvariant, PTL DEF MCSpec, Life!Spec

-----------------------------------------------------------------------------
(* KeyboardTouches: the layout.  What holds of one octave is found case by *)
(* case; the others are it again, shifted.                                 *)

(* A quotient is known by its remainder. *)
LEMMA DivIs ==
  ASSUME NEW a \in Nat, NEW b \in Nat \ {0}, NEW q \in Nat, NEW r \in Nat,
         r < b, a = b * q + r
  PROVE  a \div b = q
<1> DEFINE p == a \div b
           s == a % b
<1>1. p \in Int /\ s \in 0..(b - 1) /\ a = b * p + s
  BY Z3
<1> HIDE DEF p, s
<1>2. b * p + s = b * q + r
  BY <1>1
<1>3. ~(p < q)
  <2> SUFFICES ASSUME p < q PROVE FALSE
    OBVIOUS
  <2>1. PICK d \in Nat : q = (p + 1) + d
    <3>1. q - (p + 1) \in Nat /\ q = (p + 1) + (q - (p + 1))
      BY <1>1
    <3> QED BY <3>1
  <2>2. b * q = ((b * p) + b) + (b * d)
    BY <2>1, <1>1, Z3
  <2>3. b * d >= 0 /\ b * d \in Int /\ b * p \in Int
    BY <1>1, Z3
  <2> QED
    BY <1>1, <1>2, <2>2, <2>3
<1>4. ~(q < p)
  <2> SUFFICES ASSUME q < p PROVE FALSE
    OBVIOUS
  <2>1. PICK d \in Nat : p = (q + 1) + d
    <3>1. p - (q + 1) \in Nat /\ p = (q + 1) + (p - (q + 1))
      BY <1>1
    <3> QED BY <3>1
  <2>2. b * p = ((b * q) + b) + (b * d)
    BY <2>1, <1>1, Z3
  <2>3. b * d >= 0 /\ b * d \in Int /\ b * q \in Int
    BY <1>1, Z3
  <2> QED
    BY <1>1, <1>2, <2>2, <2>3
<1> QED
  BY <1>1, <1>3, <1>4 DEF p

(* A key of an octave, by the third of a white key, and by the white key.  *)
Above(l) == (IF l > 16 THEN l + 3 ELSE IF l > 13 THEN l + 2 ELSE IF l > 4 THEN l + 1 ELSE l) \div 2
Below(w) == IF w > 2 THEN 2 * w - 1 ELSE 2 * w
Offset(l) ==
  CASE l = 0 -> 0 [] l = 1 -> 2 [] l = 2 -> 4 [] l \in {3, 4} -> l + 3 [] l = 5 -> 9 [] l = 6 -> 11

LEMMA AboveIs ==
  /\ \A l \in 0..20 : Above(l) \in 0..11
  /\ \A w \in 0..6 : Below(w) \in 0..11
  /\ \A l \in 0..6 : Offset(l) \in 0..11
  /\ \A l \in 0..20, m \in 0..6 : l < 3 * m => Above(l) < Offset(m)
  /\ \A l \in 0..6, m \in 0..6 : l < m => Below(l) < Offset(m)
BY DEF Above, Below, Offset

KeyOf(upper, white, third) ==
  IF ~upper THEN (white \div 7) * 12 + Below(white % 7)
            ELSE (third \div 21) * 12 + Above(third % 21)

LEMMA DivisionIs ==
  ASSUME NEW n, NEW p
  PROVE  division(n, p) = KeyOf(p.upper, (p.x * n) \div Width, (p.x * 3 * n) \div Width)
BY DEF division, KeyOf, Above, Below

LEMMA DrawCountIs == \A n : drawCount(n) = (n \div 7) * 12 + Offset(n % 7)
BY DEF drawCount, Offset

(* Sevenths and twenty-firsts of a number.                                 *)
LEMMA Octaves ==
  \A n \in Nat : /\ n \div 7 \in Nat /\ n % 7 \in 0..6 /\ n = 7 * (n \div 7) + (n % 7)
                 /\ n \div 21 \in Nat /\ n % 21 \in 0..20 /\ n = 21 * (n \div 21) + (n % 21)
BY Z3

(* A key found under a white key or a third of one is one that is drawn.   *)
LEMMA KeyIsDrawn ==
  ASSUME NEW n \in Nat \ {0}, NEW upper \in BOOLEAN,
         NEW white \in 0..(n - 1), NEW third \in 0..(3 * n - 1)
  PROVE  KeyOf(upper, white, third) \in 0..(drawCount(n) - 1)
<1> DEFINE a == n \div 7
           l == n % 7
           q == white \div 7
           w == white % 7
           o == third \div 21
           m == third % 21
<1>1. a \in Nat /\ l \in 0..6 /\ n = 7 * a + l
  BY Octaves
<1>2. q \in Nat /\ w \in 0..6 /\ white = 7 * q + w
  BY Octaves
<1>3. o \in Nat /\ m \in 0..20 /\ third = 21 * o + m
  BY Octaves
<1>4. drawCount(n) = 12 * a + Offset(l)
  BY <1>1, DrawCountIs, AboveIs
<1>5. KeyOf(upper, white, third) = IF ~upper THEN 12 * q + Below(w) ELSE 12 * o + Above(m)
  BY <1>2, <1>3, AboveIs DEF KeyOf
<1> HIDE DEF a, l, q, w, o, m
<1>6. Offset(l) \in 0..11 /\ Below(w) \in 0..11 /\ Above(m) \in 0..11
  BY <1>1, <1>2, <1>3, AboveIs
<1>7. 12 * q + Below(w) < 12 * a + Offset(l)
  <2>1. q < a \/ (q = a /\ w < l)
    BY <1>1, <1>2
  <2>2. q = a /\ w < l => Below(w) < Offset(l)
    BY <1>1, <1>2, AboveIs
  <2> QED
    BY <2>1, <2>2, <1>1, <1>2, <1>6
<1>8. 12 * o + Above(m) < 12 * a + Offset(l)
  <2>1. o < a \/ (o = a /\ m < 3 * l)
    BY <1>1, <1>3
  <2>2. o = a /\ m < 3 * l => Above(m) < Offset(l)
    BY <1>1, <1>3, AboveIs
  <2> QED
    BY <2>1, <2>2, <1>1, <1>3, <1>6
<1> QED
  BY <1>1, <1>2, <1>3, <1>4, <1>5, <1>6, <1>7, <1>8

(* A place on the screen is above one of the white keys, and of the thirds.*)
LEMMA PartOfScreen ==
  ASSUME NEW x \in 0..(Width - 1), NEW n \in Nat \ {0}
  PROVE  (x * n) \div Width \in 0..(n - 1)
<1>1. Width \in Nat \ {0}
  BY TouchAssumptions
<1> DEFINE q == (x * n) \div Width
           r == (x * n) % Width
<1>2. x * n \in Nat
  BY <1>1, Z3
<1>3. q \in Nat /\ r \in 0..(Width - 1) /\ x * n = Width * q + r
  BY <1>1, <1>2, Z3
<1> HIDE DEF q, r
<1>4. ~(q >= n)
  <2> SUFFICES ASSUME q >= n PROVE FALSE
    OBVIOUS
  <2>1. PICK d \in Nat : q = n + d
    <3>1. q - n \in Nat /\ q = n + (q - n)
      BY <1>3
    <3> QED BY <3>1
  <2>2. PICK e \in Nat \ {0} : Width = x + e
    <3>1. Width - x \in Nat \ {0} /\ Width = x + (Width - x)
      BY <1>1
    <3> QED BY <3>1
  <2>3. Width * q = (x * n + e * n) + Width * d
    BY <2>1, <2>2, <1>1, Z3
  <2>4. e * n \in Nat \ {0} /\ Width * d \in Nat
    BY <1>1, Z3
  <2> QED
    BY <1>2, <1>3, <2>3, <2>4
<1> QED
  BY <1>3, <1>4 DEF q

LEMMA TouchedKeyIsDrawn ==
  ASSUME NEW n \in Nat \ {0}, NEW p \in [x: 0..(Width - 1), upper: BOOLEAN]
  PROVE  division(n, p) \in 0..(drawCount(n) - 1)
<1>1. (p.x * n) \div Width \in 0..(n - 1)
  BY PartOfScreen
<1>2. p.x * 3 * n = p.x * (3 * n) /\ 3 * n \in Nat \ {0}
  BY TouchAssumptions, Z3
<1>3. (p.x * 3 * n) \div Width \in 0..(3 * n - 1)
  <2>1. (p.x * (3 * n)) \div Width \in 0..((3 * n) - 1)
    BY <1>2, PartOfScreen
  <2> QED
    BY <2>1, <1>2
<1>4. KeyOf(p.upper, (p.x * n) \div Width, (p.x * 3 * n) \div Width) \in 0..(drawCount(n) - 1)
  BY <1>1, <1>3, KeyIsDrawn
<1> QED
  BY <1>4, DivisionIs

(* The pixels of the edges of thirds, and of the middles of notes.         *)
LEMMA Pixels ==
  ASSUME NEW n \in Counts
  PROVE  \E k \in Nat \ {0} : Width = 6 * (n * k) /\ n * k \in Nat \ {0}
<1>1. Width \in Nat \ {0} /\ n \in Nat \ {0} /\ Width % (6 * n) = 0
  BY TouchAssumptions, KeysAssumptions DEF EndAtPixels
<1> DEFINE b == 6 * n
           k == Width \div b
<1>2. b \in Nat \ {0} /\ Width % b = 0
  BY <1>1
<1>3. k \in Nat /\ Width = b * k
  <2> HIDE DEF b
  <2> QED BY <1>1, <1>2, Z3
<1> HIDE DEF k
<1>4. Width = 6 * (n * k) /\ n * k \in Nat
  BY <1>1, <1>3, Z3
<1>5. k # 0 /\ n * k # 0
  BY <1>1, <1>4, Z3
<1> QED
  BY <1>3, <1>4, <1>5

(* At the edge of a third, and at any number of sixths in general.         *)
LEMMA AtPixel ==
  ASSUME NEW n \in Nat \ {0}, NEW k \in Nat \ {0}, Width = 6 * (n * k), n * k \in Nat \ {0},
         NEW sixth \in Nat
  PROVE  /\ ((sixth * k) * n) \div Width = sixth \div 6
         /\ ((sixth * k) * 3 * n) \div Width = sixth \div 2
         /\ ((sixth * k) * 6 * n) \div Width = sixth
<1> DEFINE c == n * k
<1>1. c \in Nat \ {0} /\ Width = 6 * c /\ Width \in Nat \ {0}
  BY TouchAssumptions
<1>2. /\ (sixth * k) * n = c * sixth
      /\ (sixth * k) * 3 * n = 3 * (c * sixth)
      /\ (sixth * k) * 6 * n = 6 * (c * sixth)
      /\ c * sixth \in Nat
  BY Z3
<1> HIDE DEF c
<1>3. PICK q \in Nat, r \in 0..5 : sixth = 6 * q + r /\ sixth \div 6 = q
  <2>1. sixth \div 6 \in Nat /\ sixth % 6 \in 0..5 /\ sixth = 6 * (sixth \div 6) + (sixth % 6)
    BY Z3
  <2> QED BY <2>1
<1>4. PICK h \in Nat, g \in 0..1 : sixth = 2 * h + g /\ sixth \div 2 = h
  <2>1. sixth \div 2 \in Nat /\ sixth % 2 \in 0..1 /\ sixth = 2 * (sixth \div 2) + (sixth % 2)
    BY Z3
  <2> QED BY <2>1
<1>5. (c * sixth) \div Width = q
  <2>1. c * sixth = Width * q + c * r
    BY <1>1, <1>3, Z3
  <2>2. c * r \in Nat /\ c * r < Width
    BY <1>1, Z3
  <2> QED
    BY <1>1, <1>2, <2>1, <2>2, DivIs
<1>6. (3 * (c * sixth)) \div Width = h
  <2>1. 3 * (c * sixth) = Width * h + 3 * (c * g)
    BY <1>1, <1>4, Z3
  <2>2. 3 * (c * g) \in Nat /\ 3 * (c * g) < Width
    BY <1>1, Z3
  <2>3. 3 * (c * sixth) \in Nat
    BY <1>2
  <2> QED
    BY <1>1, <2>1, <2>2, <2>3, DivIs
<1>7. (6 * (c * sixth)) \div Width = sixth
  <2>1. 6 * (c * sixth) = Width * sixth + 0
    BY <1>1, <1>2, Z3
  <2>2. 6 * (c * sixth) \in Nat
    BY <1>2
  <2> QED
    BY <1>1, <2>1, <2>2, DivIs
<1> QED
  BY <1>2, <1>3, <1>4, <1>5, <1>6, <1>7

(* What is drawn of an octave is the same of every other one.              *)
HalfOf(j) == IF j > 4 THEN j + 1 ELSE j
Dark(j) == HalfOf(j) % 2 = 1
Sixths(j) == IF Dark(j) THEN (3 * HalfOf(j) + 1)..(3 * HalfOf(j) + 4)
                        ELSE (3 * HalfOf(j))..(3 * HalfOf(j) + 5)

LEMMA InOctave ==
  ASSUME NEW q \in Nat, NEW j \in 0..11
  PROVE  /\ Halves(12 * q + j) = 14 * q + HalfOf(j)
         /\ Black(12 * q + j) = Dark(j)
         /\ \A s \in Int : s + 42 * q \in DrawnAt(12 * q + j) <=> s \in Sixths(j)
<1>1. (12 * q + j) \div 12 = q /\ (12 * q + j) % 12 = j
  BY Z3
<1>2. Halves(12 * q + j) = 14 * q + HalfOf(j)
  BY <1>1, Z3 DEF Halves, HalfOf
<1>3. HalfOf(j) \in Nat
  BY DEF HalfOf
<1>4. Black(12 * q + j) = Dark(j)
  <2> DEFINE h == HalfOf(j)
  <2>1. (14 * q + h) % 2 = h % 2
    <3> HIDE DEF h
    <3> QED BY <1>3, Z3 DEF h
  <2> QED
    BY <1>2, <2>1 DEF Black, Dark
<1>5. \A s \in Int : s + 42 * q \in DrawnAt(12 * q + j) <=> s \in Sixths(j)
  <2> DEFINE h == HalfOf(j)
  <2>1. DrawnAt(12 * q + j) = IF Dark(j) THEN (3 * (14 * q + h + 1) - 2)..(3 * (14 * q + h + 1) + 1)
                                         ELSE (3 * (14 * q + h))..(3 * (14 * q + h) + 5)
    BY <1>2, <1>4 DEF DrawnAt
  <2>2. Sixths(j) = IF Dark(j) THEN (3 * h + 1)..(3 * h + 4) ELSE (3 * h)..(3 * h + 5)
    BY DEF Sixths
  <2>3. h \in Nat
    BY <1>3
  <2> HIDE DEF h
  <2> QED
    BY <2>1, <2>2, <2>3
<1> QED
  BY <1>2, <1>4, <1>5

(* Of one octave: the third l is in the sixths 2 * l and 2 * l + 1.        *)
LEMMA OctaveFits ==
  /\ \A l \in 0..20 : 2 * l \in Sixths(Above(l)) /\ 2 * l \in Sixths(Below(l \div 3))
  /\ \A w \in 0..6 : ~Dark(Below(w))
  /\ \A l \in 0..20, j \in 0..11 : Dark(j) /\ 2 * l \in Sixths(j) => j = Above(l)
  /\ \A j \in 0..11 : Sixths(j) \subseteq 0..41
<1>1. \A l \in 0..20 : 2 * l \in Sixths(Above(l))
  BY DEF Sixths, Above, Dark, HalfOf
<1>2. \A l \in 0..20 : 2 * l \in Sixths(Below(l \div 3))
  BY DEF Sixths, Below, Dark, HalfOf
<1>3. \A w \in 0..6 : ~Dark(Below(w))
  BY DEF Below, Dark, HalfOf
<1>4. \A l \in 0..20, j \in 0..11 : Dark(j) /\ 2 * l \in Sixths(j) => j = Above(l)
  BY DEF Sixths, Above, Dark, HalfOf
<1>5. \A j \in 0..11 : Sixths(j) \subseteq 0..41
  BY DEF Sixths, Dark, HalfOf
<1> QED
  BY <1>1, <1>2, <1>3, <1>4, <1>5

(* A key is one of an octave.                                              *)
LEMMA KeyOfOctave ==
  \A key \in Nat : \E q \in Nat, j \in 0..11 : key = 12 * q + j
<1> SUFFICES ASSUME NEW key \in Nat PROVE \E q \in Nat, j \in 0..11 : key = 12 * q + j
  OBVIOUS
<1>1. key \div 12 \in Nat /\ key % 12 \in 0..11 /\ key = 12 * (key \div 12) + (key % 12)
  BY Z3
<1> QED
  BY <1>1

(* A third of a white key is in an octave, and so is its white key.        *)
LEMMA ThirdOfOctave ==
  ASSUME NEW third \in Nat
  PROVE  \E q \in Nat, l \in 0..20 :
           /\ third = 21 * q + l /\ third \div 21 = q /\ third % 21 = l
           /\ (third \div 3) \div 7 = q /\ (third \div 3) % 7 = l \div 3
           /\ KeyOf(TRUE, third \div 3, third) = 12 * q + Above(l)
           /\ KeyOf(FALSE, third \div 3, third) = 12 * q + Below(l \div 3)
<1> DEFINE q == third \div 21
           l == third % 21
<1>1. q \in Nat /\ l \in 0..20 /\ third = 21 * q + l
  BY Octaves
<1>2. (third \div 3) \div 7 = q /\ (third \div 3) % 7 = l \div 3
  BY Z3
<1>3. KeyOf(TRUE, third \div 3, third) = 12 * q + Above(l)
  BY <1>1, AboveIs DEF KeyOf
<1>4. KeyOf(FALSE, third \div 3, third) = 12 * q + Below(l \div 3)
  <2>1. l \div 3 \in 0..6
    BY <1>1, Z3
  <2>2. Below(l \div 3) \in 0..11
    BY <2>1, AboveIs
  <2> QED
    BY <1>1, <1>2, <2>2 DEF KeyOf
<1> QED
  BY <1>1, <1>2, <1>3, <1>4

(* The places looked at are the edges of the thirds.                       *)
LEMMA EdgesAre ==
  ASSUME NEW n \in Counts, NEW p \in Everywhere(n)
  PROVE  \E third \in 0..(3 * n - 1) :
           /\ division(n, p) = KeyOf(p.upper, third \div 3, third)
           /\ (p.x * 6 * n) \div Width = 2 * third
           /\ p.upper \in BOOLEAN
<1>1. n \in Nat \ {0} /\ Width \in Nat \ {0}
  BY TouchAssumptions
<1>2. PICK k \in Nat \ {0} : Width = 6 * (n * k) /\ n * k \in Nat \ {0}
  BY Pixels
<1>3. PICK third \in 0..(3 * n - 1) : p.x = (third * Width) \div (3 * n)
  BY DEF Everywhere
<1>4. p.upper \in BOOLEAN
  BY DEF Everywhere
<1>5. p.x = (2 * third) * k
  <2>1. third \in Nat /\ third * Width = (3 * n) * ((2 * third) * k) + 0
    BY <1>1, <1>2, <1>3, Z3
  <2>2. (2 * third) * k \in Nat /\ third * Width \in Nat /\ 3 * n \in Nat \ {0}
    BY <1>1, <2>1, Z3
  <2>3. (third * Width) \div (3 * n) = (2 * third) * k
    BY <2>1, <2>2, DivIs
  <2> QED
    BY <1>3, <2>3
<1>6. third \in Nat /\ 2 * third \in Nat
  BY <1>1, <1>3
<1>7. /\ (((2 * third) * k) * n) \div Width = (2 * third) \div 6
      /\ (((2 * third) * k) * 3 * n) \div Width = (2 * third) \div 2
      /\ (((2 * third) * k) * 6 * n) \div Width = 2 * third
  BY <1>1, <1>2, <1>6, AtPixel
<1>8. (2 * third) \div 6 = third \div 3 /\ (2 * third) \div 2 = third
  BY <1>6, Z3
<1>9. division(n, p) = KeyOf(p.upper, third \div 3, third)
  BY <1>5, <1>7, <1>8, DivisionIs
<1> QED
  BY <1>4, <1>5, <1>7, <1>9

LEMMA AllTouchesFit ==
  ASSUME NEW n \in Counts
  PROVE  TouchesFit(n)
<1> SUFFICES ASSUME NEW p \in Everywhere(n)
             PROVE  LET key == division(n, p)
                        sixth == (p.x * 6 * n) \div Width IN
                    /\ key < drawCount(n)
                    /\ sixth \in DrawnAt(key)
                    /\ Black(key) = (p.upper /\ \E k \in 0..(drawCount(n) - 1) :
                                                   Black(k) /\ sixth \in DrawnAt(k))
  BY DEF TouchesFit
<1> DEFINE key == division(n, p)
           sixth == (p.x * 6 * n) \div Width
<1>1. n \in Nat \ {0} /\ drawCount(n) \in Int
  <2>1. n \in Nat \ {0}
    BY TouchAssumptions
  <2>2. n \div 7 \in Nat /\ Offset(n % 7) \in 0..11
    BY <2>1, Octaves, AboveIs
  <2> QED
    BY <2>1, <2>2, DrawCountIs
<1>2. PICK third \in 0..(3 * n - 1) :
        key = KeyOf(p.upper, third \div 3, third) /\ sixth = 2 * third /\ p.upper \in BOOLEAN
  BY EdgesAre
<1> HIDE DEF key, sixth
<1>3. third \in Nat /\ third \div 3 \in 0..(n - 1)
  BY <1>1, <1>2, Z3
<1>4. key \in 0..(drawCount(n) - 1)
  BY <1>1, <1>2, <1>3, KeyIsDrawn
<1>5. PICK q \in Nat, l \in 0..20 :
        /\ third = 21 * q + l
        /\ KeyOf(TRUE, third \div 3, third) = 12 * q + Above(l)
        /\ KeyOf(FALSE, third \div 3, third) = 12 * q + Below(l \div 3)
  BY <1>3, ThirdOfOctave
<1> DEFINE j == IF p.upper THEN Above(l) ELSE Below(l \div 3)
<1>6. j \in 0..11 /\ key = 12 * q + j /\ sixth = 2 * l + 42 * q
      /\ 2 * l \in Sixths(j) /\ (~p.upper => ~Dark(j)) /\ (p.upper => j = Above(l))
  <2>1. l \div 3 \in 0..6
    BY Z3
  <2>2. Above(l) \in 0..11 /\ Below(l \div 3) \in 0..11 /\ ~Dark(Below(l \div 3))
        /\ 2 * l \in Sixths(Above(l)) /\ 2 * l \in Sixths(Below(l \div 3))
    BY <2>1, AboveIs, OctaveFits
  <2>3. sixth = 2 * l + 42 * q
    BY <1>2, <1>5
  <2> QED
    BY <1>2, <1>5, <2>2, <2>3
<1> HIDE DEF j
<1>7. sixth \in DrawnAt(key) /\ Black(key) = Dark(j)
  BY <1>6, InOctave
<1>8. ASSUME NEW k \in 0..(drawCount(n) - 1), Black(k), sixth \in DrawnAt(k), p.upper
      PROVE  Black(key)
  <2>1. PICK o \in Nat, i \in 0..11 : k = 12 * o + i
    <3>1. k \in Nat
      BY <1>1
    <3> QED
      BY <3>1, KeyOfOctave
  <2>2. Black(k) = Dark(i) /\ \A s \in Int : s + 42 * o \in DrawnAt(k) <=> s \in Sixths(i)
    BY <2>1, InOctave
  <2>3. sixth = (2 * l + 42 * (q - o)) + 42 * o /\ (2 * l + 42 * (q - o)) \in Int
    BY <1>6, <2>1
  <2>4. (2 * l + 42 * (q - o)) \in Sixths(i)
    BY <1>8, <2>2, <2>3
  <2>5. (2 * l + 42 * (q - o)) \in 0..41
    BY <2>4, OctaveFits
  <2>6. q = o
    BY <2>5
  <2>7. 2 * l \in Sixths(i) /\ Dark(i)
    BY <1>8, <2>2, <2>4, <2>6
  <2>8. i = Above(l)
    BY <2>7, OctaveFits
  <2> QED
    BY <1>6, <1>7, <1>8, <2>7, <2>8
<1>9. Black(key) => p.upper
  BY <1>6, <1>7
<1>10. Black(key) \in BOOLEAN
  BY DEF Black
<1>11. Black(key) = (p.upper /\ \E k \in 0..(drawCount(n) - 1) : Black(k) /\ sixth \in DrawnAt(k))
  BY <1>2, <1>4, <1>7, <1>8, <1>9, <1>10
<1>12. key < drawCount(n)
  BY <1>1, <1>4
<1> QED
  BY <1>7, <1>11, <1>12 DEF key, sixth

(* The keys among which BarrageView divides the notes, of part of an       *)
(* octave.                                                                 *)
Cut(l) == CASE l \in {0, 1} -> l [] l = 2 -> 3 [] l \in {3, 4} -> l + 2 [] l = 5 -> 8 [] l = 6 -> 10

LEMMA CutFits ==
  /\ \A l \in 0..6 : Cut(l) \in 0..11
  /\ \A w \in 0..6, l \in 0..6 : w < l => Below(w) < Cut(l)
  /\ \A m \in 0..20, l \in 0..6 :
       m < 3 * l => Above(m) < Cut(l) \/ (Above(m) = Cut(l) /\ Dark(Above(m)))
  /\ \A j \in 0..11 : Dark(j) => \E i \in 0..6 : HalfOf(j) + 1 = 2 * i /\ Above(3 * i) = j
  /\ \A j \in 0..11 : ~Dark(j) => \E i \in 0..6 : HalfOf(j) = 2 * i /\ Below(i) = j
<1>1. \A l \in 0..6 : Cut(l) \in 0..11
  BY DEF Cut
<1>2. \A w \in 0..6, l \in 0..6 : w < l => Below(w) < Cut(l)
  BY DEF Cut, Below
<1>3. \A m \in 0..20, l \in 0..6 :
        m < 3 * l => Above(m) < Cut(l) \/ (Above(m) = Cut(l) /\ Dark(Above(m)))
  BY DEF Cut, Above, Dark, HalfOf
<1>4. \A j \in 0..11 : Dark(j) => \E i \in 0..6 : HalfOf(j) + 1 = 2 * i /\ Above(3 * i) = j
  BY DEF Above, Dark, HalfOf
<1>5. \A j \in 0..11 : ~Dark(j) => \E i \in 0..6 : HalfOf(j) = 2 * i /\ Below(i) = j
  BY DEF Below, Dark, HalfOf
<1> QED
  BY <1>1, <1>2, <1>3, <1>4, <1>5

LEMMA BarrageCountIs ==
  ASSUME NEW n \in Nat
  PROVE  barrageCount(n) = 12 * (n \div 7) + Cut(n % 7) /\ barrageCount(n) \in Nat
<1>1. barrageCount(n) = (n \div 7) * 12 + Cut(n % 7)
  BY DEF barrageCount, Cut
<1>2. n \div 7 \in Nat /\ Cut(n % 7) \in 0..11
  BY Octaves, CutFits
<1> QED
  BY <1>1, <1>2

LEMMA AllNotesFit ==
  ASSUME NEW n \in Counts
  PROVE  NotesFit(n)
<1> SUFFICES ASSUME NEW value \in 0..(barrageCount(n) - 1)
             PROVE  LET at == [x |-> (noteHalves(n, value) * Width) \div (2 * n), upper |-> Black(value)]
                    IN  division(n, at) = value
  BY DEF NotesFit
<1> DEFINE h == noteHalves(n, value)
           at == [x |-> (h * Width) \div (2 * n), upper |-> Black(value)]
<1>1. n \in Nat \ {0} /\ Width \in Nat \ {0} /\ barrageCount(n) \in Nat
  BY TouchAssumptions, BarrageCountIs
<1>2. PICK k \in Nat \ {0} : Width = 6 * (n * k) /\ n * k \in Nat \ {0}
  BY Pixels
<1>3. value \in Nat /\ value % barrageCount(n) = value
  BY <1>1, Z3
<1>4. PICK q \in Nat, j \in 0..11 : value = 12 * q + j
  BY <1>3, KeyOfOctave
<1>5. h = (14 * q + HalfOf(j)) + 1 /\ Black(value) = Dark(j) /\ HalfOf(j) \in 0..12
  <2>1. Halves(value) = 14 * q + HalfOf(j) /\ Black(value) = Dark(j)
    BY <1>4, InOctave
  <2>2. h = Halves(value) + 1
    BY <1>3 DEF noteHalves
  <2> QED
    BY <2>1, <2>2 DEF HalfOf
<1> HIDE DEF h
<1>6. h \in Nat /\ 3 * h \in Nat
  BY <1>5
<1>7. (h * Width) \div (2 * n) = (3 * h) * k
  <2>1. h * Width = (2 * n) * ((3 * h) * k) + 0
    BY <1>1, <1>2, <1>6, Z3
  <2>2. (3 * h) * k \in Nat /\ h * Width \in Nat /\ 2 * n \in Nat \ {0}
    BY <1>1, <1>6, Z3
  <2> QED
    BY <2>1, <2>2, DivIs
<1>8. /\ (((3 * h) * k) * n) \div Width = (3 * h) \div 6
      /\ (((3 * h) * k) * 3 * n) \div Width = (3 * h) \div 2
  BY <1>1, <1>2, <1>6, AtPixel
<1>9. division(n, at) = KeyOf(Dark(j), (3 * h) \div 6, (3 * h) \div 2)
  <2>1. at.x = (3 * h) * k /\ at.upper = Dark(j)
    BY <1>5, <1>7
  <2> QED
    BY <1>8, <2>1, DivisionIs
<1>10. CASE Dark(j)
  <2>1. PICK i \in 0..6 : HalfOf(j) + 1 = 2 * i /\ Above(3 * i) = j
    BY <1>10, CutFits
  <2>2. h = 14 * q + 2 * i
    BY <1>5, <2>1
  <2>3. (3 * h) \div 2 = 21 * q + 3 * i
    BY <2>2, Z3
  <2>4. (21 * q + 3 * i) \div 21 = q /\ (21 * q + 3 * i) % 21 = 3 * i
    BY Z3
  <2>5. KeyOf(Dark(j), (3 * h) \div 6, (3 * h) \div 2) = q * 12 + Above(3 * i)
    BY <1>10, <2>3, <2>4 DEF KeyOf
  <2>6. division(n, at) = value
    BY <1>4, <1>9, <2>1, <2>5
  <2> QED
    BY <2>6 DEF h
<1>11. CASE ~Dark(j)
  <2>1. PICK i \in 0..6 : HalfOf(j) = 2 * i /\ Below(i) = j
    BY <1>11, CutFits
  <2>2. h = (14 * q + 2 * i) + 1
    BY <1>5, <2>1
  <2>3. (3 * h) \div 6 = 7 * q + i
    BY <2>2, Z3
  <2>4. (7 * q + i) \div 7 = q /\ (7 * q + i) % 7 = i
    BY Z3
  <2>5. KeyOf(Dark(j), (3 * h) \div 6, (3 * h) \div 2) = q * 12 + Below(i)
    BY <1>11, <2>3, <2>4 DEF KeyOf
  <2>6. division(n, at) = value
    BY <1>4, <1>9, <2>1, <2>5
  <2> QED
    BY <2>6 DEF h
<1> QED
  BY <1>10, <1>11

LEMMA AllKeysFit ==
  ASSUME NEW n \in Counts
  PROVE  KeysFit(n)
<1> SUFFICES ASSUME NEW p \in Everywhere(n)
             PROVE  LET key == division(n, p) IN
                    \/ key < barrageCount(n)
                    \/ key = barrageCount(n) /\ Black(key) /\ p.upper
  BY DEF KeysFit
<1> DEFINE key == division(n, p)
           a == n \div 7
           l == n % 7
<1>1. n \in Nat \ {0}
  BY TouchAssumptions
<1>2. a \in Nat /\ l \in 0..6 /\ n = 7 * a + l /\ barrageCount(n) = 12 * a + Cut(l)
  BY <1>1, Octaves, BarrageCountIs
<1> HIDE DEF a, l
<1>3. PICK third \in 0..(3 * n - 1) : key = KeyOf(p.upper, third \div 3, third) /\ p.upper \in BOOLEAN
  BY EdgesAre
<1> HIDE DEF key
<1>4. PICK q \in Nat, m \in 0..20 :
        /\ third = 21 * q + m
        /\ KeyOf(TRUE, third \div 3, third) = 12 * q + Above(m)
        /\ KeyOf(FALSE, third \div 3, third) = 12 * q + Below(m \div 3)
  <2>1. third \in Nat
    BY <1>1, <1>3
  <2> QED
    BY <2>1, ThirdOfOctave
<1>5. q < a \/ (q = a /\ m < 3 * l)
  BY <1>2, <1>3, <1>4
<1>6. Cut(l) \in 0..11 /\ Above(m) \in 0..11 /\ m \div 3 \in 0..6 /\ Below(m \div 3) \in 0..11
  <2>1. m \div 3 \in 0..6
    BY Z3
  <2> QED
    BY <1>2, <2>1, AboveIs, CutFits
<1>7. CASE ~p.upper
  <2>1. key = 12 * q + Below(m \div 3)
    BY <1>3, <1>4, <1>7
  <2>2. q = a /\ m < 3 * l => m \div 3 < l
    BY <1>2, Z3
  <2>3. q = a /\ m < 3 * l => Below(m \div 3) < Cut(l)
    BY <1>2, <1>6, <2>2, CutFits
  <2>4. key < barrageCount(n)
    BY <1>2, <1>5, <1>6, <2>1, <2>3
  <2> QED
    BY <2>4 DEF key
<1>8. CASE p.upper
  <2>1. key = 12 * q + Above(m) /\ Black(key) = Dark(Above(m))
    BY <1>3, <1>4, <1>6, <1>8, InOctave
  <2>2. q = a /\ m < 3 * l => Above(m) < Cut(l) \/ (Above(m) = Cut(l) /\ Dark(Above(m)))
    BY <1>2, CutFits
  <2>3. key < barrageCount(n) \/ (key = barrageCount(n) /\ Black(key) /\ p.upper)
    BY <1>2, <1>5, <1>6, <1>8, <2>1, <2>2
  <2> QED
    BY <2>3 DEF key
<1> QED
  BY <1>3, <1>7, <1>8

-----------------------------------------------------------------------------
(* KeyboardTouches: the keys shown as pressed.  How often each is shown    *)
(* says what the bag is.                                                   *)
Copies(B, e) == IF e \in DOMAIN B THEN B[e] ELSE 0

LEMMA BagIs ==
  ASSUME NEW A, NEW B, IsABag(A), IsABag(B), \A e : Copies(A, e) = Copies(B, e)
  PROVE  A = B
<1>1. A = [e \in DOMAIN A |-> A[e]] /\ B = [e \in DOMAIN B |-> B[e]]
  BY DEF IsABag
<1>2. \A e \in DOMAIN A : A[e] > 0
  BY DEF IsABag
<1>3. \A e \in DOMAIN B : B[e] > 0
  BY DEF IsABag
<1>4. DOMAIN A = DOMAIN B
  <2>1. ASSUME NEW e \in DOMAIN A PROVE e \in DOMAIN B
    <3>1. Copies(A, e) > 0
      BY <1>2 DEF Copies
    <3> QED
      BY <3>1 DEF Copies
  <2>2. ASSUME NEW e \in DOMAIN B PROVE e \in DOMAIN A
    <3>1. Copies(B, e) > 0
      BY <1>3 DEF Copies
    <3> QED
      BY <3>1 DEF Copies
  <2> QED
    BY <2>1, <2>2
<1>5. \A e \in DOMAIN A : A[e] = B[e]
  BY <1>4 DEF Copies
<1> QED
  BY <1>1, <1>4, <1>5

LEMMA CopiesAre == \A B, e : IsABag(B) => Copies(B, e) \in Nat
BY DEF IsABag, Copies

LEMMA Together ==
  ASSUME NEW A, NEW B, IsABag(A), IsABag(B)
  PROVE  IsABag(A (+) B) /\ \A e : Copies(A (+) B, e) = Copies(A, e) + Copies(B, e)
<1>1. \A e \in DOMAIN A : A[e] \in Nat /\ A[e] > 0
  BY DEF IsABag
<1>2. \A e \in DOMAIN B : B[e] \in Nat /\ B[e] > 0
  BY DEF IsABag
<1> QED
  BY <1>1, <1>2 DEF IsABag, Copies, (+)

LEMMA Without ==
  ASSUME NEW A, NEW B, IsABag(A), IsABag(B)
  PROVE  /\ IsABag(A (-) B)
         /\ \A e : Copies(A (-) B, e) =
                     IF Copies(A, e) > Copies(B, e) THEN Copies(A, e) - Copies(B, e) ELSE 0
<1>1. \A e \in DOMAIN A : A[e] \in Nat /\ A[e] > 0
  BY DEF IsABag
<1>2. \A e \in DOMAIN B : B[e] \in Nat /\ B[e] > 0
  BY DEF IsABag
<1> QED
  BY <1>1, <1>2 DEF IsABag, Copies, (-)

LEMMA OneKey ==
  ASSUME NEW key
  PROVE  IsABag(SetToBag({key})) /\ \A e : Copies(SetToBag({key}), e) = IF e = key THEN 1 ELSE 0
BY DEF IsABag, Copies, SetToBag

LEMMA NoKeys == IsABag(EmptyBag) /\ \A e : Copies(EmptyBag, e) = 0
BY DEF IsABag, Copies, SetToBag, EmptyBag

LEMMA KeysOfIs ==
  ASSUME NEW S, IsFiniteSet(S), NEW on
  PROVE  IsABag(KeysOf(on, S)) /\ \A e : Copies(KeysOf(on, S), e) = Cardinality({f \in S : on[f] = e})
<1>1. \A e : IsFiniteSet({f \in S : on[f] = e}) /\ Cardinality({f \in S : on[f] = e}) \in Nat
  <2> SUFFICES ASSUME NEW e
               PROVE  IsFiniteSet({f \in S : on[f] = e}) /\ Cardinality({f \in S : on[f] = e}) \in Nat
    OBVIOUS
  <2>1. {f \in S : on[f] = e} \subseteq S
    OBVIOUS
  <2>2. IsFiniteSet({f \in S : on[f] = e})
    BY <2>1, FS_Subset
  <2> QED
    BY <2>2, FS_CardinalityType
<1>2. ASSUME NEW e
      PROVE  Cardinality({f \in S : on[f] = e}) > 0 <=> e \in {on[f] : f \in S}
  <2>1. Cardinality({f \in S : on[f] = e}) = 0 <=> {f \in S : on[f] = e} = {}
    BY <1>1, FS_EmptySet
  <2> QED
    BY <1>1, <2>1
<1> DEFINE size(e) == Cardinality({f \in S : on[f] = e})
           K == {on[f] : f \in S}
<1>3. KeysOf(on, S) = [key \in K |-> size(key)]
  BY DEF KeysOf
<1>4. \A e : size(e) \in Nat /\ (size(e) > 0 <=> e \in K)
  BY <1>1, <1>2
<1> HIDE DEF size, K
<1>5. IsABag(KeysOf(on, S)) /\ \A e : Copies(KeysOf(on, S), e) = size(e)
  BY <1>3, <1>4 DEF IsABag, Copies
<1> QED
  BY <1>5 DEF size

(* The fingers on a key, and the key under each finger, as long as the     *)
(* keys have not changed since it was put there or moved.                  *)
On(e) == {f \in Down : division(keyCount, finger[f]) = e}
LastIsUnder == ~resized => \A f \in Down : lastPresses[f] = division(keyCount, finger[f])

PressedCounts == ~resized /\ ~cancelled => \A e : Copies(pressed, e) = Cardinality(On(e))

KeysHold == TypeOK /\ LastIsUnder /\ PressedCounts /\ AllUpAllClear

LEMMA PressedIs ==
  ASSUME IsABag(pressed), PressedCounts
  PROVE  PressedIsUnderFingers
<1> DEFINE on == [f \in Down |-> division(keyCount, finger[f])]
<1>1. IsFiniteSet(Down)
  <2>1. Down \subseteq Fingers
    BY DEF Down
  <2> QED
    BY <2>1, KeysAssumptions, FS_Subset
<1>2. \A e : {f \in Down : on[f] = e} = On(e)
  BY DEF On
<1>3. IsABag(KeysOf(on, Down)) /\ \A e : Copies(KeysOf(on, Down), e) = Cardinality({f \in Down : on[f] = e})
  BY <1>1, KeysOfIs
<1> HIDE DEF on
<1>4. ASSUME ~resized, ~cancelled PROVE pressed = KeysOf(on, Down)
  <2>1. \A e : Copies(pressed, e) = Copies(KeysOf(on, Down), e)
    BY <1>2, <1>3, <1>4 DEF PressedCounts
  <2> QED
    BY <1>3, <2>1, BagIs
<1> QED
  BY <1>4 DEF PressedIsUnderFingers, on

LEMMA PlaceIsOnScreen ==
  ASSUME NEW n \in Counts, NEW place \in Places
  PROVE  place # Up /\ division(n, place) \in Keys /\ division(n, place) # NoKey
<1>1. n \in Nat \ {0} /\ Xs \subseteq 0..(Width - 1) /\ Width \in Nat
  BY TouchAssumptions
<1>2. place \in [x: 0..(Width - 1), upper: BOOLEAN]
  BY <1>1 DEF Places
<1>3. place # Up
  BY <1>1, <1>2 DEF Up
<1>4. drawCount(n) \in Nat
  <2>1. n \div 7 \in Nat /\ Offset(n % 7) \in 0..11
    BY <1>1, Octaves, AboveIs
  <2> QED
    BY <2>1, DrawCountIs
<1>5. division(n, place) \in 0..(drawCount(n) - 1)
  BY <1>1, <1>2, TouchedKeyIsDrawn
<1> QED
  BY <1>3, <1>4, <1>5 DEF Keys, NoKey

LEMMA KeysFirst == Init => KeysHold
<1> SUFFICES ASSUME Init PROVE KeysHold
  OBVIOUS
<1> USE DEF Init
<1>1. Down = {}
  BY DEF Down
<1>2. TypeOK
  BY TouchAssumptions, NoKeys DEF TypeOK
<1>3. \A e : On(e) = {} /\ Cardinality(On(e)) = 0
  BY <1>1, FS_EmptySet DEF On
<1> QED
  BY <1>1, <1>2, <1>3, NoKeys DEF KeysHold, LastIsUnder, PressedCounts, AllUpAllClear

(* A finger that is down is on the screen.                                 *)
LEMMA DownIs ==
  ASSUME TypeOK
  PROVE  /\ Down \subseteq Fingers /\ IsFiniteSet(Down)
         /\ \A f \in Down : finger[f] \in Places
         /\ \A e : IsFiniteSet(On(e)) /\ Cardinality(On(e)) \in Nat
<1>1. Down \subseteq Fingers
  BY DEF Down
<1>2. IsFiniteSet(Down)
  BY <1>1, KeysAssumptions, FS_Subset
<1>3. \A f \in Down : finger[f] \in Places
  BY DEF Down, TypeOK
<1>4. ASSUME NEW e PROVE IsFiniteSet(On(e)) /\ Cardinality(On(e)) \in Nat
  <2>1. On(e) \subseteq Down
    BY DEF On
  <2>2. IsFiniteSet(On(e))
    BY <1>2, <2>1, FS_Subset
  <2> QED
    BY <2>2, FS_CardinalityType
<1> QED
  BY <1>1, <1>2, <1>3, <1>4

LEMMA FingerDownKeeps ==
  ASSUME KeysHold, NEW f \in Fingers, NEW place \in Places, FingerDown(f, place)
  PROVE  KeysHold'
<1> DEFINE key == division(keyCount, place)
<1>1. /\ f \notin Down
      /\ finger' = [finger EXCEPT ![f] = place]
      /\ lastPresses' = [lastPresses EXCEPT ![f] = key]
      /\ pressed' = pressed (+) SetToBag({key})
      /\ keyCount' = keyCount /\ alive' = alive /\ resized' = resized /\ cancelled' = cancelled
  BY DEF FingerDown
<1>2. TypeOK /\ LastIsUnder /\ PressedCounts
  BY DEF KeysHold
<1>3. place # Up /\ key \in Keys /\ key # NoKey
  BY <1>2, PlaceIsOnScreen DEF TypeOK
<1> HIDE DEF key
<1>4. IsABag(pressed') /\ \A e : Copies(pressed', e) = Copies(pressed, e) + (IF e = key THEN 1 ELSE 0)
  <2>1. IsABag(SetToBag({key})) /\ \A e : Copies(SetToBag({key}), e) = IF e = key THEN 1 ELSE 0
    BY OneKey
  <2>2. IsABag(pressed)
    BY <1>2 DEF TypeOK
  <2>3. /\ IsABag(pressed (+) SetToBag({key}))
        /\ \A e : Copies(pressed (+) SetToBag({key}), e) = Copies(pressed, e) + Copies(SetToBag({key}), e)
    BY <2>1, <2>2, Together
  <2> QED
    BY <1>1, <2>1, <2>3
<1>5. Down' = Down \cup {f}
  BY <1>1, <1>2, <1>3 DEF Down, TypeOK
<1>6. TypeOK'
  BY <1>1, <1>2, <1>3, <1>4 DEF TypeOK
<1>7. LastIsUnder'
  BY <1>1, <1>2, <1>5 DEF LastIsUnder, TypeOK, key, Down
<1>8. \A e : On(e)' = IF e = key THEN On(e) \cup {f} ELSE On(e)
  BY <1>1, <1>2, <1>5 DEF On, TypeOK, key, Down
<1>9. PressedCounts'
  <2> SUFFICES ASSUME ~resized, ~cancelled, NEW e
               PROVE  Copies(pressed', e) = Cardinality(On(e)')
    BY <1>1 DEF PressedCounts
  <2>1. f \notin On(e) /\ IsFiniteSet(On(e)) /\ Cardinality(On(e)) \in Nat
    BY <1>1, <1>2, DownIs DEF On
  <2>2. Cardinality(On(e) \cup {f}) = Cardinality(On(e)) + 1
    BY <2>1, FS_AddElement
  <2>3. Copies(pressed, e) = Cardinality(On(e))
    BY <1>2 DEF PressedCounts
  <2> QED
    BY <1>4, <1>8, <2>1, <2>2, <2>3
<1>10. AllUpAllClear'
  BY <1>5 DEF AllUpAllClear
<1> QED
  BY <1>6, <1>7, <1>9, <1>10 DEF KeysHold

LEMMA LastUpKeeps ==
  ASSUME KeysHold, NEW f \in Fingers, LastUp(f)
  PROVE  KeysHold'
<1>1. /\ Down = {f}
      /\ finger' = [finger EXCEPT ![f] = Up]
      /\ lastPresses' = [lastPresses EXCEPT ![f] = NoKey]
      /\ pressed' = EmptyBag
      /\ resized' = FALSE /\ cancelled' = FALSE
      /\ keyCount' = keyCount /\ alive' = alive
  BY DEF LastUp, Lift
<1>2. TypeOK
  BY DEF KeysHold
<1>3. Down' = {}
  BY <1>1, <1>2 DEF Down, TypeOK
<1>4. TypeOK'
  BY <1>1, <1>2, NoKeys DEF TypeOK
<1>5. \A e : On(e)' = {} /\ Cardinality(On(e)') = 0
  BY <1>3, FS_EmptySet DEF On
<1> QED
  BY <1>1, <1>3, <1>4, <1>5, NoKeys DEF KeysHold, LastIsUnder, PressedCounts, AllUpAllClear

LEMMA PointerUpKeeps ==
  ASSUME KeysHold, NEW f \in Fingers, PointerUp(f)
  PROVE  KeysHold'
<1> DEFINE key == division(keyCount, finger[f])
<1>1. /\ f \in Down /\ Down # {f}
      /\ finger' = [finger EXCEPT ![f] = Up]
      /\ lastPresses' = [lastPresses EXCEPT ![f] = NoKey]
      /\ pressed' = pressed (-) SetToBag({key})
      /\ keyCount' = keyCount /\ alive' = alive /\ resized' = resized /\ cancelled' = cancelled
  BY DEF PointerUp, Lift
<1>2. TypeOK /\ LastIsUnder /\ PressedCounts
  BY DEF KeysHold
<1> HIDE DEF key
<1>3. /\ IsABag(pressed')
      /\ \A e : Copies(pressed', e) =
                  IF Copies(pressed, e) > (IF e = key THEN 1 ELSE 0)
                  THEN Copies(pressed, e) - (IF e = key THEN 1 ELSE 0) ELSE 0
  <2>1. IsABag(SetToBag({key})) /\ \A e : Copies(SetToBag({key}), e) = IF e = key THEN 1 ELSE 0
    BY OneKey
  <2>2. IsABag(pressed)
    BY <1>2 DEF TypeOK
  <2>3. /\ IsABag(pressed (-) SetToBag({key}))
        /\ \A e : Copies(pressed (-) SetToBag({key}), e) =
                    IF Copies(pressed, e) > Copies(SetToBag({key}), e)
                    THEN Copies(pressed, e) - Copies(SetToBag({key}), e) ELSE 0
    BY <2>1, <2>2, Without
  <2> QED
    BY <1>1, <2>1, <2>3
<1>4. Down' = Down \ {f}
  BY <1>1, <1>2 DEF Down, TypeOK
<1>5. TypeOK'
  BY <1>1, <1>2, <1>3 DEF TypeOK
<1>6. LastIsUnder'
  BY <1>1, <1>2, <1>4 DEF LastIsUnder, TypeOK, Down
<1>7. \A e : On(e)' = On(e) \ {f} /\ (f \in On(e) <=> e = key)
  BY <1>1, <1>2, <1>4 DEF On, TypeOK, Down, key
<1>8. PressedCounts'
  <2> SUFFICES ASSUME ~resized, ~cancelled, NEW e
               PROVE  Copies(pressed', e) = Cardinality(On(e)')
    BY <1>1 DEF PressedCounts
  <2>1. IsFiniteSet(On(e)) /\ Cardinality(On(e)) \in Nat
    BY <1>2, DownIs
  <2>2. Cardinality(On(e) \ {f}) = IF e = key THEN Cardinality(On(e)) - 1 ELSE Cardinality(On(e))
    BY <1>7, <2>1, FS_RemoveElement
  <2>3. Cardinality(On(e) \ {f}) \in Nat
    BY <2>1, FS_RemoveElement, FS_CardinalityType
  <2>4. Copies(pressed, e) = Cardinality(On(e))
    BY <1>2 DEF PressedCounts
  <2>5. Cardinality(On(e)') = Cardinality(On(e) \ {f})
    BY <1>7
  <2>6. Copies(pressed', e) =
          IF Cardinality(On(e)) > (IF e = key THEN 1 ELSE 0)
          THEN Cardinality(On(e)) - (IF e = key THEN 1 ELSE 0) ELSE 0
    BY <1>3, <2>4
  <2> HIDE DEF key
  <2> QED
    BY <2>1, <2>2, <2>3, <2>5, <2>6
<1>9. AllUpAllClear'
  BY <1>1, <1>4 DEF AllUpAllClear
<1> QED
  BY <1>5, <1>6, <1>8, <1>9 DEF KeysHold

LEMMA Disjoint ==
  ASSUME NEW S, NEW T, IsFiniteSet(S), IsFiniteSet(T), S \cap T = {}
  PROVE  Cardinality(S \cup T) = Cardinality(S) + Cardinality(T)
<1>1. Cardinality(S \cup T) = Cardinality(S) + Cardinality(T) - Cardinality(S \cap T)
  BY FS_Union
<1>2. Cardinality(S) \in Nat /\ Cardinality(T) \in Nat /\ Cardinality(S \cap T) = 0
  BY FS_CardinalityType, FS_EmptySet
<1> QED
  BY <1>1, <1>2

LEMMA MoveFollows ==
  ASSUME KeysHold, NEW f \in Fingers, NEW place \in Places, Move(f, place)
  PROVE  KeysHold'
<1> DEFINE to == [finger EXCEPT ![f] = place]
           on == [g \in Fingers |-> IF g \in Down THEN division(keyCount, to[g]) ELSE lastPresses[g]]
           moved == {g \in Down : on[g] # lastPresses[g]}
<1>1. /\ f \in Down
      /\ finger' = to
      /\ lastPresses' = on
      /\ pressed' = (pressed (-) KeysOf(lastPresses, moved)) (+) KeysOf(on, moved)
      /\ keyCount' = keyCount /\ alive' = alive /\ resized' = resized /\ cancelled' = cancelled
  BY DEF Move
<1>2. TypeOK /\ LastIsUnder /\ PressedCounts
  BY DEF KeysHold
<1>3. place # Up
  BY <1>2, PlaceIsOnScreen DEF TypeOK
<1>4. to \in [Fingers -> Places \cup {Up}] /\ \A g \in Down : g \in Fingers /\ to[g] \in Places
  BY <1>2, DownIs DEF TypeOK
<1>5. \A g \in Down : /\ on[g] = division(keyCount, to[g])
                      /\ on[g] \in Keys /\ on[g] # NoKey
  BY <1>2, <1>4, PlaceIsOnScreen DEF TypeOK
<1>6. on \in [Fingers -> Keys \cup {NoKey}]
  BY <1>2, <1>5 DEF TypeOK
<1>7. Down' = Down
  BY <1>1, <1>2, <1>3 DEF Down, TypeOK
<1>8. IsFiniteSet(moved) /\ moved \subseteq Down /\ IsFiniteSet(Down)
  BY <1>2, DownIs, FS_Subset
<1> DEFINE was(e) == {g \in moved : lastPresses[g] = e}
           is(e) == {g \in moved : on[g] = e}
           rest(e) == {g \in Down \ moved : lastPresses[g] = e}
<1>9. \A g \in Down \ moved : on[g] = lastPresses[g]
  OBVIOUS
<1>10. \A g \in Fingers : finger[g] # Up /\ g \in Down => on[g] # NoKey
  BY <1>5
<1>11. \A g \in Fingers : to[g] # Up => g \in Down
  BY <1>1, <1>2 DEF Down, TypeOK
<1> HIDE DEF to, on, moved
<1>12. /\ IsABag(pressed')
       /\ \A e : Copies(pressed', e) =
                   (IF Copies(pressed, e) > Cardinality(was(e))
                    THEN Copies(pressed, e) - Cardinality(was(e)) ELSE 0) + Cardinality(is(e))
  <2> DEFINE off == KeysOf(lastPresses, moved)
             more == KeysOf(on, moved)
  <2>1. IsABag(off) /\ \A e : Copies(off, e) = Cardinality(was(e))
    BY <1>8, KeysOfIs
  <2>2. IsABag(more) /\ \A e : Copies(more, e) = Cardinality(is(e))
    BY <1>8, KeysOfIs
  <2>3. IsABag(pressed)
    BY <1>2 DEF TypeOK
  <2> HIDE DEF off, more
  <2>4. /\ IsABag(pressed (-) off)
        /\ \A e : Copies(pressed (-) off, e) =
                    IF Copies(pressed, e) > Copies(off, e)
                    THEN Copies(pressed, e) - Copies(off, e) ELSE 0
    BY <2>1, <2>3, Without
  <2>5. /\ IsABag((pressed (-) off) (+) more)
        /\ \A e : Copies((pressed (-) off) (+) more, e) = Copies(pressed (-) off, e) + Copies(more, e)
    BY <2>2, <2>4, Together
  <2>6. pressed' = (pressed (-) off) (+) more
    BY <1>1 DEF off, more
  <2> HIDE DEF was, is
  <2> QED
    BY <2>1, <2>2, <2>4, <2>5, <2>6
<1>13. TypeOK'
  <2>1. finger' \in [Fingers -> Places \cup {Up}] /\ lastPresses' \in [Fingers -> Keys \cup {NoKey}]
    BY <1>1, <1>4, <1>6
  <2>2. \A g \in Fingers : finger'[g] # Up => lastPresses'[g] # NoKey
    BY <1>1, <1>5, <1>11
  <2> QED
    BY <1>1, <1>2, <1>12, <2>1, <2>2 DEF TypeOK
<1>14. LastIsUnder'
  BY <1>1, <1>5, <1>7 DEF LastIsUnder
<1>15. PressedCounts'
  <2> SUFFICES ASSUME ~resized, ~cancelled, NEW e
               PROVE  Copies(pressed', e) = Cardinality(On(e)')
    BY <1>1 DEF PressedCounts
  <2>1. Copies(pressed, e) = Cardinality(On(e))
    BY <1>2 DEF PressedCounts
  <2>2. On(e) = was(e) \cup rest(e)
    BY <1>2, <1>8 DEF LastIsUnder, On
  <2>3. On(e)' = is(e) \cup rest(e)
    <3>1. On(e)' = {g \in Down : on[g] = e}
      BY <1>1, <1>5, <1>7 DEF On
    <3> QED
      BY <3>1, <1>8, <1>9
  <2>4. /\ was(e) \subseteq Down /\ is(e) \subseteq Down /\ rest(e) \subseteq Down
        /\ was(e) \cap rest(e) = {} /\ is(e) \cap rest(e) = {}
    BY <1>8
  <2> HIDE DEF was, is, rest
  <2>5. IsFiniteSet(was(e)) /\ IsFiniteSet(is(e)) /\ IsFiniteSet(rest(e))
    BY <1>8, <2>4, FS_Subset
  <2>6. /\ Cardinality(was(e)) \in Nat /\ Cardinality(is(e)) \in Nat /\ Cardinality(rest(e)) \in Nat
    BY <2>5, FS_CardinalityType
  <2>7. Cardinality(was(e) \cup rest(e)) = Cardinality(was(e)) + Cardinality(rest(e))
    BY <2>4, <2>5, Disjoint
  <2>8. Cardinality(is(e) \cup rest(e)) = Cardinality(is(e)) + Cardinality(rest(e))
    BY <2>4, <2>5, Disjoint
  <2>9. Copies(pressed, e) = Cardinality(was(e)) + Cardinality(rest(e))
    BY <2>1, <2>2, <2>7
  <2>10. Cardinality(On(e)') = Cardinality(is(e)) + Cardinality(rest(e))
    BY <2>3, <2>8
  <2> QED
    BY <1>12, <2>6, <2>9, <2>10
<1>16. AllUpAllClear'
  BY <1>1, <1>7 DEF AllUpAllClear
<1> QED
  BY <1>13, <1>14, <1>15, <1>16 DEF KeysHold

LEMMA CancelKeeps ==
  ASSUME KeysHold, Cancel
  PROVE  KeysHold'
<1>1. TypeOK
  BY DEF KeysHold
<1>2. Down' = {}
  BY DEF Cancel, Down
<1>3. TypeOK'
  BY <1>1 DEF Cancel, TypeOK
<1>4. LastIsUnder' /\ PressedCounts' /\ AllUpAllClear'
  BY <1>2 DEF Cancel, LastIsUnder, PressedCounts, AllUpAllClear
<1> QED
  BY <1>3, <1>4 DEF KeysHold

LEMMA AddCountKeeps ==
  ASSUME KeysHold, NEW n \in Counts, addCount(n)
  PROVE  KeysHold'
<1>1. TypeOK /\ LastIsUnder /\ PressedCounts /\ AllUpAllClear
  BY DEF KeysHold
<1>2. /\ ~resized /\ keyCount' = n /\ resized' = (Down # {}) /\ cancelled' = cancelled
      /\ finger' = finger /\ lastPresses' = lastPresses /\ pressed' = pressed /\ alive' = alive
  BY DEF addCount
<1>3. Down' = Down
  BY <1>2 DEF Down
<1>4. TypeOK'
  BY <1>1, <1>2 DEF TypeOK
<1>5. LastIsUnder'
  BY <1>2, <1>3 DEF LastIsUnder
<1>6. PressedCounts'
  <2> SUFFICES ASSUME ~resized', ~cancelled', NEW e
               PROVE  Copies(pressed', e) = Cardinality(On(e)')
    BY DEF PressedCounts
  <2>1. Down = {}
    BY <1>2
  <2>2. On(e) = {} /\ On(e)' = {}
    BY <1>3, <2>1 DEF On
  <2>3. Copies(pressed, e) = Cardinality(On(e))
    BY <1>1, <1>2 DEF PressedCounts
  <2> QED
    BY <1>2, <2>2, <2>3
<1>7. AllUpAllClear'
  BY <1>1, <1>2, <1>3 DEF AllUpAllClear
<1> QED
  BY <1>4, <1>5, <1>6, <1>7 DEF KeysHold

LEMMA KeysStep ==
  ASSUME KeysHold, [Next]_vars
  PROVE  KeysHold'
<1>1. CASE Next
  <2>1. CASE NoKeysLeft
    <3>1. UNCHANGED <<keyCount, finger, lastPresses, pressed, resized, cancelled>> /\ alive' = FALSE
      BY <2>1 DEF NoKeysLeft
    <3>2. TypeOK'
      BY <3>1 DEF KeysHold, TypeOK
    <3>3. LastIsUnder' /\ PressedCounts' /\ AllUpAllClear'
      BY <3>1 DEF KeysHold, LastIsUnder, PressedCounts, AllUpAllClear, On, Down
    <3> QED
      BY <3>2, <3>3 DEF KeysHold
  <2> QED
    BY <1>1, <2>1, FingerDownKeeps, MoveFollows, LastUpKeeps, PointerUpKeeps, CancelKeeps, AddCountKeeps
    DEF Next
<1>2. CASE UNCHANGED vars
  <2>1. TypeOK'
    BY <1>2 DEF KeysHold, TypeOK, vars
  <2>2. LastIsUnder' /\ PressedCounts' /\ AllUpAllClear'
    BY <1>2 DEF KeysHold, LastIsUnder, PressedCounts, AllUpAllClear, On, Down, vars
  <2> QED
    BY <2>1, <2>2 DEF KeysHold
<1> QED
  BY <1>1, <1>2

LEMMA KeysAreRight ==
  ASSUME KeysHold
  PROVE  Inv /\ TouchedIsDrawn /\ NoteFallsOnItsKey
<1>1. TypeOK /\ PressedCounts /\ AllUpAllClear
  BY DEF KeysHold
<1>2. PressedIsUnderFingers
  BY <1>1, PressedIs DEF TypeOK
<1>3. keyCount \in Counts
  BY <1>1 DEF TypeOK
<1>4. TouchedIsDrawn
  BY <1>3, AllTouchesFit DEF TouchedIsDrawn, CountsThatFit
<1>5. NoteFallsOnItsKey
  BY <1>3, AllNotesFit, AllKeysFit DEF NoteFallsOnItsKey, CountsForNotes
<1> QED
  BY <1>1, <1>2, <1>4, <1>5 DEF Inv

(* Through every order of touches and changes of the keyboard, for any     *)
(* number of keys and fingers, what is shown as pressed is what is under   *)
(* the fingers, the key under a finger is the one drawn there, and a note  *)
(* falls onto the key that takes it (KeyboardView, BarrageView).           *)
THEOREM KeysFollowFingers == MCSpec => []KeysInv
<1>1. MCInit => KeysHold
  BY KeysFirst DEF MCInit
<1>2. KeysHold /\ [MCNext]_<<vars, voiceVars, lifeVars, part>> => KeysHold'
  <2>1. [MCNext]_<<vars, voiceVars, lifeVars, part>> => [Next]_vars
    BY DEF MCNext
  <2> QED
    BY <2>1, KeysStep
<1>3. KeysHold => KeysInv
  BY KeysAreRight DEF KeysInv
<1> QED
  BY <1>1, <1>2, <1>3, PTL DEF MCSpec
=============================================================================
