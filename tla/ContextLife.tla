---------------------------- MODULE ContextLife -----------------------------
(***************************************************************************)
(* The lives of a playback device and of its contexts: calls of several    *)
(* threads that create, use, make current and destroy contexts and open,   *)
(* pause, reset and close the device, against the mixer, which takes no    *)
(* lock.                                                                   *)
(*                                                                         *)
(* A context lives by a count of references; the current one is changed    *)
(* under a spin lock that also covers "load it and count a reference".     *)
(* The mixer reads the device's array of contexts as it stands when a mix  *)
(* begins: who replaces the array waits for the mix under way, by the      *)
(* parity of MixCount, before the old array or a context goes.             *)
(*                                                                         *)
(* A context is made once here, and is of the one device there is.  What   *)
(* the lists, the locks and the counts guard is the control; sources,      *)
(* voices and settings are the matter of other modules.                    *)
(***************************************************************************)
EXTENDS Naturals, FiniteSets

CONSTANTS Thread, Context, None

VARIABLES
  life,        \* of each context: "unmade", "making", "live" or "freed"
  refs,        \* its count of references
  events,      \* the contexts whose event thread runs
  ContextList, \* the contexts that handles are checked against
  device,      \* the device: listed, refs, live, running, paused, connected
  arrays,      \* the arrays of contexts there are, by number
  mContexts,   \* the number of the device's array
  global,      \* sGlobalContext
  globalLock,  \* sGlobalContextLock
  local,       \* sLocalContext of each thread
  ListLock,    \* the thread that holds it, or None
  StateLock,
  call,        \* where each thread stands in its call
  mix          \* where the mixer stands

vars == <<life, refs, events, ContextList, device, arrays, mContexts, global, globalLock,
          local, ListLock, StateLock, call, mix>>

Contexts == <<life, refs, events>>
Current == <<global, globalLock, local>>
Locks == <<ListLock, StateLock>>
Array == <<arrays, mContexts>>

Idle == [pc |-> "idle"]
EmptyContextArray == 0
Mixing == mix.pc # "idle"            \* MixCount is odd

Init ==
  /\ life = [c \in Context |-> "unmade"]
  /\ refs = [c \in Context |-> 0]
  /\ events = {}
  /\ ContextList = {}
  /\ device = [listed |-> TRUE, refs |-> 1, live |-> TRUE, running |-> FALSE,
               paused |-> FALSE, connected |-> TRUE]
  /\ arrays = [a \in {EmptyContextArray} |-> {}]
  /\ mContexts = EmptyContextArray
  /\ global = None /\ globalLock = FALSE
  /\ local = [t \in Thread |-> None]
  /\ ListLock = None /\ StateLock = None
  /\ call = [t \in Thread |-> Idle]
  /\ mix = Idle

Goes(t, to) == call' = [call EXCEPT ![t] = to]
Steps(t, pc) == call' = [call EXCEPT ![t].pc = pc]
At(t, pc) == call[t].pc = pc

(* dec_ref of a device, with other fields d of it.                         *)
DropDevice(d) == [d EXCEPT !.refs = @ - 1, !.live = d.refs > 1]

(* dec_ref of a context: at 0 it goes, and lets go of its device.          *)
Drop(c) ==
  /\ refs' = [refs EXCEPT ![c] = @ - 1]
  /\ life' = [life EXCEPT ![c] = IF refs[c] = 1 THEN "freed" ELSE @]
  /\ device' = IF refs[c] = 1 THEN DropDevice(device) ELSE device

DropAny(c) == IF c = None THEN UNCHANGED <<refs, life, device>> ELSE Drop(c)

AddRef(c) == refs' = [refs EXCEPT ![c] = @ + 1]

-----------------------------------------------------------------------------
(* GetContextRef, as every call on sources begins, and the end of such a   *)
(* call.                                                                   *)

GetThreads(t) ==
  /\ At(t, "idle")
  /\ local[t] # None
  /\ AddRef(local[t])
  /\ Goes(t, [pc |-> "using", c |-> local[t]])
  /\ UNCHANGED <<life, events, ContextList, device, Array, Current, Locks, mix>>

GetLocks(t) ==
  /\ At(t, "idle")
  /\ local[t] = None
  /\ ~globalLock
  /\ globalLock' = TRUE
  /\ Goes(t, [pc |-> "load"])
  /\ UNCHANGED <<Contexts, ContextList, device, Array, global, local, Locks, mix>>

GetLoads(t) ==
  /\ At(t, "load")
  /\ Goes(t, [pc |-> "count", c |-> global])
  /\ UNCHANGED <<Contexts, ContextList, device, Array, Current, Locks, mix>>

GetCounts(t) ==
  /\ At(t, "count")
  /\ IF call[t].c = None THEN UNCHANGED refs ELSE AddRef(call[t].c)
  /\ Steps(t, "unlock")
  /\ UNCHANGED <<life, events, ContextList, device, Array, Current, Locks, mix>>

GetUnlocks(t) ==
  /\ At(t, "unlock")
  /\ globalLock' = FALSE
  /\ Goes(t, IF call[t].c = None THEN Idle ELSE [pc |-> "using", c |-> call[t].c])
  /\ UNCHANGED <<Contexts, ContextList, device, Array, global, local, Locks, mix>>

EndUse(t) ==
  /\ At(t, "using")
  /\ Drop(call[t].c)
  /\ Goes(t, Idle)
  /\ UNCHANGED <<events, ContextList, Array, Current, Locks, mix>>

GetContextRef(t) == GetThreads(t) \/ GetLocks(t) \/ GetLoads(t) \/ GetCounts(t) \/ GetUnlocks(t)

-----------------------------------------------------------------------------
(* alcMakeContextCurrent and alcSetThreadContext.                          *)

(* VerifyContext; a context that is not listed ends the call.              *)
VerifyContext(t, c, pc) ==
  /\ At(t, "idle")
  /\ ListLock = None
  /\ c \in ContextList
  /\ AddRef(c)
  /\ Goes(t, [pc |-> pc, c |-> c])
  /\ UNCHANGED <<life, events, ContextList, device, Array, Current, Locks, mix>>

VerifyNone(t, pc) ==
  /\ At(t, "idle")
  /\ Goes(t, [pc |-> pc, c |-> None])
  /\ UNCHANGED <<Contexts, ContextList, device, Array, Current, Locks, mix>>

Verify(t, pc) == VerifyNone(t, pc) \/ \E c \in Context : VerifyContext(t, c, pc)

MakeLocks(t) ==
  /\ At(t, "make")
  /\ ~globalLock
  /\ globalLock' = TRUE
  /\ Steps(t, "exchange")
  /\ UNCHANGED <<Contexts, ContextList, device, Array, global, local, Locks, mix>>

MakeExchanges(t) ==
  /\ At(t, "exchange")
  /\ global' = call[t].c
  /\ Goes(t, [pc |-> "made", c |-> global])
  /\ UNCHANGED <<Contexts, ContextList, device, Array, globalLock, local, Locks, mix>>

(* What was current is let go before the lock is.                          *)
MakeDrops(t) ==
  /\ At(t, "made")
  /\ DropAny(call[t].c)
  /\ Goes(t, [pc |-> "unmake"])
  /\ UNCHANGED <<events, ContextList, Array, Current, Locks, mix>>

MakeUnlocks(t) ==
  /\ At(t, "unmake")
  /\ globalLock' = FALSE
  /\ Goes(t, [pc |-> "thread", c |-> None])
  /\ UNCHANGED <<Contexts, ContextList, device, Array, global, local, Locks, mix>>

(* A mutant: the reference the thread had is not let go.                   *)
SetThreadForgets(t) ==
  /\ At(t, "thread")
  /\ local' = [local EXCEPT ![t] = call[t].c]
  /\ Goes(t, Idle)
  /\ UNCHANGED <<Contexts, device, ContextList, Array, global, globalLock, Locks, mix>>

(* The thread's own context is replaced: by none, in the former call.      *)
SetThreadContext(t) ==
  /\ At(t, "thread")
  /\ local' = [local EXCEPT ![t] = call[t].c]
  /\ DropAny(local[t])
  /\ Goes(t, Idle)
  /\ UNCHANGED <<events, ContextList, Array, global, globalLock, Locks, mix>>

MakeContextCurrent(t) ==
  \/ Verify(t, "make") \/ Verify(t, "thread")
  \/ MakeLocks(t) \/ MakeExchanges(t) \/ MakeDrops(t) \/ MakeUnlocks(t) \/ SetThreadContext(t)

-----------------------------------------------------------------------------
(* The array of contexts.  Who replaces it holds StateLock.                *)

NewArray(s) ==
  LET a == CHOOSE n \in 0..Cardinality(DOMAIN arrays) : n \notin DOMAIN arrays
  IN IF s = {}
     THEN mContexts' = EmptyContextArray /\ UNCHANGED arrays
     ELSE /\ mContexts' = a
          /\ arrays' = [n \in DOMAIN arrays \cup {a} |-> IF n = a THEN s ELSE arrays[n]]

(* A mutant: the old array goes while a mix may be in it.                  *)
DeletesOldAtOnce(t) ==
  /\ arrays' = [n \in (DOMAIN arrays \ {call[t].old}) \cup {EmptyContextArray} |-> arrays[n]]
  /\ UNCHANGED mContexts

(* waitForMix, and the end of the old array.                               *)
DeletesOld(t) ==
  /\ call[t].old = EmptyContextArray \/ ~Mixing
  /\ arrays' = [n \in (DOMAIN arrays \ {call[t].old}) \cup {EmptyContextArray} |-> arrays[n]]
  /\ UNCHANGED mContexts

(* Backend::stop joins the mixer's thread; a device that does not run has  *)
(* none.                                                                   *)
Stops == ~Mixing
Stopped == [device EXCEPT !.running = FALSE]

(* handleDisconnect by a call that could not start the device.             *)
Disconnected(d) == [d EXCEPT !.connected = FALSE]

(* UpdateDeviceParams: a device that does not run is reset and, unless it  *)
(* is paused, started; either may fail.                                    *)
Started(d) == {Disconnected(d), [d EXCEPT !.running = TRUE]}
Updated(d) == IF d.running \/ d.paused THEN d ELSE [d EXCEPT !.running = TRUE]

-----------------------------------------------------------------------------
(* alcCreateContext.                                                       *)

(* ListLock is held until StateLock is.  The context to be is chosen here. *)
CreateVerifies(t) ==
  /\ At(t, "idle")
  /\ ListLock = None
  /\ device.listed /\ device.connected
  /\ ListLock' = t
  /\ device' = [device EXCEPT !.refs = @ + 1]
  /\ \E c \in Context :
       /\ life[c] = "unmade"
       /\ life' = [life EXCEPT ![c] = "making"]
       /\ Goes(t, [pc |-> "create", c |-> c])
  /\ UNCHANGED <<refs, events, ContextList, Array, Current, StateLock, mix>>

CreateLocks(t) ==
  /\ At(t, "create")
  /\ StateLock = None
  /\ StateLock' = t /\ ListLock' = None
  /\ Steps(t, "update")
  /\ UNCHANGED <<Contexts, ContextList, device, Array, Current, mix>>

(* Attributes have a device that runs stopped first.                       *)
CreateStops(t) ==
  /\ At(t, "update")
  /\ device.running /\ Stops
  /\ device' = Stopped
  /\ UNCHANGED <<Contexts, ContextList, Array, Current, Locks, call, mix>>

CreateUpdates(t) ==
  /\ At(t, "update")
  /\ \/ device' = Updated(device) /\ Steps(t, "new")
     \/ ~device.running /\ device' = Disconnected(device) /\ Steps(t, "fail")
  /\ UNCHANGED <<Contexts, ContextList, Array, Current, Locks, mix>>

CreateFails(t) ==
  /\ At(t, "fail")
  /\ device' = DropDevice(device)
  /\ StateLock' = None
  /\ life' = [life EXCEPT ![call[t].c] = "unmade"]
  /\ Goes(t, Idle)
  /\ UNCHANGED <<refs, events, ContextList, Array, Current, ListLock, mix>>

(* The context, with its reference to the device, its event thread and     *)
(* its place in a new array.                                               *)
CreateMakes(t) ==
  /\ At(t, "new")
  /\ LET c == call[t].c
     IN /\ life' = [life EXCEPT ![c] = "live"]
        /\ AddRef(c)
        /\ events' = events \cup {c}
        /\ NewArray(arrays[mContexts] \cup {c})
        /\ Goes(t, [pc |-> "created", c |-> c, old |-> mContexts])
  /\ device' = [device EXCEPT !.refs = @ + 1]
  /\ UNCHANGED <<ContextList, Current, Locks, mix>>

CreateUnlocks(t) ==
  /\ At(t, "created")
  /\ DeletesOld(t)
  /\ StateLock' = None
  /\ Goes(t, [pc |-> "list", c |-> call[t].c])
  /\ UNCHANGED <<Contexts, ContextList, device, Current, ListLock, mix>>

(* The one reference goes with the handle: who takes the context from the  *)
(* list takes that one over.                                               *)
CreateLists(t) ==
  /\ At(t, "list")
  /\ ListLock = None
  /\ ContextList' = ContextList \cup {call[t].c}
  /\ Goes(t, [pc |-> "effect", c |-> call[t].c])
  /\ UNCHANGED <<Contexts, device, Array, Current, Locks, mix>>

(* The default slot's effect is set with the context, which the call has   *)
(* no reference to any more.                                               *)
CreateEnds(t) ==
  /\ At(t, "effect")
  /\ device' = DropDevice(device)
  /\ Goes(t, Idle)
  /\ UNCHANGED <<Contexts, ContextList, Array, Current, Locks, mix>>

CreateContext(t) ==
  \/ CreateVerifies(t) \/ CreateLocks(t) \/ CreateStops(t) \/ CreateUpdates(t)
  \/ CreateFails(t) \/ CreateMakes(t) \/ CreateUnlocks(t) \/ CreateLists(t)
  \/ CreateEnds(t)

-----------------------------------------------------------------------------
(* ALCcontext::deinit, for the context call[t].c: by a call that destroys  *)
(* it or by one that closes its device.                                    *)

DeinitLocal(t) ==
  /\ At(t, "deinit")
  /\ IF local[t] = call[t].c
     THEN local' = [local EXCEPT ![t] = None] /\ Drop(call[t].c)
     ELSE UNCHANGED <<local, refs, life, device>>
  /\ Steps(t, "global")
  /\ UNCHANGED <<events, ContextList, Array, global, globalLock, Locks, mix>>

DeinitGlobal(t) ==
  /\ At(t, "global")
  /\ IF global = call[t].c
     THEN global' = None /\ Steps(t, "await")
     ELSE UNCHANGED global /\ Steps(t, "array")
  /\ UNCHANGED <<Contexts, ContextList, device, Array, globalLock, local, Locks, mix>>

(* A mutant: nobody is waited for.                                         *)
DeinitGoesOn(t) ==
  /\ At(t, "await")
  /\ Drop(call[t].c)
  /\ Steps(t, "array")
  /\ UNCHANGED <<events, ContextList, Array, Current, Locks, mix>>

(* Who has the lock may have loaded this context and not yet counted.      *)
DeinitAwaits(t) ==
  /\ At(t, "await")
  /\ ~globalLock
  /\ Drop(call[t].c)
  /\ Steps(t, "array")
  /\ UNCHANGED <<events, ContextList, Array, Current, Locks, mix>>

DeinitSwaps(t) ==
  /\ At(t, "array")
  /\ IF call[t].c \in arrays[mContexts]
     THEN /\ NewArray(arrays[mContexts] \ {call[t].c})
          /\ call' = [call EXCEPT ![t].pc = "old", ![t].old = mContexts]
     ELSE Steps(t, "events") /\ UNCHANGED Array
  /\ UNCHANGED <<Contexts, ContextList, device, Current, Locks, mix>>

DeinitDeletes(t) ==
  /\ At(t, "old")
  /\ DeletesOld(t)
  /\ Steps(t, "events")
  /\ UNCHANGED <<Contexts, ContextList, device, Current, Locks, mix>>

(* StopEventThrd joins the thread.                                         *)
DeinitStopsEvents(t) ==
  /\ At(t, "events")
  /\ events' = events \ {call[t].c}
  /\ Steps(t, call[t].then)
  /\ UNCHANGED <<life, refs, ContextList, device, Array, Current, Locks, mix>>

deinit(t) ==
  \/ DeinitLocal(t) \/ DeinitGlobal(t) \/ DeinitAwaits(t) \/ DeinitSwaps(t)
  \/ DeinitDeletes(t) \/ DeinitStopsEvents(t)

(* alcDestroyContext takes over the reference that went with the handle,   *)
(* and holds ListLock to its end.                                          *)
DestroyVerifies(t, c) ==
  /\ At(t, "idle")
  /\ ListLock = None
  /\ c \in ContextList
  /\ ListLock' = t
  /\ ContextList' = ContextList \ {c}
  /\ Goes(t, [pc |-> "destroy", c |-> c, old |-> EmptyContextArray, then |-> "last"])
  /\ UNCHANGED <<Contexts, device, Array, Current, StateLock, mix>>

DestroyLocks(t) ==
  /\ At(t, "destroy")
  /\ StateLock = None
  /\ StateLock' = t
  /\ Steps(t, "deinit")
  /\ UNCHANGED <<Contexts, ContextList, device, Array, Current, ListLock, mix>>

(* With its last context the device stops.                                 *)
DestroyStops(t) ==
  /\ At(t, "last")
  /\ IF arrays[mContexts] = {} /\ device.running
     THEN Stops /\ device' = Stopped
     ELSE UNCHANGED device
  /\ StateLock' = None
  /\ Steps(t, "destroyed")
  /\ UNCHANGED <<Contexts, ContextList, Array, Current, ListLock, mix>>

DestroyDrops(t) ==
  /\ At(t, "destroyed")
  /\ Drop(call[t].c)
  /\ ListLock' = None
  /\ Goes(t, Idle)
  /\ UNCHANGED <<events, ContextList, Array, Current, StateLock, mix>>

DestroyContext(t) ==
  \/ \E c \in Context : DestroyVerifies(t, c)
  \/ DestroyLocks(t) \/ DestroyStops(t) \/ DestroyDrops(t)

-----------------------------------------------------------------------------
(* alcCloseDevice.                                                         *)

CloseVerifies(t) ==
  /\ At(t, "idle")
  /\ ListLock = None
  /\ device.listed
  /\ ListLock' = t
  /\ device' = [device EXCEPT !.listed = FALSE]
  /\ Goes(t, [pc |-> "close"])
  /\ UNCHANGED <<Contexts, ContextList, Array, Current, StateLock, mix>>

(* The listed contexts of the device are orphans.                          *)
CloseLocks(t) ==
  /\ At(t, "close")
  /\ StateLock = None
  /\ StateLock' = t /\ ListLock' = None
  /\ LET orphans == arrays[mContexts] \cap ContextList
     IN /\ ContextList' = ContextList \ orphans
        /\ Goes(t, [pc |-> "orphans", orphans |-> orphans, gone |-> {}])
  /\ UNCHANGED <<Contexts, device, Array, Current, mix>>

CloseOrphan(t) ==
  /\ At(t, "orphans")
  /\ \E c \in call[t].orphans \ call[t].gone :
       Goes(t, [pc |-> "deinit", c |-> c, old |-> EmptyContextArray, then |-> "orphans",
                orphans |-> call[t].orphans, gone |-> call[t].gone \cup {c}])
  /\ UNCHANGED <<Contexts, ContextList, device, Array, Current, Locks, mix>>

(* orphanctxs.clear                                                        *)
CloseDrops(t) ==
  /\ At(t, "orphans")
  /\ call[t].orphans = call[t].gone
  /\ \/ \E c \in call[t].orphans :
          /\ Drop(c)
          /\ Goes(t, [pc |-> "orphans", orphans |-> call[t].orphans \ {c},
                      gone |-> call[t].gone \ {c}])
     \/ /\ call[t].orphans = {}
        /\ Goes(t, [pc |-> "stop"])
        /\ UNCHANGED <<refs, life, device>>
  /\ UNCHANGED <<events, ContextList, Array, Current, Locks, mix>>

CloseStops(t) ==
  /\ At(t, "stop")
  /\ device.running => Stops
  /\ device' = DropDevice(Stopped)
  /\ StateLock' = None
  /\ Goes(t, Idle)
  /\ UNCHANGED <<Contexts, ContextList, Array, Current, ListLock, mix>>

CloseDevice(t) ==
  CloseVerifies(t) \/ CloseLocks(t) \/ CloseOrphan(t) \/ CloseDrops(t) \/ CloseStops(t)

-----------------------------------------------------------------------------
(* alcDevicePauseSOFT, alcDeviceResumeSOFT, alcResetDeviceSOFT and         *)
(* alcReopenDeviceSOFT: one step under StateLock each, with the reference  *)
(* VerifyDevice gave.  The last two keep ListLock until they have          *)
(* StateLock; what they stop and start no one sees in between.             *)

VerifyDevice(t, pc) ==
  /\ At(t, "idle")
  /\ ListLock = None
  /\ device.listed
  /\ device' = [device EXCEPT !.refs = @ + 1]
  /\ ListLock' = IF pc \in {"reset", "reopen"} THEN t ELSE None
  /\ Goes(t, [pc |-> pc])
  /\ UNCHANGED <<Contexts, ContextList, Array, Current, StateLock, mix>>

DevicePause(t) ==
  /\ At(t, "pause")
  /\ StateLock = None
  /\ device.running => Stops
  /\ device' = DropDevice([Stopped EXCEPT !.paused = TRUE])
  /\ Goes(t, Idle)
  /\ UNCHANGED <<Contexts, ContextList, Array, Current, Locks, mix>>

DeviceResume(t) ==
  /\ At(t, "resume")
  /\ StateLock = None
  /\ LET d == [device EXCEPT !.paused = FALSE]
     IN IF ~device.paused \/ arrays[mContexts] = {}
        THEN device' = DropDevice(d)
        ELSE \E started \in Started(d) : device' = DropDevice(started)
  /\ Goes(t, Idle)
  /\ UNCHANGED <<Contexts, ContextList, Array, Current, Locks, mix>>

Resets(d) ==
  LET again == [d EXCEPT !.connected = TRUE]
  IN {Disconnected(again), Updated(again)}

ResetDevice(t) ==
  /\ At(t, "reset")
  /\ StateLock = None
  /\ device.running => Stops
  /\ \E d \in Resets(Stopped) : device' = DropDevice(d)
  /\ ListLock' = None
  /\ Goes(t, Idle)
  /\ UNCHANGED <<Contexts, ContextList, Array, Current, StateLock, mix>>

(* A reopen that finds no new output goes on with the old one.             *)
ReopenDevice(t) ==
  /\ At(t, "reopen")
  /\ StateLock = None
  /\ device.running => Stops
  /\ \/ \E d \in Resets(Stopped) : device' = DropDevice(d)
     \/ IF device.connected /\ ~device.paused /\ arrays[mContexts] # {}
        THEN \E d \in Started(Stopped) : device' = DropDevice(d)
        ELSE device' = DropDevice(Stopped)
  /\ ListLock' = None
  /\ Goes(t, Idle)
  /\ UNCHANGED <<Contexts, ContextList, Array, Current, StateLock, mix>>

DeviceCalls(t) ==
  \/ \E pc \in {"pause", "resume", "reset", "reopen"} : VerifyDevice(t, pc)
  \/ DevicePause(t) \/ DeviceResume(t) \/ ResetDevice(t) \/ ReopenDevice(t)

-----------------------------------------------------------------------------
(* The mixer: renderSamples, or handleDisconnect, which goes through the   *)
(* contexts as well and after which there is no more mix.                  *)

MixBegins ==
  /\ mix.pc = "idle"
  /\ device.running /\ device.connected
  /\ mix' = [pc |-> "begun"]
  /\ \/ UNCHANGED device
     \/ device' = Disconnected(device)
  /\ UNCHANGED <<Contexts, ContextList, Array, Current, Locks, call>>

MixLoads ==
  /\ mix.pc = "begun"
  /\ mix' = [pc |-> "contexts", array |-> mContexts, left |-> arrays[mContexts]]
  /\ UNCHANGED <<Contexts, ContextList, device, Array, Current, Locks, call>>

MixContext ==
  /\ mix.pc = "contexts"
  /\ \E c \in mix.left : mix' = [mix EXCEPT !.left = @ \ {c}]
  /\ UNCHANGED <<Contexts, ContextList, device, Array, Current, Locks, call>>

MixEnds ==
  /\ mix.pc = "contexts"
  /\ mix.left = {}
  /\ mix' = Idle
  /\ UNCHANGED <<Contexts, ContextList, device, Array, Current, Locks, call>>

Mix == MixBegins \/ MixLoads \/ MixContext \/ MixEnds

Next ==
  \/ Mix
  \/ \E t \in Thread :
       \/ GetContextRef(t) \/ EndUse(t) \/ MakeContextCurrent(t)
       \/ CreateContext(t) \/ deinit(t) \/ DestroyContext(t) \/ CloseDevice(t)
       \/ DeviceCalls(t)

Spec == Init /\ [][Next]_vars

-----------------------------------------------------------------------------
(* What holds.                                                             *)

TypeOK ==
  /\ life \in [Context -> {"unmade", "making", "live", "freed"}]
  /\ events \subseteq Context /\ ContextList \subseteq Context
  /\ mContexts \in DOMAIN arrays
  /\ \A a \in DOMAIN arrays : arrays[a] \subseteq Context
  /\ global \in Context \cup {None}
  /\ local \in [Thread -> Context \cup {None}]
  /\ globalLock \in BOOLEAN
  /\ ListLock \in Thread \cup {None} /\ StateLock \in Thread \cup {None}

(* The threads whose call holds a reference to the context.                *)
Holding(c) ==
  {t \in Thread : \/ call[t].pc \in {"using", "make", "exchange", "made", "thread", "unlock",
                                     "created", "list", "destroy", "last", "destroyed"}
                     /\ call[t].c = c
                  \/ call[t].pc \in {"deinit", "global", "await", "array", "old", "events"}
                     /\ call[t].then = "last" /\ call[t].c = c
                  \/ "orphans" \in DOMAIN call[t] /\ c \in call[t].orphans}

(* A context taken out of sGlobalContext whose reference is not yet let go *)
TakenOut(c) == {t \in Thread : At(t, "await") /\ call[t].c = c}

One(b) == IF b THEN 1 ELSE 0

(* Every reference counted is held by one holder, and the other way round: *)
(* no context outlives its holders, and none goes while it is held.        *)
RefsAreHeld ==
  /\ \A c \in Context :
       /\ refs[c] = Cardinality(Holding(c)) + Cardinality(TakenOut(c))
                    + Cardinality({t \in Thread : local[t] = c})
                    + One(global = c) + One(c \in ContextList)
       /\ (life[c] = "live") = (refs[c] > 0)
  /\ device.live = (device.refs > 0)
  /\ device.refs >= Cardinality({c \in Context : life[c] = "live"}) + One(device.listed)

(* What a thread or the mixer is about to touch is there, but for one case:*)
(* alcCreateContext has given its reference to the list when it sets the   *)
(* effect of the default slot (alc.cpp 3375 to 3383), and a close or a     *)
(* destruction that takes the context off the list first frees it in use.  *)
NoUseAfterFree ==
  /\ \A t \in Thread :
       /\ At(t, "effect") /\ call[t].c \in ContextList => life[call[t].c] = "live"
       /\ call[t].pc \in {"using", "count", "deinit", "array", "events"} /\ call[t].c # None
          => life[call[t].c] = "live"
       /\ StateLock = t => device.live
  /\ mix.pc = "contexts" => /\ mix.array \in DOMAIN arrays
                            /\ \A c \in mix.left : life[c] = "live"
  /\ Mixing => device.live /\ device.running

(* A context the mixer can come across has its event thread.               *)
MixedHasEvents ==
  /\ arrays[mContexts] \subseteq events
  /\ mix.pc = "contexts" => mix.left \subseteq events
  /\ \A c \in events : life[c] = "live"

Inv == TypeOK /\ RefsAreHeld /\ MixedHasEvents

(* The comment at the head of alcCreateContext: a context made while the   *)
(* device is closed is cleaned up.                                         *)
ClosedIsCleanedUp ==
  ~device.listed /\ (\A t \in Thread : At(t, "idle")) => ContextList = {} /\ events = {}

=============================================================================
