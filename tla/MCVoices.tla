------------------------------ MODULE MCVoices -------------------------------
(***************************************************************************)
(* From the keys under the fingers to the voices that sound, in one module:*)
(* KeyboardTouches, SourceVoices, and the contexts that voices are in      *)
(* (ContextLife).  The three share no state; part names the one that       *)
(* moves, while the others stay where they start.                          *)
(*   Fingers: two, above and below at the right edge, where the key under  *)
(* them changes most with their number, of a width that 1 to 15 divide.    *)
(*   Sources: one on which everything is called, with two items of which   *)
(* the first has no samples, and one that is only queued on, played,       *)
(* stopped and deleted, as soundMixer.go does.                             *)
(***************************************************************************)
EXTENDS KeyboardTouches

CONSTANTS
  Source, Handled, NVoices, FirstVoices, MaxItem, Empty, MaxPending,
  StopOnDisconnect, CallsAfter,
  Thread, Context, None

ASSUME LifeAssumptions ==
  IsFiniteSet(Thread) /\ IsFiniteSet(Context) /\ None \notin Thread \cup Context

VARIABLES
  source, voice, active, pending, connected, mixing, mix, op, reset, retaken,
  life, refs, events, ContextList, device, arrays, mContexts, global, globalLock, local,
  ListLock, StateLock, call, render,
  part          \* which of the three moves

voiceVars == <<source, voice, active, pending, connected, mixing, mix, op, reset, retaken>>
lifeVars == <<life, refs, events, ContextList, device, arrays, mContexts, global, globalLock,
              local, ListLock, StateLock, call, render>>

Voices == INSTANCE SourceVoices
Life == INSTANCE ContextLife WITH mix <- render

MCWidth == 2162160      \* 6 times the least common multiple of 1 to 15
MCXs == {2162159}

(* What the proofs of KeyboardTouches need: thirds of keys end at pixels,  *)
(* and so do their halves.                                                 *)
EndAtPixels(n) == Width % (6 * n) = 0
ASSUME KeysAssumptions == IsFiniteSet(Fingers) /\ \A n \in Counts : EndAtPixels(n)

(* What the proofs of SourceVoices need of its constants.                  *)
ASSUME VoicesAssumptions ==
  /\ NVoices \in Nat /\ FirstVoices \in 1..NVoices
  /\ MaxItem \in [Source -> Nat] /\ MaxPending \in Nat
  /\ Handled \subseteq Source
  /\ Voices!NoSource \notin Source
  /\ StopOnDisconnect \in BOOLEAN /\ CallsAfter \in BOOLEAN

ItemsOf == [s \in Source |-> IF s \in Handled THEN 2 ELSE 1]
FirstOfHandled == {<<s, 1>> : s \in Handled}

MCInit == Init /\ Voices!Init /\ Life!Init /\ part \in {"keys", "voices", "life"}

MCNext ==
  \/ part = "keys" /\ Next /\ UNCHANGED <<voiceVars, lifeVars, part>>
  \/ part = "voices" /\ Voices!Next /\ UNCHANGED <<vars, lifeVars, part>>
  \/ part = "life" /\ Life!Next /\ UNCHANGED <<vars, voiceVars, part>>

MCSpec == MCInit /\ [][MCNext]_<<vars, voiceVars, lifeVars, part>>

-----------------------------------------------------------------------------
(* The keys shown as pressed are those under the fingers, through every    *)
(* order of touches and changes of the keyboard; and for every number of   *)
(* keys the buttons lead to, the key found under a finger is the one drawn *)
(* there, and a note falls onto the key that takes it (KeyboardView,       *)
(* BarrageView).                                                           *)
KeysInv == part = "keys" => Inv /\ TouchedIsDrawn /\ NoteFallsOnItsKey

(* Calls and mixes agree on which voices are free and which sources play,  *)
(* and a device that is gone leaves no source a voice (al/source.cpp,      *)
(* alc/alu.cpp).                                                           *)
VoicesInv == part = "voices" => Voices!Inv /\ Voices!GoneIsSilent

(* The mixer reads no item that has left its source's queue (core/voice.   *)
(* cpp, al/source.cpp).                                                    *)
NoUseAfterFree == part = "voices" => Voices!NoUseAfterFree

(* Contexts, the lists of them and the threads' hold on them agree, and    *)
(* neither a call nor a mix uses a context, or an array of contexts, that  *)
(* is deleted (alc/alc.cpp, alc/context.cpp, intrusive_ptr.h).             *)
LifeInv == part = "life" => Life!Inv /\ Life!NoUseAfterFree

(* A paused source keeps its voice (alSourcePausev).                       *)
PausedLasts == Voices!PausedLasts

(* A source changes its state by a call on it, or ends (al/source.cpp).    *)
OthersLeaveAlone == Voices!OthersLeaveAlone
=============================================================================
