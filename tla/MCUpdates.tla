------------------------------ MODULE MCUpdates ------------------------------
(***************************************************************************)
(* What calls hand to the mixer, in one run: the properties of sources     *)
(* (PropertyUpdates) and the effect slots (EffectSlots).  The two share no *)
(* state; part names the one that moves, while the other stays where it    *)
(* starts.                                                                 *)
(***************************************************************************)
EXTENDS PropertyUpdates, TLC

CONSTANTS
  Slot, Effect, NoEffect, None, MaxCalls

VARIABLES
  api, slotUpdate, core, freeProps, events, activeSlots, deferred, slotHold, applying,
  slotMixer, slotCall, applier, calls,
  part          \* which of the two moves

slotVars == <<api, slotUpdate, core, freeProps, events, activeSlots, deferred, slotHold,
              applying, slotMixer, slotCall, applier, calls>>

Slots == INSTANCE EffectSlots WITH Null <- NoEffect,
  update <- slotUpdate, free <- freeProps, active <- activeSlots,
  hold <- slotHold, updating <- applying, mixer <- slotMixer, call <- slotCall

(* What the proofs of EffectSlots need of its constants.                   *)
ASSUME SlotsAssumptions ==
  /\ IsFiniteSet(Slot) /\ Slot = 1..Cardinality(Slot)
  /\ NoEffect \notin Effect /\ None \notin Slot \cup Effect \cup {NoEffect}
  /\ None \notin [target: Slot \cup {None}, effect: Effect \cup {NoEffect}]

MCInit ==
  /\ Init /\ Slots!Init
  /\ part \in {"properties", "slots"}
  /\ part = "slots" \/ activeSlots.slots = <<>>

MCNext ==
  \/ part = "properties" /\ Next /\ UNCHANGED <<slotVars, part>>
  \/ part = "slots" /\ Slots!Next /\ UNCHANGED <<vars, part>>

MCSpec == MCInit /\ [][MCNext]_<<vars, slotVars, part>>

(* Sources are interchangeable.                                            *)
Symmetry == Permutations(Source)

-----------------------------------------------------------------------------
(* Of the properties the run checks PropertyUpdates' own Inv and           *)
(* HeardTogether, which hold of the initial state wherever another part    *)
(* moves.                                                                  *)

(* What the mixer processes are slots in use with an effect, those that    *)
(* play it knows as calls have set them but for what is on its way, none   *)
(* leads it to a deleted one but from a mix without updates that has one   *)
(* due, and each is processed before the one it targets if that leads to   *)
(* the output (al/auxeffectslot.cpp, alc/alu.cpp).                         *)
SlotsInv == part = "slots" => Slots!Inv /\ Slots!TargetsAreUsed /\ Slots!BeforeItsTarget

(* A mix frees nothing: what it drops goes to the thread of the events     *)
(* (alc/alu.cpp, al/event.cpp).                                            *)
MixFreesNothing == Slots!MixFreesNothing
=============================================================================
