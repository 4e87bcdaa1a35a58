---------------------------- MODULE MCEffectSlots ---------------------------
(***************************************************************************)
(* Three slots, and three calls on them: whether every array that is       *)
(* sorted has a slot to begin with.                                        *)
(***************************************************************************)
EXTENDS EffectSlots
=============================================================================
