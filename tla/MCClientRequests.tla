------------------------- MODULE MCClientRequests --------------------------
(* Two banks, two songs and one LOGOUT, over at most two dials. *)
EXTENDS ClientRequests, TLC

Symmetry == Permutations(Banks) \cup Permutations(Songs)
=============================================================================
