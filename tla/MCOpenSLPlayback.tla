-------------------------- MODULE MCOpenSLPlayback --------------------------
(***************************************************************************)
(* Two updates, and every order of the calls on a device: whether a device *)
(* that failed to reset can be used as a disconnected one.                 *)
(***************************************************************************)
EXTENDS OpenSLPlayback
=============================================================================
