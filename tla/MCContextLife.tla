---------------------------- MODULE MCContextLife ---------------------------
(***************************************************************************)
(* Two threads and two contexts: whether a context made while the device   *)
(* is closed is cleaned up.                                                *)
(***************************************************************************)
EXTENDS ContextLife, TLC

(* Threads are interchangeable, and so are contexts.                       *)
Interchangeable == Permutations(Thread) \cup Permutations(Context)
=============================================================================
