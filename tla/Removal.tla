------------------------------ MODULE Removal -------------------------------
(***************************************************************************)
(* Taking out of a list what is to go: the loops of the server's console   *)
(* that keep the other names (main.go), the DELETE statements of the app's *)
(* tables (DatabaseRW) and the removals from the falling notes             *)
(* (BarrageView).  A function of the prefixes, and not SelectSeq, so that  *)
(* what it keeps can be proved.                                            *)
(***************************************************************************)
EXTENDS Integers, Sequences

(* The elements of s that are not in S, in their order. *)
Without(s, S) ==
  LET kept[n \in 0..Len(s)] ==
        IF n = 0 THEN <<>>
        ELSE IF s[n] \in S THEN kept[n - 1] ELSE Append(kept[n - 1], s[n])
  IN  kept[Len(s)]

=============================================================================
