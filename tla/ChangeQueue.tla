---------------------------- MODULE ChangeQueue -----------------------------
(***************************************************************************)
(* What the list of voice changes promises to those who use it: the mixer  *)
(* takes what was sent, each change once, in the order it was sent in, and *)
(* what is sent together it can take together.                             *)
(***************************************************************************)
EXTENDS Naturals, Sequences

CONSTANT Change, LongestSend
VARIABLE queue

Batches == UNION {[1..n -> Change] : n \in 1..LongestSend}

Init == queue = <<>>
Send == \E batch \in Batches : queue' = queue \o batch
Take == queue # <<>> /\ queue' = Tail(queue)
Drop == queue' = <<>>
Next == Send \/ Take \/ Drop
Spec == Init /\ [][Next]_queue

=============================================================================
