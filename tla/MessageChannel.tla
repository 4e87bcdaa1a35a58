--------------------------- MODULE MessageChannel ---------------------------
(***************************************************************************)
(* What the two ends of a connection expect of their messages: they arrive *)
(* whole, in the order in which they were sent, and none is skipped; the   *)
(* channel may end at any time, with the latest ones undelivered.  Once it *)
(* is broken nothing is promised any more.                                 *)
(***************************************************************************)
EXTENDS Sequences, Naturals

CONSTANT Messages
VARIABLES sent, received, broken

Init == sent = <<>> /\ received = <<>> /\ broken = FALSE

Send(m) ==
  /\ ~broken
  /\ sent' = Append(sent, m)
  /\ UNCHANGED <<received, broken>>

Receive ==
  /\ ~broken
  /\ Len(received) < Len(sent)
  /\ received' = Append(received, sent[Len(received) + 1])
  /\ UNCHANGED <<sent, broken>>

Break ==
  /\ ~broken /\ broken' = TRUE
  /\ UNCHANGED <<sent, received>>

Garble ==
  /\ broken
  /\ sent' \in Seq(Messages) /\ received' \in Seq(Messages)
  /\ UNCHANGED broken

Next == (\E m \in Messages : Send(m)) \/ Receive \/ Break \/ Garble

Spec == Init /\ [][Next]_<<sent, received, broken>>

=============================================================================
