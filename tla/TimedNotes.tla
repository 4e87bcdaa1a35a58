----------------------------- MODULE TimedNotes -----------------------------
(***************************************************************************)
(* What a player of a song promises, whatever the number of tracks and     *)
(* however it merges them: the notes due are sounded once each, none       *)
(* before an earlier one, and the song only finishes when all of them have *)
(* been.  A song may be stopped at any time.                               *)
(***************************************************************************)
EXTENDS Songs

CONSTANT Repertoire
VARIABLES song, sounded, outcome

(* The notes before the last tick of the song.                             *)
Due(s) == {k \in Keys(s) : KindOf(s, k) = "note" /\ TimeOf(s, k) < EndTime(s)}

Init ==
  /\ song \in Repertoire
  /\ sounded = {}
  /\ outcome = "playing"

Sound(k) ==
  /\ outcome = "playing"
  /\ k \in Due(song) \ sounded
  /\ \A j \in Due(song) : TimeOf(song, j) < TimeOf(song, k) => j \in sounded
  /\ sounded' = sounded \cup {k}
  /\ UNCHANGED <<song, outcome>>

Finish ==
  /\ outcome = "playing"
  /\ Due(song) \subseteq sounded
  /\ outcome' = "finished"
  /\ UNCHANGED <<song, sounded>>

Stop ==
  /\ outcome = "playing"
  /\ outcome' = "stopped"
  /\ UNCHANGED <<song, sounded>>

Next == (\E k \in Keys(song) : Sound(k)) \/ Finish \/ Stop

Spec == Init /\ [][Next]_<<song, sounded, outcome>>

=============================================================================
