------------------------------- MODULE MCSongs -------------------------------
(***************************************************************************)
(* From a MIDI file to what is heard of it, in one run: MidiExtractor      *)
(* reads a file, Sequencer plays a song.  Either runs by itself, on every  *)
(* file and every song below; part names the one that moves, while the     *)
(* other stays where it starts.                                            *)
(*   Songs: of one and two tracks, every song with at most MaxKeys keys    *)
(* before the End of Track, at ticks up to MaxTime, of the kinds KindsUsed;*)
(* of three tracks, those with at most one note in a track.                *)
(*   Files: one track of up to two events of the kinds PlainKinds, two     *)
(* such tracks of one event each, and one track of up to three events      *)
(* among which are those the extractor misreads, of the kinds OddKinds,    *)
(* all with their End of Track; and files that are damaged.                *)
(***************************************************************************)
EXTENDS Sequencer

CONSTANTS Files, MaxKeys, MaxTime, KindsUsed, PlainKinds, OddKinds, Waits, Notes

VARIABLES
  file, chunk, data, i, time, tracks, outcome,
  part          \* which of the two moves

fileVars == <<file, chunk, data, i, time, tracks, outcome>>

Extractor == INSTANCE MidiExtractor

-----------------------------------------------------------------------------
(* The songs. *)

Rising(n) == {f \in [1..n -> 0..MaxTime] : \A k \in 1..n-1 : f[k] <= f[k+1]}

(* The tracks of n keys, those before the End of Track of the kinds used.  *)
TracksOf(n, used) ==
  UNION {{[k \in 1..n |-> [time |-> f[k], kind |-> IF k = n THEN "end" ELSE g[k]]] :
           g \in [1..n-1 -> used]} : f \in Rising(n)}

TerminatedTracks(keys, used) == UNION {TracksOf(n + 1, used) : n \in 0..keys}
SomeSongs ==
  UNION {[1..n -> TerminatedTracks(MaxKeys, KindsUsed)] : n \in 1..2}
  \cup [1..3 -> TerminatedTracks(1, {"note"})]

(* The files. *)

AnEvent(kind, w, c, n, v) == [kind |-> kind, wait |-> w, channel |-> c, note |-> n, velocity |-> v]
EventsOf(kinds, channels, notes) ==
  {AnEvent(k, w, c, n, 90) : k \in kinds, w \in Waits, c \in channels, n \in notes}
EndEvent == AnEvent("end", 5, 0, 0, 0)

TracksUpTo(events, n) == UNION {{Append(s, EndEvent) : s \in [1..m -> events]} : m \in 0..n}
Track(score) == [tag |-> "MTrk", score |-> score]
Broken(tag) == [tag |-> tag, score |-> <<>>]

File(magic, format, chunks) == [magic |-> magic, format |-> format, chunks |-> chunks]
PlainEvents == EventsOf(PlainKinds, {0, 1}, Notes)
OddEvents == EventsOf(OddKinds, {0}, {60})
Scores == TracksUpTo(PlainEvents, 2) \cup TracksUpTo(OddEvents, 3)

Files1 == {File(TRUE, 0, <<Track(s)>>) : s \in Scores}
Files2 == {File(TRUE, 1, <<Track(s), Track(t)>>) : s, t \in TracksUpTo(PlainEvents, 1)}
Damaged ==
  {File(FALSE, 1, <<>>), File(TRUE, 3, <<>>), File(TRUE, 1, <<>>)}
  \cup {File(TRUE, 2, <<Track(<<EndEvent>>), Broken(tag), Track(<<EndEvent>>)>>) : tag \in {"alien", "cut"}}
  \cup {File(TRUE, 0, <<[tag |-> "short", score |-> s]>>) : s \in TracksUpTo(PlainEvents, 1)}

SomeFiles == Files1 \cup (Files2 \cup Damaged)

-----------------------------------------------------------------------------
(* What the one that stays is given: a song of nothing but its end.        *)
EmptySong == <<<<[time |-> 0, kind |-> "end"]>>>>
EmptyFile == File(TRUE, 0, <<Track(<<EndEvent>>)>>)

MCInit ==
  /\ part \in {"sequencer", "extractor"}
  /\ part = "sequencer" \/ song = EmptySong
  /\ part = "extractor" \/ file = EmptyFile
  /\ Extractor!Init /\ Init

MCNext ==
  \/ part = "sequencer" /\ Next /\ UNCHANGED <<fileVars, part>>
  \/ part = "extractor" /\ Extractor!Next /\ UNCHANGED <<vars, part>>

(* The fairness of each, while it is the one that moves.                   *)
MCFairness ==
  /\ WF_vars(part = "sequencer" /\ Turn)
  /\ WF_fileVars(part = "extractor" /\ Extractor!Next)

MCSpec == MCInit /\ [][MCNext]_<<vars, fileVars, part>> /\ MCFairness

-----------------------------------------------------------------------------
(* A song ends by itself exactly when one track alone reaches the last     *)
(* tick and the key before that was its own (Sequence.java).               *)
SongsFinish == part = "sequencer" => FinishesThen

(* A plain file becomes the keys it says, and a song that the sequencer    *)
(* can play (SequenceExtractor.java).                                      *)
RecoversPlain == part = "extractor" => Extractor!Inv /\ Extractor!RecoversPlain

(* The extractor comes to an end with every file (SequenceExtractor.java). *)
ComesToAnEnd == part = "extractor" => Extractor!ComesToAnEnd
=============================================================================
