------------------------------- MODULE Songs --------------------------------
(***************************************************************************)
(* A parsed song (tools/Sequence.java): a list of tracks, each a list of   *)
(* BarrageKeys.  A key is its time in ticks and what its value makes of it *)
(* when it is played:                                                      *)
(*   "note"   a value below 0x7f, sounded;                                 *)
(*   "top"    the value 0x7f, the highest MIDI note;                       *)
(*   "tempo"  the meta event 0x51, whose volume is the tempo;              *)
(*   "meta"   any other meta event;                                        *)
(*   "end"    the meta event 0x2f, End of Track.                           *)
(* A key is named by the number of its track and its index in the track.   *)
(***************************************************************************)
EXTENDS Integers, Sequences

Kinds == {"note", "top", "tempo", "meta", "end"}
KeyRecords == [time: Nat, kind: Kinds]

Tracks(s) == DOMAIN s
Keys(s) == UNION {{t} \X DOMAIN s[t] : t \in Tracks(s)}
TimeOf(s, k) == s[k[1]][k[2]].time
KindOf(s, k) == s[k[1]][k[2]].kind
LastKey(s, t) == <<t, Len(s[t])>>

(* A song as the extractor leaves it: no track without a key, and the time *)
(* of a track's keys never goes back, for it only adds delta times.        *)
IsSong(s) ==
  /\ s # <<>>
  /\ s \in Seq(Seq(KeyRecords))
  /\ \A t \in Tracks(s) :
       /\ s[t] # <<>>
       /\ \A i, j \in DOMAIN s[t] : i <= j => s[t][i].time <= s[t][j].time

(* Every track ends with its only End of Track, as the MIDI format demands.*)
Terminated(s) ==
  \A k \in Keys(s) : KindOf(s, k) = "end" <=> k = LastKey(s, k[1])

(* The last key of the first track that ends latest (syncSequence's endKey)*)
EndTrack(s) ==
  CHOOSE t \in Tracks(s) : \A u \in Tracks(s) :
    \/ TimeOf(s, LastKey(s, u)) < TimeOf(s, LastKey(s, t))
    \/ TimeOf(s, LastKey(s, u)) = TimeOf(s, LastKey(s, t)) /\ t <= u
EndKey(s) == LastKey(s, EndTrack(s))
EndTime(s) == TimeOf(s, EndKey(s))

=============================================================================
