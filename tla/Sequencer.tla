----------------------------- MODULE Sequencer ------------------------------
(***************************************************************************)
(* The playing loop of a song (tools/syncSequence.java), run by the        *)
(* playing thread: each turn searches the tracks for the earliest key      *)
(* before the song's last one, advances a track, sleeps until the key is   *)
(* due and plays it.  Another thread may interrupt the sleep.              *)
(*                                                                         *)
(* Abstractions.  How long a sleep takes is left out, but not that a       *)
(* negative one starts the turn over.  The tempo is zero until the first   *)
(* tempo event and positive after it, the resolution of the song is a      *)
(* positive number below the tempo, so that no negative sleep rounds to 0. *)
(* A position stops counting one past the end of its track: the code only  *)
(* ever compares it with the length.                                       *)
(* A doubled sounding is counted, a third one is not.                      *)
(***************************************************************************)
EXTENDS Songs

CONSTANT Repertoire     \* the songs that may be played

ASSUME RepertoireAssumption == \A s \in Repertoire : IsSong(s)

VARIABLES
  song,         \* the song being played
  pos,          \* the position of each track, counted from 1
  present,      \* the tracks still in the list `tracks`
  nextKey,      \* the key to play
  nextTrack,    \* the track it was found in, 0 for null
  lastTime,     \* the time of the last key played
  tempo,        \* whether `sample` is set: 0 or 1
  at,           \* where the thread is
  sounded       \* history: how often each note was passed to onKey

vars == <<song, pos, present, nextKey, nextTrack, lastTime, tempo, at, sounded>>

(* What a track past its end returns: time 0xffffffff, which is -1, and a  *)
(* value that is a note.                                                   *)
Sentinel == <<0, 0>>
Time(k) == IF k = Sentinel THEN -1 ELSE TimeOf(song, k)
Kind(k) == IF k = Sentinel THEN "note" ELSE KindOf(song, k)

Places == {"choose", "sleeping", "finished", "interrupted", "failed"}

(* The type invariant: among others, no position leaves its track.         *)
TypeOK ==
  /\ song \in Repertoire
  /\ pos \in [Tracks(song) -> Nat \ {0}]
  /\ \A t \in Tracks(song) : pos[t] <= Len(song[t]) + 1
  /\ present \subseteq Tracks(song)
  /\ nextKey \in Keys(song) \cup {Sentinel}
  /\ nextTrack \in Tracks(song) \cup {0}
  /\ lastTime \in Nat \cup {-1}
  /\ tempo \in {0, 1}
  /\ at \in Places
  /\ sounded \in [Keys(song) \cup {Sentinel} -> 0..2]

Init ==
  /\ song \in Repertoire
  /\ pos = [t \in Tracks(song) |-> 1]
  /\ present = Tracks(song)
  /\ nextKey = EndKey(song)
  /\ nextTrack = 0
  /\ lastTime = 0
  /\ tempo = 0
  /\ at = "choose"
  /\ sounded = [k \in Keys(song) \cup {Sentinel} |-> 0]

-----------------------------------------------------------------------------
(* Choosing the next key. *)

IsEnd(t) == pos[t] > Len(song[t])
Get(t) == IF IsEnd(t) THEN Sentinel ELSE <<t, pos[t]>>

(* The tracks whose key is earlier than the key at hand, and the first of  *)
(* those with the earliest key, which the loop over the tracks ends with.  *)
Earlier == {t \in present : Time(Get(t)) < Time(nextKey)}
(* Mutant: the loop stops at the first track that is early enough. *)
IsFirst(t) == t \in Earlier /\ \A u \in Earlier : t <= u

IsEarliest(t) ==
  /\ t \in Earlier
  /\ \A u \in Earlier : \/ Time(Get(t)) < Time(Get(u))
                        \/ Time(Get(t)) = Time(Get(u)) /\ t <= u

Advance(t) == [pos EXCEPT ![t] = IF @ > Len(song[t]) THEN @ ELSE @ + 1]

(* A negative sleep: the turn starts over, with the same key.              *)
Negative(k) == Time(k) < lastTime /\ tempo > 0

Take(k, t) ==
  /\ nextKey' = k
  /\ nextTrack' = t
  /\ pos' = Advance(t)
  /\ at' = IF Negative(k) THEN "choose" ELSE "sleeping"
  /\ UNCHANGED <<song, present, lastTime, tempo, sounded>>

ChooseEarliest ==
  /\ at = "choose"
  /\ \E t \in Tracks(song) : IsEarliest(t) /\ Take(Get(t), t)

(* Nothing is earlier: the key at hand is played, and the track the key    *)
(* before it came from advances.                                           *)
ChooseNothing ==
  /\ at = "choose"
  /\ Earlier = {}
  /\ nextTrack # 0
  /\ Take(nextKey, nextTrack)

(* Nothing is earlier and nothing was before: nextTrack is null.           *)
NullTrack ==
  /\ at = "choose"
  /\ Earlier = {} /\ nextTrack = 0
  /\ at' = "failed"
  /\ UNCHANGED <<song, pos, present, nextKey, nextTrack, lastTime, tempo, sounded>>

-----------------------------------------------------------------------------
(* Playing it after the sleep. *)

TurnEnds ==
  /\ lastTime' = Time(nextKey)
  /\ nextKey' = EndKey(song)
  /\ at' = "choose"
  /\ UNCHANGED <<song, pos, nextTrack>>

SoundNote ==
  /\ at = "sleeping" /\ Kind(nextKey) = "note"
  /\ sounded' = [sounded EXCEPT ![nextKey] = IF @ < 2 THEN @ + 1 ELSE @]
  /\ TurnEnds
  /\ UNCHANGED <<present, tempo>>

SetTempo ==
  /\ at = "sleeping" /\ Kind(nextKey) = "tempo"
  /\ tempo' = 1
  /\ TurnEnds
  /\ UNCHANGED <<present, sounded>>

(* Other meta events, and the note 0x7f: it fails the test for a note, and *)
(* no case of the switch is its own.                                       *)
Ignore ==
  /\ at = "sleeping" /\ Kind(nextKey) \in {"meta", "top"}
  /\ TurnEnds
  /\ UNCHANGED <<present, tempo, sounded>>

(* Mutants: the track of the key is removed, not the one that advanced; no *)
(* track is.                                                               *)
RemainingOthers == present \ {nextKey[1]}
RemainingAll == present

Remaining == IF IsEnd(nextTrack) THEN present \ {nextTrack} ELSE present

EndOfTrack ==
  /\ at = "sleeping" /\ Kind(nextKey) = "end"
  /\ Remaining # {}
  /\ present' = Remaining
  /\ TurnEnds
  /\ UNCHANGED <<tempo, sounded>>

EndOfSong ==
  /\ at = "sleeping" /\ Kind(nextKey) = "end"
  /\ Remaining = {}
  /\ present' = {}
  /\ at' = "finished"
  /\ UNCHANGED <<song, pos, nextKey, nextTrack, lastTime, tempo, sounded>>

(* Another thread interrupts the sleep: the key is not played.             *)
Interrupt ==
  /\ at = "sleeping"
  /\ at' = "interrupted"
  /\ UNCHANGED <<song, pos, present, nextKey, nextTrack, lastTime, tempo, sounded>>

Turn == \/ ChooseEarliest \/ ChooseNothing \/ NullTrack
        \/ SoundNote \/ SetTempo \/ Ignore \/ EndOfTrack \/ EndOfSong
Next == Turn \/ Interrupt

Spec == Init /\ [][Next]_vars

(* The thread is scheduled and its sleeps end; nobody need interrupt it.   *)
FairSpec == Spec /\ WF_vars(Turn)

-----------------------------------------------------------------------------
(* Properties. *)

(* The loop plays like any ordered merge of the tracks: each note before   *)
(* the song's last tick once, in time order, and none is missing when the  *)
(* song finishes.                                                          *)
Merge == INSTANCE TimedNotes WITH
  sounded <- {k \in Keys(song) \cup {Sentinel} : sounded[k] > 0},
  outcome <- CASE at = "finished" -> "finished"
               [] at \in {"interrupted", "failed"} -> "stopped"
               [] OTHER -> "playing"
PlaysInOrder == Merge!Spec

(* ... and no key object is sounded a second time.                         *)
SoundedOnce == \A k \in DOMAIN sounded : sounded[k] <= 1

(* The tracks that reach the last tick, and the track that the last key    *)
(* before that tick came from: the last of those that have a key then.     *)
Reaching == {t \in Tracks(song) : TimeOf(song, LastKey(song, t)) = EndTime(song)}
Before == {k \in Keys(song) : TimeOf(song, k) < EndTime(song)}
CameLast(t) ==
  \E k \in Before :
    /\ k[1] = t
    /\ \A j \in Before : \/ TimeOf(song, j) < TimeOf(song, k)
                         \/ TimeOf(song, j) = TimeOf(song, k) /\ j[1] <= t

(* The song ends by itself exactly when one track alone reaches the last   *)
(* tick and the last key before that tick was its own: otherwise the track *)
(* left in the list is never the one the loop advances.                    *)
EndsByItself == \E t \in Tracks(song) : Reaching = {t} /\ CameLast(t)

OnlyThenFinishes == at = "finished" => EndsByItself
FinishesThen == EndsByItself ~> at \in {"finished", "interrupted"}

(* The playing thread dies exactly of a song without a key before its last *)
(* tick: it never does in the middle of a song.                            *)
FailsOnlyAtOnce == at = "failed" => Before = {} /\ \A k \in DOMAIN sounded : sounded[k] = 0

(* What holds at every turn of the loop, whatever the song's tracks are:   *)
(* no note is played twice, a song ends by itself only where the tracks    *)
(* allow it, and the thread dies of nothing but a song with no first key.  *)
Inv == TypeOK /\ SoundedOnce /\ OnlyThenFinishes /\ FailsOnlyAtOnce

=============================================================================
