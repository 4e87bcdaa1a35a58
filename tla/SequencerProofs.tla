-------------------------- MODULE SequencerProofs ----------------------------
(***************************************************************************)
(* That the loop of Sequencer implements TimedNotes for every repertoire   *)
(* of songs whose tracks end with their only End of Track, whatever the    *)
(* number of tracks and of keys, the times and the kinds.                  *)
(***************************************************************************)
EXTENDS Sequencer, TLAPS, WellFoundedInduction, FiniteSetTheorems

-----------------------------------------------------------------------------
(* Songs. *)

(* A set of naturals has a least one. *)
LEMMA LeastOf ==
  ASSUME NEW S \in SUBSET Nat, S # {}
  PROVE  \E m \in S : \A k \in S : m <= k
<1>1. PICK m \in S : \A k \in S : ~(<<k, m>> \in OpToRel(<, Nat))
  BY NatLessThanWellFounded, WFMin
<1>2. ASSUME NEW k \in S PROVE m <= k
  <2>1. k \in Nat /\ m \in Nat
    OBVIOUS
  <2>2. ~(k < m)
    BY <1>1, <2>1, Zenon DEF OpToRel
  <2> QED
    BY <2>1, <2>2
<1> QED
  BY <1>2

(* A song has a track that ends last, and a first one of those: endKey is  *)
(* one of its keys.                                                        *)
LEMMA EndTrackExists ==
  ASSUME NEW s, IsSong(s)
  PROVE  /\ EndTrack(s) \in Tracks(s)
         /\ \A u \in Tracks(s) : TimeOf(s, LastKey(s, u)) <= EndTime(s)
<1> DEFINE last(t) == TimeOf(s, LastKey(s, t))
           Best(t) == \A u \in Tracks(s) : \/ last(u) < last(t)
                                           \/ last(u) = last(t) /\ t <= u
<1>1. /\ Tracks(s) = 1..Len(s) /\ Len(s) \in Nat /\ Len(s) # 0
      /\ \A t \in Tracks(s) : last(t) \in Nat
  <2>1. s \in Seq(Seq(KeyRecords)) /\ s # <<>> /\ \A t \in Tracks(s) : s[t] # <<>>
    BY DEF IsSong
  <2>2. Len(s) \in Nat /\ Tracks(s) = 1..Len(s) /\ Len(s) # 0
    BY <2>1 DEF Tracks
  <2>3. ASSUME NEW t \in Tracks(s) PROVE last(t) \in Nat
    <3>1. s[t] \in Seq(KeyRecords) /\ s[t] # <<>>
      BY <2>1, <2>2
    <3>2. s[t][Len(s[t])] \in KeyRecords
      BY <3>1
    <3> QED  BY <3>2 DEF TimeOf, LastKey, KeyRecords
  <2> QED  BY <2>2, <2>3
<1> DEFINE Better(t) == {u \in Tracks(s) : last(u) > last(t) \/ (last(u) = last(t) /\ u < t)}
           Ranks == {Cardinality(Better(t)) : t \in Tracks(s)}
<1>2. IsFiniteSet(Tracks(s))
  BY <1>1, FS_Interval
<1>3. \A t \in Tracks(s) : IsFiniteSet(Better(t)) /\ Cardinality(Better(t)) \in Nat
  BY <1>2, FS_Subset, FS_CardinalityType
<1>4. PICK r \in Ranks : \A k \in Ranks : r <= k
  <2>1. Ranks \in SUBSET Nat
    BY <1>3
  <2>2. 1 \in Tracks(s)
    BY <1>1
  <2>3. Ranks # {}
    BY <2>2
  <2> HIDE DEF Ranks
  <2> QED  BY <2>1, <2>3, LeastOf
<1>5. PICK t \in Tracks(s) : r = Cardinality(Better(t))
  BY <1>4
<1>6. t \in Tracks(s) /\ Best(t)
  <2>1. ASSUME NEW u \in Better(t) PROVE FALSE
    <3>1. u \in Tracks(s)
      BY <2>1
    <3>2. Better(u) \subseteq Better(t) /\ u \notin Better(u)
      <4> HIDE DEF last
      <4> QED  BY <1>1, <2>1, <3>1, <1>5
    <3>3. Cardinality(Better(u)) < Cardinality(Better(t))
      <4> HIDE DEF Better
      <4>1. Better(u) # Better(t)
        BY <2>1, <3>2
      <4> QED  BY <1>3, <1>5, <3>1, <3>2, <4>1, FS_Subset
    <3>4. Cardinality(Better(t)) <= Cardinality(Better(u))
      BY <1>4, <1>5, <3>1
    <3> HIDE DEF Better
    <3> QED  BY <1>3, <1>5, <3>1, <3>3, <3>4
  <2>2. ASSUME NEW u \in Tracks(s) PROVE last(u) < last(t) \/ (last(u) = last(t) /\ t <= u)
    <3>1. ~(last(u) > last(t) \/ (last(u) = last(t) /\ u < t))
      BY <2>1, <2>2
    <3>2. u \in Nat /\ t \in Nat /\ last(u) \in Nat /\ last(t) \in Nat
      BY <1>1, <1>5, <2>2
    <3> HIDE DEF last
    <3> QED  BY <3>1, <3>2
  <2> QED  BY <1>5, <2>2
<1>7. EndTrack(s) = CHOOSE e \in Tracks(s) : Best(e)
  BY DEF EndTrack
<1>8. EndTrack(s) \in Tracks(s) /\ Best(EndTrack(s))
  <2> HIDE DEF Best
  <2> QED  BY <1>6, <1>7
<1>9. ASSUME NEW u \in Tracks(s) PROVE last(u) <= last(EndTrack(s))
  <2>1. last(u) \in Nat /\ last(EndTrack(s)) \in Nat
    BY <1>1, <1>8
  <2> HIDE DEF last
  <2> QED  BY <1>8, <2>1
<1> QED
  BY <1>8, <1>9 DEF EndTime, EndKey

(* What the loop needs to know of a song. *)
LEMMA SongFacts ==
  ASSUME NEW s, IsSong(s)
  PROVE  /\ Tracks(s) \subseteq Nat \ {0}
         /\ \A t \in Tracks(s) : Len(s[t]) \in Nat \ {0}
         /\ \A t \in Tracks(s) : \A i \in Nat \ {0} : i <= Len(s[t]) => <<t, i>> \in Keys(s)
         /\ \A k \in Keys(s) : /\ k[1] \in Tracks(s) /\ k[2] \in Nat \ {0}
                               /\ k[2] <= Len(s[k[1]]) /\ k = <<k[1], k[2]>>
         /\ \A k \in Keys(s) : /\ TimeOf(s, k) \in Nat /\ KindOf(s, k) \in Kinds
                               /\ TimeOf(s, k) <= EndTime(s)
         /\ \A j, k \in Keys(s) : j[1] = k[1] /\ j[2] <= k[2] => TimeOf(s, j) <= TimeOf(s, k)
         /\ EndKey(s) \in Keys(s)
         /\ <<0, 0>> \notin Keys(s)
<1>1. /\ Tracks(s) = 1..Len(s) /\ Len(s) \in Nat
      /\ \A t \in Tracks(s) : s[t] \in Seq(KeyRecords) /\ s[t] # <<>>
  BY DEF IsSong, Tracks
<1>2. \A t \in Tracks(s) : Len(s[t]) \in Nat \ {0} /\ DOMAIN s[t] = 1..Len(s[t])
  BY <1>1
<1>3. ASSUME NEW k
      PROVE  k \in Keys(s) <=> \E t \in Tracks(s) : \E i \in 1..Len(s[t]) : k = <<t, i>>
  BY <1>2 DEF Keys
<1>4. ASSUME NEW t \in Tracks(s), NEW i \in 1..Len(s[t]) PROVE s[t][i] \in KeyRecords
  BY <1>1, <1>2
<1>5. ASSUME NEW t \in Tracks(s), NEW i \in 1..Len(s[t]), NEW j \in 1..Len(s[t]), i <= j
      PROVE  TimeOf(s, <<t, i>>) <= TimeOf(s, <<t, j>>)
  <2>1. s[t][i].time <= s[t][j].time
    BY <1>2, <1>5 DEF IsSong
  <2> QED  BY <2>1 DEF TimeOf
<1>6. EndTrack(s) \in Tracks(s) /\ \A t \in Tracks(s) : TimeOf(s, LastKey(s, t)) <= EndTime(s)
  BY EndTrackExists
<1>7. EndKey(s) \in Keys(s)
  BY <1>2, <1>3, <1>6 DEF EndKey, LastKey
<1>8. ASSUME NEW k \in Keys(s)
      PROVE  TimeOf(s, k) \in Nat /\ KindOf(s, k) \in Kinds
  <2>1. k[1] \in Tracks(s) /\ k[2] \in 1..Len(s[k[1]]) /\ k = <<k[1], k[2]>>
    BY <1>3
  <2> QED  BY <1>4, <2>1 DEF TimeOf, KindOf, KeyRecords
<1>9. ASSUME NEW k \in Keys(s) PROVE TimeOf(s, k) <= EndTime(s)
  <2>1. k[1] \in Tracks(s) /\ k[2] \in 1..Len(s[k[1]]) /\ k = <<k[1], k[2]>>
    BY <1>3
  <2>2. Len(s[k[1]]) \in 1..Len(s[k[1]]) /\ k[2] <= Len(s[k[1]])
    BY <1>2, <2>1
  <2>3. TimeOf(s, k) <= TimeOf(s, LastKey(s, k[1])) /\ LastKey(s, k[1]) \in Keys(s)
    BY <1>3, <1>5, <2>1, <2>2 DEF LastKey
  <2>4. TimeOf(s, LastKey(s, k[1])) <= EndTime(s)
    BY <1>6, <2>1
  <2>5. TimeOf(s, k) \in Nat /\ TimeOf(s, LastKey(s, k[1])) \in Nat /\ EndTime(s) \in Nat
    BY <1>7, <1>8, <2>3 DEF EndTime
  <2> QED  BY <2>3, <2>4, <2>5
<1>10. ASSUME NEW j \in Keys(s), NEW k \in Keys(s), j[1] = k[1], j[2] <= k[2]
       PROVE  TimeOf(s, j) <= TimeOf(s, k)
  <2>1. j[1] \in Tracks(s) /\ j[2] \in 1..Len(s[j[1]]) /\ j = <<j[1], j[2]>>
    BY <1>3
  <2>2. k[1] \in Tracks(s) /\ k[2] \in 1..Len(s[k[1]]) /\ k = <<k[1], k[2]>>
    BY <1>3
  <2>3. TimeOf(s, <<j[1], j[2]>>) <= TimeOf(s, <<j[1], k[2]>>)
    BY <1>5, <1>10, <2>1, <2>2
  <2> QED  BY <1>10, <2>1, <2>2, <2>3
<1>11. ASSUME NEW k \in Keys(s)
       PROVE  /\ k[1] \in Tracks(s) /\ k[2] \in Nat \ {0}
              /\ k[2] <= Len(s[k[1]]) /\ k = <<k[1], k[2]>>
  <2>1. k[1] \in Tracks(s) /\ k[2] \in 1..Len(s[k[1]]) /\ k = <<k[1], k[2]>>
    BY <1>3
  <2> QED  BY <1>2, <2>1
<1>12. ASSUME NEW t \in Tracks(s), NEW i \in Nat \ {0}, i <= Len(s[t])
       PROVE  <<t, i>> \in Keys(s)
  BY <1>2, <1>3, <1>12
<1>13. Tracks(s) \subseteq Nat \ {0}
  BY <1>1
<1> QED
  BY <1>2, <1>7, <1>8, <1>9, <1>10, <1>11, <1>12, <1>13

-----------------------------------------------------------------------------
(* The invariant. *)

AllTerminated == \A s \in Repertoire : Terminated(s)

(* The key a track is at.                                                  *)
Ahead(t) == <<t, pos[t]>>
Begun == at \in {"choose", "sleeping"}

(* A track that is out of the list has been advanced past its end.         *)
GoneAreDone == \A t \in Tracks(song) \ present : pos[t] = Len(song[t]) + 1

(* Between two keys, no track in the list is past its end or behind the    *)
(* key last played.                                                        *)
Choosing ==
  /\ nextKey = EndKey(song)
  /\ lastTime \in Nat /\ lastTime <= EndTime(song)
  /\ \A t \in present : pos[t] <= Len(song[t]) /\ lastTime <= TimeOf(song, Ahead(t))

(* During the sleep, the key to play is the last of the song or the one    *)
(* its track has just passed, and no track has an earlier one.             *)
Sleeping ==
  /\ nextTrack \in Tracks(song) /\ nextKey \in Keys(song)
  /\ \/ nextKey = EndKey(song)
     \/ nextKey = <<nextTrack, pos[nextTrack] - 1>> /\ TimeOf(song, nextKey) < EndTime(song)
  /\ \A t \in present : pos[t] <= Len(song[t]) => TimeOf(song, nextKey) <= TimeOf(song, Ahead(t))
  /\ \A t \in present : t = nextTrack \/ pos[t] <= Len(song[t])

(* The notes sounded are those the tracks have passed, except the one to   *)
(* be played after the sleep.                                              *)
Passed(k) ==
  /\ KindOf(song, k) = "note" /\ TimeOf(song, k) < EndTime(song)
  /\ k[2] < pos[k[1]]
  /\ ~(at = "sleeping" /\ k = nextKey)
SoundedPassed ==
  /\ sounded[Sentinel] = 0
  /\ \A k \in Keys(song) : sounded[k] = IF Passed(k) THEN 1 ELSE 0

IInv ==
  /\ TypeOK
  /\ Begun => GoneAreDone /\ SoundedPassed
  /\ at = "choose" => Choosing
  /\ at = "sleeping" => Sleeping

LEMMA InitIInv == ASSUME Init PROVE IInv
<1>1. IsSong(song)
  BY RepertoireAssumption DEF Init
<1>2. TypeOK
  BY <1>1, SongFacts DEF Init, TypeOK, Places, Sentinel
<1>3. GoneAreDone
  BY DEF Init, GoneAreDone
<1>4. Choosing
  <2>1. EndTime(song) \in Nat
    BY <1>1, SongFacts DEF EndTime
  <2>2. ASSUME NEW t \in present PROVE pos[t] <= Len(song[t]) /\ lastTime <= TimeOf(song, Ahead(t))
    <3>1. t \in Tracks(song) /\ pos[t] = 1 /\ 1 <= Len(song[t])
      BY <1>1, SongFacts DEF Init
    <3>2. <<t, 1>> \in Keys(song)
      BY <1>1, <3>1, SongFacts
    <3>3. TimeOf(song, <<t, 1>>) \in Nat
      BY <1>1, <3>2, SongFacts
    <3> QED  BY <3>1, <3>3 DEF Init, Ahead
  <2> QED  BY <2>1, <2>2 DEF Init, Choosing
<1>5. SoundedPassed
  <2>1. ASSUME NEW k \in Keys(song) PROVE sounded[k] = 0 /\ ~Passed(k)
    BY <1>1, SongFacts DEF Init, Passed
  <2> QED  BY <2>1 DEF Init, SoundedPassed
<1> QED
  BY <1>2, <1>3, <1>4, <1>5 DEF Init, IInv

-----------------------------------------------------------------------------
(* Choosing. *)

(* A turn that chooses never finds a negative sleep: with the key it takes *)
(* no earlier than any track is at, it leads to a sleep.                   *)
LEMMA TakeStep ==
  ASSUME IInv, at = "choose",
         NEW k \in Keys(song), NEW t \in Tracks(song), Take(k, t),
         lastTime <= TimeOf(song, k),
         \A u \in present : TimeOf(song, k) <= TimeOf(song, Ahead(u)),
         \/ k = EndKey(song)
         \/ k = Ahead(t) /\ t \in present /\ TimeOf(song, k) < EndTime(song),
         \* the track passes nothing that is due but the key taken
         t \in present /\ k # Ahead(t) => EndTime(song) <= TimeOf(song, Ahead(t))
  PROVE  IInv' /\ at' = "sleeping" /\ UNCHANGED <<song, sounded>>
<1> USE DEF Begun
<1>1. IsSong(song) /\ TypeOK /\ GoneAreDone /\ SoundedPassed /\ Choosing
  BY RepertoireAssumption DEF IInv, TypeOK
<1>2. /\ k # Sentinel /\ TimeOf(song, k) \in Nat /\ lastTime \in Nat
      /\ Time(k) = TimeOf(song, k)
  BY <1>1, SongFacts DEF Sentinel, Time, Choosing
<1>3. at' = "sleeping"
  BY <1>2 DEF Take, Negative
<1>4. /\ nextKey' = k /\ nextTrack' = t
      /\ UNCHANGED <<song, present, lastTime, tempo, sounded>>
      /\ pos' = [pos EXCEPT ![t] = IF pos[t] > Len(song[t]) THEN pos[t] ELSE pos[t] + 1]
  BY DEF Take, Advance
<1>5. /\ pos' \in [Tracks(song) -> Nat \ {0}]
      /\ \A u \in Tracks(song) : u # t => pos'[u] = pos[u]
      /\ pos[t] <= Len(song[t]) => pos'[t] = pos[t] + 1
      /\ pos[t] > Len(song[t]) => pos'[t] = pos[t]
      /\ \A u \in Tracks(song) : pos'[u] <= Len(song[u]) + 1 /\ pos[u] <= pos'[u]
      /\ \A u \in Tracks(song) : pos[u] \in Nat \ {0} /\ Len(song[u]) \in Nat \ {0}
      /\ present \subseteq Tracks(song)
  <2>1. /\ pos \in [Tracks(song) -> Nat \ {0}] /\ present \subseteq Tracks(song)
        /\ \A u \in Tracks(song) : pos[u] <= Len(song[u]) + 1
    BY <1>1 DEF TypeOK
  <2>2. \A u \in Tracks(song) : Len(song[u]) \in Nat \ {0}
    BY <1>1, SongFacts
  <2>3. \A u \in Tracks(song) : pos'[u] = IF u = t /\ pos[u] <= Len(song[u]) THEN pos[u] + 1 ELSE pos[u]
    BY <1>4, <2>1, <2>2
  <2>4. pos' \in [Tracks(song) -> Nat \ {0}]
    BY <1>4, <2>1, <2>2
  <2> QED  BY <2>1, <2>2, <2>3, <2>4
<1>6. TypeOK'
  BY <1>1, <1>3, <1>4, <1>5 DEF TypeOK, Places, Tracks, Keys
<1>7. GoneAreDone'
  BY <1>1, <1>4, <1>5 DEF GoneAreDone, Tracks
<1>8. \A u \in Tracks(song) : u \in present => pos[u] <= Len(song[u])
  BY <1>1 DEF Choosing
<1>9. ASSUME NEW u \in Tracks(song), pos[u] <= Len(song[u]), pos'[u] <= Len(song[u])
      PROVE  /\ Ahead(u) \in Keys(song) /\ <<u, pos'[u]>> \in Keys(song)
             /\ TimeOf(song, Ahead(u)) \in Nat /\ TimeOf(song, <<u, pos'[u]>>) \in Nat
             /\ TimeOf(song, Ahead(u)) <= TimeOf(song, <<u, pos'[u]>>)
  <2>1. <<u, pos[u]>> \in Keys(song) /\ <<u, pos'[u]>> \in Keys(song)
    BY <1>1, <1>5, <1>9, SongFacts
  <2> QED  BY <1>1, <1>5, <2>1, SongFacts DEF Ahead
<1>10. Sleeping'
  <2>1. \/ nextKey' = EndKey(song)
        \/ nextKey' = <<nextTrack', pos'[nextTrack'] - 1>> /\ TimeOf(song, nextKey') < EndTime(song)
    BY <1>4, <1>5, <1>8 DEF Ahead
  <2>2. ASSUME NEW u \in present, pos'[u] <= Len(song[u])
        PROVE  TimeOf(song, k) <= TimeOf(song, <<u, pos'[u]>>)
    <3>1. u \in Tracks(song) /\ pos[u] <= Len(song[u])
      BY <1>5, <1>8
    <3>2. /\ TimeOf(song, Ahead(u)) \in Nat /\ TimeOf(song, <<u, pos'[u]>>) \in Nat
          /\ TimeOf(song, Ahead(u)) <= TimeOf(song, <<u, pos'[u]>>)
      BY <1>9, <2>2, <3>1
    <3> QED  BY <1>2, <3>2
  <2>3. \A u \in present : u = t \/ pos'[u] <= Len(song[u])
    BY <1>5, <1>8
  <2> QED  BY <1>4, <2>1, <2>2, <2>3 DEF Sleeping, Ahead
<1>11. SoundedPassed'
  <2>1. ASSUME NEW j \in Keys(song) PROVE Passed(j) <=> Passed(j)'
    <3>1. j[1] \in Tracks(song) /\ j[2] \in Nat /\ j = <<j[1], j[2]>> /\ TimeOf(song, j) \in Nat
      BY <1>1, SongFacts
    <3>2. CASE j[1] # t
      <4>1. pos'[j[1]] = pos[j[1]]
        BY <1>5, <3>1, <3>2
      <4>2. j # k \/ KindOf(song, k) = "end" \/ ~(TimeOf(song, k) < EndTime(song))
        BY <1>1, <3>1, <3>2 DEF Ahead, EndTime
      <4>3. j = k => ~(KindOf(song, j) = "note" /\ TimeOf(song, j) < EndTime(song))
        BY <4>2
      <4> QED  BY <1>3, <1>4, <4>1, <4>3 DEF Passed
    <3>3. CASE j[1] = t
      <4>1. CASE j[2] = pos[t]
        <5>1. j = Ahead(t) /\ ~Passed(j)
          BY <1>5, <3>1, <3>3, <4>1 DEF Ahead, Passed
        <5>2. CASE j = k
          BY <1>3, <1>4, <5>1, <5>2 DEF Passed
        <5>3. CASE j # k
          <6>1. t \in present
            BY <1>1, <1>5, <3>1, <3>3, <4>1, SongFacts DEF GoneAreDone
          <6>2. EndTime(song) <= TimeOf(song, j) /\ EndTime(song) \in Nat
            BY <1>1, <5>1, <5>3, <6>1, SongFacts DEF EndTime
          <6> QED  BY <1>4, <3>1, <5>1, <6>2 DEF Passed
        <5> QED  BY <5>2, <5>3
      <4>2. CASE j[2] # pos[t]
        <5>1. j[2] < pos'[t] <=> j[2] < pos[t]
          BY <1>5, <3>1, <4>2
        <5>2. j = k => k = EndKey(song)
          BY <3>1, <3>3, <4>2 DEF Ahead
        <5>3. j = k => ~(TimeOf(song, j) < EndTime(song))
          BY <3>1, <5>2 DEF EndTime
        <5> QED  BY <1>3, <1>4, <3>3, <5>1, <5>3 DEF Passed
      <4> QED  BY <4>1, <4>2
    <3> QED  BY <3>2, <3>3
  <2>2. Keys(song') = Keys(song) /\ sounded' = sounded
    BY <1>4
  <2> QED  BY <1>1, <2>1, <2>2 DEF SoundedPassed
<1> QED
  BY <1>3, <1>4, <1>6, <1>7, <1>10, <1>11 DEF IInv

(* The tracks in the list are at a key, which is what the search reads.    *)
LEMMA Searched ==
  ASSUME IInv, at = "choose", NEW t \in present
  PROVE  /\ t \in Tracks(song) /\ ~IsEnd(t) /\ Get(t) = Ahead(t)
         /\ Ahead(t) \in Keys(song) /\ Time(Get(t)) = TimeOf(song, Ahead(t))
         /\ TimeOf(song, Ahead(t)) \in Nat /\ lastTime <= TimeOf(song, Ahead(t))
<1>1. IsSong(song) /\ TypeOK /\ Choosing
  BY RepertoireAssumption DEF IInv, TypeOK
<1>2. t \in Tracks(song) /\ pos[t] \in Nat \ {0} /\ pos[t] <= Len(song[t])
      /\ Len(song[t]) \in Nat /\ lastTime <= TimeOf(song, Ahead(t))
  BY <1>1, SongFacts DEF TypeOK, Choosing
<1>3. ~IsEnd(t) /\ Get(t) = Ahead(t)
  BY <1>2 DEF IsEnd, Get, Ahead
<1>4. Ahead(t) \in Keys(song) /\ TimeOf(song, Ahead(t)) \in Nat /\ Ahead(t) # Sentinel
  BY <1>1, <1>2, SongFacts DEF Ahead, Sentinel
<1> QED
  BY <1>2, <1>3, <1>4 DEF Time

LEMMA AtEndKey ==
  ASSUME IInv, at = "choose"
  PROVE  /\ nextKey = EndKey(song) /\ nextKey \in Keys(song)
         /\ Time(nextKey) = EndTime(song) /\ TimeOf(song, nextKey) = EndTime(song)
         /\ EndTime(song) \in Nat /\ lastTime <= EndTime(song)
<1>1. IsSong(song) /\ Choosing
  BY RepertoireAssumption DEF IInv, TypeOK
<1>2. EndKey(song) \in Keys(song) /\ EndKey(song) # Sentinel /\ EndTime(song) \in Nat
  BY <1>1, SongFacts DEF EndTime, Sentinel
<1> QED
  BY <1>1, <1>2 DEF Choosing, Time, EndTime

LEMMA ChooseEarliestStep ==
  ASSUME IInv, ChooseEarliest
  PROVE  IInv' /\ at' = "sleeping" /\ UNCHANGED <<song, sounded>>
<1>1. PICK t \in Tracks(song) : IsEarliest(t) /\ Take(Get(t), t)
  BY DEF ChooseEarliest
<1>2. at = "choose" /\ t \in present /\ Time(Get(t)) < Time(nextKey)
  BY <1>1 DEF ChooseEarliest, IsEarliest, Earlier
<1>3. /\ Get(t) = Ahead(t) /\ Ahead(t) \in Keys(song) /\ TimeOf(song, Ahead(t)) \in Nat
      /\ lastTime <= TimeOf(song, Ahead(t)) /\ TimeOf(song, Ahead(t)) < EndTime(song)
  BY <1>2, Searched, AtEndKey
<1>4. ASSUME NEW u \in present PROVE TimeOf(song, Ahead(t)) <= TimeOf(song, Ahead(u))
  <2>1. Time(Get(u)) = TimeOf(song, Ahead(u)) /\ TimeOf(song, Ahead(u)) \in Nat
    BY <1>2, Searched
  <2>2. CASE u \in Earlier
    BY <1>1, <1>2, <1>3, <2>1, <2>2, Searched DEF IsEarliest
  <2>3. CASE u \notin Earlier
    BY <1>2, <1>3, <2>1, <2>3, AtEndKey DEF Earlier
  <2> QED  BY <2>2, <2>3
<1> QED
  BY <1>1, <1>2, <1>3, <1>4, TakeStep

LEMMA ChooseNothingStep ==
  ASSUME IInv, ChooseNothing
  PROVE  IInv' /\ at' = "sleeping" /\ UNCHANGED <<song, sounded>>
<1>1. at = "choose" /\ nextTrack \in Tracks(song) /\ Take(nextKey, nextTrack)
  BY DEF ChooseNothing, IInv, TypeOK
<1>2. ASSUME NEW u \in present PROVE EndTime(song) <= TimeOf(song, Ahead(u))
  <2>1. Time(Get(u)) = TimeOf(song, Ahead(u)) /\ TimeOf(song, Ahead(u)) \in Nat
    BY <1>1, Searched
  <2>2. ~(Time(Get(u)) < Time(nextKey))
    BY <1>1 DEF ChooseNothing, Earlier
  <2> QED  BY <1>1, <2>1, <2>2, AtEndKey
<1>3. nextKey = EndKey(song) /\ nextKey \in Keys(song)
      /\ TimeOf(song, nextKey) = EndTime(song) /\ lastTime <= EndTime(song)
  BY <1>1, AtEndKey
<1> QED
  BY <1>1, <1>2, <1>3, TakeStep

LEMMA NullTrackStep ==
  ASSUME IInv, NullTrack
  PROVE  IInv' /\ at = "choose" /\ at' = "failed" /\ UNCHANGED <<song, sounded>>
<1>1. TypeOK'
  BY DEF IInv, NullTrack, TypeOK, Places, Keys, Tracks
<1> QED
  BY <1>1 DEF NullTrack, IInv, Begun

-----------------------------------------------------------------------------
(* Playing. *)

LEMMA InterruptStep ==
  ASSUME IInv, Interrupt
  PROVE  IInv' /\ at = "sleeping" /\ at' = "interrupted" /\ UNCHANGED <<song, sounded>>
<1>1. TypeOK'
  BY DEF IInv, Interrupt, TypeOK, Places, Keys, Tracks
<1> QED
  BY <1>1 DEF Interrupt, IInv, Begun

(* What the sleep ends with: the key of its track, or the end of the song. *)
LEMMA Awake ==
  ASSUME IInv, at = "sleeping", AllTerminated
  PROVE  /\ Kind(nextKey) = KindOf(song, nextKey) /\ Time(nextKey) = TimeOf(song, nextKey)
         /\ nextKey \in Keys(song) /\ TimeOf(song, nextKey) \in Nat
         /\ TimeOf(song, nextKey) <= EndTime(song) /\ EndTime(song) \in Nat
         /\ nextKey = EndKey(song) => KindOf(song, nextKey) = "end"
         /\ nextKey # EndKey(song) =>
              /\ TimeOf(song, nextKey) < EndTime(song)
              /\ nextKey[1] = nextTrack /\ nextKey[2] = pos[nextTrack] - 1
              /\ KindOf(song, nextKey) = "end" <=> IsEnd(nextTrack)
<1>1. IsSong(song) /\ Terminated(song) /\ TypeOK /\ Sleeping
  BY RepertoireAssumption DEF IInv, TypeOK, AllTerminated
<1>2. /\ nextKey \in Keys(song) /\ nextKey # Sentinel /\ nextTrack \in Tracks(song)
      /\ TimeOf(song, nextKey) \in Nat /\ TimeOf(song, nextKey) <= EndTime(song)
  BY <1>1, SongFacts DEF Sleeping, Sentinel
<1>3. EndTime(song) \in Nat /\ KindOf(song, EndKey(song)) = "end"
  BY <1>1, EndTrackExists, SongFacts DEF EndTime, Terminated, EndKey, LastKey
<1>4. ASSUME nextKey # EndKey(song)
      PROVE  /\ TimeOf(song, nextKey) < EndTime(song)
             /\ nextKey[1] = nextTrack /\ nextKey[2] = pos[nextTrack] - 1
             /\ KindOf(song, nextKey) = "end" <=> IsEnd(nextTrack)
  <2>1. nextKey = <<nextTrack, pos[nextTrack] - 1>> /\ TimeOf(song, nextKey) < EndTime(song)
    BY <1>1, <1>4 DEF Sleeping
  <2>2. KindOf(song, nextKey) = "end" <=> pos[nextTrack] - 1 = Len(song[nextTrack])
    BY <1>1, <1>2, <2>1 DEF Terminated, LastKey
  <2>3. pos[nextTrack] \in Nat /\ pos[nextTrack] <= Len(song[nextTrack]) + 1 /\ Len(song[nextTrack]) \in Nat
    BY <1>1, <1>2, SongFacts DEF TypeOK
  <2> QED  BY <2>1, <2>2, <2>3 DEF IsEnd
<1> QED
  BY <1>2, <1>3, <1>4 DEF Kind, Time

(* A turn that plays its key and leaves in the list exactly the tracks     *)
(* that have a key left.                                                   *)
LEMMA TurnEndsStep ==
  ASSUME IInv, at = "sleeping", AllTerminated, TurnEnds,
         tempo' \in {0, 1}, present' \subseteq present,
         \A t \in present' : ~IsEnd(t),
         \A t \in present \ present' : IsEnd(t),
         \/ KindOf(song, nextKey) # "note" /\ sounded' = sounded
         \/ KindOf(song, nextKey) = "note" /\ sounded' = [sounded EXCEPT ![nextKey] = 1]
  PROVE  IInv'
<1>1. /\ IsSong(song) /\ TypeOK /\ Sleeping /\ GoneAreDone /\ SoundedPassed
  BY RepertoireAssumption DEF IInv, TypeOK, Begun
<1>2. /\ lastTime' = TimeOf(song, nextKey) /\ nextKey' = EndKey(song) /\ at' = "choose"
      /\ UNCHANGED <<song, pos, nextTrack>>
  BY Awake DEF TurnEnds
<1>3. /\ nextKey \in Keys(song) /\ TimeOf(song, nextKey) \in Nat
      /\ TimeOf(song, nextKey) <= EndTime(song) /\ EndKey(song) \in Keys(song)
  BY <1>1, Awake, SongFacts
<1>4. /\ present' \subseteq Tracks(song)
      /\ \A t \in Tracks(song) : pos[t] \in Nat \ {0} /\ Len(song[t]) \in Nat \ {0}
                                 /\ pos[t] <= Len(song[t]) + 1
  BY <1>1, SongFacts DEF TypeOK
<1>5. sounded' \in [Keys(song) \cup {Sentinel} -> 0..2]
  BY <1>1 DEF TypeOK
<1>6. TypeOK'
  BY <1>1, <1>2, <1>3, <1>4, <1>5 DEF TypeOK, Places, Tracks, Keys, Sentinel
<1>7. GoneAreDone'
  <2>1. ASSUME NEW t \in Tracks(song) \ present' PROVE pos[t] = Len(song[t]) + 1
    <3>1. CASE t \in present
      BY <1>4, <2>1, <3>1 DEF IsEnd
    <3>2. CASE t \notin present
      BY <1>1, <2>1, <3>2 DEF GoneAreDone
    <3> QED  BY <3>1, <3>2
  <2> QED  BY <1>2, <2>1 DEF GoneAreDone, Tracks
<1>8. Choosing'
  <2>1. ASSUME NEW t \in present'
        PROVE  pos[t] <= Len(song[t]) /\ TimeOf(song, nextKey) <= TimeOf(song, Ahead(t))
    <3>1. pos[t] <= Len(song[t])
      BY <1>4, <2>1 DEF IsEnd
    <3> QED  BY <1>1, <2>1, <3>1 DEF Sleeping
  <2> QED  BY <1>2, <1>3, <2>1 DEF Choosing, Ahead
<1>9. SoundedPassed'
  <2>1. ASSUME NEW j \in Keys(song) PROVE sounded'[j] = IF Passed(j)' THEN 1 ELSE 0
    <3>1. sounded[j] = IF Passed(j) THEN 1 ELSE 0
      BY <1>1 DEF SoundedPassed
    <3>2. Passed(j)' <=> /\ KindOf(song, j) = "note" /\ TimeOf(song, j) < EndTime(song)
                         /\ j[2] < pos[j[1]]
      BY <1>2 DEF Passed
    <3>3. CASE j # nextKey
      <4>1. sounded'[j] = sounded[j]
        BY <1>1, <1>3, <3>3 DEF TypeOK
      <4>2. Passed(j)' <=> Passed(j)
        BY <3>2, <3>3 DEF Passed
      <4> QED  BY <3>1, <4>1, <4>2
    <3>4. CASE j = nextKey
      <4>1. ~Passed(j)
        BY <3>4 DEF Passed
      <4>2. CASE KindOf(song, j) # "note"
        BY <3>1, <3>2, <3>4, <4>1, <4>2
      <4>3. CASE KindOf(song, j) = "note"
        <5>1. /\ TimeOf(song, j) < EndTime(song) /\ j[1] = nextTrack /\ j[2] = pos[nextTrack] - 1
          BY <3>4, <4>3, Awake
        <5>2. nextTrack \in Tracks(song)
          BY <1>1 DEF Sleeping
        <5>3. Passed(j)'
          BY <1>4, <3>2, <4>3, <5>1, <5>2
        <5>4. sounded'[j] = 1
          BY <1>1, <1>3, <3>4, <4>3 DEF TypeOK
        <5> QED  BY <5>3, <5>4
      <4> QED  BY <4>2, <4>3
    <3> QED  BY <3>3, <3>4
  <2>2. sounded'[Sentinel] = 0
    BY <1>1, <1>3, SongFacts DEF SoundedPassed, TypeOK, Sentinel
  <2> QED  BY <1>2, <2>1, <2>2 DEF SoundedPassed, Keys, Tracks
<1> QED
  BY <1>2, <1>6, <1>7, <1>8, <1>9 DEF IInv

(* In a turn that plays anything but an End of Track, every track in the   *)
(* list has a key left.                                                    *)
LEMMA NoneEnds ==
  ASSUME IInv, at = "sleeping", AllTerminated, Kind(nextKey) # "end"
  PROVE  /\ \A t \in present : ~IsEnd(t)
         /\ nextKey # EndKey(song) /\ nextKey[1] = nextTrack
         /\ TimeOf(song, nextKey) < EndTime(song)
<1>1. TypeOK /\ Sleeping /\ IsSong(song)
  BY RepertoireAssumption DEF IInv, TypeOK
<1>2. nextKey # EndKey(song) /\ ~IsEnd(nextTrack)
  BY Awake
<1>3. ASSUME NEW t \in present PROVE ~IsEnd(t)
  <2>1. t = nextTrack \/ pos[t] <= Len(song[t])
    BY <1>1 DEF Sleeping
  <2>2. pos[t] \in Nat /\ Len(song[t]) \in Nat
    BY <1>1, SongFacts DEF TypeOK
  <2> QED  BY <1>2, <2>1, <2>2 DEF IsEnd
<1> QED
  BY <1>2, <1>3, Awake

LEMMA SoundNoteStep ==
  ASSUME IInv, AllTerminated, SoundNote
  PROVE  /\ IInv' /\ at = "sleeping" /\ at' = "choose" /\ song' = song
         /\ sounded' = [sounded EXCEPT ![nextKey] = 1]
         /\ nextKey \in Keys(song) /\ sounded[nextKey] = 0
         /\ KindOf(song, nextKey) = "note" /\ TimeOf(song, nextKey) < EndTime(song)
<1>1. at = "sleeping" /\ Kind(nextKey) = "note" /\ TurnEnds /\ UNCHANGED <<present, tempo>>
  BY DEF SoundNote
<1>2. KindOf(song, nextKey) = "note" /\ nextKey \in Keys(song) /\ TypeOK
  BY <1>1, Awake DEF IInv
<1>3. sounded[nextKey] = 0
  BY <1>1, <1>2 DEF IInv, Begun, SoundedPassed, Passed
<1>4. sounded' = [sounded EXCEPT ![nextKey] = 1]
  BY <1>3 DEF SoundNote
<1>5. \A t \in present' : ~IsEnd(t)
  BY <1>1, NoneEnds
<1>6. IInv'
  BY <1>1, <1>2, <1>4, <1>5, TurnEndsStep DEF TypeOK
<1> QED
  BY <1>1, <1>2, <1>3, <1>4, <1>6, NoneEnds DEF TurnEnds

LEMMA SilentStep ==
  ASSUME IInv, AllTerminated, SetTempo \/ Ignore \/ EndOfTrack
  PROVE  /\ IInv' /\ at = "sleeping" /\ at' = "choose" /\ UNCHANGED <<song, sounded>>
<1>1. at = "sleeping" /\ TurnEnds /\ tempo' \in {0, 1} /\ sounded' = sounded /\ TypeOK
  BY DEF SetTempo, Ignore, EndOfTrack, IInv, TypeOK
<1>2. KindOf(song, nextKey) # "note"
  BY <1>1, Awake DEF SetTempo, Ignore, EndOfTrack
<1>3. CASE SetTempo \/ Ignore
  <2>1. present' = present /\ Kind(nextKey) # "end"
    BY <1>3 DEF SetTempo, Ignore
  <2> QED  BY <1>1, <1>2, <2>1, NoneEnds, TurnEndsStep DEF TurnEnds
<1>4. CASE EndOfTrack
  <2>1. present' = (IF IsEnd(nextTrack) THEN present \ {nextTrack} ELSE present)
    BY <1>4 DEF EndOfTrack, Remaining
  <2>2. ASSUME NEW t \in present' PROVE ~IsEnd(t)
    <3>1. Sleeping /\ IsSong(song) /\ t \in Tracks(song)
      BY <1>1, <2>1, RepertoireAssumption DEF IInv, TypeOK
    <3>2. t = nextTrack \/ pos[t] <= Len(song[t])
      BY <2>1, <3>1 DEF Sleeping
    <3>3. pos[t] \in Nat /\ Len(song[t]) \in Nat
      BY <1>1, <3>1, SongFacts DEF TypeOK
    <3> QED  BY <2>1, <3>2, <3>3 DEF IsEnd
  <2>3. present' \subseteq present /\ \A t \in present \ present' : IsEnd(t)
    BY <2>1
  <2> QED  BY <1>1, <1>2, <2>2, <2>3, TurnEndsStep DEF TurnEnds
<1> QED
  BY <1>1, <1>3, <1>4, SetTempo \/ Ignore \/ EndOfTrack DEF TurnEnds

LEMMA EndOfSongStep ==
  ASSUME IInv, AllTerminated, EndOfSong
  PROVE  /\ IInv' /\ at = "sleeping" /\ at' = "finished" /\ UNCHANGED <<song, sounded>>
         /\ \A k \in Keys(song) :
              KindOf(song, k) = "note" /\ TimeOf(song, k) < EndTime(song) => sounded[k] = 1
<1>1. /\ at = "sleeping" /\ at' = "finished" /\ present' = {} /\ Remaining = {}
      /\ Kind(nextKey) = "end"
      /\ UNCHANGED <<song, pos, nextKey, nextTrack, lastTime, tempo, sounded>>
  BY DEF EndOfSong
<1>2. TypeOK /\ IsSong(song) /\ GoneAreDone /\ SoundedPassed
  BY <1>1, RepertoireAssumption DEF IInv, TypeOK, Begun
<1>3. TypeOK'
  BY <1>1, <1>2 DEF TypeOK, Places, Tracks, Keys
<1>4. ASSUME NEW k \in Keys(song), KindOf(song, k) = "note", TimeOf(song, k) < EndTime(song)
      PROVE  sounded[k] = 1
  <2>1. /\ k[1] \in Tracks(song) /\ k[2] \in Nat /\ k[2] <= Len(song[k[1]])
        /\ Len(song[k[1]]) \in Nat /\ pos[k[1]] \in Nat
    BY <1>2, SongFacts DEF TypeOK
  <2>2. pos[k[1]] > Len(song[k[1]])
    <3>1. CASE k[1] \notin present
      BY <1>2, <2>1, <3>1 DEF GoneAreDone
    <3>2. CASE k[1] \in present
      BY <1>1, <3>2 DEF Remaining, IsEnd
    <3> QED  BY <3>1, <3>2
  <2>3. k # nextKey
    BY <1>1, <1>4, Awake
  <2>4. Passed(k)
    BY <1>4, <2>1, <2>2, <2>3 DEF Passed
  <2> QED  BY <1>2, <2>4 DEF SoundedPassed
<1> QED
  BY <1>1, <1>3, <1>4 DEF IInv, Begun

-----------------------------------------------------------------------------
(* The theorems. *)

LEMMA NextIInv ==
  ASSUME IInv, AllTerminated, [Next]_vars PROVE IInv'
<1>1. CASE Next
  BY <1>1, ChooseEarliestStep, ChooseNothingStep, NullTrackStep, SoundNoteStep, SilentStep,
     EndOfSongStep, InterruptStep DEF Next, Turn
<1>2. CASE UNCHANGED vars
  BY <1>2 DEF vars, IInv, TypeOK, Tracks, Keys, Begun, GoneAreDone, SoundedPassed, Passed,
     Choosing, Sleeping, Ahead
<1> QED
  BY <1>1, <1>2

(* The loop is an ordered merge: for every repertoire of songs whose       *)
(* tracks end with their only End of Track, each note before the song's    *)
(* last tick is passed to onKey once, no note before an earlier one, and   *)
(* the song finishes only when all of them have been (syncSequence).       *)
THEOREM LoopMergesTracks ==
  ASSUME AllTerminated
  PROVE  Spec => PlaysInOrder
<1> DEFINE Heard == {k \in Keys(song) \cup {Sentinel} : sounded[k] > 0}
           Out == CASE at = "finished" -> "finished"
                    [] at \in {"interrupted", "failed"} -> "stopped"
                    [] OTHER -> "playing"
<1>0. /\ \A s : Merge!Keys(s) = Keys(s)
      /\ \A s, k : Merge!TimeOf(s, k) = TimeOf(s, k)
      /\ \A s : Merge!Due(s) = {k \in Keys(s) : KindOf(s, k) = "note" /\ TimeOf(s, k) < EndTime(s)}
  BY DEF Merge!Keys, Merge!Tracks, Merge!TimeOf, Merge!KindOf, Merge!Due, Merge!EndTime, Merge!EndKey,
     Merge!EndTrack, Merge!LastKey, Keys, Tracks, TimeOf, KindOf, EndTime, EndKey, EndTrack, LastKey
<1>1. Init => Merge!Init
  <2> SUFFICES ASSUME Init PROVE Merge!Init
    OBVIOUS
  <2>1. Heard = {}
    BY DEF Init
  <2>2. Out = "playing"
    BY DEF Init
  <2> QED  BY <2>1, <2>2 DEF Init, Merge!Init
<1>2. IInv /\ [Next]_vars => [Merge!Next]_<<song, Heard, Out>>
  <2> SUFFICES ASSUME IInv, [Next]_vars PROVE [Merge!Next]_<<song, Heard, Out>>
    OBVIOUS
  <2>1. CASE SoundNote
    <3>1. /\ at = "sleeping" /\ at' = "choose" /\ song' = song
          /\ sounded' = [sounded EXCEPT ![nextKey] = 1]
          /\ nextKey \in Keys(song) /\ sounded[nextKey] = 0
          /\ KindOf(song, nextKey) = "note" /\ TimeOf(song, nextKey) < EndTime(song)
      BY <2>1, SoundNoteStep
    <3>2. Out = "playing" /\ Out' = "playing"
      BY <3>1
    <3>3. Heard' = Heard \cup {nextKey}
      <4>1. \A k \in Keys(song) \cup {Sentinel} : sounded'[k] = IF k = nextKey THEN 1 ELSE sounded[k]
        BY <3>1 DEF IInv, TypeOK
      <4>2. Keys(song') = Keys(song)
        BY <3>1
      <4> QED  BY <3>1, <4>1, <4>2
    <3>4. nextKey \in Merge!Due(song) \ Heard
      BY <1>0, <3>1
    <3>5. ASSUME NEW j \in Merge!Due(song), TimeOf(song, j) < TimeOf(song, nextKey) PROVE j \in Heard
      <4>1. IsSong(song) /\ TypeOK /\ Sleeping /\ GoneAreDone /\ SoundedPassed
        BY <3>1, RepertoireAssumption DEF IInv, TypeOK, Begun
      <4>2. /\ j \in Keys(song) /\ KindOf(song, j) = "note" /\ TimeOf(song, j) < EndTime(song)
            /\ j[1] \in Tracks(song) /\ j[2] \in Nat \ {0} /\ j[2] <= Len(song[j[1]])
            /\ TimeOf(song, j) \in Nat /\ TimeOf(song, nextKey) \in Nat
            /\ pos[j[1]] \in Nat \ {0} /\ Len(song[j[1]]) \in Nat
        BY <1>0, <3>1, <3>5, <4>1, SongFacts DEF TypeOK
      <4>3. j[2] < pos[j[1]]
        <5>1. SUFFICES ASSUME pos[j[1]] <= j[2] PROVE FALSE
          BY <4>2
        <5>2. j[1] \in present /\ pos[j[1]] <= Len(song[j[1]])
          BY <4>1, <4>2, <5>1 DEF GoneAreDone
        <5>3. Ahead(j[1]) \in Keys(song)
          BY <4>1, <4>2, <5>2, SongFacts DEF Ahead
        <5>4. TimeOf(song, Ahead(j[1])) <= TimeOf(song, j) /\ TimeOf(song, Ahead(j[1])) \in Nat
          BY <4>1, <4>2, <5>1, <5>3, SongFacts DEF Ahead
        <5>5. TimeOf(song, nextKey) <= TimeOf(song, Ahead(j[1]))
          BY <4>1, <5>2 DEF Sleeping
        <5> QED  BY <3>5, <4>2, <5>4, <5>5
      <4>4. j # nextKey
        BY <3>5, <4>2
      <4>5. sounded[j] = 1
        BY <4>1, <4>2, <4>3, <4>4 DEF SoundedPassed, Passed
      <4> QED  BY <4>2, <4>5
    <3>6. \E k \in Merge!Keys(song) : Merge!Sound(k)
      <4>0. PICK k \in Merge!Keys(song) : k = nextKey
        BY <1>0, <3>1
      <4>1. \A j \in Merge!Due(song) : Merge!TimeOf(song, j) < Merge!TimeOf(song, k) => j \in Heard
        BY <1>0, <3>5, <4>0
      <4>2. song' = song /\ Out' = Out
        BY <3>1, <3>2
      <4>3. Merge!Sound(k)
        BY <3>2, <3>3, <3>4, <4>0, <4>1, <4>2, Zenon DEF Merge!Sound
      <4> QED  BY <4>3
    <3> QED  BY <3>6 DEF Merge!Next
  <2>2. CASE EndOfSong
    <3>1. /\ at = "sleeping" /\ at' = "finished" /\ UNCHANGED <<song, sounded>>
          /\ \A k \in Keys(song) :
               KindOf(song, k) = "note" /\ TimeOf(song, k) < EndTime(song) => sounded[k] = 1
      BY <2>2, EndOfSongStep
    <3>2. Out = "playing" /\ Out' = "finished" /\ Heard' = Heard
      BY <3>1
    <3>3. Merge!Due(song) \subseteq Heard
      BY <1>0, <3>1
    <3>4. Merge!Finish
      BY <3>1, <3>2, <3>3 DEF Merge!Finish
    <3> QED  BY <3>4 DEF Merge!Next
  <2>3. CASE NullTrack \/ Interrupt
    <3>1. at \in {"choose", "sleeping"} /\ at' \in {"failed", "interrupted"} /\ UNCHANGED <<song, sounded>>
      BY <2>3, NullTrackStep, InterruptStep
    <3>2. Out = "playing" /\ Out' = "stopped" /\ Heard' = Heard
      BY <3>1
    <3> QED  BY <3>1, <3>2 DEF Merge!Next, Merge!Stop
  <2>4. CASE ChooseEarliest \/ ChooseNothing \/ SetTempo \/ Ignore \/ EndOfTrack
    <3>1. at' \in {"choose", "sleeping"} /\ at \in {"choose", "sleeping"} /\ UNCHANGED <<song, sounded>>
      BY <2>4, ChooseEarliestStep, ChooseNothingStep, SilentStep DEF ChooseEarliest, ChooseNothing
    <3>2. Out = "playing" /\ Out' = "playing" /\ Heard' = Heard
      BY <3>1
    <3> QED  BY <3>1, <3>2
  <2>5. CASE UNCHANGED vars
    BY <2>5 DEF vars
  <2> QED
    BY <2>1, <2>2, <2>3, <2>4, <2>5 DEF Next, Turn
<1>3. Spec => []IInv
  BY InitIInv, NextIInv, PTL DEF Spec
<1> QED
  BY <1>1, <1>2, <1>3, PTL DEF Spec, PlaysInOrder, Merge!Spec

-----------------------------------------------------------------------------
(* How a song ends. *)

(* The order in which the search takes keys: by time, then by track.       *)
NotAfter(j, k) == \/ TimeOf(song, j) < TimeOf(song, k)
                  \/ TimeOf(song, j) = TimeOf(song, k) /\ j[1] <= k[1]

(* As long as no track has been taken, none has moved.                     *)
NoneMoved == nextTrack = 0 => present = Tracks(song) /\ \A t \in Tracks(song) : pos[t] = 1

(* The last key taken before the last tick was nextTrack's: the tracks     *)
(* have passed none after it and are at none before it.                    *)
TakenLast(k) ==
  /\ k \in Before /\ k[1] = nextTrack /\ k[2] < pos[nextTrack]
  /\ \A j \in Before : j[2] < pos[j[1]] => NotAfter(j, k)
  /\ \A t \in present : pos[t] <= Len(song[t]) /\ Ahead(t) \in Before => NotAfter(k, Ahead(t))
TookLast == nextTrack # 0 => \E k \in Keys(song) : TakenLast(k)

(* A track that has passed a key of the last tick is nextTrack, and then   *)
(* no track is at an earlier key.                                          *)
PassedTick(t) == pos[t] > 1 /\ TimeOf(song, <<t, pos[t] - 1>>) = EndTime(song)
OnePassesTick ==
  \A t \in Tracks(song) : PassedTick(t) =>
    /\ t = nextTrack
    /\ \A u \in present : pos[u] <= Len(song[u]) => Ahead(u) \notin Before

EndInv ==
  /\ SoundedOnce /\ FailsOnlyAtOnce /\ OnlyThenFinishes
  /\ Begun => NoneMoved /\ TookLast /\ OnePassesTick

LEMMA InitEndInv == ASSUME Init PROVE EndInv
<1>1. IsSong(song)
  BY RepertoireAssumption DEF Init
<1>2. SoundedOnce
  BY DEF Init, SoundedOnce
<1>3. NoneMoved /\ TookLast
  BY DEF Init, NoneMoved, TookLast
<1>4. OnePassesTick
  BY <1>1, SongFacts DEF Init, OnePassesTick, PassedTick
<1> QED
  BY <1>2, <1>3, <1>4 DEF Init, EndInv, FailsOnlyAtOnce, OnlyThenFinishes

(* What advancing a track does to its position.                            *)
LEMMA Advances ==
  ASSUME IInv, NEW t \in Tracks(song), pos' = Advance(t)
  PROVE  /\ IsSong(song)
         /\ \A u \in Tracks(song) : /\ pos[u] \in Nat \ {0} /\ Len(song[u]) \in Nat \ {0}
                                    /\ pos[u] <= Len(song[u]) + 1
                                    /\ u # t => pos'[u] = pos[u]
         /\ pos[t] <= Len(song[t]) => pos'[t] = pos[t] + 1
         /\ pos[t] > Len(song[t]) => pos'[t] = pos[t]
<1>1. IsSong(song) /\ TypeOK
  BY RepertoireAssumption DEF IInv, TypeOK
<1>2. \A u \in Tracks(song) : /\ pos[u] \in Nat \ {0} /\ Len(song[u]) \in Nat \ {0}
                              /\ pos[u] <= Len(song[u]) + 1
  BY <1>1, SongFacts DEF TypeOK
<1>3. pos \in [Tracks(song) -> Nat \ {0}]
  BY <1>1 DEF TypeOK
<1>4. \A u \in Tracks(song) : pos'[u] = IF u = t THEN (IF pos[t] > Len(song[t]) THEN pos[t] ELSE pos[t] + 1)
                                                 ELSE pos[u]
  BY <1>3 DEF Advance
<1> QED
  BY <1>1, <1>2, <1>4

LEMMA EarliestKeepsOrder ==
  ASSUME IInv, NoneMoved, TookLast, OnePassesTick, ChooseEarliest
  PROVE  (NoneMoved /\ TookLast /\ OnePassesTick)'
<1>1. PICK t \in Tracks(song) : IsEarliest(t) /\ Take(Get(t), t)
  BY DEF ChooseEarliest
<1>2. at = "choose" /\ t \in present /\ Time(Get(t)) < Time(nextKey)
  BY <1>1 DEF ChooseEarliest, IsEarliest, Earlier
<1>3. /\ Get(t) = Ahead(t) /\ Ahead(t) \in Keys(song) /\ TimeOf(song, Ahead(t)) \in Nat
      /\ TimeOf(song, Ahead(t)) < EndTime(song) /\ ~IsEnd(t) /\ EndTime(song) \in Nat
  BY <1>2, Searched, AtEndKey
<1>4. /\ nextKey' = Ahead(t) /\ nextTrack' = t /\ pos' = Advance(t)
      /\ UNCHANGED <<song, present>>
  BY <1>1, <1>3 DEF Take
<1>5. /\ IsSong(song)
      /\ \A u \in Tracks(song) : /\ pos[u] \in Nat \ {0} /\ Len(song[u]) \in Nat \ {0}
                                 /\ pos[u] <= Len(song[u]) + 1
                                 /\ u # t => pos'[u] = pos[u]
      /\ pos[t] <= Len(song[t]) /\ pos'[t] = pos[t] + 1
  BY <1>3, <1>4, Advances DEF IsEnd
<1>6. Ahead(t) \in Before /\ t \in Nat \ {0}
  BY <1>3, <1>5, SongFacts DEF Before
<1>7. NoneMoved'
  BY <1>4, <1>6 DEF NoneMoved
<1>8. OnePassesTick'
  <2>1. \A u \in Tracks(song) : ~PassedTick(u)
    BY <1>2, <1>5, <1>6 DEF OnePassesTick
  <2>2. ASSUME NEW u \in Tracks(song) PROVE ~PassedTick(u)'
    <3>1. CASE u # t
      BY <1>4, <1>5, <2>1, <3>1 DEF PassedTick
    <3>2. CASE u = t
      BY <1>3, <1>4, <1>5, <3>2 DEF PassedTick, Ahead
    <3> QED  BY <3>1, <3>2
  <2> QED  BY <1>4, <2>2 DEF OnePassesTick
<1>9. TookLast'
  <2>1. PICK k \in Keys(song) : k = Ahead(t)
    BY <1>3
  <2>2. k \in Before /\ k[1] = t /\ k[2] = pos[t] /\ TimeOf(song, k) \in Nat
    BY <1>3, <1>6, <2>1 DEF Ahead
  <2>3. ASSUME NEW j \in Before, j[2] < pos'[j[1]] PROVE NotAfter(j, k)
    <3>1. /\ j \in Keys(song) /\ j[1] \in Tracks(song) /\ j[1] \in Nat /\ j[2] \in Nat \ {0}
          /\ TimeOf(song, j) \in Nat /\ j = <<j[1], j[2]>>
      BY <1>5, SongFacts DEF Before
    <3>2. CASE j[2] < pos[j[1]]
      <4>1. nextTrack # 0
        BY <3>1, <3>2 DEF NoneMoved
      <4>2. PICK l \in Keys(song) : TakenLast(l)
        BY <4>1 DEF TookLast
      <4>3. NotAfter(j, l) /\ NotAfter(l, k)
        BY <1>2, <1>5, <1>6, <2>1, <3>2, <4>2 DEF TakenLast
      <4>4. TimeOf(song, l) \in Nat /\ l[1] \in Nat
        BY <1>5, SongFacts
      <4> QED  BY <1>6, <2>2, <3>1, <4>3, <4>4 DEF NotAfter
    <3>3. CASE ~(j[2] < pos[j[1]])
      <4>1. j[1] = t /\ j[2] = pos[t]
        BY <1>5, <2>3, <3>1, <3>3
      <4> QED  BY <2>1, <2>2, <3>1, <4>1 DEF NotAfter, Ahead
    <3> QED  BY <3>2, <3>3
  <2>4. ASSUME NEW u \in present, pos'[u] <= Len(song[u]), <<u, pos'[u]>> \in Before
        PROVE  NotAfter(k, <<u, pos'[u]>>)
    <3>1. u \in Tracks(song)
      BY DEF IInv, TypeOK
    <3>2. CASE u # t
      <4>1. <<u, pos'[u]>> = Ahead(u) /\ TimeOf(song, Ahead(u)) < EndTime(song)
        BY <1>5, <2>4, <3>1, <3>2 DEF Ahead, Before
      <4>2. Time(Get(u)) = TimeOf(song, Ahead(u)) /\ TimeOf(song, Ahead(u)) \in Nat
        BY <1>2, Searched
      <4>3. u \in Earlier
        BY <1>2, <4>1, <4>2, AtEndKey DEF Earlier
      <4>4. Time(Get(t)) = TimeOf(song, k)
        BY <1>2, <2>1, Searched
      <4> QED  BY <1>1, <2>2, <4>1, <4>2, <4>3, <4>4 DEF IsEarliest, NotAfter
    <3>3. CASE u = t
      <4>1. TimeOf(song, k) <= TimeOf(song, <<t, pos'[t]>>)
        BY <1>5, <2>2, <2>4, <3>3, SongFacts DEF Before
      <4>2. TimeOf(song, <<t, pos'[t]>>) \in Nat
        BY <1>5, <2>4, <3>3, SongFacts DEF Before
      <4> QED  BY <1>6, <2>2, <3>3, <4>1, <4>2 DEF NotAfter
    <3> QED  BY <3>2, <3>3
  <2>5. TakenLast(k)'
    BY <1>4, <1>5, <2>2, <2>3, <2>4 DEF TakenLast, NotAfter, Before, Ahead
  <2>6. Keys(song') = Keys(song)
    BY <1>4
  <2> QED  BY <2>5, <2>6 DEF TookLast
<1> QED
  BY <1>7, <1>8, <1>9

LEMMA NothingKeepsOrder ==
  ASSUME IInv, NoneMoved, TookLast, OnePassesTick, ChooseNothing
  PROVE  (NoneMoved /\ TookLast /\ OnePassesTick)'
<1> DEFINE t == nextTrack
<1>1. at = "choose" /\ t \in Tracks(song) /\ t # 0 /\ TypeOK /\ GoneAreDone /\ Earlier = {}
  BY DEF ChooseNothing, IInv, TypeOK, Begun
<1>2. nextTrack' = t /\ pos' = Advance(t) /\ UNCHANGED <<song, present>>
  BY DEF ChooseNothing, Take
<1>3. /\ IsSong(song)
      /\ \A u \in Tracks(song) : /\ pos[u] \in Nat \ {0} /\ Len(song[u]) \in Nat \ {0}
                                 /\ pos[u] <= Len(song[u]) + 1
                                 /\ u # t => pos'[u] = pos[u]
      /\ pos[t] <= Len(song[t]) => pos'[t] = pos[t] + 1
      /\ pos[t] > Len(song[t]) => pos'[t] = pos[t]
  <2> HIDE DEF t
  <2> QED  BY <1>1, <1>2, Advances
<1>4. ASSUME NEW u \in present PROVE Ahead(u) \notin Before
  <2>1. /\ Time(Get(u)) = TimeOf(song, Ahead(u)) /\ TimeOf(song, Ahead(u)) \in Nat
        /\ Time(nextKey) = EndTime(song) /\ EndTime(song) \in Nat
    BY <1>1, Searched, AtEndKey
  <2> QED  BY <1>1, <2>1 DEF Earlier, Before
<1>5. ASSUME NEW u \in present, pos'[u] <= Len(song[u]) PROVE <<u, pos'[u]>> \notin Before
  <2>1. u \in Tracks(song) /\ Ahead(u) \in Keys(song) /\ pos[u] <= pos'[u] /\ pos'[u] \in Nat \ {0}
    BY <1>1, <1>3, Searched
  <2>2. <<u, pos'[u]>> \in Keys(song)
    BY <1>3, <1>5, <2>1, SongFacts
  <2>3. /\ TimeOf(song, Ahead(u)) <= TimeOf(song, <<u, pos'[u]>>) /\ TimeOf(song, Ahead(u)) \in Nat
        /\ TimeOf(song, <<u, pos'[u]>>) \in Nat /\ EndTime(song) \in Nat
    BY <1>1, <1>3, <2>1, <2>2, SongFacts, AtEndKey DEF Ahead
  <2> QED  BY <1>4, <2>1, <2>3 DEF Before
<1>6. NoneMoved'
  BY <1>1, <1>2 DEF NoneMoved
<1>7. OnePassesTick'
  <2>1. ASSUME NEW u \in Tracks(song), PassedTick(u)' PROVE u = t
    <3>1. SUFFICES ASSUME u # t PROVE FALSE
      OBVIOUS
    <3>2. PassedTick(u)
      BY <1>2, <1>3, <2>1, <3>1 DEF PassedTick
    <3> QED  BY <3>1, <3>2 DEF OnePassesTick
  <2> QED  BY <1>2, <1>5, <2>1 DEF OnePassesTick, Ahead, Before
<1>8. TookLast'
  <2>1. PICK k \in Keys(song) : TakenLast(k)
    BY <1>1 DEF TookLast
  <2>2. k \in Before /\ k[1] = t /\ k[2] < pos[t] /\ k[2] \in Nat
    BY <1>3, <2>1, SongFacts DEF TakenLast
  <2>3. k[2] < pos'[t]
    BY <1>1, <1>3, <2>2
  <2>4. ASSUME NEW j \in Before, j[2] < pos'[j[1]] PROVE NotAfter(j, k)
    <3>1. /\ j \in Keys(song) /\ j[1] \in Tracks(song) /\ j[2] \in Nat \ {0} /\ j = <<j[1], j[2]>>
          /\ j[2] <= Len(song[j[1]])
      BY <1>3, SongFacts DEF Before
    <3>2. j[2] < pos[j[1]]
      <4>1. SUFFICES ASSUME ~(j[2] < pos[j[1]]) PROVE FALSE
        OBVIOUS
      <4>2. j[1] = t /\ j[2] = pos[t]
        BY <1>3, <2>4, <3>1, <4>1
      <4>3. t \in present
        BY <1>1, <1>3, <3>1, <4>2 DEF GoneAreDone
      <4> QED  BY <1>4, <3>1, <4>2, <4>3 DEF Ahead
    <3> QED  BY <2>1, <3>2 DEF TakenLast
  <2>5. TakenLast(k)'
    BY <1>2, <1>5, <2>2, <2>3, <2>4 DEF TakenLast, NotAfter, Before, Ahead
  <2>6. Keys(song') = Keys(song) /\ k \in Keys(song)
    BY <1>2
  <2> QED  BY <2>5, <2>6 DEF TookLast
<1> QED
  BY <1>6, <1>7, <1>8

(* A turn that only plays moves no track.                                  *)
LEMMA PlayingKeepsOrder ==
  ASSUME NoneMoved, TookLast, OnePassesTick,
         nextTrack # 0, present' \subseteq present, UNCHANGED <<song, pos, nextTrack>>
  PROVE  (NoneMoved /\ TookLast /\ OnePassesTick)'
<1>1. NoneMoved'
  BY DEF NoneMoved
<1>2. TookLast'
  <2>1. PICK k \in Keys(song) : TakenLast(k)
    BY DEF TookLast
  <2>2. TakenLast(k)'
    BY <2>1 DEF TakenLast, NotAfter, Before, Ahead
  <2>3. Keys(song') = Keys(song)
    OBVIOUS
  <2> QED  BY <2>2, <2>3 DEF TookLast
<1>3. OnePassesTick'
  BY DEF OnePassesTick, PassedTick, Ahead, Before
<1> QED
  BY <1>1, <1>2, <1>3

(* When the list becomes empty, every track has been advanced to its end:  *)
(* nextTrack alone past the last tick, and the key before it was its own.  *)
LEMMA EndsByItselfOnly ==
  ASSUME IInv, AllTerminated, TookLast, OnePassesTick, EndOfSong
  PROVE  EndsByItself
<1> DEFINE t == nextTrack
<1>1. /\ at = "sleeping" /\ Remaining = {} /\ IsSong(song) /\ TypeOK /\ GoneAreDone
      /\ t \in Tracks(song) /\ t # 0
  BY RepertoireAssumption, SongFacts DEF EndOfSong, IInv, TypeOK, Begun, Sleeping
<1>2. ASSUME NEW u \in Tracks(song) PROVE pos[u] = Len(song[u]) + 1
  <2>1. pos[u] \in Nat /\ Len(song[u]) \in Nat /\ pos[u] <= Len(song[u]) + 1
    BY <1>1, SongFacts DEF TypeOK
  <2>2. CASE u \notin present
    BY <1>1, <2>2 DEF GoneAreDone
  <2>3. CASE u \in present
    BY <1>1, <2>1, <2>3 DEF Remaining, IsEnd
  <2> QED  BY <2>2, <2>3
<1>3. ASSUME NEW u \in Reaching PROVE u = t
  <2>1. /\ u \in Tracks(song) /\ TimeOf(song, <<u, Len(song[u])>>) = EndTime(song)
        /\ Len(song[u]) \in Nat \ {0}
    BY <1>1, SongFacts DEF Reaching, LastKey
  <2>2. PassedTick(u)
    BY <1>2, <2>1 DEF PassedTick
  <2> QED  BY <2>1, <2>2 DEF OnePassesTick
<1>4. EndTrack(song) \in Reaching
  BY <1>1, EndTrackExists DEF Reaching, EndTime, EndKey
<1>5. Reaching = {t}
  BY <1>3, <1>4
<1>6. PICK k \in Keys(song) : TakenLast(k)
  BY <1>1 DEF TookLast
<1>7. ASSUME NEW j \in Before PROVE NotAfter(j, k)
  <2>1. /\ j[1] \in Tracks(song) /\ j[2] \in Nat /\ j[2] <= Len(song[j[1]])
        /\ Len(song[j[1]]) \in Nat
    BY <1>1, SongFacts DEF Before
  <2>2. j[2] < pos[j[1]]
    BY <1>2, <2>1
  <2> QED  BY <1>6, <2>2 DEF TakenLast
<1>8. CameLast(t)
  BY <1>6, <1>7 DEF CameLast, TakenLast, NotAfter
<1> QED
  BY <1>1, <1>5, <1>8 DEF EndsByItself

(* The thread dies of a song without a key before its last tick.           *)
LEMMA FailsAtOnce ==
  ASSUME IInv, NoneMoved, NullTrack
  PROVE  Before = {} /\ \A k \in DOMAIN sounded : sounded[k] = 0
<1>1. /\ at = "choose" /\ Earlier = {} /\ nextTrack = 0 /\ IsSong(song) /\ TypeOK /\ SoundedPassed
      /\ present = Tracks(song) /\ \A t \in Tracks(song) : pos[t] = 1
  BY RepertoireAssumption DEF NullTrack, IInv, TypeOK, Begun, NoneMoved
<1>2. ASSUME NEW k \in Keys(song) PROVE ~(TimeOf(song, k) < EndTime(song)) /\ ~Passed(k)
  <2>1. /\ k[1] \in Tracks(song) /\ k[2] \in Nat \ {0} /\ TimeOf(song, k) \in Nat
    BY <1>1, SongFacts
  <2>2. /\ Ahead(k[1]) \in Keys(song) /\ TimeOf(song, Ahead(k[1])) \in Nat
        /\ Time(Get(k[1])) = TimeOf(song, Ahead(k[1]))
    BY <1>1, <2>1, Searched
  <2>3. EndTime(song) <= TimeOf(song, Ahead(k[1])) /\ EndTime(song) \in Nat
    BY <1>1, <2>1, <2>2, AtEndKey DEF Earlier
  <2>4. TimeOf(song, Ahead(k[1])) <= TimeOf(song, k)
    BY <1>1, <2>1, <2>2, SongFacts DEF Ahead
  <2> QED  BY <1>1, <2>1, <2>2, <2>3, <2>4 DEF Passed
<1>3. Before = {}
  BY <1>2 DEF Before
<1>4. \A k \in DOMAIN sounded : sounded[k] = 0
  BY <1>1, <1>2 DEF SoundedPassed, TypeOK
<1> QED
  BY <1>3, <1>4

LEMMA NextEndInv ==
  ASSUME IInv, AllTerminated, EndInv, [Next]_vars PROVE EndInv'
<1>1. IInv'
  BY NextIInv
<1>2. SoundedOnce'
  <2>1. CASE Begun'
    <3>1. SoundedPassed' /\ TypeOK'
      BY <1>1, <2>1 DEF IInv
    <3> QED  BY <3>1 DEF SoundedPassed, SoundedOnce, TypeOK
  <2>2. CASE ~Begun'
    <3>1. sounded' = sounded
      BY <2>2 DEF Next, Turn, ChooseEarliest, ChooseNothing, Take, NullTrack, SoundNote, SetTempo,
         Ignore, EndOfTrack, TurnEnds, EndOfSong, Interrupt, vars, Begun
    <3> QED  BY <3>1 DEF EndInv, SoundedOnce
  <2> QED  BY <2>1, <2>2
<1>3. CASE ChooseEarliest \/ ChooseNothing
  <2>1. at' = "sleeping" /\ at = "choose"
    BY <1>3, ChooseEarliestStep, ChooseNothingStep DEF ChooseEarliest, ChooseNothing
  <2>2. (NoneMoved /\ TookLast /\ OnePassesTick)'
    BY <1>3, <2>1, EarliestKeepsOrder, NothingKeepsOrder DEF EndInv, Begun
  <2> QED  BY <1>2, <2>1, <2>2 DEF EndInv, FailsOnlyAtOnce, OnlyThenFinishes
<1>4. CASE SoundNote \/ SetTempo \/ Ignore \/ EndOfTrack
  <2>1. /\ at = "sleeping" /\ at' = "choose" /\ UNCHANGED <<song, pos, nextTrack>>
        /\ present' \subseteq present
    BY <1>4 DEF SoundNote, SetTempo, Ignore, EndOfTrack, TurnEnds, Remaining
  <2>2. nextTrack # 0
    BY <2>1, RepertoireAssumption, SongFacts DEF IInv, TypeOK, Sleeping
  <2>3. (NoneMoved /\ TookLast /\ OnePassesTick)'
    BY <2>1, <2>2, PlayingKeepsOrder DEF EndInv, Begun
  <2> QED  BY <1>2, <2>1, <2>3 DEF EndInv, FailsOnlyAtOnce, OnlyThenFinishes
<1>5. CASE NullTrack
  <2>1. at = "choose" /\ at' = "failed" /\ UNCHANGED <<song, sounded>>
    BY <1>5, NullTrackStep
  <2>2. Before = {} /\ \A k \in DOMAIN sounded : sounded[k] = 0
    BY <1>5, <2>1, FailsAtOnce DEF EndInv, Begun
  <2>3. FailsOnlyAtOnce'
    BY <2>1, <2>2 DEF FailsOnlyAtOnce, Before
  <2> QED  BY <1>2, <2>1, <2>3 DEF EndInv, OnlyThenFinishes, Begun
<1>6. CASE EndOfSong
  <2>1. at = "sleeping" /\ at' = "finished" /\ song' = song
    BY <1>6 DEF EndOfSong
  <2>2. EndsByItself
    BY <1>6, <2>1, EndsByItselfOnly DEF EndInv, Begun
  <2>3. OnlyThenFinishes'
    BY <2>1, <2>2 DEF OnlyThenFinishes, EndsByItself, Reaching, CameLast, Before
  <2> QED  BY <1>2, <2>1, <2>3 DEF EndInv, FailsOnlyAtOnce, Begun
<1>7. CASE Interrupt
  <2>1. at' = "interrupted"
    BY <1>7 DEF Interrupt
  <2> QED  BY <1>2, <2>1 DEF EndInv, FailsOnlyAtOnce, OnlyThenFinishes, Begun
<1>8. CASE UNCHANGED vars
  BY <1>8 DEF vars, EndInv, SoundedOnce, FailsOnlyAtOnce, OnlyThenFinishes, EndsByItself, Reaching,
     CameLast, Before, Begun, NoneMoved, TookLast, TakenLast, NotAfter, Ahead, OnePassesTick, PassedTick
<1> QED
  BY <1>3, <1>4, <1>5, <1>6, <1>7, <1>8 DEF Next, Turn

(* What a song comes to: for every repertoire of songs whose tracks end    *)
(* with their only End of Track, no note is sounded twice, the loop ends   *)
(* only the songs in which one track alone reaches the last tick and took  *)
(* the last key before it, and the thread dies of nothing but a song       *)
(* without a key before that tick (syncSequence).                          *)
THEOREM SongsEndAsTold ==
  ASSUME AllTerminated
  PROVE  Spec => []Inv
<1>1. Init => IInv /\ EndInv
  BY InitIInv, InitEndInv
<1>2. IInv /\ EndInv /\ [Next]_vars => IInv' /\ EndInv'
  BY NextIInv, NextEndInv
<1>3. IInv /\ EndInv => Inv
  BY DEF IInv, EndInv, Inv
<1> QED
  BY <1>1, <1>2, <1>3, PTL DEF Spec

=============================================================================
