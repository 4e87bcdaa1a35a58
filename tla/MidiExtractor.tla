---------------------------- MODULE MidiExtractor ---------------------------
(***************************************************************************)
(* Reading a MIDI file into a song (tools/SequenceExtractor.java): the     *)
(* head, then chunk after chunk, and in a track event after event, by a    *)
(* cursor that each kind of event moves over its own bytes.                *)
(*                                                                         *)
(* A file is given by what was written into it: scores, sequences of       *)
(* events, of which Encoding gives the bytes that the extractor reads.     *)
(* Abstractions.  The bytes of a chunk's head are its tag: "MTrk", "alien" *)
(* for another, "cut" where the file ends before the chunk does, "short"   *)
(* where the chunk ends a byte before its last event does.  Texts are read *)
(* and left out.                                                           *)
(* Numbers are below 2^31 (bound: the waits of MCMidiExtractor).           *)
(***************************************************************************)
EXTENDS Integers, Sequences, FiniteSets, SequencesExt

CONSTANT Files

VARIABLES
  file,         \* the file being read
  chunk,        \* the number of the chunk being read, 0 for the head
  data,         \* its bytes
  i,            \* the cursor in the chunk's data, from 0
  time,         \* the time in the track
  tracks,       \* the tracks of the sequence: the keys added so far
  outcome       \* "reading", "extracted", "nothing" (no sequence) or "failed"

vars == <<file, chunk, data, i, time, tracks, outcome>>

-----------------------------------------------------------------------------
(* The MIDI file format: events and their bytes. *)

EventKinds == {"on", "off", "control", "program", "tempo", "text", "end", "sysex", "running"}
Events == [kind: EventKinds, wait: Nat, channel: 0..15, note: 0..127, velocity: 0..127]

Quantity(n) == IF n < 128 THEN <<n>> ELSE <<128 + (n \div 128), n % 128>>

Encoding(e) ==
  Quantity(e.wait) \o
    CASE e.kind = "on"      -> <<144 + e.channel, e.note, e.velocity>>
      [] e.kind = "off"     -> <<128 + e.channel, e.note, e.velocity>>
      [] e.kind = "control" -> <<176 + e.channel, e.note, e.velocity>>
      [] e.kind = "program" -> <<192 + e.channel, e.note>>
      [] e.kind = "tempo"   -> <<255, 81, 3, 0, e.note, e.velocity>>
      [] e.kind = "text"    -> <<255, 5, 2, e.note, e.velocity>>
      [] e.kind = "end"     -> <<255, 47, 0>>
      [] e.kind = "sysex"   -> <<240, 2, e.note, 247>>
      [] e.kind = "running" -> <<e.note, e.velocity>>

Data(score) == FlattenSeq([k \in DOMAIN score |-> Encoding(score[k])])
Bytes(c) == IF c.tag = "short" THEN Front(Data(c.score)) ELSE Data(c.score)

-----------------------------------------------------------------------------
(* Keys of the sequence. *)

KeyRecords == [time: Nat, volume: Nat, value: 0..255, channel: {0, 1}, length: Nat, over: BOOLEAN]

(* BarrageKey: a key of a meta event is over at once. *)
Key(t, volume, value, channel) ==
  [time |-> t, volume |-> volume, value |-> value, channel |-> channel,
   length |-> 0, over |-> value > 127]

(* addTime: the keys that are not over grow by the wait. *)
Grown(keys, wait) ==
  [k \in DOMAIN keys |-> IF keys[k].over THEN keys[k] ELSE [keys[k] EXCEPT !.length = @ + wait]]

(* finishKey: the keys of that value and channel are over. *)
Finished(keys, value, channel) ==
  [k \in DOMAIN keys |-> IF keys[k].value = value /\ keys[k].channel = channel
                         THEN [keys[k] EXCEPT !.over = TRUE] ELSE keys[k]]

(* Left and right hand take turns from track to track. *)
Hand(t) == t % 2

-----------------------------------------------------------------------------
TypeOK ==
  /\ file \in Files
  /\ chunk \in 0..Len(file.chunks)
  /\ data \in Seq(0..255) /\ i \in Nat /\ time \in Nat
  /\ tracks \in Seq(Seq(KeyRecords)) /\ Len(tracks) <= chunk
  /\ outcome \in {"reading", "extracted", "nothing", "failed"}

Init ==
  /\ file \in Files
  /\ chunk = 0 /\ data = <<>> /\ i = 0 /\ time = 0
  /\ tracks = <<>>
  /\ outcome = "reading"

End(result) == outcome' = result /\ UNCHANGED <<file, chunk, data, i, time, tracks>>

(* The bytes of the track at hand, from 0 as the code counts them. *)
At(j) == data[j + 1]
Within(j) == j < Len(data)

(* The loop over the track's events goes on. *)
InTrack == outcome = "reading" /\ Within(i + 1)

(* Without MThd there is no sequence; of an unknown format neither, and    *)
(* setTick of it is a failure.                                             *)
ReadHead ==
  /\ outcome = "reading" /\ chunk = 0
  /\ ~file.magic \/ file.format \notin 0..2
  /\ IF file.magic THEN End("failed") ELSE End("nothing")

(* The head was good, or a track has ended: the next chunk, if there is    *)
(* one.                                                                    *)
NextChunk ==
  LET next == file.chunks[chunk + 1] IN
  /\ outcome = "reading" /\ ~Within(i + 1)
  /\ file.magic /\ file.format \in 0..2
  /\ IF chunk = Len(file.chunks) \/ next.tag = "alien" THEN End("extracted")
     ELSE IF next.tag = "cut" THEN End("failed")
     ELSE /\ chunk' = chunk + 1 /\ data' = Bytes(next) /\ i' = 0 /\ time' = 0
          /\ tracks' = Append(tracks, <<>>)
          /\ UNCHANGED <<file, outcome>>

-----------------------------------------------------------------------------
(* The wait before an event, and its status byte. *)

(* Where the wait ends: at the first byte below 128. *)
WaitEnds == {j \in i..Len(data)-1 : At(j) < 128}
LastOfWait == CHOOSE j \in WaitEnds : \A k \in WaitEnds : j <= k

(* Mutant: bytes are added up. *)
WaitSummed(first, last) == FoldLeft(LAMBDA n, b : n + (b % 128), 0, SubSeq(data, first + 1, last + 1))

Wait(first, last) == FoldLeft(LAMBDA n, b : n * 128 + (b % 128), 0, SubSeq(data, first + 1, last + 1))

status == LastOfWait + 1
wait == Wait(i, LastOfWait)
now == time + wait

(* Mutant: an event that moves no cursor is read again. *)
AfterStuck(last) == IF last = status THEN i ELSE last + 1

(* Where the next event begins, of one whose last byte is at last. *)
After(last) == last + 1

(* An event up to byte last leaves the track's keys as keys. *)
Event(last, keys) ==
  /\ i' = After(last)
  /\ time' = now
  /\ tracks' = [tracks EXCEPT ![Len(tracks)] = keys]
  /\ UNCHANGED <<file, chunk, data, outcome>>

(* The kind of an event: by the upper half of its status byte, if that is  *)
(* below 15.                                                               *)
Class == IF At(status) >= 240 THEN At(status) ELSE (At(status) \div 16) * 16

(* The last byte that is looked at: a length is a signed byte. *)
LastRead ==
  CASE ~Within(status) -> status
    [] Within(status) /\ Class = 128 -> status + 1
    [] Within(status) /\ Class = 144 ->
         IF Within(status + 1) /\ At(status + 1) = 0 THEN status + 1 ELSE status + 2
    [] Within(status) /\ Class = 255 ->
         IF ~Within(status + 2) THEN status + 2
         ELSE IF At(status + 2) > 127 THEN Len(data) ELSE status + 2 + At(status + 2)
    [] OTHER -> status

(* Reading on past the track's data is an ArrayIndexOutOfBoundsException.  *)
Readable == WaitEnds # {} /\ Within(LastRead)
Overrun == InTrack /\ ~Readable /\ End("failed")

AtEvent(classes) == InTrack /\ Readable /\ Class \in classes
keys == Grown(Last(tracks), wait)

(* A note that is on becomes a key, but for note 0, which is taken for an  *)
(* end of it; a velocity of 0 is a key's volume.                           *)
NoteOn ==
  /\ AtEvent({144})
  /\ LET value == At(status + 1) IN
     Event(status + 2, IF value = 0 THEN Finished(keys, 0, At(status) % 16)
                       ELSE Append(keys, Key(now, At(status + 2), value, Hand(Len(tracks)))))

NoteOff ==
  /\ AtEvent({128})
  /\ Event(status + 2, Finished(keys, At(status + 1), At(status) % 16))

(* Mutant: the last event of a track is no key. *)
MetaUntilEnd ==
  LET type == At(status + 1)
      last == status + 2 + At(status + 2)
      number == FoldLeft(LAMBDA n, b : n * 256 + b, 0, SubSeq(data, status + 4, last + 1)) IN
  /\ AtEvent({255})
  /\ Event(last, IF type \in 0..7 \cup {47} THEN keys
                 ELSE Append(keys, Key(now, number, 128 + (type % 128), 0)))

(* Texts are kept aside; all else becomes a key, with its number for the   *)
(* volume.                                                                 *)
Meta ==
  LET type == At(status + 1)
      last == status + 2 + At(status + 2)
      number == FoldLeft(LAMBDA n, b : n * 256 + b, 0, SubSeq(data, status + 4, last + 1)) IN
  /\ AtEvent({255})
  /\ Event(last, IF type \in 0..7 THEN keys
                 ELSE Append(keys, Key(now, number, 128 + (type % 128), 0)))

(* Events of one byte, and of two; with no status byte of its own, an      *)
(* event is read as if its first byte were one.                            *)
OneByte == AtEvent({192, 208}) /\ Event(status + 1, keys)
TwoBytes == InTrack /\ Readable /\ Class \notin {128, 144, 192, 208, 240, 255} /\ Event(status + 2, keys)

(* The bytes of a system exclusive message are read as events.             *)
Sysex == AtEvent({240}) /\ Event(status, keys)

Next == ReadHead \/ NextChunk \/ NoteOn \/ NoteOff \/ Meta \/ OneByte \/ TwoBytes \/ Sysex \/ Overrun

Spec == Init /\ [][Next]_vars
FairSpec == Spec /\ WF_vars(Next)

-----------------------------------------------------------------------------
(* What a file says, for the files that the extractor promises to read:    *)
(* whole ones in which every event has its status byte and none is         *)
(* exclusive to a system.                                                  *)

PlainScore(score) ==
  \A k \in DOMAIN score : score[k].kind \notin {"sysex", "running"}

(* The chunks up to the first that is no track. *)
Parts(f) == {c \in DOMAIN f.chunks : \A b \in 1..c : f.chunks[b].tag # "alien"}

Plain(f) ==
  /\ f.magic /\ f.format \in 0..2
  /\ \A c \in Parts(f) : f.chunks[c].tag = "MTrk" /\ PlainScore(f.chunks[c].score)

WaitsUpTo(score, k) == FoldLeftDomain(LAMBDA t, j : t + score[j].wait, 0, SubSeq(score, 1, k))

IsKey(e) == e.kind \in {"tempo", "end"} \/ (e.kind = "on" /\ e.note # 0)
KeyEvents(score) == SelectSeq([k \in DOMAIN score |-> k], LAMBDA k : IsKey(score[k]))

Volume(e) == CASE e.kind = "on" -> e.velocity [] e.kind = "end" -> 0
               [] OTHER -> e.note * 256 + e.velocity
Value(e) == CASE e.kind = "on" -> e.note [] e.kind = "end" -> 128 + 47 [] OTHER -> 128 + 81

(* The events that end the key of event k: the note's offs, on the channel *)
(* whose number is that of the hand.                                       *)
Ends(score, hand, k) ==
  {j \in k + 1..Len(score) : /\ score[j].kind = "off" /\ score[j].channel = hand
                             /\ score[j].note = score[k].note}
Duration(score, hand, k) ==
  LET ends == Ends(score, hand, k)
      last == IF ends = {} THEN Len(score) ELSE CHOOSE j \in ends : \A m \in ends : j <= m IN
  IF score[k].kind = "on" THEN WaitsUpTo(score, last) - WaitsUpTo(score, k) ELSE 0

-----------------------------------------------------------------------------
(* Properties. *)

(* A plain file is read to its end, whatever its events and their order:   *)
(* the cursor never leaves a track. Every note and every tempo becomes a   *)
(* key, in its track, in order, at its time, with its volume and its hand; *)
(* it lasts until its note is ended on the channel of its hand, or to the  *)
(* end of its track.                                                       *)
RecoversPlain ==
  Plain(file) =>
    /\ outcome \notin {"failed", "nothing"}
    /\ outcome = "extracted" =>
         /\ DOMAIN tracks = Parts(file)
         /\ \A t \in DOMAIN tracks :
              LET score == file.chunks[t].score
                  told == KeyEvents(score) IN
              /\ Len(tracks[t]) = Len(told)
              /\ \A k \in DOMAIN told :
                   LET e == score[told[k]]
                       made == tracks[t][k] IN
                   /\ made.time = WaitsUpTo(score, told[k])
                   /\ made.volume = Volume(e) /\ made.value = Value(e)
                   /\ made.channel = IF e.kind = "on" THEN t % 2 ELSE 0
                   /\ made.length = Duration(score, t % 2, told[k])

(* What the sequencer relies on: a plain file whose tracks end as the      *)
(* format demands becomes a terminated song.                               *)
S == INSTANCE Songs
KindOfValue(v) ==
  CASE v < 127 -> "note" [] v = 127 -> "top" [] v = 128 + 81 -> "tempo" [] v = 128 + 47 -> "end"
    [] OTHER -> "meta"
AsSong == [t \in DOMAIN tracks |->
            [k \in DOMAIN tracks[t] |-> [time |-> tracks[t][k].time, kind |-> KindOfValue(tracks[t][k].value)]]]
ExtractsSongs ==
  /\ outcome = "extracted" /\ Plain(file) /\ 1 \in Parts(file)
  /\ \A c \in Parts(file) : LET score == file.chunks[c].score IN
       \A k \in DOMAIN score : score[k].kind = "end" <=> k = Len(score)
  => S!IsSong(AsSong) /\ S!Terminated(AsSong)

(* What holds of every file at every byte that is read.                    *)
Inv == TypeOK /\ ExtractsSongs

(* The extractor comes to an end with every file, plain or not.            *)
ComesToAnEnd == <>(outcome # "reading")

=============================================================================
