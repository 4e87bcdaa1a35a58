------------------------------- MODULE Barrage -------------------------------
(***************************************************************************)
(* The falling notes of a Keyboard activity (views/BarrageView.java) and   *)
(* the three threads that share them:                                      *)
(*   - the playing thread adds a note (addKey), to drawKeys when the note  *)
(*     before it has fallen far enough and else, unseen, to playKeys;      *)
(*   - the iterator lets all notes fall a step every two milliseconds and  *)
(*     takes out those that have reached their end;                        *)
(*   - the UI thread judges a touch against drawKeys (onkeyboard).         *)
(* The first two hold a lock, the third does not: it relies on the lists,  *)
(* CopyOnWriteArrayLists, whose loops run over a snapshot.                 *)
(*                                                                         *)
(* Abstractions.  A length is a number of pixels; half the height of a     *)
(* note is the unit the code divides it to.  A note's value is known only  *)
(* by the touch that fits it, value % drawCount.  All notes fall in one    *)
(* step: a touch reads one length at a time, and removing a note before or *)
(* after it has fallen comes to the same.  Nothing is drawn.               *)
(***************************************************************************)
EXTENDS Naturals, Integers, Sequences, FiniteSets, SequencesExt, Removal

CONSTANTS
  MaxNotes,     \* bound: the notes of the song
  Touches,      \* the keys of the keyboard
  NoTouch,
  ViewHeight,   \* the height of the view
  Half,         \* half the height of a note
  Step,         \* how far notes fall at once
  Gap           \* how far a note must have fallen for the next one to show

VARIABLES
  alive,        \* no thread has died of an exception, which ends the app
  lock,         \* who holds the lock
  drawKeys,     \* the notes that are shown, in the order they were added
  playKeys,     \* the notes that fall unseen
  length,       \* how far each note has fallen
  touch,        \* the touch that fits each note, once it is added
  player,       \* where the playing thread is, and the index it has read
  iterator,     \* where the iterator is, and the notes it takes out
  tap,          \* where the UI thread is: the touch, the snapshot that is
                \*   left to look through, and whether a note was played
  autoPlay,     \* notes that reach the end are played
  score,        \* sourceI
  combo,
  judged,       \* history: the notes a touch took out, and how
  played,       \* history: how often each note was played at its end
  unseen,       \* history: the notes that went to playKeys
  overlapped    \* history: a touch and the holder of the lock ran together

noteVars == <<drawKeys, playKeys, length, touch>>
scoreVars == <<score, combo, judged>>
vars == <<alive, lock, noteVars, player, iterator, tap, autoPlay, scoreVars,
          played, unseen, overlapped>>

Notes == 1..MaxNotes
Added == {n \in Notes : touch[n] # NoTouch}
End == ViewHeight + 3 * Half
UnseenEnd == ViewHeight + Half
NoTap == [at |-> "idle", on |-> NoTouch, rest |-> <<>>, sounded |-> FALSE]

(* The type invariant: among others, the lock is held by the thread that   *)
(* is between lock() and unlock(), and no note is both seen and unseen.    *)
TypeOK ==
  /\ alive \in BOOLEAN /\ autoPlay \in BOOLEAN /\ overlapped \in BOOLEAN
  /\ lock \in {"free", "player", "iterator"}
  /\ drawKeys \in Seq(Added) /\ IsInjective(drawKeys)
  /\ playKeys \in SUBSET unseen /\ unseen \in SUBSET Added
  /\ unseen \cap ToSet(drawKeys) = {}
  /\ length \in [Notes -> 0..(End + Step)]
  /\ touch \in [Notes -> Touches \cup {NoTouch}]
  /\ player \in [at: {"out", "size", "get"}, index: 0..MaxNotes]
  /\ iterator \in [at: {"sleep", "auto", "clear"}, list: SUBSET Added]
  /\ tap \in [at: {"idle", "look", "miss", "get"}, on: Touches \cup {NoTouch},
              rest: Seq(Added), sounded: BOOLEAN]
  /\ (lock = "player") = (player.at # "out")
  /\ (lock = "iterator") = (iterator.at # "sleep")
  /\ score \in Nat /\ combo \in Nat
  /\ judged \in SUBSET Added
  /\ played \in [Notes -> 0..2]

Init ==
  /\ alive = TRUE /\ autoPlay = FALSE /\ overlapped = FALSE
  /\ lock = "free"
  /\ drawKeys = <<>> /\ playKeys = {} /\ unseen = {}
  /\ length = [n \in Notes |-> 0]
  /\ touch = [n \in Notes |-> NoTouch]
  /\ player = [at |-> "out", index |-> 0]
  /\ iterator = [at |-> "sleep", list |-> {}]
  /\ tap = NoTap
  /\ score = 0 /\ combo = 0
  /\ judged = {}
  /\ played = [n \in Notes |-> 0]

Overlaps(holder) == overlapped' = (overlapped \/ (holder # "free" /\ tap.at # "idle"))

Dies ==
  /\ alive' = FALSE
  /\ UNCHANGED <<lock, noteVars, player, iterator, tap, autoPlay, scoreVars,
                 played, unseen, overlapped>>

-----------------------------------------------------------------------------
(* addKey, on the playing thread. *)

(* The notes come in order.  The first test is whether one is shown; then  *)
(* the size of the list is read once more, for the index of the last one.  *)
AddKey(t) ==
  /\ lock = "free" /\ player.at = "out" /\ Cardinality(Added) < MaxNotes
  /\ lock' = "player"
  /\ touch' = [touch EXCEPT ![Cardinality(Added) + 1] = t]
  /\ player' = [at |-> IF drawKeys = <<>> THEN "get" ELSE "size", index |-> 0]
  /\ Overlaps("player")
  /\ UNCHANGED <<alive, drawKeys, playKeys, length, iterator, tap, autoPlay,
                 scoreVars, played, unseen>>

AddSize ==
  /\ player.at = "size"
  /\ IF drawKeys = <<>> THEN Dies
     ELSE /\ player' = [at |-> "get", index |-> Len(drawKeys)]
          /\ UNCHANGED <<alive, lock, noteVars, iterator, tap, autoPlay, scoreVars,
                         played, unseen, overlapped>>

(* Mutant: the lock is only let go of when the note is shown. *)
AddAndHold(shown) ==
  LET n == Cardinality(Added) IN
  /\ drawKeys' = IF shown THEN Append(drawKeys, n) ELSE drawKeys
  /\ playKeys' = IF shown THEN playKeys ELSE playKeys \cup {n}
  /\ unseen' = IF shown THEN unseen ELSE unseen \cup {n}
  /\ player' = [at |-> "out", index |-> 0]
  /\ lock' = IF shown THEN "free" ELSE lock
  /\ UNCHANGED <<alive, length, touch, iterator, tap, autoPlay, scoreVars,
                 played, overlapped>>

(* The playing thread lets go of the lock with the note in one of the lists.*)
AddTo(shown) ==
  LET n == Cardinality(Added) IN
  /\ drawKeys' = IF shown THEN Append(drawKeys, n) ELSE drawKeys
  /\ playKeys' = IF shown THEN playKeys ELSE playKeys \cup {n}
  /\ unseen' = IF shown THEN unseen ELSE unseen \cup {n}
  /\ player' = [at |-> "out", index |-> 0]
  /\ lock' = "free"
  /\ UNCHANGED <<alive, length, touch, iterator, tap, autoPlay, scoreVars,
                 played, overlapped>>

(* Mutant: the length of the first note shown is looked at, not the last. *)
AddAfterFirst ==
  /\ player.at = "get"
  /\ IF player.index > Len(drawKeys) THEN Dies
     ELSE AddTo(player.index = 0 \/ length[drawKeys[1]] > Gap)

(* drawKeys.get(size - 1): a touch may have taken the note out since.      *)
AddGet ==
  /\ player.at = "get"
  /\ IF player.index > Len(drawKeys) THEN Dies
     ELSE AddTo(player.index = 0 \/ length[drawKeys[player.index]] > Gap)

-----------------------------------------------------------------------------
(* The iterator. *)

Sound(notes) == played' = [n \in Notes |-> IF n \in notes /\ played[n] < 2
                                           THEN played[n] + 1 ELSE played[n]]

Fall ==
  /\ lock = "free" /\ iterator.at = "sleep"
  /\ ToSet(drawKeys) \cup playKeys # {}
  /\ lock' = "iterator"
  /\ length' = [n \in Notes |-> IF n \in ToSet(drawKeys) THEN length[n] + Step ELSE length[n]]
  /\ iterator' = [at |-> "auto", list |-> {n \in ToSet(drawKeys) : length[n] + Step > End}]
  /\ Overlaps("iterator")
  /\ UNCHANGED <<alive, drawKeys, playKeys, touch, player, tap, autoPlay, scoreVars,
                 played, unseen>>

PlayAtEnd ==
  /\ iterator.at = "auto"
  /\ iterator' = [iterator EXCEPT !.at = "clear"]
  /\ IF autoPlay THEN Sound(iterator.list) ELSE UNCHANGED played
  /\ UNCHANGED <<alive, lock, noteVars, player, tap, autoPlay, scoreVars, unseen, overlapped>>

(* The shown notes at their end go, and the unseen ones fall and sound.    *)
Clear ==
  LET gone == {n \in playKeys : length[n] + Step > UnseenEnd} IN
  /\ iterator.at = "clear"
  /\ drawKeys' = Without(drawKeys, iterator.list)
  /\ length' = [n \in Notes |-> IF n \in playKeys THEN length[n] + Step ELSE length[n]]
  /\ playKeys' = playKeys \ gone
  /\ Sound(gone)
  /\ iterator' = [at |-> "sleep", list |-> {}]
  /\ lock' = "free"
  /\ UNCHANGED <<alive, touch, player, tap, autoPlay, scoreVars, unseen, overlapped>>

-----------------------------------------------------------------------------
(* onkeyboard, on the UI thread. *)

Distance(n) == LET d == ViewHeight + Half - length[n] IN IF d < 0 THEN -d ELSE d

Near(n) == length[n] > ViewHeight - 8 * Half

Level(n) ==
  CASE Distance(n) < Half     -> 0
    [] Distance(n) < 2 * Half -> 1
    [] Distance(n) < 4 * Half -> 2
    [] Distance(n) < 6 * Half -> 3
    [] OTHER                  -> 4

(* addsource: the score does not fall below 0. *)
AddSource(s) == score' = IF score + s < 0 THEN 0 ELSE score + s

DoLevel(level) ==
  CASE level = 0 -> AddSource(IF combo > 14 THEN 20 ELSE 5 + combo) /\ combo' = combo + 1
    [] level = 1 -> AddSource(IF combo > 11 THEN 15 ELSE 4 + combo) /\ UNCHANGED combo
    [] level = 2 -> AddSource(2) /\ combo' = 0
    [] level = 3 -> UNCHANGED <<score, combo>>
    [] level = 4 -> AddSource(-5) /\ combo' = 0

Touch(t) ==
  /\ tap.at = "idle"
  /\ tap' = [at |-> IF drawKeys = <<>> THEN "miss" ELSE "look", on |-> t,
             rest |-> drawKeys, sounded |-> FALSE]
  /\ overlapped' = (overlapped \/ lock # "free")
  /\ UNCHANGED <<alive, lock, noteVars, player, iterator, autoPlay, scoreVars,
                 played, unseen>>

(* The next note of the snapshot: one of another key is passed over ...    *)
Goon(sounded) ==
  tap' = IF Len(tap.rest) > 1
         THEN [tap EXCEPT !.rest = Tail(@), !.sounded = sounded]
         ELSE IF sounded THEN NoTap
         ELSE [tap EXCEPT !.at = "miss", !.rest = <<>>]

LookPast ==
  /\ tap.at = "look" /\ touch[Head(tap.rest)] # tap.on
  /\ Goon(tap.sounded)
  /\ UNCHANGED <<alive, lock, noteVars, player, iterator, autoPlay, scoreVars,
                 played, unseen, overlapped>>

(* ... one that is far costs points and stays ...                          *)
LookFar ==
  /\ tap.at = "look" /\ touch[Head(tap.rest)] = tap.on /\ ~Near(Head(tap.rest))
  /\ DoLevel(4)
  /\ Goon(TRUE)
  /\ UNCHANGED <<alive, lock, noteVars, player, iterator, autoPlay, judged,
                 played, unseen, overlapped>>

(* Mutant: the judged note is not taken out. *)
JudgeAndKeep ==
  LET n == Head(tap.rest) IN
  /\ tap.at = "look" /\ touch[n] = tap.on /\ Near(n)
  /\ DoLevel(Level(n))
  /\ judged' = judged \cup {n}
  /\ tap' = NoTap
  /\ UNCHANGED <<alive, lock, noteVars, player, iterator, autoPlay, played, unseen,
                 overlapped>>

(* ... and the first one that is near is taken out and judged.             *)
Judge ==
  LET n == Head(tap.rest) IN
  /\ tap.at = "look" /\ touch[n] = tap.on /\ Near(n)
  /\ drawKeys' = Without(drawKeys, {n})
  /\ DoLevel(Level(n))
  /\ judged' = judged \cup {n}
  /\ tap' = NoTap
  /\ UNCHANGED <<alive, lock, playKeys, length, touch, player, iterator, autoPlay,
                 played, unseen, overlapped>>

(* A touch that fits no note costs points, and sounds like the first note  *)
(* shown, if there is one; it may go before it is looked at.               *)
Miss ==
  /\ tap.at = "miss"
  /\ DoLevel(4)
  /\ tap' = IF drawKeys = <<>> THEN NoTap ELSE [tap EXCEPT !.at = "get"]
  /\ UNCHANGED <<alive, lock, noteVars, player, iterator, autoPlay, judged,
                 played, unseen, overlapped>>

MissGet ==
  /\ tap.at = "get"
  /\ IF drawKeys = <<>> THEN Dies
     ELSE /\ tap' = NoTap
          /\ UNCHANGED <<alive, lock, noteVars, player, iterator, autoPlay, scoreVars,
                         played, unseen, overlapped>>

(* The "auto!" button. *)
SetAutoPlay ==
  /\ tap.at = "idle" /\ ~autoPlay
  /\ autoPlay' = TRUE
  /\ UNCHANGED <<alive, lock, noteVars, player, iterator, tap, scoreVars, played,
                 unseen, overlapped>>

-----------------------------------------------------------------------------
IteratorStep == Fall \/ PlayAtEnd \/ Clear
PlayerStep == (\E t \in Touches : AddKey(t)) \/ AddSize \/ AddGet
TapStep == LookPast \/ LookFar \/ Judge \/ Miss \/ MissGet

Next ==
  alive /\ ( IteratorStep \/ PlayerStep \/ TapStep \/ SetAutoPlay
             \/ \E t \in Touches : Touch(t) )

Spec == Init /\ [][Next]_vars

-----------------------------------------------------------------------------
(* Properties. *)

(* Shown notes fall in the order they were added, each more than Gap below *)
(* the next, however touches take out notes from among them.               *)
Spaced ==
  \A i \in 1..(Len(drawKeys) - 1) :
    length[drawKeys[i]] > length[drawKeys[i + 1]] + Gap

(* No note is lost: it is on its way down, or in addKey, or was judged, or *)
(* has reached its end.                                                    *)
NoneLost ==
  \A n \in Added :
    \/ n \in ToSet(drawKeys) \cup playKeys \cup judged
    \/ length[n] > UnseenEnd
    \/ n = Cardinality(Added) /\ player.at # "out"

(* An unseen note sounds once, when it reaches its end, and a shown one at *)
(* most once by itself.                                                    *)
SoundsOnce ==
  /\ \A n \in unseen : played[n] = IF n \in playKeys THEN 0 ELSE 1
  /\ \A n \in Notes : played[n] <= 1

(* Without a lock, a touch can make a note sound twice, judged by the one  *)
(* thread and at its end for the other, or end the app; but only when it   *)
(* runs together with a thread that holds the lock.                        *)
HarmlessApart ==
  ~overlapped => alive /\ \A n \in judged : played[n] = 0

(* The combo counts judged notes, and points are only given for those.     *)
ScoreEarned == combo <= Cardinality(judged) /\ score <= 20 * Cardinality(judged)

(* What holds at every step of the threads, together or apart: the notes'  *)
(* order, their sounds and the score, and that none is lost.               *)
Inv == TypeOK /\ Spaced /\ NoneLost /\ SoundsOnce /\ ScoreEarned

(* Every note is gone in the end, unless the app dies.                     *)
NotesEnd ==
  \A n \in Notes : n \in ToSet(drawKeys) \cup playKeys
                    ~> ~alive \/ n \notin ToSet(drawKeys) \cup playKeys

=============================================================================
