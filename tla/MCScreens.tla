------------------------------ MODULE MCScreens ------------------------------
(***************************************************************************)
(* What the app keeps behind its screens, in one run: who plays            *)
(* (Playback), the sounds (SoundCache), the songs on the device            *)
(* (SongStore), the falling notes (Barrage) and the server's catalogue as  *)
(* the panels show it (Catalogue).  The five share no state; part names    *)
(* the one that moves, while the others stay where they start.             *)
(***************************************************************************)
EXTENDS Playback, TLC

CONSTANTS Names, MaxBanks, MaxSongs, Classes, Banks, Songs, Handlers, MaxNames,
          Starts, N,
          MaxNotes, Touches, NoTouch, ViewHeight, Half, Pace, Gap

ASSUME ScreensAssumptions ==
  MaxBanks \in Nat /\ MaxSongs \in Nat /\ MaxNames \in Nat /\ N \in Nat \ {0}

(* What Barrage assumes of its constants.                                  *)
ASSUME NotesAssumptions ==
  /\ MaxNotes \in Nat /\ ViewHeight \in Nat /\ Gap \in Nat
  /\ Half \in Nat \ {0} /\ Pace \in Nat \ {0}
  /\ NoTouch \notin Touches

VARIABLES
  banks, songs, rows, deleting, screen, listed, askedBank, listLeft, target, picked,
  pages, page, large, orphaning,
  up, names, present, console, handler, broken, told, changed, overlapped,
  cache, start, format, audio, buffers, ids, main, failed, torn, meanwhile,
  unbroken, lock, drawKeys, playKeys, length, touch, player, iterator, tap, autoPlay,
  score, combo, judged, played, unseen, together,
  part          \* which of the five moves

storeVars == <<banks, songs, rows, deleting, screen, listed, askedBank, listLeft, target, picked,
               pages, page, large, orphaning>>
serverVars == <<up, names, present, console, handler, broken, told, changed, overlapped>>

soundVars == <<cache, start, format, audio, buffers, ids, main, failed, torn, meanwhile>>

fallVars == <<unbroken, lock, drawKeys, playKeys, length, touch, player, iterator, tap,
              autoPlay, score, combo, judged, played, unseen, together>>

Store == INSTANCE SongStore WITH shown <- listed, asked <- askedBank, leaving <- listLeft
Server == INSTANCE Catalogue WITH shown <- told
Sounds == INSTANCE SoundCache WITH Threads <- Starts, thread <- start, overlapped <- meanwhile
Falling == INSTANCE Barrage WITH alive <- unbroken, overlapped <- together, Step <- Pace

MCInit ==
  /\ Init /\ Store!Init /\ Server!Init /\ Sounds!Init /\ Falling!Init
  /\ part \in {"playback", "sounds", "store", "catalogue", "notes"}

MCNext ==
  \/ part = "playback" /\ Next
     /\ UNCHANGED <<storeVars, serverVars, soundVars, fallVars, part>>
  \/ part = "sounds" /\ Sounds!Next
     /\ UNCHANGED <<vars, storeVars, serverVars, fallVars, part>>
  \/ part = "store" /\ Store!Next
     /\ UNCHANGED <<vars, serverVars, soundVars, fallVars, part>>
  \/ part = "catalogue" /\ Server!Next
     /\ UNCHANGED <<vars, storeVars, soundVars, fallVars, part>>
  \/ part = "notes" /\ Falling!Next
     /\ UNCHANGED <<vars, storeVars, serverVars, soundVars, part>>

allVars == <<vars, storeVars, serverVars, soundVars, fallVars, part>>

MCSpec == MCInit /\ [][MCNext]_allVars

(* Threads are interchangeable, and so are keyboards, classes and touches. *)
Symmetry ==
  Permutations(Threads) \cup Permutations(Boards) \cup Permutations(Classes)
    \cup Permutations(Touches)

-----------------------------------------------------------------------------
(* The mixer knows each sound by a buffer that is its own and whole, and   *)
(* Main has them all (Init.java, soundMixer.go).                   *)
SoundsInv == part = "sounds" => Sounds!Inv /\ Sounds!MainHasAll

(* No song is left without its bank but by a kill between two deletions,   *)
(* and both screens of songs show the tables (Songs, Local).               *)
StoreInv == part = "store" => Store!Inv /\ Store!SongsHaveBanks

(* A song is only lost with its bank (DatabaseRW).                     *)
LostWithBankOnly == Store!LostWithBankOnly

(* Lists and maps of the catalogue tell the same when its console rests,   *)
(* and a catalogue that only grows is safe to ask for (main.go).       *)
CatalogueInv == part = "catalogue" => Server!Inv /\ Server!GrowingIsSafe

(* However touches, the iterator and the playing thread come together:     *)
(* notes keep their order and distance, none is lost or sounds twice by    *)
(* itself, and the score is earned (BarrageView.java).                     *)
NotesInv == part = "notes" => Falling!Inv

(* A touch sounds no note twice, and ends no thread, unless it runs        *)
(* together with a thread that holds the lock (BarrageView.onkeyboard).    *)
TouchesHarmless == part = "notes" => Falling!HarmlessApart
=============================================================================
