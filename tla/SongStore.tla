----------------------------- MODULE SongStore ------------------------------
(***************************************************************************)
(* The songs kept on the device: the tables of banks and of songs          *)
(* (tools/DatabaseRW.java), the screens that change them (Songs,           *)
(* SongsBankAdd, SongsBankSongAdd and the adapter of the list of banks)    *)
(* and the pages of songs that Local shows.  A song names its bank; the    *)
(* tables know of no such bond.                                            *)
(*                                                                         *)
(* Abstractions.  A bank is its name, a song its bank and its row number.  *)
(* Every screen's code runs on the one thread of the app: an action is a   *)
(* handler, but the process may be killed between two statements.  Online  *)
(* accounts are left out: they only decide whether a song may be added.    *)
(***************************************************************************)
EXTENDS Naturals, Sequences, FiniteSets, SequencesExt, Removal

CONSTANTS
  Names,                        \* names a bank may get, of three characters and more
  MaxBanks, MaxSongs            \* bounds: rows ever added to the tables

VARIABLES
  banks,        \* table: the names of the banks, in the order they were added
  songs,        \* table: the songs, in the order they were added
  rows,         \* how many rows each table ever had
  deleting,     \* the bank whose songs are still to be deleted, or {}
  screen,       \* the screen in front
  shown,        \* the banks that the list shows
  asked,        \* the bank of the dialog that asks before deleting, or {}
  leaving,      \* a bank was deleted, and the list not yet shown anew
  target,       \* the bank a song is being added to
  picked,       \* a file was chosen for it
  pages, page,  \* Local: the banks with songs, and the page in front
  large,        \* Local: the pages whose button is large
  orphaning     \* history: killed between two deletions, or a bank's button
                \* touched after the bank was deleted

table == <<banks, songs, rows>>
local == <<pages, page, large>>
list == <<shown, asked, leaving>>
vars == <<banks, songs, rows, deleting, screen, shown, asked, leaving, target, picked,
          pages, page, large, orphaning>>

Screens == {"main", "songs", "addBank", "addSong", "local"}
SongRecords == [bank: Names, row: 1..MaxSongs]

(* The type invariant: among others, rows are told apart by their number.  *)
TypeOK ==
  /\ banks \in Seq(Names) /\ songs \in Seq(SongRecords)
  /\ rows \in [bank: 0..MaxBanks, song: 0..MaxSongs]
  /\ \A k, m \in DOMAIN songs : k < m => songs[k].row < songs[m].row
  /\ deleting \in SUBSET Names /\ asked \in SUBSET Names
  /\ Cardinality(deleting) <= 1 /\ Cardinality(asked) <= 1
  /\ screen \in Screens
  /\ shown \in Seq(Names)
  /\ leaving \in BOOLEAN /\ picked \in BOOLEAN /\ orphaning \in BOOLEAN
  /\ target \in SUBSET Names
  /\ pages \in Seq(Names) /\ page \in Nat /\ large \in SUBSET Nat

Init ==
  /\ banks = <<>> /\ songs = <<>> /\ rows = [bank |-> 0, song |-> 0]
  /\ deleting = {}
  /\ screen = "main" /\ shown = <<>> /\ asked = {} /\ leaving = FALSE
  /\ target = {} /\ picked = FALSE
  /\ pages = <<>> /\ page = 0 /\ large = {}
  /\ orphaning = FALSE

(* The process dies, is started again and shows the main screen; only the  *)
(* tables are left.                                                        *)
Die ==
  /\ screen' = "main" /\ shown' = <<>> /\ asked' = {} /\ leaving' = FALSE
  /\ deleting' = {} /\ target' = {} /\ picked' = FALSE
  /\ pages' = <<>> /\ page' = 0 /\ large' = {}
  /\ orphaning' = (orphaning \/ deleting # {})
  /\ UNCHANGED table

Killed == (screen # "main" \/ deleting # {}) /\ Die

(* The thread of the app is free for the next handler. *)
Free == deleting = {}

-----------------------------------------------------------------------------
(* Songs: the list of banks. *)

(* Mutant: the list is not read again. *)
ResumeSongsStale ==
  /\ screen' = "songs"
  /\ shown' = IF screen = "main" THEN banks ELSE shown
  /\ asked' = {} /\ leaving' = FALSE

(* onResume reads the list again, and so does whatever is searched for:    *)
(* the key is not looked at.                                               *)
ResumeSongs ==
  /\ screen' = "songs"
  /\ shown' = banks
  /\ asked' = {} /\ leaving' = FALSE

OpenSongs ==
  /\ Free /\ screen = "main"
  /\ ResumeSongs
  /\ UNCHANGED <<table, local, deleting, target, picked, orphaning>>

Search ==
  /\ Free /\ screen = "songs" /\ asked = {}
  /\ shown' = banks
  /\ UNCHANGED <<table, local, deleting, screen, asked, leaving, target, picked, orphaning>>

(* A panel asks before it deletes its bank. *)
AskDelete(n) ==
  /\ Free /\ screen = "songs" /\ asked = {}
  /\ n \in ToSet(shown)
  /\ asked' = {n}
  /\ UNCHANGED <<table, local, deleting, screen, shown, leaving, target, picked, orphaning>>

Dismiss ==
  /\ Free /\ asked # {}
  /\ asked' = {}
  /\ UNCHANGED <<table, local, deleting, screen, shown, leaving, target, picked, orphaning>>

(* deleteBank: every bank of that name ... *)
DeleteBanks ==
  /\ Free /\ asked # {}
  /\ banks' = Without(banks, asked)
  /\ deleting' = asked
  /\ UNCHANGED <<songs, rows, local, list, screen, target, picked, orphaning>>

(* Mutant: its songs stay. *)
DeleteNoSongs ==
  /\ deleting # {}
  /\ deleting' = {} /\ asked' = {} /\ leaving' = TRUE
  /\ UNCHANGED <<table, local, screen, shown, target, picked, orphaning>>

(* Mutant: the songs of all banks. *)
DeleteAllSongs ==
  /\ deleting # {}
  /\ songs' = <<>>
  /\ deleting' = {} /\ asked' = {} /\ leaving' = TRUE
  /\ UNCHANGED <<banks, rows, local, screen, shown, target, picked, orphaning>>

(* ... and then its songs; an empty screen is started, and on its end the  *)
(* list is resumed.  Until then it can be touched.                         *)
DeleteSongs ==
  /\ deleting # {}
  /\ songs' = Without(songs, {s \in ToSet(songs) : s.bank \in deleting})
  /\ deleting' = {} /\ asked' = {} /\ leaving' = TRUE
  /\ UNCHANGED <<banks, rows, local, screen, shown, target, picked, orphaning>>

EmptyActivityEnds ==
  /\ Free /\ leaving /\ screen = "songs"
  /\ ResumeSongs
  /\ UNCHANGED <<table, local, deleting, target, picked, orphaning>>

Back ==
  /\ Free /\ screen \in {"songs", "local"} /\ asked = {}
  /\ screen' = "main" /\ leaving' = FALSE
  /\ UNCHANGED <<table, local, deleting, shown, asked, target, picked, orphaning>>

-----------------------------------------------------------------------------
(* SongsBankAdd and SongsBankSongAdd. *)

OpenAddBank ==
  /\ Free /\ screen = "songs" /\ asked = {}
  /\ screen' = "addBank"
  /\ UNCHANGED <<table, local, list, deleting, target, picked, orphaning>>

(* addSongsBank: a name may be given again. *)
AddBank(n) ==
  /\ Free /\ screen = "addBank"
  /\ rows.bank < MaxBanks
  /\ banks' = Append(banks, n)
  /\ rows' = [rows EXCEPT !.bank = @ + 1]
  /\ screen' = "songs" /\ shown' = banks' /\ asked' = {} /\ leaving' = FALSE
  /\ UNCHANGED <<songs, local, deleting, target, picked, orphaning>>

(* Cancelled, or not inserted: a failure is printed and the screen ends.   *)
AddNoBank ==
  /\ Free /\ screen = "addBank"
  /\ ResumeSongs
  /\ UNCHANGED <<table, local, deleting, target, picked, orphaning>>

(* The button of a panel, whose bank need not be there any more. *)
OpenAddSong(n) ==
  /\ Free /\ screen = "songs" /\ asked = {}
  /\ n \in ToSet(shown)
  /\ screen' = "addSong"
  /\ target' = {n} /\ picked' = FALSE
  /\ orphaning' = (orphaning \/ n \notin ToSet(banks))
  /\ UNCHANGED <<table, local, list, deleting>>

(* A file is chosen, or the choice is left without one and the app dies.   *)
Pick ==
  /\ Free /\ screen = "addSong"
  /\ \/ /\ picked' = TRUE
        /\ UNCHANGED <<table, local, list, deleting, screen, target, orphaning>>
     \/ Die

AddSong ==
  /\ Free /\ screen = "addSong" /\ picked
  /\ rows.song < MaxSongs
  /\ songs' = Append(songs, [bank |-> CHOOSE n \in target : TRUE, row |-> rows.song + 1])
  /\ rows' = [rows EXCEPT !.song = @ + 1]
  /\ target' = {} /\ picked' = FALSE
  /\ ResumeSongs
  /\ UNCHANGED <<banks, local, deleting, orphaning>>

AddSongWithoutFile == Free /\ screen = "addSong" /\ ~picked /\ Die

CancelSong ==
  /\ Free /\ screen = "addSong"
  /\ target' = {} /\ picked' = FALSE
  /\ ResumeSongs
  /\ UNCHANGED <<table, local, deleting, orphaning>>

-----------------------------------------------------------------------------
(* Local: a page and a button for every bank that a song names. *)

OpenLocal ==
  LET named == SetToSeq({songs[k].bank : k \in DOMAIN songs}) IN
  /\ Free /\ screen = "main"
  /\ screen' = "local"
  /\ pages' = named /\ page' = 0
  /\ large' = IF named = <<>> THEN {} ELSE {0}
  /\ UNCHANGED <<table, list, deleting, target, picked, orphaning>>

(* The button of a page: none is left large but its own; without such a    *)
(* button the app dies.                                                    *)
TurnTo(p) ==
  IF p \notin 0..Len(pages) - 1 THEN Die
  ELSE /\ page' = p /\ large' = {p}
       /\ UNCHANGED <<table, list, deleting, screen, target, picked, pages, orphaning>>

Press(p) == Free /\ screen = "local" /\ p # page /\ p \in 0..Len(pages) - 1 /\ TurnTo(p)

SwipeBack == Free /\ screen = "local" /\ page # 0 /\ TurnTo(page - 1)

(* The end is where the buttons end; without any, page 0 is past it.       *)
SwipeOn == Free /\ screen = "local" /\ page + 1 # Len(pages) /\ TurnTo(page + 1)

-----------------------------------------------------------------------------
Next ==
  \/ Killed
  \/ OpenSongs \/ Search \/ Dismiss \/ DeleteBanks \/ DeleteSongs \/ EmptyActivityEnds \/ Back
  \/ OpenAddBank \/ AddNoBank \/ Pick \/ AddSong \/ AddSongWithoutFile \/ CancelSong
  \/ \E n \in Names : AskDelete(n) \/ AddBank(n) \/ OpenAddSong(n)
  \/ OpenLocal \/ SwipeBack \/ SwipeOn
  \/ \E p \in DOMAIN pages : Press(p - 1)

Spec == Init /\ [][Next]_vars

-----------------------------------------------------------------------------
(* Properties. *)

BankOf(s) == s.bank \in ToSet(banks) \cup deleting

(* Every song's bank is there, and the song can be deleted with it, unless *)
(* the app was killed between the two deletions or a deleted bank's button *)
(* was touched before the list was read again.                             *)
SongsHaveBanks == ~orphaning => \A k \in DOMAIN songs : BankOf(songs[k])

(* A song is only lost with its bank, whatever else shares its table and   *)
(* whenever the app is killed.                                             *)
LostWithBankOnly ==
  [][\A s \in ToSet(songs) : s \in ToSet(songs') \/ s.bank \in deleting]_vars

(* Whenever the list of banks is in front and nothing is under way, it     *)
(* shows the banks there are.                                              *)
ListIsCurrent == screen = "songs" /\ Free /\ ~leaving => shown = banks

(* In Local, the large button is the one of the page in front.             *)
PageIsMarked == screen = "local" /\ pages # <<>> => large = {page} /\ page < Len(pages)

(* What the user sees is what there is, on both screens.                   *)
Inv == TypeOK /\ ListIsCurrent /\ PageIsMarked

=============================================================================
