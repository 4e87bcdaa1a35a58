----------------------------- MODULE Catalogue ------------------------------
(***************************************************************************)
(* The catalogue of the server (Server/main.go): classes of banks of songs,*)
(* each level a list of names in their order and a map from names to what  *)
(* they name.  The console adds and deletes; handlers answer CLASS, BANK   *)
(* and SONG from it, and draw it when they call buildUI; the apps ask for  *)
(* what earlier answers told them of.  Nothing is locked.                  *)
(*                                                                         *)
(* Abstractions.  An entry is its path, <<class>>, <<class, bank>> or      *)
(* <<class, bank, song>>: only one panel of the console is open at a time, *)
(* so what it changes is what the maps name.  A lookup, one expression of  *)
(* the code, is one step.  The other fields of an entry are left out.      *)
(***************************************************************************)
EXTENDS Naturals, Sequences, FiniteSets, SequencesExt, Removal

CONSTANTS
  Classes, Banks, Songs,        \* the names the console may give
  Handlers,                     \* connections, each with the app at its end
  MaxNames                      \* bound: the length of a list of names

Lists == {<<>>} \cup {<<c>> : c \in Classes} \cup (Classes \X Banks)
NamesOf(list) == CASE Len(list) = 0 -> Classes [] Len(list) = 1 -> Banks [] OTHER -> Songs
Entries == {<<c>> : c \in Classes} \cup (Classes \X Banks) \cup (Classes \X Banks \X Songs)

VARIABLES
  up,           \* the server process is alive
  names,        \* the list of names in the root, a class or a bank
  present,      \* the entries of the maps
  console,      \* the change being made, and where
  handler,      \* what each handler does, and the names it has read
  broken,       \* apps that have died of an answer
  shown,        \* the entries each app was told of
  changed,      \* history: an entry was deleted, or added over another
  overlapped    \* history: a handler read the catalogue amid a change

vars == <<up, names, present, console, handler, broken, shown, changed, overlapped>>

Inside(list, e) == Len(list) < Len(e) /\ SubSeq(e, 1, Len(list)) = list
Members(list) == {e \in present : Len(e) = Len(list) + 1 /\ Inside(list, e)}
Idle == [at |-> "idle", entry |-> <<>>]
Rest == [at |-> "idle", names |-> <<>>]

(* The type invariant: among others, an entry is only there if the one it  *)
(* belongs to is.                                                          *)
TypeOK ==
  /\ up \in BOOLEAN /\ changed \in BOOLEAN /\ overlapped \in BOOLEAN
  /\ names \in [Lists -> Seq(Classes \cup Banks \cup Songs)]
  /\ \A l \in Lists : ToSet(names[l]) \subseteq NamesOf(l)
  /\ present \in SUBSET Entries
  /\ \A e \in present : Len(e) > 1 => Front(e) \in present
  /\ console \in [at: {"idle", "put", "remove", "draw"}, entry: Entries \cup {<<>>}]
  /\ handler \in [Handlers -> [at: {"idle", "class", "draw"}, names: Seq(Classes)]]
  /\ broken \in SUBSET Handlers
  /\ shown \in [Handlers -> SUBSET Entries]

(* What main() adds before the server starts is added by the console.      *)
Init ==
  /\ up = TRUE /\ changed = FALSE /\ overlapped = FALSE
  /\ names = [l \in Lists |-> <<>>]
  /\ present = {}
  /\ console = Idle
  /\ handler = [h \in Handlers |-> Rest]
  /\ broken = {}
  /\ shown = [h \in Handlers |-> {}]

Amid == console.at \in {"put", "remove"}
Reading == \E h \in Handlers : handler[h].at # "idle"

Crash ==
  /\ up' = FALSE
  /\ UNCHANGED <<names, present, console, handler, broken, shown, changed, overlapped>>

-----------------------------------------------------------------------------
(* The console: addClass, addBank, addSong, and the three delete buttons.  *)

Add(list, n) ==
  /\ console = Idle
  /\ list = <<>> \/ list \in present
  /\ Len(names[list]) < MaxNames
  /\ names' = [names EXCEPT ![list] = Append(@, n)]
  /\ console' = [at |-> "put", entry |-> Append(list, n)]
  /\ changed' = (changed \/ Append(list, n) \in present)
  /\ overlapped' = (overlapped \/ Reading)
  /\ UNCHANGED <<up, present, handler, broken, shown>>

(* A song whose data are not base64 is not added. *)
AddUndecodable(list) ==
  /\ console = Idle
  /\ Len(list) = 2 /\ list \in present
  /\ console' = [at |-> "draw", entry |-> <<>>]
  /\ UNCHANGED <<up, names, present, handler, broken, shown, changed, overlapped>>

(* Mutant: the map is made anew for every entry. *)
PutAlone ==
  /\ console.at = "put"
  /\ present' = {e \in present : ~\E f \in Members(Front(console.entry)) : e = f \/ Inside(f, e)}
                \cup {console.entry}
  /\ names' = [l \in Lists |-> IF l \in present' \/ l = <<>> THEN names[l] ELSE <<>>]
  /\ console' = [console EXCEPT !.at = "draw"]
  /\ UNCHANGED <<up, handler, broken, shown, changed, overlapped>>

(* The new entry is empty and takes the place of one of the same name.     *)
Put ==
  /\ console.at = "put"
  /\ present' = {e \in present : ~Inside(console.entry, e)} \cup {console.entry}
  /\ names' = [l \in Lists |-> IF l = console.entry \/ Inside(console.entry, l)
                               THEN <<>> ELSE names[l]]
  /\ console' = [console EXCEPT !.at = "draw"]
  /\ UNCHANGED <<up, handler, broken, shown, changed, overlapped>>

(* Mutant: the name is taken out of the list once. *)
DeleteFirst(e) ==
  LET list == Front(e)
      i == CHOOSE j \in DOMAIN names[list] : names[list][j] = Last(e) IN
  /\ console = Idle /\ e \in present
  /\ names' = [names EXCEPT ![list] = RemoveAt(@, i)]
  /\ console' = [at |-> "remove", entry |-> e]
  /\ changed' = TRUE
  /\ overlapped' = (overlapped \/ Reading)
  /\ UNCHANGED <<up, present, handler, broken, shown>>

(* Deleting takes the name out of the list wherever it is ...              *)
Delete(e) ==
  /\ console = Idle /\ e \in present
  /\ names' = [names EXCEPT ![Front(e)] = Without(@, {Last(e)})]
  /\ console' = [at |-> "remove", entry |-> e]
  /\ changed' = TRUE
  /\ overlapped' = (overlapped \/ Reading)
  /\ UNCHANGED <<up, present, handler, broken, shown>>

(* ... and then the entry out of the map, with all that is in it.          *)
RemoveEntry ==
  /\ console.at = "remove"
  /\ present' = {e \in present : e # console.entry /\ ~Inside(console.entry, e)}
  /\ names' = [l \in Lists |-> IF l = console.entry \/ Inside(console.entry, l)
                               THEN <<>> ELSE names[l]]
  /\ console' = [console EXCEPT !.at = "draw"]
  /\ UNCHANGED <<up, handler, broken, shown, changed, overlapped>>

(* A map without an entry for a name of the list gives nil, and drawing or *)
(* answering that is a panic; a song is a value, and an empty one is drawn.*)
Dangling(list) == Len(list) < 2 /\ \E n \in ToSet(names[list]) : Append(list, n) \notin present

ConsoleDraws ==
  /\ console.at = "draw"
  /\ IF Dangling(<<>>) \/ \E e \in present : Len(e) = 1 /\ Dangling(e) THEN Crash
     ELSE /\ console' = Idle
          /\ UNCHANGED <<up, names, present, handler, broken, shown, changed, overlapped>>

-----------------------------------------------------------------------------
(* The handlers, and the apps. *)

(* buildUI after a LOGIN, a LOGOUT or a Close runs on the handler: it goes *)
(* through the list of classes that there was when it began.               *)
StartReading(h, at) ==
  /\ handler[h] = Rest /\ h \notin broken
  /\ handler' = [handler EXCEPT ![h] = [at |-> at, names |-> names[<<>>]]]
  /\ overlapped' = (overlapped \/ Amid)
  /\ UNCHANGED <<up, names, present, console, broken, shown, changed>>

HandlerDraws(h) ==
  /\ handler[h].at = "draw"
  /\ IF (\E c \in ToSet(handler[h].names) : <<c>> \notin present)
        \/ (\E c \in ToSet(handler[h].names) : Dangling(<<c>>))
     THEN Crash
     ELSE /\ handler' = [handler EXCEPT ![h] = Rest]
          /\ UNCHANGED <<up, names, present, console, broken, shown, changed, overlapped>>

(* The answer to CLASS: the list of classes read first, the maps after it. *)
(* The app makes a page for every name of the lists, and dies of a missing *)
(* entry.                                                                  *)
AnswerClass(h) ==
  LET listed == {<<c>> : c \in ToSet(handler[h].names)} IN
  /\ handler[h].at = "class"
  /\ handler' = [handler EXCEPT ![h] = Rest]
  /\ IF listed \subseteq present /\ \A e \in listed : ~Dangling(e)
     THEN /\ shown' = [shown EXCEPT ![h] = listed \cup UNION {Members(e) : e \in listed}]
          /\ UNCHANGED broken
     ELSE broken' = broken \cup {h} /\ UNCHANGED shown
  /\ UNCHANGED <<up, names, present, console, changed, overlapped>>

(* BANK, of a bank the app was told of. *)
AnswerBank(h, e) ==
  /\ handler[h] = Rest /\ h \notin broken
  /\ e \in shown[h] /\ Len(e) = 2
  /\ IF {Front(e), e} \subseteq present
     THEN /\ overlapped' = (overlapped \/ Amid)
          /\ shown' = [shown EXCEPT ![h] = {s \in @ : ~Inside(e, s)} \cup
                                           {Append(e, n) : n \in ToSet(names[e])}]
          /\ UNCHANGED <<up, names, present, console, handler, broken, changed>>
     ELSE Crash

(* SONG: a missing song is answered with an empty one, of which the app    *)
(* dies; a missing class or bank is a panic.                               *)
AnswerSong(h, e) ==
  /\ handler[h] = Rest /\ h \notin broken
  /\ e \in shown[h] /\ Len(e) = 3
  /\ IF {<<e[1]>>, Front(e)} \subseteq present
     THEN /\ overlapped' = (overlapped \/ Amid)
          /\ broken' = IF e \in present THEN broken ELSE broken \cup {h}
          /\ UNCHANGED <<up, names, present, console, handler, shown, changed>>
     ELSE Crash

(* The maps are written while they are read: the Go runtime may end the    *)
(* process.                                                                *)
MapFault == Amid /\ Reading /\ Crash

-----------------------------------------------------------------------------
Next ==
  up /\
    ( \/ \E list \in Lists : \E n \in NamesOf(list) : Add(list, n)
      \/ \E list \in Lists : AddUndecodable(list)
      \/ \E e \in Entries : Delete(e)
      \/ Put \/ RemoveEntry \/ ConsoleDraws \/ MapFault
      \/ \E h \in Handlers :
           \/ StartReading(h, "class") \/ StartReading(h, "draw")
           \/ HandlerDraws(h) \/ AnswerClass(h)
           \/ \E e \in Entries : AnswerBank(h, e) \/ AnswerSong(h, e) )

Spec == Init /\ [][Next]_vars

-----------------------------------------------------------------------------
(* Properties. *)

(* When the console is done, lists and maps tell the same, although names  *)
(* may be given twice: every name of a list has an entry, every entry is   *)
(* listed, and nothing is left of what was deleted or replaced, nor below  *)
(* it.                                                                     *)
ListsMatchMaps ==
  console = Idle =>
    \A l \in Lists : IF l = <<>> \/ l \in present
                     THEN {Append(l, n) : n \in ToSet(names[l])} = Members(l)
                     ELSE names[l] = <<>> /\ Members(l) = {}

(* What holds whenever the console and the handlers are at rest.           *)
Inv == TypeOK /\ ListsMatchMaps

(* A server whose catalogue only grows by new names survives every request *)
(* and every drawing that does not run amid a change, and no app dies of   *)
(* one of its answers.                                                     *)
GrowingIsSafe == ~changed /\ ~overlapped => up /\ broken = {}

=============================================================================
