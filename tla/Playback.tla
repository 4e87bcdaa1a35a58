------------------------------ MODULE Playback ------------------------------
(***************************************************************************)
(* Who plays: the global playingThread (items/StaticItems.java), which the *)
(* callbacks of the UI thread replace, interrupt and clear, and the threads*)
(* it has named, which play on until they notice.                          *)
(*   - the song lists start a song to listen to, and have a stop button;   *)
(*   - a Keyboard activity starts its song when it is created and stops    *)
(*     the playing thread when it is destroyed, which Android does some    *)
(*     time after the list below it is back in front;                      *)
(*   - a playing thread sleeps a second, then plays key after key, with a  *)
(*     sleep before each (SequenceExtractor.sequence, syncSequence).       *)
(*                                                                         *)
(* Abstractions.  A song is any number of keys; Sequencer models which and *)
(* whether they end.  Only the UI thread touches playingThread, so each    *)
(* callback is one step.  The lists are one screen below every keyboard.   *)
(***************************************************************************)
EXTENDS Naturals, Sequences, FiniteSets, SequencesExt

CONSTANTS
  Threads,      \* the playing threads that may ever be started
  Boards,       \* the keyboards that may ever be opened
  NoThread,     \* null
  List          \* the owner of a thread that a list started

ASSUME PlaybackAssumptions ==
  /\ NoThread \notin Threads
  /\ List \notin Boards

VARIABLES
  playing,      \* StaticItems.playingThread
  thread,       \* where each thread is
  flag,         \* its interrupt status
  launched,     \* keyboards asked for by startActivity, not created yet
  stack,        \* the keyboards on the screen, the front one last
  leaving,      \* keyboards that were left and are not destroyed yet
  alive,        \* the app has not died of an exception
  owner,        \* history: which keyboard or list started each thread
  asked,        \* history: why each thread was first told to stop
  deaf,         \* history: it was told in its first second
  after,        \* history: the keys it played after that, counted to 2
  misfired,     \* history: a keyboard interrupted a song not its own
  overlap       \* history: the lists were used, or a keyboard created,
                \*          while another keyboard was there

uiVars == <<launched, stack, leaving, alive, overlap>>
threadVars == <<thread, flag, owner, asked, deaf, after>>
vars == <<playing, threadVars, uiVars, misfired>>

ThreadStates == {"unused", "head", "sleep", "due", "done"}
Reasons == {"none", "stop", "replaced", "left"}

(* The type invariant: among others, a keyboard is in one place only.      *)
TypeOK ==
  /\ playing  \in Threads \cup {NoThread}
  /\ thread   \in [Threads -> ThreadStates]
  /\ flag     \in [Threads -> BOOLEAN]
  /\ owner    \in [Threads -> Boards \cup {List}]
  /\ asked    \in [Threads -> Reasons]
  /\ deaf     \in [Threads -> BOOLEAN]
  /\ after    \in [Threads -> 0..2]
  /\ launched \in SUBSET Boards
  /\ stack    \in Seq(Boards)
  /\ leaving  \in SUBSET Boards
  /\ IsInjective(stack) /\ ToSet(stack) \cap (launched \cup leaving) = {}
  /\ alive    \in BOOLEAN
  /\ misfired \in BOOLEAN
  /\ overlap  \in BOOLEAN

Init ==
  /\ playing  = NoThread
  /\ thread   = [t \in Threads |-> "unused"]
  /\ flag     = [t \in Threads |-> FALSE]
  /\ owner    = [t \in Threads |-> List]
  /\ asked    = [t \in Threads |-> "none"]
  /\ deaf     = [t \in Threads |-> FALSE]
  /\ after    = [t \in Threads |-> 0]
  /\ launched = {}
  /\ stack    = <<>>
  /\ leaving  = {}
  /\ alive    = TRUE
  /\ misfired = FALSE
  /\ overlap  = FALSE

Live(t) == thread[t] \in {"head", "sleep", "due"}
Started == {t \in Threads : thread[t] # "unused"}

-----------------------------------------------------------------------------
(* The callbacks. *)

(* Mutant: the thread is forgotten, not interrupted. *)
TellNobody(why) == UNCHANGED <<flag, asked, deaf>>

(* Interrupting the playing thread; if it is done, that has no effect.     *)
Tell(why) ==
  LET told == {t \in Threads : t = playing /\ Live(t)} IN
  /\ flag' = [t \in Threads |-> flag[t] \/ t \in told]
  /\ asked' = [t \in Threads |-> IF t \in told THEN why ELSE asked[t]]
  /\ deaf' = [t \in Threads |-> deaf[t] \/ (t \in told /\ thread[t] = "head")]

(* The playing thread is interrupted and a new one started.                *)
Replace(who) ==
  \E t \in Threads \ Started :
    /\ playing' = t
    /\ thread' = [thread EXCEPT ![t] = "head"]
    /\ owner' = [owner EXCEPT ![t] = who]
    /\ Tell("replaced")
    /\ UNCHANGED <<after, misfired>>

(* The lists are in front, although a keyboard may be on its way.          *)
ListInFront == alive /\ stack = <<>>

Listen ==
  /\ ListInFront
  /\ Replace(List)
  /\ overlap' = (overlap \/ leaving # {})
  /\ UNCHANGED <<launched, stack, leaving, alive>>

StopPlay ==
  /\ ListInFront
  /\ playing # NoThread
  /\ Tell("stop")
  /\ playing' = NoThread
  /\ overlap' = (overlap \/ leaving # {})
  /\ UNCHANGED <<thread, owner, after, launched, stack, leaving, alive, misfired>>

Play(b) ==
  /\ ListInFront
  /\ b \in Boards \ (launched \cup leaving)
  /\ launched' = launched \cup {b}
  /\ UNCHANGED <<playing, threadVars, stack, leaving, alive, misfired, overlap>>

Create(b) ==
  /\ alive /\ b \in launched
  /\ Replace(b)
  /\ launched' = launched \ {b}
  /\ stack' = Append(stack, b)
  /\ overlap' = (overlap \/ stack # <<>> \/ leaving # {})
  /\ UNCHANGED <<leaving, alive>>

(* Mutant: a keyboard that is left stays on the screen. *)
BackStays ==
  /\ alive /\ stack # <<>>
  /\ leaving' = leaving \cup {Last(stack)}
  /\ UNCHANGED <<playing, threadVars, launched, stack, alive, misfired, overlap>>

Back ==
  /\ alive /\ stack # <<>>
  /\ stack' = Front(stack)
  /\ leaving' = leaving \cup {Last(stack)}
  /\ UNCHANGED <<playing, threadVars, launched, alive, misfired, overlap>>

(* onDestroy does not look whether there is a playing thread.              *)
Destroy(b) ==
  /\ alive /\ b \in leaving
  /\ playing # NoThread
  /\ leaving' = leaving \ {b}
  /\ Tell("left")
  /\ misfired' = (misfired \/ (Live(playing) /\ owner[playing] # b))
  /\ playing' = NoThread
  /\ UNCHANGED <<thread, owner, after, launched, stack, alive, overlap>>

DestroyFails(b) ==
  /\ alive /\ b \in leaving
  /\ playing = NoThread
  /\ alive' = FALSE
  /\ UNCHANGED <<playing, threadVars, launched, stack, leaving, misfired, overlap>>

-----------------------------------------------------------------------------
(* The threads. *)

(* The first second ends, or an interrupt ends it, which is ignored.       *)
HeadEnds(t) ==
  /\ alive /\ thread[t] = "head"
  /\ thread' = [thread EXCEPT ![t] = "sleep"]
  /\ flag' = [flag EXCEPT ![t] = FALSE]
  /\ UNCHANGED <<playing, owner, asked, deaf, after, uiVars, misfired>>

(* The sleep before a key ends, or an interrupt ends the song.             *)
SleepEnds(t) ==
  /\ alive /\ thread[t] = "sleep" /\ ~flag[t]
  /\ thread' = [thread EXCEPT ![t] = "due"]
  /\ UNCHANGED <<playing, flag, owner, asked, deaf, after, uiVars, misfired>>

(* Mutant: the interrupt is ignored, as it is in the first second. *)
IgnoreInterrupt(t) ==
  /\ alive /\ thread[t] = "sleep" /\ flag[t]
  /\ thread' = [thread EXCEPT ![t] = "due"]
  /\ flag' = [flag EXCEPT ![t] = FALSE]
  /\ UNCHANGED <<playing, owner, asked, deaf, after, uiVars, misfired>>

Interrupted(t) ==
  /\ alive /\ thread[t] = "sleep" /\ flag[t]
  /\ thread' = [thread EXCEPT ![t] = "done"]
  /\ flag' = [flag EXCEPT ![t] = FALSE]
  /\ UNCHANGED <<playing, owner, asked, deaf, after, uiVars, misfired>>

PlayKey(t) ==
  /\ alive /\ thread[t] = "due"
  /\ thread' = [thread EXCEPT ![t] = "sleep"]
  /\ after' = [after EXCEPT ![t] = IF asked[t] # "none" /\ @ < 2 THEN @ + 1 ELSE @]
  /\ UNCHANGED <<playing, flag, owner, asked, deaf, uiVars, misfired>>

(* Mutant: a thread that is done clears playingThread. *)
SongClears(t) ==
  /\ alive /\ thread[t] = "due"
  /\ thread' = [thread EXCEPT ![t] = "done"]
  /\ flag' = [flag EXCEPT ![t] = FALSE]
  /\ playing' = IF playing = t THEN NoThread ELSE playing
  /\ UNCHANGED <<owner, asked, deaf, after, uiVars, misfired>>

(* The last key was the end of the song.                                   *)
SongEnds(t) ==
  /\ alive /\ thread[t] = "due"
  /\ thread' = [thread EXCEPT ![t] = "done"]
  /\ flag' = [flag EXCEPT ![t] = FALSE]
  /\ UNCHANGED <<playing, owner, asked, deaf, after, uiVars, misfired>>

ThreadStep(t) ==
  HeadEnds(t) \/ SleepEnds(t) \/ Interrupted(t) \/ PlayKey(t) \/ SongEnds(t)

Next ==
  \/ Listen \/ StopPlay \/ Back
  \/ \E b \in Boards : Play(b) \/ Create(b) \/ Destroy(b) \/ DestroyFails(b)
  \/ \E t \in Threads : ThreadStep(t)

Spec == Init /\ [][Next]_vars

-----------------------------------------------------------------------------
(* Properties. *)

(* No song is lost track of: a thread that nobody has told to stop is the  *)
(* one playingThread names.                                                *)
UnaskedIsPlaying ==
  \A t \in Threads : Live(t) /\ asked[t] = "none" => playing = t

(* A thread told to stop after its first second plays at most the key it   *)
(* was about to play, wherever the interrupt finds it.                     *)
PromptUnlessDeaf == \A t \in Threads : ~deaf[t] => after[t] <= 1

(* playingThread names every thread nobody told to stop, and a thread told *)
(* to after its first second plays at most the key it was about to play    *)
(* (StaticItems.playingThread, SequenceExtractor.sequence).                *)
PlayingIsTracked == TypeOK /\ UnaskedIsPlaying /\ PromptUnlessDeaf

(* A keyboard that is alone from its creation to its destruction, with the *)
(* lists untouched meanwhile, stops its own song and never fails.          *)
LeavesCleanly == ~overlap => alive /\ ~misfired

=============================================================================
