------------------------------ MODULE MCThreads ------------------------------
(***************************************************************************)
(* What threads hand to each other, in one run.  The mixer and others,     *)
(* without a lock: the events of a context for its thread (EventRing),     *)
(* samples for the output of the device (OpenSLPlayback), and the changes  *)
(* of voices that calls send (ChangeList).  The playing thread and the     *)
(* view's: the notes that fall (Barrage).  The four share no state; part   *)
(* names the one that moves, while the others stay where they start.       *)
(*   Notes: three on two keys, in a view so low that three are seen.       *)
(***************************************************************************)
EXTENDS EventRing

CONSTANTS
  NumUpdates, MaxSlotPosts, Change, Cluster, Clusters, LongestSend,
  MaxNotes, Touches, NoTouch, ViewHeight, Half, Step, Gap

VARIABLES
  ring, slotSem, mKillNow, slotMixer, player, bufferCallback, device, call,
  mNext, says, allocated, tail, current, held, cur,
  alive, notesLock, drawKeys, playKeys, length, touch, adds, iterator, tap, autoPlay,
  score, combo, judged, played, unseen, overlapped,
  part          \* which of the four moves

outputVars == <<ring, slotSem, mKillNow, slotMixer, player, bufferCallback, device, call>>
listVars == <<mNext, says, allocated, tail, current, held, cur>>

notesVars == <<alive, notesLock, drawKeys, playKeys, length, touch, adds, iterator, tap,
               autoPlay, score, combo, judged, played, unseen, overlapped>>

Output == INSTANCE OpenSLPlayback WITH
  MaxPosts <- MaxSlotPosts, sem <- slotSem, mixer <- slotMixer, callback <- bufferCallback
Changes == INSTANCE ChangeList
Falling == INSTANCE Barrage WITH lock <- notesLock, player <- adds

(* There is a power of two above the number of slots.                     *)
ASSUME OutputAssumptions ==
  /\ NumUpdates \in Nat \ {0} /\ MaxSlotPosts \in Nat
  /\ Output!PowerOfTwo \in Nat /\ Output!PowerOfTwo > NumUpdates

ASSUME ChangesAssumptions ==
  Cluster \in Nat \ {0, 1} /\ Clusters \in Nat \ {0} /\ LongestSend \in Nat

ASSUME NotesAssumptions ==
  /\ MaxNotes \in Nat /\ ViewHeight \in Nat /\ Gap \in Nat
  /\ Half \in Nat \ {0} /\ Step \in Nat \ {0}
  /\ NoTouch \notin Touches

MCInit == Init /\ Output!Init /\ Changes!Init /\ Falling!Init
          /\ part \in {"events", "output", "changes", "notes"}

MCNext ==
  \/ part = "events" /\ Next /\ UNCHANGED <<outputVars, listVars, notesVars, part>>
  \/ part = "output" /\ Output!Next /\ UNCHANGED <<vars, listVars, notesVars, part>>
  \/ part = "changes" /\ Changes!Next /\ UNCHANGED <<vars, outputVars, notesVars, part>>
  \/ part = "notes" /\ Falling!Next /\ UNCHANGED <<vars, outputVars, listVars, part>>

(* The fairness of each, while it is the one that moves.  Of the notes: the*)
(* iterator runs for ever, and a playing thread leaves addKey.             *)
MCFairness ==
  /\ WF_vars(part = "events" /\ (MixBegins \/ MixAdvances \/ MixEnds \/ DisconnectReported \/ Leaves))
  /\ WF_vars(part = "events" /\ EventThread)
  /\ WF_vars(part = "events" /\ StopEventThrd)
  /\ WF_outputVars(part = "output" /\ (Output!ProcessAdvances \/ Output!ProcessPosts))
  /\ WF_outputVars(part = "output" /\ Output!mixerProc)
  /\ WF_outputVars(part = "output" /\ (Output!Backend \/ Output!CallEnds))
  /\ WF_notesVars(part = "notes" /\ alive /\ Falling!IteratorStep)
  /\ WF_notesVars(part = "notes" /\ alive /\ (Falling!AddSize \/ Falling!AddGet))

MCSpec == MCInit /\ [][MCNext]_<<vars, outputVars, listVars, notesVars, part>> /\ MCFairness

-----------------------------------------------------------------------------
(* The thread takes every event while the device mixes on, and             *)
(* StopEventThrd, for which alcDestroyContext waits, returns (al/event.cpp)*)
EventsEnd == EventsArrive /\ StopReturns

(* The slots of the ring are rendered, queued and played in order          *)
(* (opensl.cpp).                                                           *)
OutputInv == part = "output" => Output!Inv

(* A device that runs keeps rendering while its player plays, and a call   *)
(* that stops the output returns (opensl.cpp).                             *)
OutputRuns ==
  /\ WF_outputVars(part = "output" /\ Output!Finishes) => Output!Rendering
  /\ Output!StopReturns

(* The list of voice changes, through which the mixer walks while calls    *)
(* take its processed elements for new changes, is one chain and a queue   *)
(* (al/source.cpp, alc/alu.cpp).                                           *)
Queue == INSTANCE ChangeQueue WITH queue <- IF part = "changes" THEN Changes!Sent ELSE <<>>
ChangesAreQueue == Queue!Spec /\ [](part = "changes" => Changes!Inv)

(* Every note is gone in the end, unless the app dies (BarrageView.java).  *)
NotesEnd == Falling!NotesEnd
=============================================================================
