----------------------------- MODULE SoundCache -----------------------------
(***************************************************************************)
(* Starting the app (Init.java): a thread fetches every sound, from the    *)
(* cache if a file of its name is there, else by decoding it into one, and *)
(* hands it to the mixer (tools/SoundMixer.java, soundMixer.go).  The      *)
(* process may die at any time and be started again; and Init may be       *)
(* created again while the thread of its predecessor still runs.           *)
(*                                                                         *)
(* Abstractions.  Of a sound's data only matters whether they are whole.   *)
(* Sounds are numbered in the order they are fetched.  The pictures and    *)
(* the databases, opened first, are left out.                              *)
(***************************************************************************)
EXTENDS Naturals, Sequences

CONSTANTS Threads, N    \* threads of Init, and the number of sounds

Sounds == 1..N

VARIABLES
  cache,        \* the file of each sound: "absent", "cut" or "whole"
  thread,       \* where each thread is, and the sound it fetches
  format,       \* audioFormat is known
  audio,        \* the mixer could be initiated
  buffers,      \* the mixer's buffers, each of a sound, whole or not
  ids,          \* the mixer's map from sounds to buffers, 0 for none
  main,         \* Main is in front
  failed,       \* a thread of this process could not read or write
  torn,         \* history: a file was left cut
  overlapped    \* history: two threads ran at a time

mixer == <<audio, buffers, ids>>
vars == <<cache, thread, format, audio, buffers, ids, main, failed, torn, overlapped>>

Places == {"none", "mixer", "look", "decode", "create", "write", "load", "name", "format", "build", "done"}
Running(t) == thread[t].at \notin {"none", "done"}
At(t, place) == thread[t].at = place
NoneRuns == [t \in Threads |-> [at |-> "none", sound |-> 1]]

TypeOK ==
  /\ cache \in [Sounds -> {"absent", "cut", "whole"}]
  /\ thread \in [Threads -> [at: Places, sound: 1..N + 1]]
  /\ \A t \in Threads : thread[t].at \in {"decode", "create", "write", "load", "name"} => thread[t].sound <= N
  /\ buffers \in Seq([sound: Sounds, whole: BOOLEAN])
  /\ ids \in [Sounds -> Nat] /\ \A s \in Sounds : ids[s] <= Len(buffers)
  /\ format \in BOOLEAN /\ audio \in BOOLEAN /\ main \in BOOLEAN
  /\ failed \in BOOLEAN /\ torn \in BOOLEAN /\ overlapped \in BOOLEAN

Init ==
  /\ cache = [s \in Sounds |-> "absent"]
  /\ thread = NoneRuns
  /\ format = FALSE /\ audio = FALSE
  /\ buffers = <<>> /\ ids = [s \in Sounds |-> 0]
  /\ main = FALSE
  /\ failed = FALSE /\ torn = FALSE /\ overlapped = FALSE

Goto(t, place) == thread' = [thread EXCEPT ![t].at = place]

(* The process dies; only the files are left. *)
Die ==
  /\ thread' = NoneRuns
  /\ format' = FALSE /\ audio' = FALSE
  /\ buffers' = <<>> /\ ids' = [s \in Sounds |-> 0]
  /\ main' = FALSE /\ failed' = FALSE
  /\ torn' = (torn \/ \E t \in Threads : At(t, "write"))
  /\ UNCHANGED <<cache, overlapped>>

Killed == (main \/ \E t \in Threads : Running(t)) /\ Die

-----------------------------------------------------------------------------
(* onCreate starts a thread, whether or not an earlier one has ended.      *)
Create(t) ==
  /\ ~Running(t)
  /\ thread' = [thread EXCEPT ![t] = [at |-> "mixer", sound |-> 1]]
  /\ main' = FALSE
  /\ failed' = (failed /\ \E u \in Threads : Running(u))
  /\ overlapped' = (overlapped \/ \E u \in Threads : Running(u))
  /\ UNCHANGED <<cache, format, mixer, torn>>

(* A new SoundMixer initiates the mixer anew; without a device it stays    *)
(* silent.                                                                 *)
NewMixer(t) ==
  /\ At(t, "mixer")
  /\ audio' \in BOOLEAN
  /\ buffers' = <<>> /\ ids' = [s \in Sounds |-> 0]
  /\ Goto(t, "look")
  /\ UNCHANGED <<cache, format, main, failed, torn, overlapped>>

(* Mutant: a sound in the cache is skipped. *)
LookOnce(t) ==
  LET s == thread[t].sound IN
  /\ At(t, "look")
  /\ thread' = [thread EXCEPT ![t] =
                  IF s > N THEN [at |-> "format", sound |-> s]
                  ELSE IF cache[s] # "absent" THEN [at |-> "look", sound |-> s + 1]
                  ELSE [at |-> "decode", sound |-> s]]
  /\ UNCHANGED <<cache, format, mixer, main, failed, torn, overlapped>>

(* What a file holds is not looked at, only whether it is there. *)
Look(t) ==
  LET s == thread[t].sound IN
  /\ At(t, "look")
  /\ Goto(t, IF s > N THEN "format" ELSE IF cache[s] # "absent" THEN "load" ELSE "decode")
  /\ UNCHANGED <<cache, format, mixer, main, failed, torn, overlapped>>

Decode(t) ==
  /\ At(t, "decode")
  /\ format' = TRUE
  /\ Goto(t, "create")
  /\ UNCHANGED <<cache, mixer, main, failed, torn, overlapped>>

(* Mutant: the file is loaded before it is written. *)
CreateAndLoad(t) ==
  /\ At(t, "create")
  /\ cache' = [cache EXCEPT ![thread[t].sound] = "cut"]
  /\ Goto(t, "load")
  /\ UNCHANGED <<format, mixer, main, failed, torn, overlapped>>

(* The file is there, empty, before it is written. *)
CreateFile(t) ==
  /\ At(t, "create")
  /\ cache' = [cache EXCEPT ![thread[t].sound] = "cut"]
  /\ Goto(t, "write")
  /\ UNCHANGED <<format, mixer, main, failed, torn, overlapped>>

Write(t) ==
  /\ At(t, "write")
  /\ cache' = [cache EXCEPT ![thread[t].sound] = "whole"]
  /\ Goto(t, "load")
  /\ UNCHANGED <<format, mixer, main, failed, torn, overlapped>>

(* Mutant: a failed fetching is begun again. *)
FailAgain(t) ==
  /\ thread[t].at \in {"decode", "create", "write", "format"}
  /\ Goto(t, "look")
  /\ failed' = TRUE
  /\ torn' = (torn \/ At(t, "write"))
  /\ UNCHANGED <<cache, format, mixer, main, overlapped>>

(* An IOException on opening or writing ends the fetching, and the app     *)
(* goes on; the file stays as it is.                                       *)
Fail(t) ==
  /\ thread[t].at \in {"decode", "create", "write", "format"}
  /\ Goto(t, "build")
  /\ failed' = TRUE
  /\ torn' = (torn \/ At(t, "write"))
  /\ UNCHANGED <<cache, format, mixer, main, overlapped>>

(* No decoder can be made for the sound: the process dies of it.           *)
DecoderFails(t) == thread[t].at \in {"decode", "format"} /\ Die

FetchNext(t) == thread' = [thread EXCEPT ![t] = [at |-> "look", sound |-> thread[t].sound + 1]]

(* The mixer, if it was initiated, reads the file into a buffer ...        *)
Load(t) ==
  LET s == thread[t].sound IN
  /\ At(t, "load")
  /\ IF audio
     THEN /\ buffers' = Append(buffers, [sound |-> s, whole |-> cache[s] = "whole"])
          /\ Goto(t, "name")
     ELSE FetchNext(t) /\ UNCHANGED buffers
  /\ UNCHANGED <<cache, format, audio, ids, main, failed, torn, overlapped>>

(* ... and maps the sound to the last buffer there is.                     *)
Name(t) ==
  /\ At(t, "name") /\ buffers # <<>>
  /\ ids' = [ids EXCEPT ![thread[t].sound] = Len(buffers)]
  /\ FetchNext(t)
  /\ UNCHANGED <<cache, format, audio, buffers, main, failed, torn, overlapped>>

(* Another start has emptied the mixer in between: a panic.                *)
NameFails(t) == At(t, "name") /\ buffers = <<>> /\ Die

(* With all sounds in the cache none was decoded: one is, for its format.  *)
LearnFormat(t) ==
  /\ At(t, "format")
  /\ format' = TRUE
  /\ Goto(t, "build")
  /\ UNCHANGED <<cache, mixer, main, failed, torn, overlapped>>

(* The mixer is told the format; that it is not known is a failure of the  *)
(* thread, and the end of the process.  Then Main is started.              *)
Build(t) ==
  /\ At(t, "build")
  /\ format
  /\ main' = TRUE
  /\ Goto(t, "done")
  /\ UNCHANGED <<cache, format, mixer, failed, torn, overlapped>>

BuildFails(t) == At(t, "build") /\ ~format /\ Die

-----------------------------------------------------------------------------
Step(t) ==
  \/ NewMixer(t) \/ Look(t) \/ Decode(t) \/ CreateFile(t) \/ Write(t) \/ Fail(t)
  \/ DecoderFails(t) \/ Load(t) \/ Name(t) \/ NameFails(t) \/ LearnFormat(t) \/ Build(t) \/ BuildFails(t)

Next == Killed \/ \E t \in Threads : Create(t) \/ Step(t)

Spec == Init /\ [][Next]_vars

-----------------------------------------------------------------------------
(* Properties. *)

(* No sound is loaded cut, as long as no start was broken off while it was *)
(* writing and no two ran at a time.                                       *)
LoadedWhole == ~torn /\ ~overlapped => \A b \in DOMAIN buffers : buffers[b].whole

(* Every sound is mapped to its own buffer, with one start at a time,      *)
(* however often the app is started in the same process.                   *)
SoundsAreOwn ==
  ~overlapped => \A s \in Sounds : ids[s] # 0 => buffers[ids[s]].sound = s

(* What holds at every step of every start: the mixer knows each sound by  *)
(* a buffer that is its own and whole.                                     *)
Inv == TypeOK /\ LoadedWhole /\ SoundsAreOwn

(* Main has every sound if there is a device and nothing failed to be read *)
(* or written, wherever earlier starts were broken off.                    *)
MainHasAll == main /\ audio /\ ~failed /\ ~overlapped => \A s \in Sounds : ids[s] # 0

=============================================================================
