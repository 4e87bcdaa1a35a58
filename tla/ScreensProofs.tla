---------------------------- MODULE ScreensProofs ----------------------------
(***************************************************************************)
(* What MCScreens promises of every number of threads, keyboards, sounds,  *)
(* starts, banks, songs, handlers and notes: that playingThread names      *)
(* every thread nobody told to stop, that a thread told after its first    *)
(* second plays one more key at most, that a keyboard that is alone leaves *)
(* cleanly, that no sound is loaded cut, that every sound has a buffer of  *)
(* its own, and that Main has them all as long as no start overlaps        *)
(* another; that the screens of songs show the tables and songs go with    *)
(* their banks; that the lists and the maps of the catalogue tell the      *)
(* same; and that the falling notes keep their order and distance, none is *)
(* lost, and a touch does harm only while another thread holds the lock.   *)
(***************************************************************************)
EXTENDS MCScreens, Removal, FiniteSetTheorems, SequenceTheorems, WellFoundedInduction, TLAPS

-----------------------------------------------------------------------------
(* Playback: the threads that play, and the keyboards. *)

(* A keyboard asked for is not one that is leaving. *)
Apart == launched \cap leaving = {}

(* A thread that was told after its first second, and before it was done,  *)
(* has its interrupt status up until it is done, and plays the key it was  *)
(* about to play or none.                                                  *)
ToldNotices ==
  \A t \in Threads :
    /\ thread[t] = "unused" => asked[t] = "none"
    /\ asked[t] = "none" => after[t] = 0
    /\ asked[t] # "none" /\ ~deaf[t] =>
         /\ thread[t] # "head"
         /\ thread[t] \in {"sleep", "due"} => flag[t]
         /\ thread[t] = "due" => after[t] = 0

(* A keyboard that was alone since its creation is the only one, on the    *)
(* screen or leaving, and the playing thread is its own.                   *)
AloneWithItsSong ==
  ~overlap =>
    \/ stack = <<>> /\ leaving = {}
    \/ /\ playing \in Threads
       /\ \/ stack = <<owner[playing]>> /\ leaving = {}
          \/ stack = <<>> /\ leaving = {owner[playing]}

(* The inductive invariant. *)
IInv ==
  TypeOK /\ Apart /\ UnaskedIsPlaying /\ PromptUnlessDeaf /\ ToldNotices
  /\ AloneWithItsSong /\ LeavesCleanly

-----------------------------------------------------------------------------
(* Types. *)

LEMMA TypeInit == Init => TypeOK
<1> SUFFICES ASSUME Init PROVE TypeOK
  OBVIOUS
<1>1. stack \in Seq(Boards) /\ DOMAIN stack = {}
  BY DEF Init
<1>2. IsInjective(stack) /\ ToSet(stack) = {}
  BY <1>1 DEF IsInjective, ToSet
<1>3. ToSet(stack) \cap (launched \cup leaving) = {}
  BY <1>2
<1>4. /\ thread \in [Threads -> ThreadStates] /\ asked \in [Threads -> Reasons]
      /\ flag \in [Threads -> BOOLEAN] /\ deaf \in [Threads -> BOOLEAN]
      /\ owner \in [Threads -> Boards \cup {List}] /\ after \in [Threads -> 0..2]
  BY DEF Init, ThreadStates, Reasons
<1>5. /\ playing \in Threads \cup {NoThread}
      /\ launched \in SUBSET Boards /\ leaving \in SUBSET Boards
      /\ {alive, misfired, overlap} \subseteq BOOLEAN
  BY DEF Init
<1> QED
  BY <1>1, <1>2, <1>3, <1>4, <1>5 DEF TypeOK

(* The types of what Tell changes. *)
LEMMA TellTypes ==
  ASSUME TypeOK, NEW why \in Reasons, Tell(why)
  PROVE  /\ flag' \in [Threads -> BOOLEAN]
         /\ asked' \in [Threads -> Reasons]
         /\ deaf' \in [Threads -> BOOLEAN]
BY DEF TypeOK, Tell, Live

LEMMA ReplaceTypes ==
  ASSUME TypeOK, NEW who \in Boards \cup {List}, Replace(who)
  PROVE  /\ playing' \in Threads
         /\ thread' \in [Threads -> ThreadStates]
         /\ owner' \in [Threads -> Boards \cup {List}]
         /\ owner'[playing'] = who
         /\ flag' \in [Threads -> BOOLEAN]
         /\ asked' \in [Threads -> Reasons]
         /\ deaf' \in [Threads -> BOOLEAN]
         /\ after' = after /\ misfired' = misfired
<1>1. Tell("replaced") /\ "replaced" \in Reasons
  BY DEF Replace, Reasons
<1>2. PICK t \in Threads \ Started :
         playing' = t /\ thread' = [thread EXCEPT ![t] = "head"]
         /\ owner' = [owner EXCEPT ![t] = who] /\ UNCHANGED <<after, misfired>>
  BY DEF Replace
<1> QED
  BY <1>1, <1>2, TellTypes DEF TypeOK, ThreadStates

(* A keyboard comes onto the screen, or leaves it. *)
LEMMA StackTypes ==
  ASSUME NEW s \in Seq(Boards), IsInjective(s)
  PROVE  /\ \A b \in Boards \ ToSet(s) :
              /\ Append(s, b) \in Seq(Boards) /\ IsInjective(Append(s, b))
              /\ ToSet(Append(s, b)) = ToSet(s) \cup {b}
         /\ s # <<>> =>
              /\ Front(s) \in Seq(Boards) /\ IsInjective(Front(s))
              /\ Last(s) \in Boards /\ Last(s) \notin ToSet(Front(s))
              /\ ToSet(Front(s)) \subseteq ToSet(s) /\ Last(s) \in ToSet(s)
<1>1. ASSUME NEW b \in Boards \ ToSet(s)
      PROVE  /\ Append(s, b) \in Seq(Boards) /\ IsInjective(Append(s, b))
             /\ ToSet(Append(s, b)) = ToSet(s) \cup {b}
  BY <1>1 DEF IsInjective, ToSet
<1>2. ASSUME s # <<>>
      PROVE  /\ Front(s) \in Seq(Boards) /\ IsInjective(Front(s))
             /\ Last(s) \in Boards /\ Last(s) \notin ToSet(Front(s))
             /\ ToSet(Front(s)) \subseteq ToSet(s) /\ Last(s) \in ToSet(s)
  <2> DEFINE n == Len(s)
  <2>1. n \in Nat \ {0} /\ DOMAIN s = 1..n
    BY <1>2
  <2>2. /\ Front(s) \in Seq(Boards) /\ Len(Front(s)) = n - 1
        /\ DOMAIN Front(s) = 1..(n - 1)
        /\ \A i \in 1..(n - 1) : Front(s)[i] = s[i]
    BY <2>1 DEF Front
  <2>3. Last(s) = s[n]
    BY DEF Last
  <2> QED
    BY <2>1, <2>2, <2>3 DEF IsInjective, ToSet
<1> QED
  BY <1>1, <1>2

LEMMA TypeScreens ==
  ASSUME TypeOK, Apart,
         Listen \/ StopPlay \/ Back
         \/ \E b \in Boards : Play(b) \/ Create(b) \/ Destroy(b) \/ DestroyFails(b)
  PROVE  TypeOK' /\ Apart'
<1> USE DEF Apart
<1>1. CASE Listen
  <2>1. Replace(List) /\ overlap' \in BOOLEAN /\ UNCHANGED <<launched, stack, leaving, alive>>
    BY <1>1 DEF Listen, TypeOK
  <2> QED
    BY <2>1, ReplaceTypes DEF TypeOK
<1>2. CASE StopPlay
  <2>1. Tell("stop") /\ "stop" \in Reasons
    BY <1>2 DEF StopPlay, Reasons
  <2> QED
    BY <1>2, <2>1, TellTypes DEF StopPlay, TypeOK
<1>3. CASE Back
  <2>1. stack \in Seq(Boards) /\ IsInjective(stack) /\ stack # <<>>
    BY <1>3 DEF Back, TypeOK
  <2>2. /\ stack' \in Seq(Boards) /\ IsInjective(stack') /\ leaving' \in SUBSET Boards
        /\ ToSet(stack') \cap (launched \cup leaving') = {}
    BY <1>3, <2>1, StackTypes DEF Back, TypeOK
  <2> QED
    BY <1>3, <2>1, <2>2, StackTypes DEF Back, TypeOK, threadVars
<1>4. ASSUME NEW b \in Boards, Play(b) PROVE TypeOK' /\ Apart'
  BY <1>4 DEF Play, ListInFront, TypeOK, threadVars, ToSet
<1>5. ASSUME NEW b \in Boards, Create(b) PROVE TypeOK' /\ Apart'
  <2>1. Replace(b) /\ overlap' \in BOOLEAN /\ UNCHANGED <<leaving, alive>>
    BY <1>5 DEF Create, TypeOK
  <2>2. b \notin ToSet(stack) /\ stack \in Seq(Boards) /\ IsInjective(stack)
    BY <1>5 DEF Create, TypeOK
  <2>3. /\ stack' \in Seq(Boards) /\ IsInjective(stack') /\ launched' \in SUBSET Boards
        /\ ToSet(stack') \cap (launched' \cup leaving) = {}
    <3>1. b \notin leaving
      BY <1>5 DEF Create
    <3>2. ToSet(stack') = ToSet(stack) \cup {b}
      BY <1>5, <2>2, StackTypes DEF Create
    <3>3. ToSet(stack) \cap (launched \cup leaving) = {} /\ launched \in SUBSET Boards
      BY DEF TypeOK
    <3>4. stack' \in Seq(Boards) /\ IsInjective(stack')
      BY <1>5, <2>2, StackTypes DEF Create
    <3> QED
      BY <1>5, <3>1, <3>2, <3>3, <3>4 DEF Create
  <2> QED
    BY <1>5, <2>1, <2>3, ReplaceTypes DEF Create, TypeOK
<1>6. ASSUME NEW b \in Boards, Destroy(b) PROVE TypeOK' /\ Apart'
  <2>1. Tell("left") /\ "left" \in Reasons
    BY <1>6 DEF Destroy, Reasons
  <2> QED
    BY <1>6, <2>1, TellTypes DEF Destroy, TypeOK
<1>7. ASSUME NEW b \in Boards, DestroyFails(b) PROVE TypeOK' /\ Apart'
  BY <1>7 DEF DestroyFails, TypeOK, threadVars
<1> QED
  BY <1>1, <1>2, <1>3, <1>4, <1>5, <1>6, <1>7

LEMMA TypeThreads ==
  ASSUME TypeOK, Apart, NEW t \in Threads, ThreadStep(t)
  PROVE  TypeOK' /\ Apart'
<1> USE DEF TypeOK, Apart, uiVars, ThreadStates
<1>1. CASE HeadEnds(t)
  BY <1>1 DEF HeadEnds
<1>2. CASE SleepEnds(t)
  BY <1>2 DEF SleepEnds
<1>3. CASE Interrupted(t)
  BY <1>3 DEF Interrupted
<1>4. CASE PlayKey(t)
  BY <1>4 DEF PlayKey
<1>5. CASE SongEnds(t)
  BY <1>5 DEF SongEnds
<1> QED
  BY <1>1, <1>2, <1>3, <1>4, <1>5 DEF ThreadStep

-----------------------------------------------------------------------------
(* Threads that are told. *)

Told == UnaskedIsPlaying /\ PromptUnlessDeaf /\ ToldNotices

(* The playing thread is told, and is the playing thread no more. *)
LEMMA ToldByTell ==
  ASSUME TypeOK, Told, NEW why \in Reasons \ {"none"}, Tell(why),
         UNCHANGED <<thread, after>>
  PROVE  Told'
<1>1. ASSUME NEW t \in Threads, t # playing \/ ~Live(t)
      PROVE  flag'[t] = flag[t] /\ asked'[t] = asked[t] /\ deaf'[t] = deaf[t]
  BY <1>1 DEF Tell, TypeOK
<1>2. ASSUME NEW t \in Threads, t = playing, Live(t)
      PROVE  flag'[t] /\ asked'[t] # "none" /\ deaf'[t] = (deaf[t] \/ thread[t] = "head")
  BY <1>2 DEF Tell, TypeOK
<1>3. UnaskedIsPlaying'
  BY <1>1, <1>2 DEF Told, UnaskedIsPlaying, Live
<1>4. PromptUnlessDeaf'
  BY <1>1, <1>2 DEF Told, PromptUnlessDeaf, TypeOK
<1>5. ToldNotices'
  BY <1>1, <1>2 DEF Told, ToldNotices, Live, TypeOK
<1> QED
  BY <1>3, <1>4, <1>5 DEF Told

(* The playing thread is told, and another takes its place. *)
LEMMA ToldByReplace ==
  ASSUME TypeOK, Told, NEW who \in Boards \cup {List}, Replace(who)
  PROVE  Told'
<1>1. PICK n \in Threads : /\ thread[n] = "unused" /\ playing' = n
                           /\ thread' = [thread EXCEPT ![n] = "head"]
                           /\ Tell("replaced") /\ after' = after
  BY DEF Replace, Started
<1>2. asked'[n] = "none" /\ after'[n] = 0
  BY <1>1 DEF Tell, Live, Told, ToldNotices, TypeOK
<1>3. ASSUME NEW t \in Threads, t # n, t # playing \/ ~Live(t)
      PROVE  /\ flag'[t] = flag[t] /\ asked'[t] = asked[t] /\ deaf'[t] = deaf[t]
             /\ thread'[t] = thread[t] /\ after'[t] = after[t]
  BY <1>1, <1>3 DEF Tell, TypeOK
<1>4. ASSUME NEW t \in Threads, t # n, t = playing, Live(t)
      PROVE  /\ flag'[t] /\ asked'[t] # "none"
             /\ deaf'[t] = (deaf[t] \/ thread[t] = "head")
             /\ thread'[t] = thread[t] /\ after'[t] = after[t]
  BY <1>1, <1>4 DEF Tell, TypeOK
<1>5. UnaskedIsPlaying'
  BY <1>1, <1>3, <1>4 DEF Told, UnaskedIsPlaying, Live
<1>6. PromptUnlessDeaf'
  BY <1>2, <1>3, <1>4 DEF Told, PromptUnlessDeaf, TypeOK
<1>7. ToldNotices'
  <2> SUFFICES ASSUME NEW t \in Threads
               PROVE  /\ thread'[t] = "unused" => asked'[t] = "none"
                      /\ asked'[t] = "none" => after'[t] = 0
                      /\ asked'[t] # "none" /\ ~deaf'[t] =>
                           /\ thread'[t] # "head"
                           /\ thread'[t] \in {"sleep", "due"} => flag'[t]
                           /\ thread'[t] = "due" => after'[t] = 0
    BY DEF ToldNotices
  <2>0. /\ thread[t] = "unused" => asked[t] = "none"
        /\ asked[t] = "none" => after[t] = 0
        /\ asked[t] # "none" /\ ~deaf[t] =>
             /\ thread[t] # "head"
             /\ thread[t] \in {"sleep", "due"} => flag[t]
             /\ thread[t] = "due" => after[t] = 0
    BY DEF Told, ToldNotices
  <2>1. CASE t = n
    <3>1. thread'[n] = "head"
      BY <1>1 DEF TypeOK
    <3> QED
      BY <1>2, <2>1, <3>1
  <2>2. CASE t # n /\ (t # playing \/ ~Live(t))
    BY <1>3, <2>0, <2>2
  <2>3. CASE t # n /\ t = playing /\ Live(t)
    <3>1. UnaskedIsPlaying /\ PromptUnlessDeaf /\ after[t] = after'[t]
      BY <1>4, <2>3 DEF Told
    <3>2. asked[t] = "none" => after[t] = 0
      BY <2>0
    <3> QED
      BY <1>4, <2>0, <2>3, <3>1, <3>2 DEF Live
  <2> QED
    BY <2>1, <2>2, <2>3
<1> QED
  BY <1>5, <1>6, <1>7 DEF Told

LEMMA ToldScreens ==
  ASSUME TypeOK, Told,
         Listen \/ StopPlay \/ Back
         \/ \E b \in Boards : Play(b) \/ Create(b) \/ Destroy(b) \/ DestroyFails(b)
  PROVE  Told'
<1>1. CASE Listen
  BY <1>1, ToldByReplace DEF Listen
<1>2. CASE StopPlay
  BY <1>2, ToldByTell DEF StopPlay, Reasons
<1>3. CASE Back \/ \E b \in Boards : Play(b) \/ DestroyFails(b)
  BY <1>3 DEF Back, Play, DestroyFails, threadVars, Told, UnaskedIsPlaying, Live,
              PromptUnlessDeaf, ToldNotices
<1>4. ASSUME NEW b \in Boards, Create(b) PROVE Told'
  BY <1>4, ToldByReplace DEF Create
<1>5. ASSUME NEW b \in Boards, Destroy(b) PROVE Told'
  BY <1>5, ToldByTell DEF Destroy, Reasons
<1> QED
  BY <1>1, <1>2, <1>3, <1>4, <1>5

LEMMA ToldThreads ==
  ASSUME TypeOK, Told, NEW t \in Threads, ThreadStep(t)
  PROVE  Told'
<1> USE DEF TypeOK, ThreadStates, Told, UnaskedIsPlaying, Live, PromptUnlessDeaf, ToldNotices
<1>1. CASE HeadEnds(t)
  BY <1>1 DEF HeadEnds
<1>2. CASE SleepEnds(t)
  BY <1>2 DEF SleepEnds
<1>3. CASE Interrupted(t)
  BY <1>3 DEF Interrupted
<1>4. CASE PlayKey(t)
  BY <1>4 DEF PlayKey
<1>5. CASE SongEnds(t)
  BY <1>5 DEF SongEnds
<1> QED
  BY <1>1, <1>2, <1>3, <1>4, <1>5 DEF ThreadStep

-----------------------------------------------------------------------------
(* Keyboards that are alone. *)

LEMMA AloneScreens ==
  ASSUME TypeOK, AloneWithItsSong, LeavesCleanly,
         Listen \/ StopPlay \/ Back
         \/ \E b \in Boards : Play(b) \/ Create(b) \/ Destroy(b) \/ DestroyFails(b)
  PROVE  AloneWithItsSong' /\ LeavesCleanly'
<1> USE DEF AloneWithItsSong, LeavesCleanly
<1>1. CASE Listen
  BY <1>1, ReplaceTypes DEF Listen, ListInFront
<1>2. CASE StopPlay
  BY <1>2 DEF StopPlay, ListInFront
<1>3. CASE Back
  <2>1. ~overlap => stack = <<owner[playing]>> /\ leaving = {} /\ playing \in Threads
    BY <1>3 DEF Back
  <2>2. ASSUME ~overlap PROVE Front(stack) = <<>> /\ Last(stack) = owner[playing]
    <3>1. Len(stack) = 1 /\ stack[1] = owner[playing]
      BY <2>1, <2>2
    <3>2. SubSeq(stack, 1, 0) = <<>>
      BY <2>1, <2>2
    <3> QED
      BY <3>1, <3>2 DEF Front, Last
  <2> QED
    BY <1>3, <2>1, <2>2 DEF Back, threadVars
<1>4. ASSUME NEW b \in Boards, Play(b) PROVE AloneWithItsSong' /\ LeavesCleanly'
  BY <1>4 DEF Play, threadVars
<1>5. ASSUME NEW b \in Boards, Create(b) PROVE AloneWithItsSong' /\ LeavesCleanly'
  <2>1. playing' \in Threads /\ owner'[playing'] = b /\ misfired' = misfired
    BY <1>5, ReplaceTypes DEF Create
  <2>2. ASSUME overlap' = FALSE
        PROVE  stack' = <<b>> /\ leaving' = {} /\ ~overlap
    <3>1. stack = <<>> /\ leaving = {} /\ ~overlap
      BY <1>5, <2>2 DEF Create
    <3>2. Append(<<>>, b) = <<b>>
      OBVIOUS
    <3> QED
      BY <1>5, <3>1, <3>2 DEF Create
  <2> QED
    BY <1>5, <2>1, <2>2 DEF Create
<1>6. ASSUME NEW b \in Boards, Destroy(b) PROVE AloneWithItsSong' /\ LeavesCleanly'
  BY <1>6 DEF Destroy
<1>7. ASSUME NEW b \in Boards, DestroyFails(b) PROVE AloneWithItsSong' /\ LeavesCleanly'
  BY <1>7, PlaybackAssumptions DEF DestroyFails, threadVars
<1> QED
  BY <1>1, <1>2, <1>3, <1>4, <1>5, <1>6, <1>7

LEMMA AloneThreads ==
  ASSUME AloneWithItsSong, LeavesCleanly, NEW t \in Threads, ThreadStep(t)
  PROVE  AloneWithItsSong' /\ LeavesCleanly'
BY DEF ThreadStep, HeadEnds, SleepEnds, Interrupted, PlayKey, SongEnds, uiVars,
       AloneWithItsSong, LeavesCleanly

-----------------------------------------------------------------------------
(* The invariant. *)

LEMMA InitInv == Init => IInv
<1> SUFFICES ASSUME Init PROVE IInv
  OBVIOUS
<1>1. UnaskedIsPlaying /\ PromptUnlessDeaf /\ ToldNotices
  BY DEF Init, UnaskedIsPlaying, Live, PromptUnlessDeaf, ToldNotices
<1>2. Apart /\ AloneWithItsSong /\ LeavesCleanly
  BY DEF Init, Apart, AloneWithItsSong, LeavesCleanly
<1> QED
  BY <1>1, <1>2, TypeInit DEF IInv

LEMMA StepInv == IInv /\ [Next]_vars => IInv'
<1> SUFFICES ASSUME IInv, [Next]_vars PROVE IInv'
  OBVIOUS
<1>1. CASE Listen \/ StopPlay \/ Back
           \/ \E b \in Boards : Play(b) \/ Create(b) \/ Destroy(b) \/ DestroyFails(b)
  BY <1>1, TypeScreens, ToldScreens, AloneScreens DEF IInv, Told
<1>2. ASSUME NEW t \in Threads, ThreadStep(t) PROVE IInv'
  BY <1>2, TypeThreads, ToldThreads, AloneThreads DEF IInv, Told
<1>3. CASE UNCHANGED vars
  BY <1>3 DEF vars, threadVars, uiVars, IInv, TypeOK, Apart, UnaskedIsPlaying, Live,
              PromptUnlessDeaf, ToldNotices, AloneWithItsSong, LeavesCleanly
<1> QED
  BY <1>1, <1>2, <1>3 DEF Next

LEMMA Invariance == Spec => []IInv
BY InitInv, StepInv, PTL DEF Spec

(* playingThread names every thread nobody told to stop, and a thread told *)
(* after its first second plays at most the key it was about to play, for  *)
(* every number of threads and keyboards (StaticItems.playingThread,       *)
(* SequenceExtractor.sequence).                                            *)
THEOREM PlayingStaysTracked == Spec => []PlayingIsTracked
<1>1. IInv => PlayingIsTracked
  BY DEF IInv, PlayingIsTracked
<1> QED
  BY <1>1, Invariance, PTL

(* A keyboard that is alone from its creation to its destruction, with the *)
(* lists untouched, stops its own song and never fails (Keyboard.          *)
(* onDestroy).                                                             *)
THEOREM AloneLeavesCleanly == Spec => []LeavesCleanly
<1>1. IInv => LeavesCleanly
  BY DEF IInv
<1> QED
  BY <1>1, Invariance, PTL

-----------------------------------------------------------------------------
(* The sounds. *)

(* While starts do not overlap, one thread runs, and none once Main is in  *)
(* front. *)
OneStartRuns ==
  ~meanwhile =>
    /\ \A t, u \in Starts : Sounds!Running(t) /\ Sounds!Running(u) => t = u
    /\ main => \A t \in Starts : ~Sounds!Running(t)

(* A file that is being loaded is there, and a cut one is being written,   *)
(* unless it was left so. *)
FileIsThere == \A t \in Starts : Sounds!At(t, "load") => cache[start[t].sound] # "absent"
CutIsWritten ==
  ~torn /\ ~meanwhile =>
    \A s \in Sounds!Sounds : cache[s] = "cut" =>
      \E t \in Starts : Sounds!At(t, "write") /\ start[t].sound = s

(* A sound that is about to be named is in the last buffer. *)
LastIsNamed ==
  ~meanwhile =>
    \A t \in Starts : Sounds!At(t, "name") =>
      buffers # <<>> /\ buffers[Len(buffers)].sound = start[t].sound

(* A start begins with the first sound. *)
BeginsAtFirst == \A t \in Starts : Sounds!At(t, "mixer") => start[t].sound = 1

(* A start that did not fail has named every sound before the one it is    *)
(* at, and all of them when it tells the mixer the format. *)
NamedSoFar ==
  audio /\ ~failed /\ ~meanwhile =>
    \A t \in Starts : Sounds!Running(t) /\ ~Sounds!At(t, "mixer") =>
      /\ start[t].at \in {"format", "build"} => start[t].sound = N + 1
      /\ \A s \in Sounds!Sounds : s < start[t].sound => ids[s] # 0

StartsFit == Sounds!TypeOK /\ OneStartRuns /\ BeginsAtFirst
FilesFit == FileIsThere /\ CutIsWritten /\ Sounds!LoadedWhole
BuffersFit == LastIsNamed /\ Sounds!SoundsAreOwn
AllNamed == NamedSoFar /\ Sounds!MainHasAll

(* The inductive invariant. *)
SoundsHold == StartsFit /\ FilesFit /\ BuffersFit /\ AllNamed

-----------------------------------------------------------------------------
(* The process dies. *)

LEMMA DieInv ==
  ASSUME N \in Nat, SoundsHold, Sounds!Die
  PROVE  SoundsHold'
<1>1. /\ \A t \in Starts : start'[t] = [at |-> "none", sound |-> 1]
      /\ start' \in [Starts -> [at : Sounds!Places, sound : 1..N + 1]]
  BY DEF Sounds!Die, Sounds!NoneRuns, Sounds!Places
<1>2. \A t \in Starts : ~Sounds!Running(t)' /\ start'[t].at = "none"
  BY <1>1 DEF Sounds!Running
<1>3. /\ buffers' = <<>> /\ ids' = [s \in Sounds!Sounds |-> 0] /\ cache' = cache
      /\ main' = FALSE /\ audio' = FALSE /\ meanwhile' = meanwhile
  BY DEF Sounds!Die
<1>4. Sounds!TypeOK'
  <2>1. torn' \in BOOLEAN /\ format' \in BOOLEAN /\ failed' \in BOOLEAN
    BY DEF Sounds!Die, SoundsHold, StartsFit, Sounds!TypeOK
  <2>2. Len(<<>>) = 0 /\ <<>> \in Seq([sound: Sounds!Sounds, whole: BOOLEAN])
    OBVIOUS
  <2>3. /\ cache' \in [Sounds!Sounds -> {"absent", "cut", "whole"}]
        /\ meanwhile' \in BOOLEAN /\ main' \in BOOLEAN /\ audio' \in BOOLEAN
    BY <1>3 DEF SoundsHold, StartsFit, Sounds!TypeOK
  <2>4. ids' \in [Sounds!Sounds -> Nat] /\ \A s \in Sounds!Sounds : ids'[s] <= Len(buffers')
    BY <1>3, <2>2
  <2>5. buffers' \in Seq([sound: Sounds!Sounds, whole: BOOLEAN])
    BY <1>3, <2>2
  <2> QED
    BY <1>1, <1>2, <2>1, <2>3, <2>4, <2>5 DEF Sounds!TypeOK
<1>5. CutIsWritten'
  <2>1. ~torn' => ~torn /\ \A t \in Starts : ~Sounds!At(t, "write")
    BY DEF Sounds!Die
  <2> QED
    BY <1>3, <2>1 DEF CutIsWritten, SoundsHold, FilesFit
<1>6. /\ OneStartRuns' /\ BeginsAtFirst' /\ FileIsThere'
      /\ LastIsNamed' /\ NamedSoFar' /\ Sounds!MainHasAll'
  BY <1>2, <1>3 DEF OneStartRuns, BeginsAtFirst, FileIsThere, LastIsNamed, NamedSoFar,
      Sounds!MainHasAll, Sounds!At
<1>7. Sounds!LoadedWhole' /\ Sounds!SoundsAreOwn'
  BY <1>3 DEF Sounds!LoadedWhole, Sounds!SoundsAreOwn
<1> QED
  BY <1>4, <1>5, <1>6, <1>7 DEF SoundsHold, StartsFit, FilesFit, BuffersFit, AllNamed

LEMMA CreateInv ==
  ASSUME N \in Nat, SoundsHold, NEW t \in Starts, Sounds!Create(t)
  PROVE  SoundsHold'
<1> USE DEF SoundsHold, StartsFit, Sounds!TypeOK, Sounds!Places, Sounds!Sounds,
    OneStartRuns, Sounds!Create,
           Sounds!Goto, Sounds!FetchNext, Sounds!At, Sounds!Running, Sounds!mixer
<1>1. Sounds!TypeOK'
  <2>1. failed' \in BOOLEAN /\ meanwhile' \in BOOLEAN
    OBVIOUS
  <2>2. start' \in [Starts -> [at : Sounds!Places, sound : 1..N + 1]]
    OBVIOUS
  <2>3. \A u \in Starts : start'[u].at \in {"decode", "create", "write", "load", "name"}
          => start'[u].sound <= N
    OBVIOUS
  <2> QED
    BY <2>1, <2>2, <2>3
<1>2. OneStartRuns' /\ BeginsAtFirst'
  BY DEF BeginsAtFirst
<1>3. FilesFit'
  BY DEF FilesFit, FileIsThere, CutIsWritten, Sounds!LoadedWhole
<1>4. BuffersFit'
  BY DEF BuffersFit, LastIsNamed, Sounds!SoundsAreOwn
<1>5. AllNamed'
  BY DEF AllNamed, NamedSoFar, Sounds!MainHasAll, BeginsAtFirst
<1> QED
  BY <1>1, <1>2, <1>3, <1>4, <1>5

LEMMA NewMixerInv ==
  ASSUME N \in Nat, SoundsHold, NEW t \in Starts, Sounds!NewMixer(t)
  PROVE  SoundsHold'
<1> USE DEF SoundsHold, StartsFit, Sounds!TypeOK, Sounds!Places, Sounds!Sounds,
    OneStartRuns, Sounds!NewMixer,
           Sounds!Goto, Sounds!FetchNext, Sounds!At, Sounds!Running, Sounds!mixer
<1>1. Sounds!TypeOK'
  OBVIOUS
<1>2. OneStartRuns' /\ BeginsAtFirst'
  BY DEF BeginsAtFirst
<1>3. FilesFit'
  BY DEF FilesFit, FileIsThere, CutIsWritten, Sounds!LoadedWhole
<1>4. BuffersFit'
  BY DEF BuffersFit, LastIsNamed, Sounds!SoundsAreOwn
<1>5. AllNamed'
  <2>1. ~meanwhile => main = FALSE /\ \A u \in Starts : Sounds!Running(u) => u = t
    OBVIOUS
  <2>2. start'[t] = [at |-> "look", sound |-> 1]
    BY DEF BeginsAtFirst
  <2>3. NamedSoFar'
    BY <2>1, <2>2, SMTT(20) DEF NamedSoFar
  <2>4. Sounds!MainHasAll'
    BY <2>1 DEF Sounds!MainHasAll
  <2> QED
    BY <2>3, <2>4 DEF AllNamed
<1> QED
  BY <1>1, <1>2, <1>3, <1>4, <1>5

LEMMA LookInv ==
  ASSUME N \in Nat, SoundsHold, NEW t \in Starts, Sounds!Look(t)
  PROVE  SoundsHold'
<1> USE DEF SoundsHold, StartsFit, Sounds!TypeOK, Sounds!Places, Sounds!Sounds,
    OneStartRuns, Sounds!Look,
           Sounds!Goto, Sounds!FetchNext, Sounds!At, Sounds!Running, Sounds!mixer
<1>1. Sounds!TypeOK'
  OBVIOUS
<1>2. OneStartRuns' /\ BeginsAtFirst'
  BY DEF BeginsAtFirst
<1>3. FilesFit'
  BY DEF FilesFit, FileIsThere, CutIsWritten, Sounds!LoadedWhole
<1>4. BuffersFit'
  BY DEF BuffersFit, LastIsNamed, Sounds!SoundsAreOwn
<1>5. AllNamed'
  BY DEF AllNamed, NamedSoFar, Sounds!MainHasAll, BeginsAtFirst
<1> QED
  BY <1>1, <1>2, <1>3, <1>4, <1>5

LEMMA DecodeInv ==
  ASSUME N \in Nat, SoundsHold, NEW t \in Starts, Sounds!Decode(t)
  PROVE  SoundsHold'
<1> USE DEF SoundsHold, StartsFit, Sounds!TypeOK, Sounds!Places, Sounds!Sounds,
    OneStartRuns, Sounds!Decode,
           Sounds!Goto, Sounds!FetchNext, Sounds!At, Sounds!Running, Sounds!mixer
<1>1. Sounds!TypeOK'
  OBVIOUS
<1>2. OneStartRuns' /\ BeginsAtFirst'
  BY DEF BeginsAtFirst
<1>3. FilesFit'
  BY DEF FilesFit, FileIsThere, CutIsWritten, Sounds!LoadedWhole
<1>4. BuffersFit'
  BY DEF BuffersFit, LastIsNamed, Sounds!SoundsAreOwn
<1>5. AllNamed'
  BY DEF AllNamed, NamedSoFar, Sounds!MainHasAll, BeginsAtFirst
<1> QED
  BY <1>1, <1>2, <1>3, <1>4, <1>5

LEMMA CreateFileInv ==
  ASSUME N \in Nat, SoundsHold, NEW t \in Starts, Sounds!CreateFile(t)
  PROVE  SoundsHold'
<1> USE DEF SoundsHold, StartsFit, Sounds!TypeOK, Sounds!Places, Sounds!Sounds,
    OneStartRuns, Sounds!CreateFile,
           Sounds!Goto, Sounds!FetchNext, Sounds!At, Sounds!Running, Sounds!mixer
<1>1. Sounds!TypeOK'
  OBVIOUS
<1>2. OneStartRuns' /\ BeginsAtFirst'
  BY DEF BeginsAtFirst
<1>3. FilesFit'
  BY DEF FilesFit, FileIsThere, CutIsWritten, Sounds!LoadedWhole
<1>4. BuffersFit'
  BY DEF BuffersFit, LastIsNamed, Sounds!SoundsAreOwn
<1>5. AllNamed'
  BY DEF AllNamed, NamedSoFar, Sounds!MainHasAll, BeginsAtFirst
<1> QED
  BY <1>1, <1>2, <1>3, <1>4, <1>5

LEMMA WriteInv ==
  ASSUME N \in Nat, SoundsHold, NEW t \in Starts, Sounds!Write(t)
  PROVE  SoundsHold'
<1> USE DEF SoundsHold, StartsFit, Sounds!TypeOK, Sounds!Places, Sounds!Sounds,
    OneStartRuns, Sounds!Write,
           Sounds!Goto, Sounds!FetchNext, Sounds!At, Sounds!Running, Sounds!mixer
<1>1. Sounds!TypeOK'
  OBVIOUS
<1>2. OneStartRuns' /\ BeginsAtFirst'
  BY DEF BeginsAtFirst
<1>3. FilesFit'
  BY DEF FilesFit, FileIsThere, CutIsWritten, Sounds!LoadedWhole
<1>4. BuffersFit'
  BY DEF BuffersFit, LastIsNamed, Sounds!SoundsAreOwn
<1>5. AllNamed'
  BY DEF AllNamed, NamedSoFar, Sounds!MainHasAll, BeginsAtFirst
<1> QED
  BY <1>1, <1>2, <1>3, <1>4, <1>5

LEMMA FailInv ==
  ASSUME N \in Nat, SoundsHold, NEW t \in Starts, Sounds!Fail(t)
  PROVE  SoundsHold'
<1> USE DEF SoundsHold, StartsFit, Sounds!TypeOK, Sounds!Places, Sounds!Sounds,
    OneStartRuns, Sounds!Fail,
           Sounds!Goto, Sounds!FetchNext, Sounds!At, Sounds!Running, Sounds!mixer
<1>1. Sounds!TypeOK'
  OBVIOUS
<1>2. OneStartRuns' /\ BeginsAtFirst'
  BY DEF BeginsAtFirst
<1>3. FilesFit'
  BY DEF FilesFit, FileIsThere, CutIsWritten, Sounds!LoadedWhole
<1>4. BuffersFit'
  BY DEF BuffersFit, LastIsNamed, Sounds!SoundsAreOwn
<1>5. AllNamed'
  BY DEF AllNamed, NamedSoFar, Sounds!MainHasAll, BeginsAtFirst
<1> QED
  BY <1>1, <1>2, <1>3, <1>4, <1>5

LEMMA LoadInv ==
  ASSUME N \in Nat, SoundsHold, NEW t \in Starts, Sounds!Load(t)
  PROVE  SoundsHold'
<1> USE DEF SoundsHold, StartsFit, Sounds!TypeOK, Sounds!Places, Sounds!Sounds,
    OneStartRuns, Sounds!At, Sounds!Running
<1>1. /\ Sounds!At(t, "load") /\ start[t].sound \in Sounds!Sounds
      /\ UNCHANGED <<cache, format, audio, ids, main, failed, torn, meanwhile>>
  BY DEF Sounds!Load
<1>2. CASE audio
  <2>1. /\ buffers' = Append(buffers, [sound |-> start[t].sound,
                                      whole |-> cache[start[t].sound] = "whole"])
        /\ start' = [start EXCEPT ![t].at = "name"]
    BY <1>2 DEF Sounds!Load, Sounds!Goto
  <2>2. Sounds!TypeOK'
    BY <1>1, <2>1
  <2>3. OneStartRuns' /\ BeginsAtFirst'
    BY <1>1, <2>1 DEF BeginsAtFirst
  <2>4. FileIsThere' /\ CutIsWritten'
    BY <1>1, <2>1 DEF FilesFit, FileIsThere, CutIsWritten
  <2>5. /\ Len(buffers') = Len(buffers) + 1 /\ Len(buffers) \in Nat
        /\ \A b \in 1..Len(buffers) : buffers'[b] = buffers[b]
        /\ buffers'[Len(buffers) + 1] = [sound |-> start[t].sound,
                                         whole |-> cache[start[t].sound] = "whole"]
        /\ DOMAIN buffers = 1..Len(buffers) /\ DOMAIN buffers' = 1..Len(buffers')
    BY <1>1, <2>1
  <2>6. Sounds!LoadedWhole'
    <3>1. ~torn /\ ~meanwhile => cache[start[t].sound] = "whole"
      <4> SUFFICES ASSUME ~torn, ~meanwhile PROVE cache[start[t].sound] = "whole"
        OBVIOUS
      <4>1. start[t].at = "load" /\ start[t].sound \in 1..N
        BY <1>1
      <4>2. cache[start[t].sound] \in {"absent", "cut", "whole"}
        BY <4>1
      <4>3. cache[start[t].sound] # "absent"
        BY <4>1 DEF FilesFit, FileIsThere
      <4>4. ASSUME NEW u \in Starts PROVE start[u].at # "write"
        BY <4>1
      <4>5. cache[start[t].sound] # "cut"
        BY <4>1, <4>4 DEF FilesFit, CutIsWritten
      <4> QED
        BY <4>2, <4>3, <4>5
    <3> QED
      <4>1. CASE torn \/ meanwhile
        BY <1>1, <4>1 DEF Sounds!LoadedWhole
      <4>2. CASE ~torn /\ ~meanwhile
        <5>1. buffers'[Len(buffers) + 1].whole
          <6>1. (cache[start[t].sound] = "whole") = TRUE
            BY <3>1, <4>2, Zenon
          <6>2. buffers'[Len(buffers) + 1] = [sound |-> start[t].sound, whole |-> TRUE]
            BY <2>5, <6>1, Zenon
          <6> QED
            BY <6>2
        <5>2. \A b \in 1..Len(buffers) : buffers'[b].whole
          BY <2>5, <4>2 DEF FilesFit, Sounds!LoadedWhole
        <5>3. \A b \in DOMAIN buffers' : b \in 1..Len(buffers) \/ b = Len(buffers) + 1
          BY <2>5, SMTT(20)
        <5> QED
          BY <5>1, <5>2, <5>3 DEF Sounds!LoadedWhole
      <4> QED
        BY <4>1, <4>2
  <2>7. BuffersFit'
    <3>1. LastIsNamed'
      <4>1. buffers'[Len(buffers')].sound = start'[t].sound /\ buffers' # <<>>
        <5>1. Len(buffers') # 0 /\ buffers'[Len(buffers')].sound = start[t].sound
          BY <2>5
        <5>2. start'[t].sound = start[t].sound
          BY <2>1
        <5> QED
          BY <5>1, <5>2
      <4>2. ~meanwhile => \A u \in Starts : u # t => ~Sounds!At(u, "name")'
        BY <1>1, <2>1
      <4> QED
        BY <1>1, <4>1, <4>2 DEF LastIsNamed
    <3>2. Sounds!SoundsAreOwn'
      BY <1>1, <2>5 DEF BuffersFit, Sounds!SoundsAreOwn
    <3> QED
      BY <3>1, <3>2 DEF BuffersFit
  <2>8. AllNamed'
    BY <1>1, <2>1 DEF AllNamed, NamedSoFar, Sounds!MainHasAll, BeginsAtFirst
  <2> QED
    BY <2>2, <2>3, <2>4, <2>6, <2>7, <2>8 DEF FilesFit
<1>3. CASE ~audio
  <2>1. /\ buffers' = buffers
        /\ start' = [start EXCEPT ![t] = [at |-> "look", sound |-> start[t].sound + 1]]
    BY <1>3 DEF Sounds!Load, Sounds!FetchNext
  <2>2. Sounds!TypeOK'
    BY <1>1, <2>1
  <2>3. OneStartRuns' /\ BeginsAtFirst'
    BY <1>1, <2>1 DEF BeginsAtFirst
  <2>4. FilesFit'
    BY <1>1, <2>1 DEF FilesFit, FileIsThere, CutIsWritten, Sounds!LoadedWhole
  <2>5. BuffersFit'
    BY <1>1, <2>1 DEF BuffersFit, LastIsNamed, Sounds!SoundsAreOwn
  <2>6. AllNamed'
    BY <1>1, <1>3, <2>1 DEF AllNamed, NamedSoFar, Sounds!MainHasAll, BeginsAtFirst
  <2> QED
    BY <2>2, <2>3, <2>4, <2>5, <2>6
<1> QED
  BY <1>2, <1>3

LEMMA NameInv ==
  ASSUME N \in Nat, SoundsHold, NEW t \in Starts, Sounds!Name(t)
  PROVE  SoundsHold'
<1> USE DEF SoundsHold, StartsFit, Sounds!TypeOK, Sounds!Places, Sounds!Sounds,
    OneStartRuns, Sounds!Name,
           Sounds!Goto, Sounds!FetchNext, Sounds!At, Sounds!Running, Sounds!mixer
<1>1. Sounds!TypeOK'
  OBVIOUS
<1>2. OneStartRuns' /\ BeginsAtFirst'
  BY DEF BeginsAtFirst
<1>3. FilesFit'
  BY DEF FilesFit, FileIsThere, CutIsWritten, Sounds!LoadedWhole
<1>4. BuffersFit'
  BY DEF BuffersFit, LastIsNamed, Sounds!SoundsAreOwn
<1>5. AllNamed'
  BY DEF AllNamed, NamedSoFar, Sounds!MainHasAll, BeginsAtFirst
<1> QED
  BY <1>1, <1>2, <1>3, <1>4, <1>5

LEMMA LearnFormatInv ==
  ASSUME N \in Nat, SoundsHold, NEW t \in Starts, Sounds!LearnFormat(t)
  PROVE  SoundsHold'
<1> USE DEF SoundsHold, StartsFit, Sounds!TypeOK, Sounds!Places, Sounds!Sounds,
    OneStartRuns, Sounds!LearnFormat,
           Sounds!Goto, Sounds!FetchNext, Sounds!At, Sounds!Running, Sounds!mixer
<1>1. Sounds!TypeOK'
  OBVIOUS
<1>2. OneStartRuns' /\ BeginsAtFirst'
  BY DEF BeginsAtFirst
<1>3. FilesFit'
  BY DEF FilesFit, FileIsThere, CutIsWritten, Sounds!LoadedWhole
<1>4. BuffersFit'
  BY DEF BuffersFit, LastIsNamed, Sounds!SoundsAreOwn
<1>5. AllNamed'
  BY DEF AllNamed, NamedSoFar, Sounds!MainHasAll, BeginsAtFirst
<1> QED
  BY <1>1, <1>2, <1>3, <1>4, <1>5

LEMMA BuildInv ==
  ASSUME N \in Nat, SoundsHold, NEW t \in Starts, Sounds!Build(t)
  PROVE  SoundsHold'
<1> USE DEF SoundsHold, StartsFit, Sounds!TypeOK, Sounds!Places, Sounds!Sounds,
    OneStartRuns, Sounds!Build,
           Sounds!Goto, Sounds!FetchNext, Sounds!At, Sounds!Running, Sounds!mixer
<1>1. Sounds!TypeOK'
  OBVIOUS
<1>2. OneStartRuns' /\ BeginsAtFirst'
  BY DEF BeginsAtFirst
<1>3. FilesFit'
  BY DEF FilesFit, FileIsThere, CutIsWritten, Sounds!LoadedWhole
<1>4. BuffersFit'
  BY DEF BuffersFit, LastIsNamed, Sounds!SoundsAreOwn
<1>5. AllNamed'
  BY DEF AllNamed, NamedSoFar, Sounds!MainHasAll, BeginsAtFirst
<1> QED
  BY <1>1, <1>2, <1>3, <1>4, <1>5

-----------------------------------------------------------------------------
(* The invariant. *)

LEMMA SoundsInitHold == ASSUME N \in Nat, Sounds!Init PROVE SoundsHold
<1>1. Sounds!TypeOK
  <2>1. <<>> \in Seq([sound: Sounds!Sounds, whole: BOOLEAN]) /\ Len(<<>>) = 0
    OBVIOUS
  <2>2. /\ start \in [Starts -> [at : Sounds!Places, sound : 1..N + 1]]
        /\ \A t \in Starts : start[t].at = "none"
    BY DEF Sounds!Init, Sounds!NoneRuns, Sounds!Places
  <2>3. /\ ids \in [Sounds!Sounds -> Nat] /\ buffers = <<>> /\ \A s \in Sounds!Sounds : ids[s] = 0
        /\ cache \in [Sounds!Sounds -> {"absent", "cut", "whole"}]
        /\ format \in BOOLEAN /\ audio \in BOOLEAN /\ main \in BOOLEAN
        /\ failed \in BOOLEAN /\ torn \in BOOLEAN /\ meanwhile \in BOOLEAN
    BY DEF Sounds!Init
  <2> QED
    BY <2>1, <2>2, <2>3 DEF Sounds!TypeOK
<1>2. OneStartRuns /\ BeginsAtFirst
  BY DEF Sounds!Init, Sounds!NoneRuns, OneStartRuns, BeginsAtFirst, Sounds!Running,
      Sounds!At
<1>3. FilesFit /\ BuffersFit /\ AllNamed
  BY DEF Sounds!Init, Sounds!NoneRuns, FilesFit, FileIsThere, CutIsWritten,
      Sounds!LoadedWhole, BuffersFit, LastIsNamed,
         Sounds!SoundsAreOwn, AllNamed, NamedSoFar, Sounds!MainHasAll, Sounds!At
<1> QED
  BY <1>1, <1>2, <1>3 DEF SoundsHold, StartsFit

LEMMA SoundsStepHold ==
  ASSUME N \in Nat, SoundsHold, [Sounds!Next]_(Sounds!vars)
  PROVE  SoundsHold'
<1>1. CASE UNCHANGED Sounds!vars
  BY <1>1 DEF Sounds!vars, Sounds!mixer, SoundsHold, StartsFit, Sounds!TypeOK,
      OneStartRuns, BeginsAtFirst, Sounds!Running, Sounds!At, FilesFit,
       FileIsThere, CutIsWritten, Sounds!LoadedWhole, BuffersFit, LastIsNamed,
       Sounds!SoundsAreOwn, AllNamed,
       NamedSoFar, Sounds!MainHasAll
<1>2. CASE Sounds!Killed
  BY <1>2, DieInv DEF Sounds!Killed
<1>3. ASSUME NEW t \in Starts, Sounds!Create(t) \/ Sounds!Step(t) PROVE SoundsHold'
  <2>1. CASE Sounds!DecoderFails(t) \/ Sounds!NameFails(t) \/ Sounds!BuildFails(t)
    BY <2>1, DieInv DEF Sounds!DecoderFails, Sounds!NameFails, Sounds!BuildFails
  <2> QED
    BY <1>3, <2>1, CreateInv, NewMixerInv, LookInv, DecodeInv, CreateFileInv, WriteInv,
       FailInv, LoadInv, NameInv, LearnFormatInv, BuildInv DEF Sounds!Step
<1> QED
  BY <1>1, <1>2, <1>3 DEF Sounds!Next

(* The mixer knows each sound by a buffer of its own, no sound is loaded   *)
(* cut and Main has them all, for every number of sounds and starts, unless*)
(* a start was broken off while it wrote or overlapped another one         *)
(* (Init.onCreate, SoundMixer.load, soundMixer.go).                        *)
THEOREM SoundsStayWhole == MCSpec => []SoundsInv
<1> USE ScreensAssumptions
<1>1. MCInit => SoundsHold
  BY SoundsInitHold DEF MCInit
<1>2. SoundsHold /\ [MCNext]_allVars => SoundsHold'
  <2> SUFFICES ASSUME SoundsHold, [MCNext]_allVars
      PROVE  SoundsHold'
    OBVIOUS
  <2>1. [Sounds!Next]_(Sounds!vars)
    BY DEF MCNext, allVars, soundVars, Sounds!vars, Sounds!mixer
  <2> QED
    BY <2>1, SoundsStepHold
<1>3. SoundsHold => SoundsInv
  BY DEF SoundsInv, SoundsHold, StartsFit, FilesFit, BuffersFit, AllNamed, Sounds!Inv
<1> QED
  BY <1>1, <1>2, <1>3, PTL DEF MCSpec

-----------------------------------------------------------------------------
(* What is left of a list of which something was taken out (Removal).       *)

(* A set of naturals has a least one. *)
LEMMA Least ==
  ASSUME NEW S \in SUBSET Nat, S # {}
  PROVE  \E n \in S : \A k \in S : n <= k
<1>1. PICK n \in S : \A k \in S : ~(<<k, n>> \in OpToRel(<, Nat))
  BY NatLessThanWellFounded, WFMin
<1>2. ASSUME NEW k \in S PROVE n <= k
  <2>1. k \in Nat /\ n \in Nat
    OBVIOUS
  <2>2. ~(k < n)
    BY <1>1, <2>1, Zenon DEF OpToRel
  <2> QED
    BY <2>1, <2>2
<1> QED
  BY <1>2

(* What holds of 0, and of n + 1 whenever it holds of n, holds of every n. *)
LEMMA Naturals ==
  ASSUME NEW S, 0 \in S, \A n \in Nat : n \in S => n + 1 \in S
  PROVE  Nat \subseteq S
<1> SUFFICES ASSUME Nat \ S # {} PROVE FALSE
  OBVIOUS
<1>1. PICK n \in Nat \ S : \A k \in Nat \ S : n <= k
  BY Least
<1>2. n # 0 /\ n - 1 \in Nat /\ n - 1 \in S
  BY <1>1
<1> QED
  BY <1>1, <1>2

(* What is kept of a prefix of s, n long, is w: f tells the places in s.    *)
Keeps(s, S, n, w, f) ==
  /\ f \in [1..Len(w) -> 1..n]
  /\ \A i, j \in 1..Len(w) : i < j => f[i] < f[j]
  /\ \A i \in 1..Len(w) : w[i] = s[f[i]]
  /\ \A k \in 1..n : s[k] \notin S <=> \E i \in 1..Len(w) : f[i] = k

LEMMA KeepsNext ==
  ASSUME NEW A, NEW s \in Seq(A), NEW S, NEW n \in 0..Len(s) - 1,
         NEW w \in Seq(A), NEW f, Keeps(s, S, n, w, f)
  PROVE  /\ s[n + 1] \in S => \E g : Keeps(s, S, n + 1, w, g)
         /\ s[n + 1] \notin S => \E g : Keeps(s, S, n + 1, Append(w, s[n + 1]), g)
<1>1. n \in Nat /\ n + 1 \in 1..Len(s) /\ s[n + 1] \in A /\ Len(w) \in Nat
  OBVIOUS
<1>2. ASSUME s[n + 1] \in S PROVE Keeps(s, S, n + 1, w, f)
  <2>0. f \in [1..Len(w) -> 1..n]
    BY DEF Keeps
  <2>1. f \in [1..Len(w) -> 1..n + 1]
    BY <1>1, <2>0
  <2>2. ASSUME NEW k \in 1..n + 1
        PROVE  s[k] \notin S <=> \E i \in 1..Len(w) : f[i] = k
    <3>1. CASE k = n + 1
      <4>1. \A i \in 1..Len(w) : f[i] # n + 1
        BY <1>1, <2>0
      <4> QED
        BY <1>2, <3>1, <4>1
    <3>2. CASE k # n + 1
      <4>1. k \in 1..n
        BY <1>1, <3>2
      <4> QED
        BY <4>1 DEF Keeps
    <3> QED
      BY <3>1, <3>2
  <2> QED
    BY <2>1, <2>2 DEF Keeps
<1>3. ASSUME s[n + 1] \notin S PROVE \E g : Keeps(s, S, n + 1, Append(w, s[n + 1]), g)
  <2> DEFINE m == Len(w)
             v == Append(w, s[n + 1])
             g == [i \in 1..m + 1 |-> IF i = m + 1 THEN n + 1 ELSE f[i]]
  <2>1. /\ Len(v) = m + 1 /\ v[m + 1] = s[n + 1]
        /\ \A i \in 1..m : v[i] = w[i]
    BY <1>1
  <2>2. g \in [1..m + 1 -> 1..n + 1] /\ g[m + 1] = n + 1 /\ \A i \in 1..m : g[i] = f[i]
    BY <1>1 DEF Keeps
  <2>3. \A i \in 1..m : f[i] \in 1..n /\ w[i] = s[f[i]]
    BY DEF Keeps
  <2>4. \A i, j \in 1..m : i < j => f[i] < f[j]
    BY DEF Keeps
  <2>5. \A k \in 1..n : s[k] \notin S <=> \E i \in 1..m : f[i] = k
    BY DEF Keeps
  <2> HIDE DEF v, g, m
  <2>6. m \in Nat /\ m = Len(w)
    BY <1>1 DEF m
  <2>7. \A i, j \in 1..m + 1 : i < j => g[i] < g[j]
    <3> SUFFICES ASSUME NEW i \in 1..m + 1, NEW j \in 1..m + 1, i < j PROVE g[i] < g[j]
      OBVIOUS
    <3>1. i \in 1..m /\ g[i] = f[i] /\ f[i] \in 1..n
      BY <2>2, <2>3, <2>6
    <3>2. CASE j # m + 1
      <4>1. j \in 1..m
        BY <2>6, <3>2
      <4>2. f[i] < f[j] /\ g[j] = f[j]
        BY <2>2, <2>4, <3>1, <4>1
      <4> QED
        BY <3>1, <4>2
    <3>3. CASE j = m + 1
      BY <1>1, <2>2, <3>1, <3>3
    <3> QED
      BY <3>2, <3>3
  <2>8. ASSUME NEW i \in 1..m + 1 PROVE v[i] = s[g[i]]
    <3>1. i = m + 1 \/ i \in 1..m
      BY <2>6
    <3> QED
      BY <2>1, <2>2, <2>3, <3>1
  <2>9. \A k \in 1..n + 1 : s[k] \notin S <=> \E i \in 1..m + 1 : g[i] = k
    <3> SUFFICES ASSUME NEW k \in 1..n + 1
                 PROVE  s[k] \notin S <=> \E i \in 1..m + 1 : g[i] = k
      OBVIOUS
    <3>1. CASE k # n + 1
      <4>1. k \in 1..n
        BY <3>1, <1>1
      <4>2. (\E i \in 1..m : f[i] = k) <=> (\E i \in 1..m + 1 : g[i] = k)
        <5>1. \A i \in 1..m + 1 : i = m + 1 \/ i \in 1..m
          BY <2>6
        <5>2. \A i \in 1..m : i \in 1..m + 1
          BY <2>6
        <5> QED
          BY <3>1, <5>1, <5>2, <2>2
      <4> QED
        BY <2>5, <4>1, <4>2
    <3>2. CASE k = n + 1
      <4>1. m + 1 \in 1..m + 1
        BY <2>6
      <4> QED
        BY <3>2, <4>1, <1>3, <2>2
    <3> QED
      BY <3>1, <3>2
  <2>10. Keeps(s, S, n + 1, v, g)
    BY <2>1, <2>2, <2>7, <2>8, <2>9 DEF Keeps
  <2> QED
    BY <2>10 DEF v
<1> QED
  BY <1>2, <1>3

LEMMA WithoutKeeps ==
  ASSUME NEW A, NEW s \in Seq(A), NEW S
  PROVE  Without(s, S) \in Seq(A) /\ \E f : Keeps(s, S, Len(s), Without(s, S), f)
<1> DEFINE L == Len(s)
           Longer(n, w) == IF s[n] \in S THEN w ELSE Append(w, s[n])
           Solves(g, n) == g = [k \in 0..n |-> IF k = 0 THEN <<>> ELSE Longer(k, g[k - 1])]
<1>0. L \in Nat
  OBVIOUS
<1>1. \E g : Solves(g, L)
  <2> DEFINE T == {n \in Nat : \E g : Solves(g, n)}
  <2>1. 0 \in T
    <3> DEFINE h == [k \in 0..0 |-> <<>>]
    <3>1. Solves(h, 0)
      OBVIOUS
    <3> HIDE DEF Solves, h
    <3> QED
      BY <3>1
  <2>2. ASSUME NEW n \in Nat, n \in T PROVE n + 1 \in T
    <3>1. PICK g : Solves(g, n)
      BY <2>2
    <3> DEFINE h == [k \in 0..n + 1 |-> IF k = n + 1 THEN Longer(n + 1, g[n]) ELSE g[k]]
    <3> HIDE DEF Longer
    <3>2. \A k \in 0..n : g[k] = IF k = 0 THEN <<>> ELSE Longer(k, g[k - 1])
      BY <3>1
    <3>3. \A k \in 0..n : h[k] = g[k]
      OBVIOUS
    <3>4. ASSUME NEW k \in 0..n + 1
          PROVE  h[k] = IF k = 0 THEN <<>> ELSE Longer(k, h[k - 1])
      <4>1. CASE k = n + 1
        <5>1. h[n + 1] = Longer(n + 1, g[n]) /\ h[n] = g[n] /\ (n + 1) - 1 = n
          OBVIOUS
        <5> HIDE DEF h
        <5> QED  BY <4>1, <5>1
      <4>2. CASE k # n + 1
        <5>1. k \in 0..n /\ (k # 0 => k - 1 \in 0..n)
          BY <4>2
        <5> HIDE DEF h
        <5> QED  BY <3>2, <3>3, <5>1
      <4> QED  BY <4>1, <4>2
    <3>5. Solves(h, n + 1)
      <4>1. h = [k \in 0..n + 1 |-> h[k]]
        OBVIOUS
      <4> HIDE DEF h
      <4> QED  BY <3>4, <4>1
    <3> HIDE DEF Solves, h
    <3> QED
      BY <3>5
  <2> HIDE DEF T
  <2>3. L \in T
    BY <1>0, <2>1, <2>2, Naturals
  <2> QED
    BY <2>3 DEF T
<1> DEFINE kept == CHOOSE g : Solves(g, L)
<1>2. Without(s, S) = kept[L]
  BY DEF Without
<1>3. Solves(kept, L)
  <2> HIDE DEF Solves
  <2> QED
    BY <1>1
<1> HIDE DEF kept
<1>4. kept[0] = <<>> /\ \A n \in 0..L - 1 : kept[n + 1] = Longer(n + 1, kept[n])
  <2>1. \A k \in 0..L : kept[k] = IF k = 0 THEN <<>> ELSE Longer(k, kept[k - 1])
    <3> HIDE DEF Longer
    <3> QED  BY <1>3
  <2>2. ASSUME NEW n \in 0..L - 1 PROVE kept[n + 1] = Longer(n + 1, kept[n])
    <3>1. n + 1 \in 0..L /\ n + 1 # 0 /\ (n + 1) - 1 = n
      BY <1>0
    <3> HIDE DEF Longer
    <3> QED  BY <2>1, <3>1
  <2>3. 0 \in 0..L
    BY <1>0
  <2> HIDE DEF Longer
  <2> QED
    BY <2>1, <2>2, <2>3
<1> DEFINE R == {n \in Nat : n <= L => kept[n] \in Seq(A) /\ \E f : Keeps(s, S, n, kept[n], f)}
<1>5. 0 \in R
  <2>1. Keeps(s, S, 0, <<>>, <<>>)
    BY DEF Keeps
  <2>2. <<>> \in Seq(A)
    OBVIOUS
  <2> QED
    BY <1>4, <2>1, <2>2
<1>6. ASSUME NEW n \in Nat, n \in R PROVE n + 1 \in R
  <2> SUFFICES ASSUME n + 1 <= L
               PROVE  kept[n + 1] \in Seq(A) /\ \E f : Keeps(s, S, n + 1, kept[n + 1], f)
    OBVIOUS
  <2>1. n \in 0..L - 1 /\ n <= L /\ s[n + 1] \in A
    BY <1>0
  <2>2. kept[n] \in Seq(A)
    BY <1>6, <2>1
  <2>3. PICK f : Keeps(s, S, n, kept[n], f)
    BY <1>6, <2>1
  <2>4. /\ s[n + 1] \in S => \E g : Keeps(s, S, n + 1, kept[n], g)
        /\ s[n + 1] \notin S => \E g : Keeps(s, S, n + 1, Append(kept[n], s[n + 1]), g)
    BY <2>1, <2>2, <2>3, KeepsNext
  <2>5. kept[n + 1] = IF s[n + 1] \in S THEN kept[n] ELSE Append(kept[n], s[n + 1])
    BY <1>4, <2>1
  <2>6. Append(kept[n], s[n + 1]) \in Seq(A)
    BY <2>1, <2>2
  <2>7. CASE s[n + 1] \in S
    BY <2>2, <2>4, <2>5, <2>7
  <2>8. CASE s[n + 1] \notin S
    BY <2>4, <2>5, <2>6, <2>8
  <2> QED
    BY <2>7, <2>8
<1> HIDE DEF R
<1>7. L \in R
  BY <1>0, <1>5, <1>6, Naturals
<1> QED
  BY <1>2, <1>7, <1>0 DEF R

(* It is a list of the others, in their order.                             *)
LEMMA WithoutIs ==
  ASSUME NEW A, NEW s \in Seq(A), NEW S
  PROVE  /\ Without(s, S) \in Seq(A)
         /\ ToSet(Without(s, S)) = ToSet(s) \ S
         /\ \E f \in [DOMAIN Without(s, S) -> DOMAIN s] :
              /\ \A i, j \in DOMAIN Without(s, S) : i < j => f[i] < f[j]
              /\ \A i \in DOMAIN Without(s, S) : Without(s, S)[i] = s[f[i]]
<1> DEFINE w == Without(s, S)
<1>1. w \in Seq(A)
  BY WithoutKeeps
<1>2. PICK f : Keeps(s, S, Len(s), w, f)
  BY WithoutKeeps
<1> HIDE DEF w
<1>3. DOMAIN w = 1..Len(w) /\ DOMAIN s = 1..Len(s)
  BY <1>1
<1>4. ToSet(w) = ToSet(s) \ S
  BY <1>2, <1>3 DEF Keeps, ToSet
<1>5. /\ f \in [DOMAIN w -> DOMAIN s]
      /\ \A i, j \in DOMAIN w : i < j => f[i] < f[j]
      /\ \A i \in DOMAIN w : w[i] = s[f[i]]
  BY <1>2, <1>3 DEF Keeps
<1> QED
  BY <1>1, <1>4, <1>5 DEF w

-----------------------------------------------------------------------------
(* SongStore: the songs on the device. *)

LEMMA StoreWithout == ASSUME NEW s, NEW S PROVE Store!Without(s, S) = Without(s, S)
BY DEF Without, Store!Without

LEMMA StoreCardinality == ASSUME NEW S PROVE Store!Cardinality(S) = Cardinality(S)
BY DEF Store!Cardinality, Cardinality

LEMMA StoreSetToSeq ==
  ASSUME NEW A, NEW S \in SUBSET A, IsFiniteSet(S)
  PROVE  Store!SetToSeq(S) \in Seq(A)
<1> DEFINE n == Cardinality(S)
<1>1. n \in Nat /\ ExistsBijection(1..n, S)
  BY FS_CardinalityType
<1>2. PICK g \in [1..n -> S] : Store!IsInjective(g)
  BY <1>1 DEF ExistsBijection, Bijection, Injection, Store!IsInjective, IsInjective
<1>3. Store!SetToSeq(S) \in [1..n -> S]
  <2>1. \E h \in [1..n -> S] : Store!IsInjective(h)
    BY <1>2
  <2>2. Store!Cardinality(S) = n
    BY StoreCardinality
  <2>3. Store!SetToSeq(S) = CHOOSE h \in [1..n -> S] : Store!IsInjective(h)
    BY <2>2 DEF Store!SetToSeq
  <2> QED
    BY <2>1, <2>3
<1> QED
  BY <1>1, <1>3

AtMostOne(S) == S = {} \/ \E n \in Names : S = {n}

(* A question is only asked over the list of banks, and the screen that    *)
(* adds a song knows the bank, one there is unless it was orphaned.        *)
AskedAndTarget ==
  /\ askedBank # {} => screen = "songs"
  /\ screen = "addSong" => \E n \in Names : target = {n} /\ (~orphaning => n \in ToSet(banks))

StoreTypes ==
  /\ banks \in Seq(Names) /\ songs \in Seq(Store!SongRecords)
  /\ rows \in [bank: 0..MaxBanks, song: 0..MaxSongs]
  /\ AtMostOne(deleting) /\ AtMostOne(askedBank)
  /\ screen \in Store!Screens
  /\ listed \in Seq(Names)
  /\ listLeft \in BOOLEAN /\ picked \in BOOLEAN /\ orphaning \in BOOLEAN
  /\ target \in SUBSET Names
  /\ pages \in Seq(Names) /\ page \in Nat /\ large \in SUBSET Nat

(* The songs are in the order of their rows, which are all used.           *)
RowsAscend ==
  /\ \A k, m \in DOMAIN songs : k < m => songs[k].row < songs[m].row
  /\ \A k \in DOMAIN songs : songs[k].row <= rows.song

StoreHolds ==
  /\ StoreTypes /\ RowsAscend /\ AskedAndTarget
  /\ Store!ListIsCurrent /\ Store!PageIsMarked /\ Store!SongsHaveBanks

LEMMA StoreToSet == ASSUME NEW s PROVE Store!ToSet(s) = ToSet(s)
BY DEF ToSet, Store!ToSet

LEMMA StoreDies ==
  ASSUME StoreHolds, Store!Die
  PROVE  StoreHolds'
<1>1. UNCHANGED <<banks, songs, rows>> /\ orphaning' = (orphaning \/ deleting # {})
  BY DEF Store!Die, Store!table
<1>2. /\ screen' = "main" /\ listed' = <<>> /\ askedBank' = {} /\ listLeft' = FALSE
      /\ deleting' = {} /\ target' = {} /\ picked' = FALSE
      /\ pages' = <<>> /\ page' = 0 /\ large' = {}
  BY DEF Store!Die
<1>3. StoreTypes'
  <2>1. <<>> \in Seq(Names) /\ "main" \in Store!Screens
    BY DEF Store!Screens
  <2>2. orphaning' \in BOOLEAN
    BY <1>1, <1>2 DEF StoreHolds, StoreTypes
  <2> QED
    BY <1>1, <1>2, <2>1, <2>2 DEF StoreHolds, StoreTypes, AtMostOne
<1>4. RowsAscend' /\ AskedAndTarget' /\ Store!ListIsCurrent' /\ Store!PageIsMarked'
  BY <1>1, <1>2 DEF StoreHolds, RowsAscend, AskedAndTarget, Store!ListIsCurrent,
                    Store!PageIsMarked
<1>5. Store!SongsHaveBanks'
  BY <1>1, <1>2, StoreToSet DEF StoreHolds, StoreTypes, Store!SongsHaveBanks, Store!BankOf
<1> QED
  BY <1>3, <1>4, <1>5 DEF StoreHolds

(* What only changes the screen, and leaves the tables.                     *)
LEMMA StoreScreens ==
  ASSUME StoreHolds,
         \/ Store!OpenSongs \/ Store!Search \/ Store!Dismiss \/ Store!EmptyActivityEnds
         \/ Store!Back \/ Store!OpenAddBank \/ Store!AddNoBank \/ Store!CancelSong
         \/ \E n \in Names : Store!AskDelete(n) \/ Store!OpenAddSong(n)
  PROVE  StoreHolds'
<1>1. UNCHANGED <<banks, songs, rows, deleting, pages, page, large>> /\ deleting = {}
  BY DEF Store!OpenSongs, Store!Search, Store!Dismiss, Store!EmptyActivityEnds, Store!Back,
         Store!OpenAddBank, Store!AddNoBank, Store!CancelSong, Store!AskDelete,
         Store!OpenAddSong, Store!Free, Store!table, Store!local
<1>2. /\ screen' \in Store!Screens /\ screen' # "local"
      /\ listed' \in {listed, banks} /\ AtMostOne(askedBank')
      /\ listLeft' \in BOOLEAN /\ picked' \in BOOLEAN /\ target' \in SUBSET Names
      /\ orphaning' \in BOOLEAN /\ (orphaning => orphaning')
  BY StoreToSet DEF StoreHolds, StoreTypes, AskedAndTarget, AtMostOne, Store!Screens,
         Store!OpenSongs, Store!Search, Store!Dismiss, Store!EmptyActivityEnds, Store!Back,
         Store!OpenAddBank, Store!AddNoBank, Store!CancelSong, Store!AskDelete,
         Store!OpenAddSong, Store!Free, Store!ResumeSongs, Store!list
<1>3. StoreTypes'
  BY <1>1, <1>2 DEF StoreHolds, StoreTypes, AtMostOne, Store!SongRecords
<1>4. AskedAndTarget'
  BY <1>1, StoreToSet DEF StoreHolds, StoreTypes, AskedAndTarget, AtMostOne, Store!Screens,
         Store!OpenSongs, Store!Search, Store!Dismiss, Store!EmptyActivityEnds, Store!Back,
         Store!OpenAddBank, Store!AddNoBank, Store!CancelSong, Store!AskDelete,
         Store!OpenAddSong, Store!Free, Store!ResumeSongs, Store!list
<1>5. Store!ListIsCurrent'
  BY <1>1 DEF StoreHolds, AskedAndTarget, Store!ListIsCurrent,
         Store!OpenSongs, Store!Search, Store!Dismiss, Store!EmptyActivityEnds, Store!Back,
         Store!OpenAddBank, Store!AddNoBank, Store!CancelSong, Store!AskDelete,
         Store!OpenAddSong, Store!Free, Store!ResumeSongs, Store!list
<1>6. RowsAscend' /\ Store!PageIsMarked' /\ Store!SongsHaveBanks'
  BY <1>1, <1>2, StoreToSet DEF StoreHolds, RowsAscend, Store!PageIsMarked,
         Store!SongsHaveBanks, Store!BankOf
<1> QED
  BY <1>3, <1>4, <1>5, <1>6 DEF StoreHolds

(* A bank goes: every bank of its name, and then its songs.                *)
LEMMA StoreDeleteBanks ==
  ASSUME StoreHolds, Store!DeleteBanks
  PROVE  StoreHolds'
<1>1. /\ UNCHANGED <<songs, rows, pages, page, large, listed, askedBank, listLeft, screen,
                     target, picked, orphaning>>
      /\ deleting = {} /\ askedBank # {} /\ deleting' = askedBank
      /\ banks' = Without(banks, askedBank)
  BY StoreWithout DEF Store!DeleteBanks, Store!Free, Store!local, Store!list
<1>2. banks' \in Seq(Names) /\ ToSet(banks') = ToSet(banks) \ askedBank
  BY <1>1, WithoutIs DEF StoreHolds, StoreTypes
<1>3. StoreTypes'
  BY <1>1, <1>2 DEF StoreHolds, StoreTypes, AtMostOne
<1>4. screen = "songs"
  BY <1>1 DEF StoreHolds, AskedAndTarget
<1>5. RowsAscend' /\ AskedAndTarget' /\ Store!ListIsCurrent' /\ Store!PageIsMarked'
  BY <1>1, <1>4 DEF StoreHolds, RowsAscend, AskedAndTarget, Store!ListIsCurrent,
                    Store!PageIsMarked, Store!Free
<1>6. Store!SongsHaveBanks'
  BY <1>1, <1>2, StoreToSet DEF StoreHolds, Store!SongsHaveBanks, Store!BankOf
<1> QED
  BY <1>3, <1>5, <1>6 DEF StoreHolds

LEMMA StoreDeleteSongs ==
  ASSUME StoreHolds, Store!DeleteSongs
  PROVE  /\ StoreHolds'
         /\ \A s \in ToSet(songs) : s \in ToSet(songs') \/ s.bank \in deleting
<1> DEFINE lost == {s \in ToSet(songs) : s.bank \in deleting}
<1>1. /\ UNCHANGED <<banks, rows, pages, page, large, listed, screen, target, picked, orphaning>>
      /\ deleting # {} /\ deleting' = {} /\ askedBank' = {} /\ listLeft' = TRUE
      /\ songs' = Without(songs, lost)
  BY StoreWithout, StoreToSet DEF Store!DeleteSongs, Store!local
<1>2. songs \in Seq(Store!SongRecords)
  BY DEF StoreHolds, StoreTypes
<1> HIDE DEF lost
<1>3. songs' \in Seq(Store!SongRecords) /\ ToSet(songs') = ToSet(songs) \ lost
  BY <1>1, <1>2, WithoutIs
<1>4. PICK f \in [DOMAIN songs' -> DOMAIN songs] :
        /\ \A i, j \in DOMAIN songs' : i < j => f[i] < f[j]
        /\ \A i \in DOMAIN songs' : songs'[i] = songs[f[i]]
  BY <1>1, <1>2, WithoutIs
<1>5. StoreTypes'
  BY <1>1, <1>3 DEF StoreHolds, StoreTypes, AtMostOne
<1>6. AskedAndTarget' /\ Store!ListIsCurrent' /\ Store!PageIsMarked'
  BY <1>1 DEF StoreHolds, AskedAndTarget, Store!ListIsCurrent, Store!PageIsMarked
<1>7. RowsAscend'
  BY <1>1, <1>4 DEF StoreHolds, RowsAscend
<1>8. \A s \in ToSet(songs') : s \in ToSet(songs) /\ s.bank \notin deleting
  BY <1>3 DEF lost
<1>9. Store!SongsHaveBanks'
  <2>1. \A k \in DOMAIN songs' : songs'[k] \in ToSet(songs')
    BY DEF ToSet
  <2>2. ~orphaning => \A s \in ToSet(songs) : s.bank \in ToSet(banks) \cup deleting
    BY StoreToSet DEF StoreHolds, Store!SongsHaveBanks, Store!BankOf, ToSet
  <2>3. ~orphaning => \A s \in ToSet(songs') : s.bank \in ToSet(banks)
    BY <1>8, <2>2
  <2> QED
    BY <1>1, <2>1, <2>3, StoreToSet DEF Store!SongsHaveBanks, Store!BankOf
<1>10. \A s \in ToSet(songs) : s \in ToSet(songs') \/ s.bank \in deleting
  BY <1>3 DEF lost
<1> QED
  BY <1>5, <1>6, <1>7, <1>9, <1>10 DEF StoreHolds

(* A bank or a song comes.                                                 *)
LEMMA StoreAddBank ==
  ASSUME StoreHolds, NEW n \in Names, Store!AddBank(n)
  PROVE  StoreHolds'
<1>1. /\ UNCHANGED <<songs, pages, page, large, deleting, target, picked, orphaning>>
      /\ banks' = Append(banks, n) /\ rows.bank < MaxBanks
      /\ rows' = [rows EXCEPT !.bank = @ + 1]
      /\ screen' = "songs" /\ listed' = banks' /\ askedBank' = {} /\ listLeft' = FALSE
  BY DEF Store!AddBank, Store!local
<1>2. banks' \in Seq(Names) /\ ToSet(banks) \subseteq ToSet(banks')
  <2>1. banks \in Seq(Names)
    BY DEF StoreHolds, StoreTypes
  <2> QED
    BY <1>1, <2>1 DEF ToSet
<1>3. rows' \in [bank: 0..MaxBanks, song: 0..MaxSongs] /\ rows'.song = rows.song
  <2>1. rows \in [bank: 0..MaxBanks, song: 0..MaxSongs] /\ MaxBanks \in Nat /\ MaxSongs \in Nat
    BY ScreensAssumptions DEF StoreHolds, StoreTypes
  <2> QED
    BY <1>1, <2>1
<1>4. StoreTypes'
  <2>1. "songs" \in Store!Screens
    BY DEF Store!Screens
  <2> QED
    BY <1>1, <1>2, <1>3, <2>1 DEF StoreHolds, StoreTypes, AtMostOne
<1>5. RowsAscend' /\ AskedAndTarget' /\ Store!ListIsCurrent' /\ Store!PageIsMarked'
  BY <1>1, <1>3 DEF StoreHolds, RowsAscend, AskedAndTarget, Store!ListIsCurrent,
                    Store!PageIsMarked
<1>6. Store!SongsHaveBanks'
  BY <1>1, <1>2, StoreToSet DEF StoreHolds, Store!SongsHaveBanks, Store!BankOf
<1> QED
  BY <1>4, <1>5, <1>6 DEF StoreHolds

LEMMA StoreAddSong ==
  ASSUME StoreHolds, Store!AddSong
  PROVE  StoreHolds' /\ ToSet(songs) \subseteq ToSet(songs')
<1>1. PICK n \in Names : target = {n} /\ (~orphaning => n \in ToSet(banks))
  BY DEF StoreHolds, AskedAndTarget, Store!AddSong
<1> DEFINE new == [bank |-> n, row |-> rows.song + 1]
<1>2. (CHOOSE m \in target : TRUE) = n
  BY <1>1
<1>3. /\ UNCHANGED <<banks, pages, page, large, deleting, orphaning>>
      /\ songs' = Append(songs, new) /\ rows.song < MaxSongs
      /\ rows' = [rows EXCEPT !.song = @ + 1]
      /\ target' = {} /\ picked' = FALSE
      /\ screen' = "songs" /\ listed' = banks /\ askedBank' = {} /\ listLeft' = FALSE
  BY <1>2 DEF Store!AddSong, Store!ResumeSongs, Store!local
<1>4. /\ rows' \in [bank: 0..MaxBanks, song: 0..MaxSongs] /\ rows'.song = rows.song + 1
      /\ rows.song \in Nat
  <2>1. rows \in [bank: 0..MaxBanks, song: 0..MaxSongs] /\ MaxBanks \in Nat /\ MaxSongs \in Nat
    BY ScreensAssumptions DEF StoreHolds, StoreTypes
  <2> HIDE DEF new
  <2> QED
    BY <1>3, <2>1
<1>5. new \in Store!SongRecords /\ new.row = rows.song + 1 /\ new.bank = n
  BY <1>3, <1>4, ScreensAssumptions DEF Store!SongRecords
<1> HIDE DEF new
<1>6. songs \in Seq(Store!SongRecords)
  BY DEF StoreHolds, StoreTypes
<1>7. /\ songs' \in Seq(Store!SongRecords) /\ ToSet(songs') = ToSet(songs) \cup {new}
      /\ DOMAIN songs' = DOMAIN songs \cup {Len(songs) + 1} /\ Len(songs) + 1 \notin DOMAIN songs
      /\ \A k \in DOMAIN songs : k < Len(songs) + 1 /\ songs'[k] = songs[k]
      /\ songs'[Len(songs) + 1] = new
  <2>1. songs' = Append(songs, new)
    BY <1>3
  <2>2. new \in Store!SongRecords
    BY <1>5
  <2> QED
    BY <1>6, <2>1, <2>2 DEF ToSet
<1>8. StoreTypes'
  <2>1. "songs" \in Store!Screens
    BY DEF Store!Screens
  <2> QED
    BY <1>3, <1>4, <1>7, <2>1 DEF StoreHolds, StoreTypes, AtMostOne
<1>9. RowsAscend'
  <2>1. \A k \in DOMAIN songs : songs[k].row \in Nat /\ songs[k].row <= rows.song /\ k \in Nat
    <3>1. ASSUME NEW k \in DOMAIN songs PROVE songs[k] \in Store!SongRecords /\ k \in Nat
      BY <1>6
    <3>2. \A r \in Store!SongRecords : r.row \in Nat
      BY ScreensAssumptions DEF Store!SongRecords
    <3> QED
      BY <3>1, <3>2 DEF StoreHolds, RowsAscend
  <2>2. \A k, m \in DOMAIN songs : k < m => songs[k].row < songs[m].row
    BY DEF StoreHolds, RowsAscend
  <2>3. Len(songs) \in Nat
    BY <1>6
  <2> QED
    BY <1>4, <1>5, <1>7, <2>1, <2>2, <2>3 DEF RowsAscend
<1>10. AskedAndTarget' /\ Store!ListIsCurrent' /\ Store!PageIsMarked'
  BY <1>3 DEF StoreHolds, AskedAndTarget, Store!ListIsCurrent, Store!PageIsMarked
<1>11. Store!SongsHaveBanks'
  <2>1. ~orphaning => \A k \in DOMAIN songs : songs[k].bank \in ToSet(banks) \cup deleting
    BY StoreToSet DEF StoreHolds, Store!SongsHaveBanks, Store!BankOf
  <2>2. ~orphaning => \A k \in DOMAIN songs' : songs'[k].bank \in ToSet(banks) \cup deleting
    BY <1>1, <1>5, <1>7, <2>1
  <2> QED
    BY <1>3, <2>2, StoreToSet DEF Store!SongsHaveBanks, Store!BankOf
<1> QED
  BY <1>7, <1>8, <1>9, <1>10, <1>11 DEF StoreHolds

(* The pages of Local, one in front and its button large.                  *)
LEMMA StoreOpenLocal ==
  ASSUME StoreHolds, Store!OpenLocal
  PROVE  StoreHolds'
<1> DEFINE owners == {songs[k].bank : k \in DOMAIN songs}
<1>1. /\ UNCHANGED <<banks, songs, rows, listed, askedBank, listLeft, deleting, target, picked,
                     orphaning>>
      /\ screen = "main" /\ screen' = "local" /\ page' = 0
      /\ pages' = Store!SetToSeq(owners)
      /\ large' = IF pages' = <<>> THEN {} ELSE {0}
  BY DEF Store!OpenLocal, Store!table, Store!list
<1>2. songs \in Seq(Store!SongRecords) /\ Len(songs) \in Nat /\ DOMAIN songs = 1..Len(songs)
  BY DEF StoreHolds, StoreTypes
<1>3. owners \in SUBSET Names /\ IsFiniteSet(owners)
  <2>1. \A k \in DOMAIN songs : songs[k].bank \in Names
    <3>1. \A k \in DOMAIN songs : songs[k] \in Store!SongRecords
      BY <1>2
    <3>2. \A r \in Store!SongRecords : r.bank \in Names
      BY DEF Store!SongRecords
    <3> QED
      BY <3>1, <3>2
  <2>2. IsFiniteSet(1..Len(songs))
    BY <1>2, FS_Interval
  <2> DEFINE g == [k \in 1..Len(songs) |-> songs[k].bank]
  <2>3. g \in Surjection(1..Len(songs), owners)
    BY <1>2 DEF Surjection
  <2> HIDE DEF g, owners
  <2>4. IsFiniteSet(owners)
    BY <2>2, <2>3, FS_Surjection
  <2> QED
    BY <2>1, <2>4 DEF owners
<1> HIDE DEF owners
<1>4. pages' \in Seq(Names)
  BY <1>1, <1>3, StoreSetToSeq
<1>5. StoreTypes'
  <2>1. "local" \in Store!Screens /\ page' \in Nat /\ large' \in SUBSET Nat
    BY <1>1 DEF Store!Screens
  <2> QED
    BY <1>1, <1>4, <2>1 DEF StoreHolds, StoreTypes, AtMostOne
<1>6. RowsAscend' /\ AskedAndTarget' /\ Store!ListIsCurrent'
  BY <1>1 DEF StoreHolds, RowsAscend, AskedAndTarget, Store!ListIsCurrent
<1>7. Store!PageIsMarked'
  <2>1. pages' # <<>> => 0 < Len(pages')
    BY <1>4
  <2> QED
    BY <1>1, <2>1 DEF Store!PageIsMarked
<1>8. Store!SongsHaveBanks'
  BY <1>1, StoreToSet DEF StoreHolds, Store!SongsHaveBanks, Store!BankOf
<1> QED
  BY <1>5, <1>6, <1>7, <1>8 DEF StoreHolds

LEMMA StoreTurnTo ==
  ASSUME StoreHolds, deleting = {}, screen = "local", NEW p \in Int, Store!TurnTo(p)
  PROVE  StoreHolds'
<1>1. CASE p \notin 0..Len(pages) - 1
  BY <1>1, StoreDies DEF Store!TurnTo
<1>2. CASE p \in 0..Len(pages) - 1
  <2>1. /\ UNCHANGED <<banks, songs, rows, listed, askedBank, listLeft, deleting, screen, target,
                       picked, pages, orphaning>>
        /\ page' = p /\ large' = {p}
    BY <1>2 DEF Store!TurnTo, Store!table, Store!list
  <2>2. p \in Nat /\ p < Len(pages)
    BY <1>2 DEF StoreHolds, StoreTypes
  <2>3. StoreTypes'
    BY <2>1, <2>2 DEF StoreHolds, StoreTypes, AtMostOne
  <2>4. RowsAscend' /\ AskedAndTarget' /\ Store!ListIsCurrent' /\ Store!PageIsMarked'
    BY <2>1, <2>2 DEF StoreHolds, RowsAscend, AskedAndTarget, Store!ListIsCurrent,
                      Store!PageIsMarked
  <2>5. Store!SongsHaveBanks'
    BY <2>1, StoreToSet DEF StoreHolds, Store!SongsHaveBanks, Store!BankOf
  <2> QED
    BY <2>3, <2>4, <2>5 DEF StoreHolds
<1> QED
  BY <1>1, <1>2

LEMMA StoreInitHolds == ASSUME Store!Init PROVE StoreHolds
<1>1. /\ banks = <<>> /\ songs = <<>> /\ rows = [bank |-> 0, song |-> 0]
      /\ deleting = {} /\ screen = "main" /\ listed = <<>> /\ askedBank = {} /\ listLeft = FALSE
      /\ target = {} /\ picked = FALSE /\ pages = <<>> /\ page = 0 /\ large = {}
      /\ orphaning = FALSE
  BY DEF Store!Init
<1>2. StoreTypes
  <2>1. /\ <<>> \in Seq(Names) /\ <<>> \in Seq(Store!SongRecords) /\ "main" \in Store!Screens
    BY DEF Store!Screens
  <2>2. rows \in [bank: 0..MaxBanks, song: 0..MaxSongs]
    BY <1>1, ScreensAssumptions
  <2> QED
    BY <1>1, <2>1, <2>2 DEF StoreTypes, AtMostOne
<1>3. DOMAIN songs = {}
  BY <1>1
<1>4. RowsAscend /\ AskedAndTarget /\ Store!ListIsCurrent /\ Store!PageIsMarked
  BY <1>1, <1>3 DEF RowsAscend, AskedAndTarget, Store!ListIsCurrent, Store!PageIsMarked
<1>5. Store!SongsHaveBanks
  BY <1>3 DEF Store!SongsHaveBanks
<1> QED
  BY <1>2, <1>4, <1>5 DEF StoreHolds

LEMMA StoreStep ==
  ASSUME StoreHolds, [Store!Next]_(Store!vars)
  PROVE  /\ StoreHolds'
         /\ \A s \in ToSet(songs) : s \in ToSet(songs') \/ s.bank \in deleting
<1>1. CASE UNCHANGED Store!vars
  <2>1. UNCHANGED <<banks, songs, rows, deleting, screen, listed, askedBank, listLeft, target,
                    picked, pages, page, large, orphaning>>
    BY <1>1 DEF Store!vars
  <2> QED
    BY <2>1, StoreToSet DEF StoreHolds, StoreTypes, AtMostOne, RowsAscend, AskedAndTarget,
       Store!ListIsCurrent, Store!PageIsMarked, Store!SongsHaveBanks, Store!BankOf, Store!Free
<1>2. CASE Store!DeleteSongs
  BY <1>2, StoreDeleteSongs
<1>3. CASE Store!AddSong
  BY <1>3, StoreAddSong
<1>4. CASE Store!DeleteBanks
  BY <1>4, StoreDeleteBanks DEF Store!DeleteBanks
<1>5. ASSUME NEW n \in Names, Store!AddBank(n)
      PROVE  StoreHolds' /\ songs' = songs
  BY <1>5, StoreAddBank DEF Store!AddBank
<1>6. ASSUME Store!Die PROVE StoreHolds' /\ songs' = songs
  BY <1>6, StoreDies DEF Store!Die, Store!table
<1>7. ASSUME \/ Store!OpenSongs \/ Store!Search \/ Store!Dismiss \/ Store!EmptyActivityEnds
             \/ Store!Back \/ Store!OpenAddBank \/ Store!AddNoBank \/ Store!CancelSong
             \/ \E n \in Names : Store!AskDelete(n) \/ Store!OpenAddSong(n)
      PROVE  StoreHolds' /\ songs' = songs
  <2>1. songs' = songs
    BY <1>7 DEF Store!OpenSongs, Store!Search, Store!Dismiss, Store!EmptyActivityEnds, Store!Back,
         Store!OpenAddBank, Store!AddNoBank, Store!CancelSong, Store!AskDelete,
         Store!OpenAddSong, Store!table
  <2> QED
    BY <1>7, <2>1, StoreScreens
<1>8. CASE Store!Pick
  <2>1. CASE Store!Die
    BY <1>6, <2>1
  <2>2. CASE ~Store!Die
    <3>1. /\ picked' = TRUE /\ deleting = {}
          /\ UNCHANGED <<banks, songs, rows, pages, page, large, listed, askedBank, listLeft,
                         deleting, screen, target, orphaning>>
      BY <1>8, <2>2 DEF Store!Pick, Store!Free, Store!table, Store!local, Store!list
    <3> QED
      BY <3>1, StoreToSet DEF StoreHolds, StoreTypes, AtMostOne, RowsAscend, AskedAndTarget,
         Store!ListIsCurrent, Store!PageIsMarked, Store!SongsHaveBanks, Store!BankOf, Store!Free
  <2> QED
    BY <2>1, <2>2
<1>9. CASE Store!OpenLocal
  BY <1>9, StoreOpenLocal DEF Store!OpenLocal, Store!table
<1>10. ASSUME Store!SwipeBack \/ Store!SwipeOn \/ \E p \in DOMAIN pages : Store!Press(p - 1)
       PROVE  StoreHolds' /\ songs' = songs
  <2>1. PICK p \in Int : Store!TurnTo(p) /\ deleting = {} /\ screen = "local"
    <3>1. page - 1 \in Int /\ page + 1 \in Int /\ \A q \in DOMAIN pages : q - 1 \in Int
      BY DEF StoreHolds, StoreTypes
    <3> QED
      BY <1>10, <3>1 DEF Store!SwipeBack, Store!SwipeOn, Store!Press, Store!Free
  <2>2. songs' = songs
    BY <2>1 DEF Store!TurnTo, Store!Die, Store!table
  <2> QED
    BY <2>1, <2>2, StoreTurnTo
<1> QED
  BY <1>1, <1>2, <1>3, <1>4, <1>5, <1>6, <1>7, <1>8, <1>9, <1>10
     DEF Store!Next, Store!Killed, Store!AddSongWithoutFile

LEMMA StoreStays == MCSpec => []StoreHolds
<1>1. MCInit => StoreHolds
  BY StoreInitHolds DEF MCInit
<1>2. StoreHolds /\ [MCNext]_allVars => StoreHolds'
  <2> SUFFICES ASSUME StoreHolds, [MCNext]_allVars
      PROVE  StoreHolds'
    OBVIOUS
  <2>1. [Store!Next]_(Store!vars)
    BY DEF MCNext, allVars, storeVars, Store!vars
  <2> QED
    BY <2>1, StoreStep
<1> QED
  BY <1>1, <1>2, PTL DEF MCSpec

(* The list of banks and the pages of Local show the tables, and a song    *)
(* without its bank is only left by a kill between the two deletions or a  *)
(* touch of a deleted bank's button, for every number of rows (Songs,      *)
(* Local, DatabaseRW.deleteBank).                                          *)
THEOREM StoreStaysTrue == MCSpec => []StoreInv
<1>1. StoreHolds => StoreInv
  <2> SUFFICES ASSUME StoreHolds PROVE StoreInv
    OBVIOUS
  <2>1. ASSUME NEW S, AtMostOne(S)
        PROVE  S \in SUBSET Names /\ Store!Cardinality(S) <= 1
    <3>1. Cardinality(S) \in {0, 1}
      BY <2>1, FS_EmptySet, FS_Singleton DEF AtMostOne
    <3> QED
      BY <2>1, <3>1, StoreCardinality DEF AtMostOne
  <2>2. Store!TypeOK
    BY <2>1 DEF StoreHolds, StoreTypes, RowsAscend, Store!TypeOK
  <2> QED
    BY <2>2 DEF StoreHolds, StoreInv, Store!Inv
<1> QED
  BY <1>1, StoreStays, PTL

(* A song is only lost with its bank, by whatever step (DatabaseRW).       *)
THEOREM SongsGoWithTheirBank == MCSpec => LostWithBankOnly
<1>1. StoreHolds /\ [MCNext]_allVars
        => [\A s \in Store!ToSet(songs) : s \in Store!ToSet(songs') \/ s.bank \in deleting]_(Store!vars)
  <2> SUFFICES ASSUME StoreHolds, [MCNext]_allVars
      PROVE  \A s \in Store!ToSet(songs) : s \in Store!ToSet(songs') \/ s.bank \in deleting
    OBVIOUS
  <2>1. [Store!Next]_(Store!vars)
    BY DEF MCNext, allVars, storeVars, Store!vars
  <2> QED
    BY <2>1, StoreStep, StoreToSet
<1> QED
  BY <1>1, StoreStays, PTL DEF MCSpec, LostWithBankOnly, Store!LostWithBankOnly

-----------------------------------------------------------------------------
(* Catalogue: the paths of its entries. *)

LEMMA ServerWithout == ASSUME NEW s, NEW S PROVE Server!Without(s, S) = Without(s, S)
BY DEF Without, Server!Without

LEMMA ServerToSet == ASSUME NEW s PROVE Server!ToSet(s) = ToSet(s)
BY DEF ToSet, Server!ToSet

(* Every name of the catalogue. *)
Given == Classes \cup Banks \cup Songs

LEMMA PathAppend ==
  ASSUME NEW s \in Seq(Given), NEW a \in Given, NEW e, e = Append(s, a)
  PROVE  /\ e \in Seq(Given) /\ Len(e) = Len(s) + 1
         /\ Server!Front(e) = s /\ Server!Last(e) = a
         /\ Server!Inside(s, e)
         /\ \A x \in Seq(Given) : Server!Inside(x, e) <=> x = s \/ Server!Inside(x, s)
<1>1. e \in Seq(Given) /\ Len(e) = Len(s) + 1 /\ Len(s) \in Nat
  OBVIOUS
<1>2. ASSUME NEW k \in 0..Len(s) PROVE SubSeq(e, 1, k) = SubSeq(s, 1, k)
  BY <1>1
<1>3. SubSeq(s, 1, Len(s)) = s
  OBVIOUS
<1>4. Server!Front(e) = s
  BY <1>1, <1>2, <1>3 DEF Server!Front
<1>5. Server!Last(e) = a
  BY <1>1 DEF Server!Last
<1>6. ASSUME NEW x \in Seq(Given)
      PROVE  Server!Inside(x, e) <=> x = s \/ Server!Inside(x, s)
  <2>1. Len(x) \in Nat /\ (x = s => Len(x) = Len(s))
    OBVIOUS
  <2>2. Len(x) < Len(e) <=> Len(x) \in 0..Len(s)
    BY <1>1, <2>1
  <2>3. CASE Len(x) \in 0..Len(s) /\ Len(x) # Len(s)
    BY <1>2, <2>1, <2>2, <2>3 DEF Server!Inside
  <2>4. CASE Len(x) = Len(s)
    BY <1>1, <1>2, <1>3, <2>1, <2>2, <2>4 DEF Server!Inside
  <2>5. CASE Len(x) \notin 0..Len(s)
    <3>1. ~(Len(x) < Len(s)) /\ x # s
      BY <1>1, <2>1, <2>5
    <3> QED
      BY <2>2, <2>5, <3>1 DEF Server!Inside
  <2> QED
    BY <2>3, <2>4, <2>5
<1> QED
  BY <1>1, <1>4, <1>5, <1>6

LEMMA NotNone == ASSUME NEW s, Len(s) # 0 PROVE s # <<>>
OBVIOUS

LEMMA ListKinds ==
  /\ <<>> \in Server!Lists /\ Server!NamesOf(<<>>) = Classes
  /\ \A c \in Classes : <<c>> \in Server!Lists /\ Server!NamesOf(<<c>>) = Banks
  /\ \A c \in Classes : \A b \in Banks :
       <<c, b>> \in Server!Lists /\ Server!NamesOf(<<c, b>>) = Songs
  /\ \A l \in Server!Lists :
       \/ l = <<>> \/ \E c \in Classes : l = <<c>>
       \/ \E c \in Classes : \E b \in Banks : l = <<c, b>>
  /\ \A e \in Server!Entries :
       \/ \E c \in Classes : e = <<c>>
       \/ \E c \in Classes : \E b \in Banks : e = <<c, b>>
       \/ \E c \in Classes : \E b \in Banks : \E s \in Songs : e = <<c, b, s>>
  /\ \A c \in Classes : <<c>> \in Server!Entries
  /\ \A c \in Classes : \A b \in Banks : <<c, b>> \in Server!Entries
  /\ \A c \in Classes : \A b \in Banks : \A s \in Songs : <<c, b, s>> \in Server!Entries
<1>1. Len(<<>>) = 0 /\ \A c : Len(<<c>>) = 1
  OBVIOUS
<1>2. \A c, b : Len(<<c, b>>) = 2
  OBVIOUS
<1>3. Server!NamesOf(<<>>) = Classes /\ \A c : Server!NamesOf(<<c>>) = Banks
  BY <1>1 DEF Server!NamesOf
<1>4. \A c, b : Server!NamesOf(<<c, b>>) = Songs
  BY <1>2 DEF Server!NamesOf
<1> QED
  BY <1>3, <1>4 DEF Server!Lists, Server!Entries

(* A path grows by a name. *)
LEMMA PathsGrow ==
  /\ \A c \in Classes : Append(<<>>, c) = <<c>>
  /\ \A c \in Classes : \A b \in Banks : Append(<<c>>, b) = <<c, b>>
  /\ \A c \in Classes : \A b \in Banks : \A s \in Songs : Append(<<c, b>>, s) = <<c, b, s>>
<1>1. ASSUME NEW c \in Classes PROVE Append(<<>>, c) = <<c>>
  OBVIOUS
<1>2. ASSUME NEW c \in Classes, NEW b \in Banks PROVE Append(<<c>>, b) = <<c, b>>
  <2> DEFINE p == Append(<<c>>, b)
             q == <<c, b>>
  <2>1. p \in Seq(Given) /\ Len(p) = 2 /\ p[1] = c /\ p[2] = b
    BY DEF Given
  <2>2. q \in Seq(Given) /\ Len(q) = 2 /\ q[1] = c /\ q[2] = b
    BY DEF Given
  <2> HIDE DEF p, q
  <2>3. \A i \in 1..Len(p) : p[i] = q[i]
    BY <2>1, <2>2
  <2>4. p = q
    BY <2>1, <2>2, <2>3, SeqEqual
  <2> QED
    BY <2>4 DEF p, q
<1>3. ASSUME NEW c \in Classes, NEW b \in Banks, NEW s \in Songs
      PROVE  Append(<<c, b>>, s) = <<c, b, s>>
  <2> DEFINE p == Append(<<c, b>>, s)
             q == <<c, b, s>>
  <2>1. p \in Seq(Given) /\ Len(p) = 3 /\ p[1] = c /\ p[2] = b /\ p[3] = s
    BY DEF Given
  <2>2. q \in Seq(Given) /\ Len(q) = 3 /\ q[1] = c /\ q[2] = b /\ q[3] = s
    BY DEF Given
  <2> HIDE DEF p, q
  <2>3. \A i \in 1..Len(p) : p[i] = q[i]
    BY <2>1, <2>2
  <2>4. p = q
    BY <2>1, <2>2, <2>3, SeqEqual
  <2> QED
    BY <2>4 DEF p, q
<1> QED
  BY <1>1, <1>2, <1>3

(* A list and a name of it are an entry, and every entry is one of those.  *)
LEMMA Paths ==
  /\ \A l \in Server!Lists : l \in Seq(Given) /\ Server!NamesOf(l) \subseteq Given
  /\ \A l \in Server!Lists : \A n \in Server!NamesOf(l) : Append(l, n) \in Server!Entries
  /\ \A e \in Server!Entries :
       /\ Server!Front(e) \in Server!Lists /\ Server!Last(e) \in Server!NamesOf(Server!Front(e))
       /\ e = Append(Server!Front(e), Server!Last(e)) /\ e \in Seq(Given)
  /\ \A l \in Server!Lists : l # <<>> => l \in Server!Entries
<1>1. /\ <<>> \in Seq(Given) /\ \A c \in Classes : <<c>> \in Seq(Given)
      /\ \A c \in Classes, b \in Banks : <<c, b>> \in Seq(Given)
  BY DEF Given
<1>2. /\ \A c \in Classes : Append(<<>>, c) = <<c>>
      /\ \A c \in Classes : \A b \in Banks : Append(<<c>>, b) = <<c, b>>
      /\ \A c \in Classes : \A b \in Banks : \A s \in Songs : Append(<<c, b>>, s) = <<c, b, s>>
  BY PathsGrow
<1>3. ASSUME NEW l \in Server!Lists
      PROVE  /\ l \in Seq(Given) /\ Server!NamesOf(l) \subseteq Given
             /\ \A n \in Server!NamesOf(l) : Append(l, n) \in Server!Entries
  <2>1. CASE l = <<>>
    BY <1>1, <1>2, <2>1, ListKinds DEF Given
  <2>2. ASSUME NEW c \in Classes, l = <<c>>
        PROVE  /\ l \in Seq(Given) /\ Server!NamesOf(l) \subseteq Given
               /\ \A n \in Server!NamesOf(l) : Append(l, n) \in Server!Entries
    <3>1. Server!NamesOf(l) = Banks /\ l \in Seq(Given)
      BY <1>1, <2>2, ListKinds
    <3>2. \A n \in Banks : Append(l, n) = <<c, n>> /\ <<c, n>> \in Server!Entries
      BY <1>2, <2>2, ListKinds
    <3> QED
      BY <3>1, <3>2 DEF Given
  <2>3. ASSUME NEW c \in Classes, NEW b \in Banks, l = <<c, b>>
        PROVE  /\ l \in Seq(Given) /\ Server!NamesOf(l) \subseteq Given
               /\ \A n \in Server!NamesOf(l) : Append(l, n) \in Server!Entries
    <3>1. Server!NamesOf(l) = Songs /\ l \in Seq(Given)
      BY <1>1, <2>3, ListKinds
    <3>2. \A n \in Songs : Append(l, n) = <<c, b, n>> /\ <<c, b, n>> \in Server!Entries
      BY <1>2, <2>3, ListKinds
    <3> QED
      BY <3>1, <3>2 DEF Given
  <2> QED
    BY <2>1, <2>2, <2>3, ListKinds
<1>4. ASSUME NEW e \in Server!Entries
      PROVE  \E l \in Server!Lists : \E n \in Server!NamesOf(l) : e = Append(l, n)
  <2>1. ASSUME NEW c \in Classes, e = <<c>>
        PROVE  \E l \in Server!Lists : \E n \in Server!NamesOf(l) : e = Append(l, n)
    <3>1. <<>> \in Server!Lists /\ c \in Server!NamesOf(<<>>) /\ e = Append(<<>>, c)
      BY <1>2, <2>1, ListKinds
    <3> QED
      BY <3>1, Zenon
  <2>2. ASSUME NEW c \in Classes, NEW b \in Banks, e = <<c, b>>
        PROVE  \E l \in Server!Lists : \E n \in Server!NamesOf(l) : e = Append(l, n)
    <3>1. <<c>> \in Server!Lists /\ b \in Server!NamesOf(<<c>>) /\ e = Append(<<c>>, b)
      BY <1>2, <2>2, ListKinds
    <3> QED
      BY <3>1, Zenon
  <2>3. ASSUME NEW c \in Classes, NEW b \in Banks, NEW s \in Songs, e = <<c, b, s>>
        PROVE  \E l \in Server!Lists : \E n \in Server!NamesOf(l) : e = Append(l, n)
    <3>1. /\ <<c, b>> \in Server!Lists /\ s \in Server!NamesOf(<<c, b>>)
          /\ e = Append(<<c, b>>, s)
      BY <1>2, <2>3, ListKinds
    <3> QED
      BY <3>1, Zenon
  <2> QED
    BY <2>1, <2>2, <2>3, ListKinds
<1>5. ASSUME NEW e \in Server!Entries
      PROVE  /\ Server!Front(e) \in Server!Lists
             /\ Server!Last(e) \in Server!NamesOf(Server!Front(e))
             /\ e = Append(Server!Front(e), Server!Last(e)) /\ e \in Seq(Given)
  <2>1. PICK l \in Server!Lists : \E n \in Server!NamesOf(l) : e = Append(l, n)
    BY <1>4
  <2>2. PICK n \in Server!NamesOf(l) : e = Append(l, n)
    BY <2>1
  <2>3. l \in Seq(Given) /\ n \in Given
    BY <1>3
  <2> QED
    BY <2>2, <2>3, PathAppend
<1>6. \A l \in Server!Lists : l # <<>> => l \in Server!Entries
  BY ListKinds
<1> QED
  BY <1>3, <1>4, <1>5, <1>6

LEMMA Within ==
  /\ \A e \in Server!Entries : Len(e) \in 1..3 /\ Len(Server!Front(e)) = Len(e) - 1
  /\ \A e, x \in Server!Entries :
       /\ Server!Front(e) = Server!Front(x) /\ Server!Last(e) = Server!Last(x) => e = x
       /\ Server!Inside(x, e) <=> x = Server!Front(e) \/ Server!Inside(x, Server!Front(e))
       /\ Server!Inside(x, e) => x # e
  /\ \A x \in Server!Entries :
       ~Server!Inside(x, x) /\ x # Server!Front(x) /\ ~Server!Inside(x, Server!Front(x))
  /\ \A l \in Server!Lists : \A n \in Server!NamesOf(l) :
       /\ Append(l, n) \in Server!Entries
       /\ Server!Front(Append(l, n)) = l /\ Server!Last(Append(l, n)) = n
<1>1. ASSUME NEW e \in Server!Entries
      PROVE  /\ Len(e) \in 1..3 /\ Len(Server!Front(e)) = Len(e) - 1
             /\ \A x \in Server!Entries :
                  Server!Inside(x, e) <=> x = Server!Front(e) \/ Server!Inside(x, Server!Front(e))
  <2>1. Len(e) \in 1..3
    BY ListKinds
  <2>2. /\ Server!Front(e) \in Seq(Given) /\ Server!Last(e) \in Given
        /\ e = Append(Server!Front(e), Server!Last(e))
    BY Paths
  <2>3. /\ Len(e) = Len(Server!Front(e)) + 1
        /\ \A x \in Seq(Given) :
             Server!Inside(x, e) <=> x = Server!Front(e) \/ Server!Inside(x, Server!Front(e))
    BY <2>2, PathAppend
  <2>4. Len(Server!Front(e)) = Len(e) - 1
    BY <2>1, <2>2, <2>3
  <2> QED
    BY <2>1, <2>3, <2>4, Paths
<1>2. ASSUME NEW e \in Server!Entries, NEW x \in Server!Entries
      PROVE  /\ Server!Front(e) = Server!Front(x) /\ Server!Last(e) = Server!Last(x) => e = x
             /\ Server!Inside(x, e) => x # e
  <2>1. e = Append(Server!Front(e), Server!Last(e)) /\ x = Append(Server!Front(x), Server!Last(x))
    BY Paths
  <2>2. Len(e) \in Nat /\ (Server!Inside(x, e) => Len(x) < Len(e))
    BY <1>1 DEF Server!Inside
  <2>3. Server!Front(e) = Server!Front(x) /\ Server!Last(e) = Server!Last(x) => e = x
    BY <2>1, Zenon
  <2>4. Server!Inside(x, e) => x # e
    BY <2>2
  <2> QED
    BY <2>3, <2>4
<1>3. ASSUME NEW x \in Server!Entries
      PROVE  ~Server!Inside(x, x) /\ x # Server!Front(x) /\ ~Server!Inside(x, Server!Front(x))
  <2>1. Len(x) \in 1..3 /\ Len(Server!Front(x)) = Len(x) - 1
    BY <1>1
  <2> QED
    BY <2>1 DEF Server!Inside
<1>4. ASSUME NEW l \in Server!Lists, NEW n \in Server!NamesOf(l)
      PROVE  /\ Append(l, n) \in Server!Entries
             /\ Server!Front(Append(l, n)) = l /\ Server!Last(Append(l, n)) = n
  <2>1. l \in Seq(Given) /\ n \in Given /\ Append(l, n) \in Server!Entries
    BY Paths
  <2> QED
    BY <2>1, PathAppend
<1> QED
  BY <1>1, <1>2, <1>3, <1>4

-----------------------------------------------------------------------------
(* Catalogue: the invariant. *)

(* What the lists are to name while the console changes them.              *)
Expected ==
  IF console.at = "put" THEN present \cup {console.entry}
  ELSE IF console.at = "remove" THEN present \ {console.entry} ELSE present

NamesMatch ==
  \A e \in Server!Entries :
    Server!Last(e) \in ToSet(names[Server!Front(e)]) <=> e \in Expected

(* What belongs to an entry is only there with it.                         *)
Closed == \A e \in present : Server!Front(e) = <<>> \/ Server!Front(e) \in present

ConsoleKnows ==
  /\ Server!Amid => /\ console.entry \in Server!Entries
                    /\ \/ Server!Front(console.entry) = <<>>
                       \/ Server!Front(console.entry) \in present
  /\ console.at = "remove" => console.entry \in present

(* As long as nothing was deleted or replaced and nothing read amid a      *)
(* change: the apps know of nothing that is not there, and a handler reads *)
(* the list as it is.                                                      *)
Undisturbed ==
  /\ up /\ broken = {}
  /\ \A h \in Handlers : told[h] \subseteq present
  /\ \A h \in Handlers :
       handler[h].at # "idle" => ~Server!Amid /\ handler[h].names = names[<<>>]
  /\ console.at = "put" => console.entry \notin present
  /\ console.at # "remove"

ServerTypes ==
  /\ up \in BOOLEAN /\ changed \in BOOLEAN /\ overlapped \in BOOLEAN
  /\ names \in [Server!Lists -> Seq(Given)]
  /\ \A l \in Server!Lists : ToSet(names[l]) \subseteq Server!NamesOf(l)
  /\ present \in SUBSET Server!Entries
  /\ console \in [at: {"idle", "put", "remove", "draw"}, entry: Server!Entries \cup {<<>>}]
  /\ handler \in [Handlers -> [at: {"idle", "class", "draw"}, names: Seq(Classes)]]
  /\ broken \in SUBSET Handlers
  /\ told \in [Handlers -> SUBSET Server!Entries]

ServerHolds ==
  /\ ServerTypes /\ Closed /\ NamesMatch /\ ConsoleKnows
  /\ ~changed /\ ~overlapped => Undisturbed

(* An entry is there if something in it is.                                *)
LEMMA InsideIsThere ==
  ASSUME ServerTypes, Closed, NEW x \in Server!Entries, NEW e \in present, Server!Inside(x, e)
  PROVE  x \in present
<1> DEFINE f == Server!Front(e)
<1>1. e \in Server!Entries
  BY DEF ServerTypes
<1>2. x = f \/ Server!Inside(x, f)
  BY <1>1, Within
<1>3. Len(x) \in 1..3 /\ Len(e) \in 1..3 /\ Len(f) = Len(e) - 1
  BY <1>1, Within
<1> HIDE DEF f
<1>4. f # <<>>
  <2>1. Server!Inside(x, f) => Len(x) < Len(f)
    BY DEF Server!Inside
  <2>2. f = <<>> => Len(f) = 0
    OBVIOUS
  <2> QED
    BY <1>2, <1>3, <2>1, <2>2
<1>5. f \in present /\ f \in Server!Entries
  BY <1>4 DEF f, Closed, ServerTypes
<1>6. CASE Server!Inside(x, f)
  <2> DEFINE g == Server!Front(f)
  <2>1. (x = g \/ Server!Inside(x, g)) /\ Len(g) = Len(f) - 1
    BY <1>5, <1>6, Within
  <2>2. ~Server!Inside(x, g) /\ Len(g) # 0
    <3>1. Server!Inside(x, g) => Len(x) < Len(g)
      BY DEF Server!Inside
    <3>2. Len(x) < Len(f)
      BY <1>6 DEF Server!Inside
    <3>3. Len(g) \in Nat /\ Len(f) \in Nat /\ Len(x) \in Nat /\ Len(x) > 0
      BY <1>5, <2>1, Within
    <3> HIDE DEF g
    <3> QED
      BY <1>3, <2>1, <3>1, <3>2, <3>3
  <2>3. g # <<>>
    BY <2>2
  <2> QED
    BY <1>5, <2>1, <2>2, <2>3 DEF Closed
<1> QED
  BY <1>2, <1>5, <1>6

(* At rest, and while it draws, the console finds all it names.            *)
LEMMA NoneDangles ==
  ASSUME ServerHolds, ~Server!Amid, NEW l \in Server!Lists
  PROVE  ~Server!Dangling(l) /\ \A n \in ToSet(names[l]) : Append(l, n) \in present
<1>1. ASSUME NEW n \in ToSet(names[l]) PROVE Append(l, n) \in present
  <2>1. n \in Server!NamesOf(l)
    BY DEF ServerHolds, ServerTypes
  <2>2. /\ Append(l, n) \in Server!Entries
        /\ Server!Front(Append(l, n)) = l /\ Server!Last(Append(l, n)) = n
    BY <2>1, Within
  <2>3. Append(l, n) \in Expected
    BY <1>1, <2>2, Zenon DEF ServerHolds, NamesMatch
  <2> QED
    BY <2>3 DEF Expected, Server!Amid
<1> QED
  BY <1>1, ServerToSet DEF Server!Dangling

-----------------------------------------------------------------------------
(* Catalogue: the console. *)

LEMMA ToSetAppend ==
  ASSUME NEW s \in Seq(Given), NEW a \in Given
  PROVE  Append(s, a) \in Seq(Given) /\ ToSet(Append(s, a)) = ToSet(s) \cup {a}
<1>1. Append(s, a) \in Seq(Given) /\ Len(Append(s, a)) = Len(s) + 1 /\ Len(s) \in Nat
  OBVIOUS
<1>2. /\ DOMAIN Append(s, a) = 1..Len(s) + 1 /\ DOMAIN s = 1..Len(s)
      /\ \A i \in 1..Len(s) : Append(s, a)[i] = s[i]
      /\ Append(s, a)[Len(s) + 1] = a
  BY <1>1
<1>3. ToSet(Append(s, a)) \subseteq ToSet(s) \cup {a}
  BY <1>1, <1>2 DEF ToSet
<1>4. ToSet(s) \cup {a} \subseteq ToSet(Append(s, a))
  <2>1. \A i \in 1..Len(s) : i \in 1..Len(s) + 1
    BY <1>1
  <2>2. Len(s) + 1 \in 1..Len(s) + 1
    BY <1>1
  <2> QED
    BY <1>2, <2>1, <2>2 DEF ToSet
<1> QED
  BY <1>1, <1>3, <1>4

LEMMA ServerAdd ==
  ASSUME ServerHolds, NEW l \in Server!Lists, NEW n \in Server!NamesOf(l), Server!Add(l, n)
  PROVE  ServerHolds'
<1> DEFINE x == Append(l, n)
<1>1. /\ UNCHANGED <<up, present, handler, broken, told>>
      /\ console = [at |-> "idle", entry |-> <<>>]
      /\ l = <<>> \/ l \in present
      /\ names' = [names EXCEPT ![l] = Append(names[l], n)]
      /\ console' = [at |-> "put", entry |-> x]
      /\ changed' = (changed \/ x \in present)
      /\ overlapped' = (overlapped \/ Server!Reading)
  BY DEF Server!Add, Server!Idle
<1>2. x \in Server!Entries /\ Server!Front(x) = l /\ Server!Last(x) = n
  BY Within
<1>3. n \in Given /\ Server!NamesOf(l) \subseteq Given
  BY Paths
<1> HIDE DEF x
<1>4. names[l] \in Seq(Given) /\ ToSet(names[l]) \subseteq Server!NamesOf(l)
  BY DEF ServerHolds, ServerTypes
<1>5. Append(names[l], n) \in Seq(Given) /\ ToSet(Append(names[l], n)) = ToSet(names[l]) \cup {n}
  <2> DEFINE q == names[l]
  <2>1. q \in Seq(Given)
    BY <1>4
  <2> HIDE DEF q
  <2>2. Append(q, n) \in Seq(Given) /\ ToSet(Append(q, n)) = ToSet(q) \cup {n}
    BY <1>3, <2>1, ToSetAppend
  <2> QED
    BY <2>2 DEF q
<1>6. /\ names' \in [Server!Lists -> Seq(Given)]
      /\ ToSet(names'[l]) = ToSet(names[l]) \cup {n}
      /\ \A k \in Server!Lists : k # l => names'[k] = names[k]
  <2> DEFINE longer == Append(names[l], n)
  <2>1. longer \in Seq(Given) /\ ToSet(longer) = ToSet(names[l]) \cup {n}
    BY <1>5
  <2>2. names' = [names EXCEPT ![l] = longer] /\ names \in [Server!Lists -> Seq(Given)]
    BY <1>1 DEF ServerHolds, ServerTypes
  <2> HIDE DEF longer
  <2> QED
    BY <2>1, <2>2
<1>7. ServerTypes'
  <2>1. \A k \in Server!Lists : ToSet(names'[k]) \subseteq Server!NamesOf(k)
    BY <1>4, <1>6 DEF ServerHolds, ServerTypes
  <2>2. console' \in [at: {"idle", "put", "remove", "draw"}, entry: Server!Entries \cup {<<>>}]
    BY <1>1, <1>2
  <2>3. changed' \in BOOLEAN /\ overlapped' \in BOOLEAN
    BY <1>1 DEF ServerHolds, ServerTypes, Server!Reading
  <2> QED
    BY <1>1, <1>6, <2>1, <2>2, <2>3 DEF ServerHolds, ServerTypes
<1>8. Closed' /\ ConsoleKnows'
  BY <1>1, <1>2 DEF ServerHolds, Closed, ConsoleKnows, Server!Amid
<1>9. NamesMatch'
  <2>1. Expected = present /\ Expected' = present \cup {x}
    BY <1>1 DEF Expected
  <2> SUFFICES ASSUME NEW e \in Server!Entries
               PROVE  Server!Last(e) \in ToSet(names'[Server!Front(e)]) <=> e \in Expected'
    BY DEF NamesMatch
  <2>2. Server!Last(e) \in ToSet(names[Server!Front(e)]) <=> e \in present
    BY <2>1 DEF ServerHolds, NamesMatch
  <2>3. CASE Server!Front(e) = l
    <3>1. Server!Last(e) = n <=> e = x
      BY <1>2, <2>3, Within
    <3> QED
      BY <1>6, <2>1, <2>2, <2>3, <3>1
  <2>4. CASE Server!Front(e) # l
    <3>1. e # x /\ Server!Front(e) \in Server!Lists
      BY <1>2, <2>4, Paths
    <3> QED
      BY <1>6, <2>1, <2>2, <2>4, <3>1
  <2> QED
    BY <2>3, <2>4
<1>10. ~changed' /\ ~overlapped' => Undisturbed'
  BY <1>1 DEF ServerHolds, Undisturbed, Server!Amid, Server!Reading
<1> QED
  BY <1>7, <1>8, <1>9, <1>10 DEF ServerHolds

(* What is in an entry goes from the lists, and it may itself.             *)
LEMMA Emptied ==
  ASSUME ServerHolds, Server!Amid,
         names' = [l \in Server!Lists |->
                     IF l = console.entry \/ Server!Inside(console.entry, l)
                     THEN <<>> ELSE names[l]]
  PROVE  /\ names' \in [Server!Lists -> Seq(Given)]
         /\ \A l \in Server!Lists : ToSet(names'[l]) \subseteq Server!NamesOf(l)
         /\ \A e \in Server!Entries :
              Server!Last(e) \in ToSet(names'[Server!Front(e)])
                <=> e \in Expected /\ ~Server!Inside(console.entry, e)
<1> DEFINE x == console.entry
<1>1. x \in Server!Entries
  BY DEF ServerHolds, ConsoleKnows
<1>2. <<>> \in Seq(Given) /\ ToSet(<<>>) = {}
  BY DEF ToSet
<1>3. \A l \in Server!Lists : names[l] \in Seq(Given) /\ ToSet(names[l]) \subseteq Server!NamesOf(l)
  BY DEF ServerHolds, ServerTypes
<1>4. \A l \in Server!Lists :
        names'[l] = IF l = x \/ Server!Inside(x, l) THEN <<>> ELSE names[l]
  OBVIOUS
<1>5. names' \in [Server!Lists -> Seq(Given)]
  BY <1>2, <1>3
<1>6. \A l \in Server!Lists : ToSet(names'[l]) \subseteq Server!NamesOf(l)
  BY <1>2, <1>3, <1>4
<1>7. ASSUME NEW e \in Server!Entries
      PROVE  Server!Last(e) \in ToSet(names'[Server!Front(e)])
               <=> e \in Expected /\ ~Server!Inside(x, e)
  <2>1. /\ Server!Front(e) \in Server!Lists
        /\ Server!Inside(x, e) <=> x = Server!Front(e) \/ Server!Inside(x, Server!Front(e))
    BY <1>1, Paths, Within
  <2>2. Server!Last(e) \in ToSet(names[Server!Front(e)]) <=> e \in Expected
    BY DEF ServerHolds, NamesMatch
  <2> HIDE DEF x
  <2> QED
    BY <1>2, <1>4, <2>1, <2>2
<1> QED
  BY <1>5, <1>6, <1>7

LEMMA ServerPut ==
  ASSUME ServerHolds, Server!Put
  PROVE  ServerHolds'
<1> DEFINE x == console.entry
<1>1. /\ UNCHANGED <<up, handler, broken, told, changed, overlapped>>
      /\ console.at = "put" /\ console' = [console EXCEPT !.at = "draw"]
      /\ present' = {e \in present : ~Server!Inside(x, e)} \cup {x}
      /\ names' = [l \in Server!Lists |->
                     IF l = x \/ Server!Inside(x, l) THEN <<>> ELSE names[l]]
  BY DEF Server!Put
<1>2. Server!Amid /\ x \in Server!Entries
  BY <1>1 DEF Server!Amid, ServerHolds, ConsoleKnows
<1>3. Server!Front(x) = <<>> \/ Server!Front(x) \in present
  BY <1>2 DEF ServerHolds, ConsoleKnows
<1>4. /\ names' \in [Server!Lists -> Seq(Given)]
      /\ \A l \in Server!Lists : ToSet(names'[l]) \subseteq Server!NamesOf(l)
      /\ \A e \in Server!Entries :
           Server!Last(e) \in ToSet(names'[Server!Front(e)])
             <=> e \in Expected /\ ~Server!Inside(x, e)
  BY <1>1, <1>2, Emptied
<1>5. /\ console' \in [at: {"idle", "put", "remove", "draw"}, entry: Server!Entries \cup {<<>>}]
      /\ console'.at = "draw"
  BY <1>1 DEF ServerHolds, ServerTypes
<1> HIDE DEF x
<1>6. ServerTypes'
  BY <1>1, <1>2, <1>4, <1>5 DEF ServerHolds, ServerTypes
<1>7. Closed'
  <2>1. ASSUME NEW e \in present, ~Server!Inside(x, e)
        PROVE  Server!Front(e) = <<>> \/ Server!Front(e) \in present'
    <3>1. Server!Front(e) = <<>> \/ Server!Front(e) \in present
      BY DEF ServerHolds, Closed
    <3>2. ~Server!Inside(x, Server!Front(e))
      BY <1>2, <2>1, Within DEF ServerHolds, ServerTypes
    <3> QED
      BY <1>1, <3>1, <3>2
  <2>2. Server!Front(x) = <<>> \/ Server!Front(x) \in present'
    BY <1>1, <1>2, <1>3, Within
  <2> QED
    BY <1>1, <2>1, <2>2 DEF Closed
<1>8. NamesMatch'
  <2>1. Expected = present \cup {x} /\ Expected' = present'
    BY <1>1, <1>5 DEF Expected, x
  <2>2. ~Server!Inside(x, x)
    BY <1>2, Within
  <2> QED
    BY <1>1, <1>4, <2>1, <2>2 DEF NamesMatch
<1>9. ConsoleKnows'
  BY <1>5 DEF ConsoleKnows, Server!Amid
<1>10. ASSUME ~changed', ~overlapped' PROVE Undisturbed'
  <2>1. Undisturbed /\ x \notin present
    BY <1>1, <1>10 DEF ServerHolds, Undisturbed, x
  <2>2. present \subseteq present'
    BY <1>1, <1>2, <2>1, InsideIsThere DEF ServerHolds
  <2> QED
    BY <1>1, <1>2, <1>5, <2>1, <2>2 DEF Undisturbed, Server!Amid
<1> QED
  BY <1>6, <1>7, <1>8, <1>9, <1>10 DEF ServerHolds

LEMMA ServerDelete ==
  ASSUME ServerHolds, NEW x \in Server!Entries, Server!Delete(x)
  PROVE  ServerHolds'
<1> DEFINE l == Server!Front(x)
           n == Server!Last(x)
<1>1. /\ UNCHANGED <<up, present, handler, broken, told>>
      /\ console = [at |-> "idle", entry |-> <<>>] /\ x \in present
      /\ names' = [names EXCEPT ![l] = Without(names[l], {n})]
      /\ console' = [at |-> "remove", entry |-> x]
      /\ changed' = TRUE
      /\ overlapped' = (overlapped \/ Server!Reading)
  BY ServerWithout DEF Server!Delete, Server!Idle
<1>2. l \in Server!Lists
  BY Paths
<1> HIDE DEF l, n
<1>3. names[l] \in Seq(Given) /\ ToSet(names[l]) \subseteq Server!NamesOf(l)
  BY <1>2 DEF ServerHolds, ServerTypes
<1>4. Without(names[l], {n}) \in Seq(Given) /\ ToSet(Without(names[l], {n})) = ToSet(names[l]) \ {n}
  BY <1>3, WithoutIs
<1>5. /\ names' \in [Server!Lists -> Seq(Given)]
      /\ ToSet(names'[l]) = ToSet(names[l]) \ {n}
      /\ \A k \in Server!Lists : k # l => names'[k] = names[k]
  BY <1>1, <1>2, <1>4 DEF ServerHolds, ServerTypes
<1>6. ServerTypes'
  <2>1. \A k \in Server!Lists : ToSet(names'[k]) \subseteq Server!NamesOf(k)
    BY <1>3, <1>5 DEF ServerHolds, ServerTypes
  <2>2. console' \in [at: {"idle", "put", "remove", "draw"}, entry: Server!Entries \cup {<<>>}]
    BY <1>1
  <2>3. changed' \in BOOLEAN /\ overlapped' \in BOOLEAN
    BY <1>1 DEF ServerHolds, ServerTypes, Server!Reading
  <2> QED
    BY <1>1, <1>5, <2>1, <2>2, <2>3 DEF ServerHolds, ServerTypes
<1>7. Closed' /\ ConsoleKnows'
  BY <1>1 DEF ServerHolds, Closed, ConsoleKnows, Server!Amid
<1>8. NamesMatch'
  <2>1. Expected = present /\ Expected' = present \ {x}
    BY <1>1 DEF Expected
  <2> SUFFICES ASSUME NEW e \in Server!Entries
               PROVE  Server!Last(e) \in ToSet(names'[Server!Front(e)]) <=> e \in Expected'
    BY DEF NamesMatch
  <2>2. Server!Last(e) \in ToSet(names[Server!Front(e)]) <=> e \in present
    BY <2>1 DEF ServerHolds, NamesMatch
  <2>3. CASE Server!Front(e) = l
    <3>1. Server!Last(e) = n <=> e = x
      BY <2>3, Within DEF l, n
    <3> QED
      BY <1>5, <2>1, <2>2, <2>3, <3>1
  <2>4. CASE Server!Front(e) # l
    <3>1. e # x /\ Server!Front(e) \in Server!Lists
      BY <2>4, Paths DEF l
    <3> QED
      BY <1>5, <2>1, <2>2, <2>4, <3>1
  <2> QED
    BY <2>3, <2>4
<1> QED
  BY <1>1, <1>6, <1>7, <1>8 DEF ServerHolds

LEMMA ServerRemoveEntry ==
  ASSUME ServerHolds, Server!RemoveEntry
  PROVE  ServerHolds'
<1> DEFINE x == console.entry
<1>1. /\ UNCHANGED <<up, handler, broken, told, changed, overlapped>>
      /\ console.at = "remove" /\ console' = [console EXCEPT !.at = "draw"]
      /\ present' = {e \in present : e # x /\ ~Server!Inside(x, e)}
      /\ names' = [l \in Server!Lists |->
                     IF l = x \/ Server!Inside(x, l) THEN <<>> ELSE names[l]]
  BY DEF Server!RemoveEntry
<1>2. Server!Amid /\ x \in Server!Entries
  BY <1>1 DEF Server!Amid, ServerHolds, ConsoleKnows
<1>3. /\ names' \in [Server!Lists -> Seq(Given)]
      /\ \A l \in Server!Lists : ToSet(names'[l]) \subseteq Server!NamesOf(l)
      /\ \A e \in Server!Entries :
           Server!Last(e) \in ToSet(names'[Server!Front(e)])
             <=> e \in Expected /\ ~Server!Inside(x, e)
  BY <1>1, <1>2, Emptied
<1>4. /\ console' \in [at: {"idle", "put", "remove", "draw"}, entry: Server!Entries \cup {<<>>}]
      /\ console'.at = "draw"
  BY <1>1 DEF ServerHolds, ServerTypes
<1>5. changed \/ overlapped
  BY <1>1 DEF ServerHolds, Undisturbed
<1> HIDE DEF x
<1>6. ServerTypes'
  BY <1>1, <1>3, <1>4 DEF ServerHolds, ServerTypes
<1>7. Closed'
  <2>1. ASSUME NEW e \in present, e # x, ~Server!Inside(x, e)
        PROVE  Server!Front(e) = <<>> \/ Server!Front(e) \in present'
    <3>1. Server!Front(e) = <<>> \/ Server!Front(e) \in present
      BY DEF ServerHolds, Closed
    <3>2. x # Server!Front(e) /\ ~Server!Inside(x, Server!Front(e))
      BY <1>2, <2>1, Within DEF ServerHolds, ServerTypes
    <3> QED
      BY <1>1, <3>1, <3>2
  <2> QED
    BY <1>1, <2>1 DEF Closed
<1>8. NamesMatch'
  <2>1. Expected = present \ {x} /\ Expected' = present'
    BY <1>1, <1>4 DEF Expected, x
  <2> QED
    BY <1>1, <1>3, <2>1 DEF NamesMatch
<1>9. ConsoleKnows'
  BY <1>4 DEF ConsoleKnows, Server!Amid
<1> QED
  BY <1>1, <1>5, <1>6, <1>7, <1>8, <1>9 DEF ServerHolds

(* What of the invariant tells of the lists and the maps alone.             *)
LEMMA CatalogueKept ==
  ASSUME ServerHolds, UNCHANGED <<names, present>>,
         console' = console \/ (~Server!Amid /\ ~Server!Amid')
  PROVE  Closed' /\ NamesMatch' /\ ConsoleKnows'
<1>1. Expected' = Expected
  BY DEF Expected, Server!Amid
<1>2. NamesMatch'
  BY <1>1 DEF ServerHolds, NamesMatch
<1>3. Closed' /\ ConsoleKnows'
  BY DEF ServerHolds, Closed, ConsoleKnows, Server!Amid
<1> QED
  BY <1>2, <1>3

(* The server ends; this is only so after a change or amid one.            *)
LEMMA ServerCrash ==
  ASSUME ServerHolds, Server!Crash, changed \/ overlapped
  PROVE  ServerHolds'
<1>1. /\ up' = FALSE
      /\ UNCHANGED <<names, present, console, handler, broken, told, changed, overlapped>>
  BY DEF Server!Crash
<1>2. Closed' /\ NamesMatch' /\ ConsoleKnows'
  BY <1>1, CatalogueKept
<1> QED
  BY <1>1, <1>2 DEF ServerHolds, ServerTypes

LEMMA ServerMapFault ==
  ASSUME ServerHolds, Server!MapFault
  PROVE  ServerHolds'
<1>1. changed \/ overlapped
  BY DEF Server!MapFault, Server!Reading, ServerHolds, Undisturbed
<1> QED
  BY <1>1, ServerCrash DEF Server!MapFault

LEMMA ServerConsoleDraws ==
  ASSUME ServerHolds, Server!ConsoleDraws \/ \E l \in Server!Lists : Server!AddUndecodable(l)
  PROVE  ServerHolds'
<1>1. CASE Server!ConsoleDraws
  <2>1. console.at = "draw" /\ ~Server!Amid
    BY <1>1 DEF Server!ConsoleDraws, Server!Amid
  <2>2. ~Server!Dangling(<<>>)
    BY <2>1, NoneDangles, ListKinds
  <2>3. ASSUME NEW e \in present, Len(e) = 1 PROVE ~Server!Dangling(e)
    <3>1. e \in Server!Entries
      BY DEF ServerHolds, ServerTypes
    <3>2. e \in Server!Lists
      <4>1. ASSUME NEW c \in Classes, NEW b \in Banks PROVE e # <<c, b>>
        BY <2>3
      <4>2. ASSUME NEW c \in Classes, NEW b \in Banks, NEW s \in Songs PROVE e # <<c, b, s>>
        BY <2>3
      <4> QED
        BY <3>1, <4>1, <4>2, ListKinds
    <3> QED
      BY <2>1, <3>2, NoneDangles
  <2>4. /\ console' = [at |-> "idle", entry |-> <<>>]
        /\ UNCHANGED <<up, names, present, handler, broken, told, changed, overlapped>>
    BY <1>1, <2>2, <2>3 DEF Server!ConsoleDraws, Server!Idle
  <2>5. ~Server!Amid'
    BY <2>4 DEF Server!Amid
  <2>6. Closed' /\ NamesMatch' /\ ConsoleKnows'
    BY <2>1, <2>4, <2>5, CatalogueKept
  <2>7. ServerTypes'
    BY <2>4 DEF ServerHolds, ServerTypes
  <2>8. Undisturbed => Undisturbed'
    BY <2>1, <2>4, <2>5 DEF Undisturbed
  <2> QED
    BY <2>4, <2>6, <2>7, <2>8 DEF ServerHolds
<1>2. CASE \E l \in Server!Lists : Server!AddUndecodable(l)
  <2>1. /\ console' = [at |-> "draw", entry |-> <<>>] /\ console = [at |-> "idle", entry |-> <<>>]
        /\ UNCHANGED <<up, names, present, handler, broken, told, changed, overlapped>>
    BY <1>2 DEF Server!AddUndecodable, Server!Idle
  <2>2. ~Server!Amid /\ ~Server!Amid'
    BY <2>1 DEF Server!Amid
  <2>3. Closed' /\ NamesMatch' /\ ConsoleKnows'
    BY <2>1, <2>2, CatalogueKept
  <2>4. ServerTypes'
    BY <2>1 DEF ServerHolds, ServerTypes
  <2>5. Undisturbed => Undisturbed'
    BY <2>1, <2>2 DEF Undisturbed
  <2> QED
    BY <2>1, <2>3, <2>4, <2>5 DEF ServerHolds
<1> QED
  BY <1>1, <1>2

-----------------------------------------------------------------------------
(* Catalogue: the handlers, and the apps. *)

LEMMA ServerStartReading ==
  ASSUME ServerHolds, NEW h \in Handlers, NEW k \in {"class", "draw"}, Server!StartReading(h, k)
  PROVE  ServerHolds'
<1>1. /\ UNCHANGED <<up, names, present, console, broken, told, changed>>
      /\ handler' = [handler EXCEPT ![h] = [at |-> k, names |-> names[<<>>]]]
      /\ overlapped' = (overlapped \/ Server!Amid)
  BY DEF Server!StartReading
<1>2. names[<<>>] \in Seq(Classes)
  <2> DEFINE q == names[<<>>]
  <2>1. q \in Seq(Given) /\ ToSet(q) \subseteq Classes
    BY ListKinds DEF ServerHolds, ServerTypes
  <2> HIDE DEF q
  <2>2. \A i \in 1..Len(q) : q[i] \in Classes
    BY <2>1 DEF ToSet
  <2>3. q \in Seq(Classes)
    BY <2>1, <2>2
  <2> QED
    BY <2>3 DEF q
<1>3. /\ handler' \in [Handlers -> [at: {"idle", "class", "draw"}, names: Seq(Classes)]]
      /\ \A g \in Handlers : g # h => handler'[g] = handler[g]
      /\ handler'[h].names = names[<<>>]
  BY <1>1, <1>2 DEF ServerHolds, ServerTypes
<1>4. Closed' /\ NamesMatch' /\ ConsoleKnows'
  BY <1>1, CatalogueKept
<1>5. ServerTypes'
  <2>1. overlapped' \in BOOLEAN
    BY <1>1 DEF ServerHolds, ServerTypes, Server!Amid
  <2> QED
    BY <1>1, <1>3, <2>1 DEF ServerHolds, ServerTypes
<1>6. ASSUME ~changed', ~overlapped' PROVE Undisturbed'
  <2>1. Undisturbed /\ ~Server!Amid /\ ~Server!Amid'
    BY <1>1, <1>6 DEF ServerHolds, Server!Amid
  <2> QED
    BY <1>1, <1>3, <2>1 DEF Undisturbed
<1> QED
  BY <1>4, <1>5, <1>6 DEF ServerHolds

(* A handler that is done reading. *)
LEMMA HandlerRests ==
  ASSUME ServerTypes, NEW h \in Handlers, handler' = [handler EXCEPT ![h] = Server!Rest]
  PROVE  /\ handler' \in [Handlers -> [at: {"idle", "class", "draw"}, names: Seq(Classes)]]
         /\ \A g \in Handlers : g # h => handler'[g] = handler[g]
         /\ handler'[h].at = "idle"
<1>1. Server!Rest \in [at: {"idle", "class", "draw"}, names: Seq(Classes)] /\ Server!Rest.at = "idle"
  BY DEF Server!Rest
<1> QED
  BY <1>1 DEF ServerTypes

(* What a handler reads undisturbed is all there, and nothing dangles.     *)
LEMMA ReadsWhole ==
  ASSUME ServerHolds, Undisturbed, NEW h \in Handlers, handler[h].at # "idle"
  PROVE  \A c \in ToSet(handler[h].names) :
           <<c>> \in present /\ <<c>> \in Server!Lists /\ ~Server!Dangling(<<c>>)
<1>1. ~Server!Amid /\ handler[h].names = names[<<>>]
  BY DEF Undisturbed
<1>2. ASSUME NEW c \in ToSet(names[<<>>])
      PROVE  <<c>> \in present /\ <<c>> \in Server!Lists /\ ~Server!Dangling(<<c>>)
  <2>1. Append(<<>>, c) \in present /\ c \in Classes
    BY <1>1, NoneDangles, ListKinds DEF ServerHolds, ServerTypes
  <2>2. Append(<<>>, c) = <<c>>
    OBVIOUS
  <2>3. <<c>> \in Server!Lists
    BY <2>1, ListKinds
  <2> QED
    BY <1>1, <2>1, <2>2, <2>3, NoneDangles
<1> QED
  BY <1>1, <1>2

LEMMA ServerHandlerDraws ==
  ASSUME ServerHolds, NEW h \in Handlers, Server!HandlerDraws(h)
  PROVE  ServerHolds'
<1>1. CASE Server!Crash /\ (changed \/ overlapped)
  BY <1>1, ServerCrash
<1>2. CASE ~(Server!Crash /\ (changed \/ overlapped))
  <2>1. handler[h].at # "idle"
    BY DEF Server!HandlerDraws
  <2>2. /\ handler' = [handler EXCEPT ![h] = Server!Rest]
        /\ UNCHANGED <<up, names, present, console, broken, told, changed, overlapped>>
    <3>1. ASSUME ~changed, ~overlapped
          PROVE  \A c \in ToSet(handler[h].names) : <<c>> \in present /\ ~Server!Dangling(<<c>>)
      <4>1. Undisturbed
        BY <3>1 DEF ServerHolds
      <4> QED
        BY <2>1, <4>1, ReadsWhole
    <3> QED
      BY <1>2, <3>1, ServerToSet DEF Server!HandlerDraws
  <2>3. /\ handler' \in [Handlers -> [at: {"idle", "class", "draw"}, names: Seq(Classes)]]
        /\ \A g \in Handlers : g # h => handler'[g] = handler[g]
        /\ handler'[h].at = "idle"
    BY <2>2, HandlerRests DEF ServerHolds
  <2>4. Closed' /\ NamesMatch' /\ ConsoleKnows'
    BY <2>2, CatalogueKept
  <2>5. ServerTypes'
    BY <2>2, <2>3 DEF ServerHolds, ServerTypes
  <2>6. Undisturbed => Undisturbed'
    BY <2>2, <2>3 DEF Undisturbed, Server!Amid
  <2> QED
    BY <2>2, <2>4, <2>5, <2>6 DEF ServerHolds
<1> QED
  BY <1>1, <1>2

LEMMA ServerAnswerClass ==
  ASSUME ServerHolds, NEW h \in Handlers, Server!AnswerClass(h)
  PROVE  ServerHolds'
<1> DEFINE classes == {<<c>> : c \in ToSet(handler[h].names)}
           shown == classes \cup UNION {Server!Members(e) : e \in classes}
           fits == classes \subseteq present /\ \A e \in classes : ~Server!Dangling(e)
<1>1. /\ UNCHANGED <<up, names, present, console, changed, overlapped>>
      /\ handler[h].at = "class" /\ handler' = [handler EXCEPT ![h] = Server!Rest]
      /\ IF fits THEN told' = [told EXCEPT ![h] = shown] /\ broken' = broken
         ELSE broken' = broken \cup {h} /\ told' = told
  BY ServerToSet DEF Server!AnswerClass
<1>2. fits => shown \subseteq present
  BY DEF Server!Members
<1>3. ~changed /\ ~overlapped => fits
  <2>1. ASSUME ~changed, ~overlapped PROVE fits
    <3>1. Undisturbed
      BY <2>1 DEF ServerHolds
    <3>2. \A c \in ToSet(handler[h].names) : <<c>> \in present /\ ~Server!Dangling(<<c>>)
      BY <1>1, <3>1, ReadsWhole
    <3> QED
      BY <3>2
  <2> QED
    BY <2>1
<1> HIDE DEF classes, shown, fits
<1>4. /\ handler' \in [Handlers -> [at: {"idle", "class", "draw"}, names: Seq(Classes)]]
      /\ \A g \in Handlers : g # h => handler'[g] = handler[g]
      /\ handler'[h].at = "idle"
  BY <1>1, HandlerRests DEF ServerHolds
<1>5. Closed' /\ NamesMatch' /\ ConsoleKnows'
  BY <1>1, CatalogueKept
<1>6. ServerTypes'
  <2>1. ServerTypes
    BY DEF ServerHolds
  <2>2. fits => shown \in SUBSET Server!Entries
    BY <1>2, <2>1 DEF ServerTypes
  <2>3. told' \in [Handlers -> SUBSET Server!Entries] /\ broken' \in SUBSET Handlers
    <3>1. told \in [Handlers -> SUBSET Server!Entries] /\ broken \in SUBSET Handlers
      BY <2>1 DEF ServerTypes
    <3> QED
      BY <1>1, <2>2, <3>1
  <2> QED
    BY <1>1, <1>4, <2>1, <2>3 DEF ServerTypes
<1>7. ASSUME ~changed', ~overlapped' PROVE Undisturbed'
  <2>1. Undisturbed /\ fits
    BY <1>1, <1>3, <1>7 DEF ServerHolds
  <2>2. broken' = broken /\ \A g \in Handlers : told'[g] \in {told[g], shown}
    BY <1>1, <2>1 DEF ServerHolds, ServerTypes
  <2> QED
    BY <1>1, <1>2, <1>4, <2>1, <2>2 DEF Undisturbed, Server!Amid
<1> QED
  BY <1>5, <1>6, <1>7 DEF ServerHolds

LEMMA ServerAnswerBank ==
  ASSUME ServerHolds, NEW h \in Handlers, NEW e \in Server!Entries, Server!AnswerBank(h, e)
  PROVE  ServerHolds'
<1>1. e \in told[h] /\ Len(e) = 2
  BY DEF Server!AnswerBank
<1>2. CASE ~({Server!Front(e), e} \subseteq present)
  <2>1. changed \/ overlapped
    <3>1. ASSUME ~changed, ~overlapped PROVE FALSE
      <4>1. e \in present
        BY <1>1, <3>1 DEF ServerHolds, Undisturbed
      <4>2. Server!Front(e) # <<>>
        <5>1. Len(Server!Front(e)) = Len(e) - 1
          BY Within
        <5>2. Len(Server!Front(e)) = 1
          BY <1>1, <5>1
        <5> QED
          BY <5>2
      <4> QED
        BY <1>2, <4>1, <4>2 DEF ServerHolds, Closed
    <3> QED
      BY <3>1
  <2>2. Server!Crash
    BY <1>2 DEF Server!AnswerBank
  <2> QED
    BY <2>1, <2>2, ServerCrash
<1>3. CASE {Server!Front(e), e} \subseteq present
  <2> DEFINE shown == {s \in told[h] : ~Server!Inside(e, s)} \cup {Append(e, n) : n \in ToSet(names[e])}
  <2>1. /\ UNCHANGED <<up, names, present, console, handler, broken, changed>>
        /\ overlapped' = (overlapped \/ Server!Amid)
        /\ told' = [told EXCEPT ![h] = shown]
    BY <1>3, ServerToSet DEF Server!AnswerBank
  <2>2. e \in Server!Lists
    <3>1. ASSUME NEW c \in Classes PROVE e # <<c>>
      BY <1>1
    <3>2. ASSUME NEW c \in Classes, NEW b \in Banks, NEW s \in Songs PROVE e # <<c, b, s>>
      BY <1>1
    <3> QED
      BY <3>1, <3>2, ListKinds
  <2>3. shown \subseteq Server!Entries
    <3>1. \A n \in ToSet(names[e]) : Append(e, n) \in Server!Entries
      BY <2>2, Paths DEF ServerHolds, ServerTypes
    <3>2. told[h] \subseteq Server!Entries
      BY DEF ServerHolds, ServerTypes
    <3> QED
      BY <3>1, <3>2
  <2>4. ~changed /\ ~overlapped' => shown \subseteq present
    <3>1. ASSUME ~changed, ~overlapped' PROVE shown \subseteq present
      <4>1. Undisturbed /\ ~Server!Amid
        BY <2>1, <3>1 DEF ServerHolds
      <4>2. \A n \in ToSet(names[e]) : Append(e, n) \in present
        BY <2>2, <4>1, NoneDangles
      <4>3. told[h] \subseteq present
        BY <4>1 DEF Undisturbed
      <4> QED
        BY <4>2, <4>3
    <3> QED
      BY <3>1
  <2> HIDE DEF shown
  <2>5. Closed' /\ NamesMatch' /\ ConsoleKnows'
    BY <2>1, CatalogueKept
  <2>6. overlapped' \in BOOLEAN /\ told' \in [Handlers -> SUBSET Server!Entries]
    BY <2>1, <2>3 DEF ServerHolds, ServerTypes, Server!Amid
  <2>7. ServerTypes'
    BY <2>1, <2>6 DEF ServerHolds, ServerTypes
  <2>8. ASSUME ~changed', ~overlapped' PROVE Undisturbed'
    <3>1. Undisturbed /\ shown \subseteq present
      BY <2>1, <2>4, <2>8 DEF ServerHolds
    <3>2. \A g \in Handlers : told'[g] \in {told[g], shown}
      BY <2>1 DEF ServerHolds, ServerTypes
    <3> QED
      BY <2>1, <3>1, <3>2 DEF Undisturbed, Server!Amid
  <2> QED
    BY <2>5, <2>7, <2>8 DEF ServerHolds
<1> QED
  BY <1>2, <1>3

LEMMA ServerAnswerSong ==
  ASSUME ServerHolds, NEW h \in Handlers, NEW e \in Server!Entries, Server!AnswerSong(h, e)
  PROVE  ServerHolds'
<1>1. e \in told[h] /\ Len(e) = 3
  BY DEF Server!AnswerSong
<1>2. ASSUME ~changed, ~overlapped PROVE {<<e[1]>>, Server!Front(e), e} \subseteq present
  <2>1. e \in present
    BY <1>1, <1>2 DEF ServerHolds, Undisturbed
  <2>2. PICK c \in Classes : \E b \in Banks : \E s \in Songs : e = <<c, b, s>>
    <3>1. ASSUME NEW c \in Classes PROVE e # <<c>>
      BY <1>1
    <3>2. ASSUME NEW c \in Classes, NEW b \in Banks PROVE e # <<c, b>>
      BY <1>1
    <3> QED
      BY <3>1, <3>2, ListKinds
  <2> DEFINE f == Server!Front(e)
             g == Server!Front(f)
  <2>3. f \in present /\ Len(f) = 2 /\ f \in Server!Entries
    <3>0. Len(f) = Len(e) - 1
      BY Within
    <3>1. Len(f) = 2
      BY <1>1, <3>0
    <3> HIDE DEF f
    <3>2. f # <<>>
      <4>1. Len(f) # 0
        BY <3>1
      <4> QED
        BY <4>1, NotNone
    <3>3. f \in present
      <4>1. Closed
        BY DEF ServerHolds
      <4>2. Server!Front(e) = <<>> \/ Server!Front(e) \in present
        BY <2>1, <4>1 DEF Closed
      <4> QED
        BY <3>2, <4>2 DEF f
    <3> QED
      BY <3>1, <3>3 DEF ServerHolds, ServerTypes
  <2>4. g \in present /\ Len(g) = 1
    <3>0. Len(g) = Len(f) - 1
      BY <2>3, Within
    <3>1. Len(g) = 1
      BY <2>3, <3>0
    <3> HIDE DEF g
    <3>2. g # <<>>
      <4>1. Len(g) # 0
        BY <3>1
      <4> QED
        BY <4>1, NotNone
    <3> QED
      BY <2>3, <3>1, <3>2 DEF g, ServerHolds, Closed
  <2>5. g = <<e[1]>>
    <3>1. PICK b \in Banks : \E s \in Songs : e = <<c, b, s>>
      BY <2>2
    <3>2. PICK s \in Songs : e = <<c, b, s>>
      BY <3>1
    <3>3. e = Append(<<c, b>>, s) /\ <<c, b>> = Append(<<c>>, b)
      BY <3>2, PathsGrow
    <3>4. Server!Front(Append(<<c, b>>, s)) = <<c, b>> /\ Server!Front(Append(<<c>>, b)) = <<c>>
      BY Within, ListKinds
    <3>5. g = <<c>>
      BY <3>3, <3>4
    <3>6. e[1] = c
      BY <3>2
    <3> QED
      BY <3>5, <3>6
  <2> QED
    BY <2>1, <2>3, <2>4, <2>5
<1>3. CASE ~({<<e[1]>>, Server!Front(e)} \subseteq present)
  <2>1. Server!Crash
    BY <1>3 DEF Server!AnswerSong
  <2>2. changed \/ overlapped
    BY <1>2, <1>3
  <2> QED
    BY <2>1, <2>2, ServerCrash
<1>4. CASE {<<e[1]>>, Server!Front(e)} \subseteq present
  <2>1. /\ UNCHANGED <<up, names, present, console, handler, told, changed>>
        /\ overlapped' = (overlapped \/ Server!Amid)
        /\ broken' = IF e \in present THEN broken ELSE broken \cup {h}
    BY <1>4 DEF Server!AnswerSong
  <2>2. Closed' /\ NamesMatch' /\ ConsoleKnows'
    BY <2>1, CatalogueKept
  <2>3. overlapped' \in BOOLEAN /\ broken' \in SUBSET Handlers
    BY <2>1 DEF ServerHolds, ServerTypes, Server!Amid
  <2>4. ServerTypes'
    BY <2>1, <2>3 DEF ServerHolds, ServerTypes
  <2>5. ASSUME ~changed', ~overlapped' PROVE Undisturbed'
    <3>1. Undisturbed /\ broken' = broken
      BY <1>2, <2>1, <2>5 DEF ServerHolds
    <3> QED
      BY <2>1, <3>1 DEF Undisturbed, Server!Amid
  <2> QED
    BY <2>2, <2>4, <2>5 DEF ServerHolds
<1> QED
  BY <1>3, <1>4

-----------------------------------------------------------------------------
(* Catalogue: the theorem. *)

LEMMA ServerInitHolds == ASSUME Server!Init PROVE ServerHolds
<1>1. /\ up = TRUE /\ changed = FALSE /\ overlapped = FALSE
      /\ names = [l \in Server!Lists |-> <<>>] /\ present = {}
      /\ console = [at |-> "idle", entry |-> <<>>]
      /\ handler = [h \in Handlers |-> [at |-> "idle", names |-> <<>>]]
      /\ broken = {} /\ told = [h \in Handlers |-> {}]
  BY DEF Server!Init, Server!Idle, Server!Rest
<1>2. <<>> \in Seq(Given) /\ <<>> \in Seq(Classes) /\ ToSet(<<>>) = {}
  BY DEF ToSet
<1>3. \A l \in Server!Lists : names[l] = <<>>
  BY <1>1
<1>4. ServerTypes
  <2>1. names \in [Server!Lists -> Seq(Given)]
    BY <1>1, <1>2
  <2>2. \A l \in Server!Lists : ToSet(names[l]) \subseteq Server!NamesOf(l)
    BY <1>2, <1>3
  <2>3. handler \in [Handlers -> [at: {"idle", "class", "draw"}, names: Seq(Classes)]]
    BY <1>1, <1>2
  <2> QED
    BY <1>1, <2>1, <2>2, <2>3 DEF ServerTypes
<1>5. NamesMatch
  BY <1>1, <1>2, <1>3, Paths DEF NamesMatch, Expected
<1>6. Closed /\ ConsoleKnows /\ Undisturbed
  BY <1>1 DEF Closed, ConsoleKnows, Undisturbed, Server!Amid
<1> QED
  BY <1>4, <1>5, <1>6 DEF ServerHolds

LEMMA ServerStep ==
  ASSUME ServerHolds, [Server!Next]_(Server!vars)
  PROVE  ServerHolds'
<1>1. CASE UNCHANGED Server!vars
  <2>1. /\ UNCHANGED <<up, names, present, console, handler, broken, told, changed, overlapped>>
    BY <1>1 DEF Server!vars
  <2> QED
    BY <2>1 DEF ServerHolds, ServerTypes, Closed, NamesMatch, Expected, ConsoleKnows,
                Undisturbed, Server!Amid
<1>2. ASSUME NEW l \in Server!Lists, NEW n \in Server!NamesOf(l), Server!Add(l, n)
      PROVE  ServerHolds'
  BY <1>2, ServerAdd
<1>3. ASSUME NEW l \in Server!Lists, Server!AddUndecodable(l) PROVE ServerHolds'
  BY <1>3, ServerConsoleDraws
<1>4. ASSUME NEW e \in Server!Entries, Server!Delete(e) PROVE ServerHolds'
  BY <1>4, ServerDelete
<1>5. CASE Server!Put \/ Server!RemoveEntry \/ Server!ConsoleDraws \/ Server!MapFault
  BY <1>5, ServerPut, ServerRemoveEntry, ServerConsoleDraws, ServerMapFault
<1>6. ASSUME NEW h \in Handlers,
             \/ Server!StartReading(h, "class") \/ Server!StartReading(h, "draw")
             \/ Server!HandlerDraws(h) \/ Server!AnswerClass(h)
             \/ \E e \in Server!Entries : Server!AnswerBank(h, e) \/ Server!AnswerSong(h, e)
      PROVE  ServerHolds'
  BY <1>6, ServerStartReading, ServerHandlerDraws, ServerAnswerClass, ServerAnswerBank,
     ServerAnswerSong
<1> QED
  BY <1>1, <1>2, <1>3, <1>4, <1>5, <1>6 DEF Server!Next

(* Matching names and entries make lists and maps that tell the same.      *)
LEMMA MatchingLists == ServerHolds => Server!ListsMatchMaps
<1> SUFFICES ASSUME ServerHolds, console = Server!Idle, NEW l \in Server!Lists
             PROVE  IF l = <<>> \/ l \in present
                    THEN {Append(l, n) : n \in ToSet(names[l])} = Server!Members(l)
                    ELSE names[l] = <<>> /\ Server!Members(l) = {}
  BY ServerToSet DEF Server!ListsMatchMaps
<1>1. ~Server!Amid /\ Expected = present
  BY DEF Server!Idle, Server!Amid, Expected
<1>2. {Append(l, n) : n \in ToSet(names[l])} = Server!Members(l)
  <2>1. ASSUME NEW n \in ToSet(names[l]) PROVE Append(l, n) \in Server!Members(l)
    <3>1. Append(l, n) \in present
      BY <1>1, NoneDangles
    <3>2. l \in Seq(Given) /\ n \in Given
      BY Paths DEF ServerHolds, ServerTypes
    <3>3. Len(Append(l, n)) = Len(l) + 1 /\ Server!Inside(l, Append(l, n))
      BY <3>2, PathAppend
    <3> QED
      BY <3>1, <3>3 DEF Server!Members
  <2>2. ASSUME NEW e \in Server!Members(l)
        PROVE  e = Append(l, Server!Last(e)) /\ Server!Last(e) \in ToSet(names[l])
    <3>1. e \in present /\ e \in Server!Entries /\ Len(e) = Len(l) + 1 /\ Server!Inside(l, e)
      BY DEF Server!Members, ServerHolds, ServerTypes
    <3>2. /\ l \in Seq(Given) /\ Server!Front(e) \in Seq(Given) /\ Server!Last(e) \in Given
          /\ e = Append(Server!Front(e), Server!Last(e))
      BY <3>1, Paths
    <3>3. l = Server!Front(e) \/ Server!Inside(l, Server!Front(e))
      BY <3>1, <3>2, PathAppend
    <3>4. Len(Server!Front(e)) = Len(e) - 1
      BY <3>1, Within
    <3>5. ~Server!Inside(l, Server!Front(e))
      <4>1. Server!Inside(l, Server!Front(e)) => Len(l) < Len(Server!Front(e))
        BY DEF Server!Inside
      <4>2. Len(l) \in Nat
        BY <3>2
      <4> QED
        BY <3>1, <3>4, <4>1, <4>2
    <3>6. Server!Last(e) \in ToSet(names[Server!Front(e)])
      BY <1>1, <3>1 DEF ServerHolds, NamesMatch
    <3> QED
      BY <3>2, <3>3, <3>5, <3>6
  <2> QED
    BY <2>1, <2>2
<1>3. ASSUME l # <<>>, l \notin present
      PROVE  names[l] = <<>> /\ Server!Members(l) = {}
  <2>1. ToSet(names[l]) = {}
    <3>1. ASSUME NEW n \in ToSet(names[l]) PROVE FALSE
      <4>1. Append(l, n) \in present
        BY <1>1, NoneDangles
      <4>2. n \in Server!NamesOf(l)
        BY DEF ServerHolds, ServerTypes
      <4>3. Server!Front(Append(l, n)) = l
        BY <4>2, Within
      <4> QED
        BY <1>3, <4>1, <4>3 DEF ServerHolds, Closed
    <3> QED
      BY <3>1
  <2>2. names[l] = <<>>
    <3> DEFINE q == names[l]
    <3>1. q \in Seq(Given) /\ ToSet(q) = {}
      BY <2>1 DEF ServerHolds, ServerTypes
    <3> HIDE DEF q
    <3>2. \A i \in 1..Len(q) : q[i] \in ToSet(q)
      BY <3>1 DEF ToSet
    <3>3. Len(q) = 0
      <4>1. Len(q) \in Nat /\ 1 \notin 1..Len(q)
        BY <3>1, <3>2
      <4> QED
        BY <4>1
    <3>4. q = <<>>
      BY <3>1, <3>3
    <3> QED
      BY <3>4 DEF q
  <2> QED
    BY <1>2, <2>1, <2>2
<1> QED
  BY <1>2, <1>3

(* While the console rests, the lists and the maps of the server's         *)
(* catalogue tell the same, and a catalogue that only grows by new names   *)
(* and is not read amid a change is safe to ask for, for every set of      *)
(* names and handlers and every length of the lists (addClass, addBank,    *)
(* addSong, User.handleMessage in main.go).                                *)
THEOREM CatalogueStaysTrue == MCSpec => []CatalogueInv
<1>1. MCInit => ServerHolds
  BY ServerInitHolds DEF MCInit
<1>2. ServerHolds /\ [MCNext]_allVars => ServerHolds'
  <2> SUFFICES ASSUME ServerHolds, [MCNext]_allVars
      PROVE  ServerHolds'
    OBVIOUS
  <2>1. [Server!Next]_(Server!vars)
    BY DEF MCNext, allVars, serverVars, Server!vars
  <2> QED
    BY <2>1, ServerStep
<1>3. ServerHolds => CatalogueInv
  <2> SUFFICES ASSUME ServerHolds PROVE CatalogueInv
    OBVIOUS
  <2>1. \A e \in present : Len(e) > 1 => Server!Front(e) \in present
    <3> SUFFICES ASSUME NEW e \in present, Len(e) > 1 PROVE Server!Front(e) \in present
      OBVIOUS
    <3>1. Len(e) \in 1..3 /\ Len(Server!Front(e)) = Len(e) - 1
      BY Within DEF ServerHolds, ServerTypes
    <3>2. Server!Front(e) # <<>>
      <4> DEFINE f == Server!Front(e)
      <4>1. Len(f) # 0
        BY <3>1
      <4> HIDE DEF f
      <4>2. f # <<>>
        BY <4>1
      <4> QED
        BY <4>2 DEF f
    <3> QED
      BY <3>2 DEF ServerHolds, Closed
  <2>2. Server!TypeOK
    BY <2>1, ServerToSet DEF ServerHolds, ServerTypes, Given, Server!TypeOK
  <2>3. Server!GrowingIsSafe
    BY DEF ServerHolds, Undisturbed, Server!GrowingIsSafe
  <2> QED
    BY <2>2, <2>3, MatchingLists DEF CatalogueInv, Server!Inv
<1> QED
  BY <1>1, <1>2, <1>3, PTL DEF MCSpec

-----------------------------------------------------------------------------
(* Barrage: the falling notes. *)

Shown == ToSet(drawKeys)
Rest == ToSet(tap.rest)

(* The notes come one after the other; the last may still be in addKey.    *)
Count == Cardinality(Falling!Added)
Coming(n) == n \notin Falling!Added \/ (n = Count /\ player.at # "out")

TapStates ==
  [at: {"idle", "look", "miss", "get"}, on: Touches \cup {NoTouch},
   rest: Seq(Falling!Notes), sounded: BOOLEAN]

FallTypes ==
  /\ unbroken \in BOOLEAN /\ autoPlay \in BOOLEAN /\ together \in BOOLEAN
  /\ lock \in {"free", "player", "iterator"}
  /\ drawKeys \in Seq(Falling!Notes)
  /\ playKeys \in SUBSET Falling!Notes /\ unseen \in SUBSET Falling!Notes
  /\ judged \in SUBSET Falling!Notes
  /\ length \in [Falling!Notes -> 0..(Falling!End + Pace)]
  /\ touch \in [Falling!Notes -> Touches \cup {NoTouch}]
  /\ player \in [at: {"out", "size", "get"}, index: 0..MaxNotes]
  /\ iterator \in [at: {"sleep", "auto", "clear"}, list: SUBSET Falling!Notes]
  /\ tap \in TapStates
  /\ (lock = "player") = (player.at # "out")
  /\ (lock = "iterator") = (iterator.at # "sleep")
  /\ score \in Nat /\ combo \in Nat
  /\ played \in [Falling!Notes -> 0..1]
  /\ Count \in 0..MaxNotes /\ Falling!Added = 1..Count
  /\ tap.at = "look" => tap.rest # <<>>
  /\ player.at # "out" => Count > 0

(* A note to come is nowhere.                                              *)
ComingIsNowhere(n) ==
  Coming(n) =>
    /\ n \notin Shown /\ n \notin playKeys /\ n \notin unseen /\ n \notin judged
    /\ n \notin Rest /\ n \notin iterator.list
    /\ length[n] = 0 /\ played[n] = 0

(* A note is seen or unseen, and a judged one is not seen any more.        *)
SeenOrUnseen(n) ==
  /\ n \in playKeys => n \in unseen /\ length[n] <= Falling!UnseenEnd
  /\ n \in unseen => n \notin Shown /\ n \notin Rest /\ n \notin judged /\ n \notin iterator.list
  /\ n \in judged => n \notin Shown /\ n \notin Rest

(* A note is not lost: NoneLost.                                           *)
Somewhere(n) ==
  \/ Coming(n) \/ n \in Shown \/ n \in playKeys \/ n \in judged
  \/ length[n] > Falling!UnseenEnd

(* The notes the iterator takes out are those that are at their end; a     *)
(* note that is shown sounds by itself just before it goes.                *)
EndIsListed(n) ==
  /\ n \in iterator.list => length[n] > Falling!End
  /\ n \in Shown /\ length[n] > Falling!End => n \in iterator.list
  /\ n \in iterator.list /\ iterator.at = "auto" => played[n] = 0
  /\ n \in Shown /\ played[n] > 0 => n \in iterator.list /\ iterator.at = "clear"

(* An unseen note sounds when it goes: SoundsOnce.                         *)
UnseenSounds(n) == n \in unseen => played[n] = IF n \in playKeys THEN 0 ELSE 1

(* No touch has come upon a held lock, nor a holder upon a touch: what a   *)
(* thread is about to take out is there.                                   *)
StillThere(n) ==
  ~together =>
    /\ n \in judged => played[n] = 0
    /\ n \in iterator.list => n \in Shown
    /\ tap.at = "look" /\ n \in Rest => n \in Shown

TouchesApart ==
  ~together =>
    /\ unbroken
    /\ tap.at = "idle" \/ lock = "free"
    /\ player.at = "size" => drawKeys # <<>>
    /\ player.at = "get" => player.index = Len(drawKeys)
    /\ tap.at = "get" => drawKeys # <<>>

(* Any two notes shown keep their distance, and the index the playing      *)
(* thread has read is that of the last, or of one that is gone.            *)
InOrder(s, fallen) ==
  \A i \in DOMAIN s : \A j \in DOMAIN s : i < j => fallen[s[i]] > fallen[s[j]] + Gap

LastIsRead ==
  /\ InOrder(drawKeys, length)
  /\ player.at = "get" => Len(drawKeys) <= player.index

NoteHolds(n) ==
  /\ ComingIsNowhere(n) /\ SeenOrUnseen(n) /\ Somewhere(n)
  /\ EndIsListed(n) /\ UnseenSounds(n) /\ StillThere(n)

FallHolds ==
  /\ FallTypes /\ \A n \in Falling!Notes : NoteHolds(n)
  /\ LastIsRead /\ TouchesApart /\ Falling!ScoreEarned
  /\ iterator.at = "sleep" => iterator.list = {}

LEMMA FallToSet == ASSUME NEW s PROVE Falling!ToSet(s) = ToSet(s)
BY DEF ToSet, Falling!ToSet

LEMMA FallWithout == ASSUME NEW s, NEW S PROVE Falling!Without(s, S) = Without(s, S)
BY DEF Without, Falling!Without

LEMMA FallCardinality == ASSUME NEW S PROVE Falling!Cardinality(S) = Cardinality(S)
BY DEF Falling!Cardinality, Cardinality

LEMMA Heights ==
  /\ Falling!End \in Nat /\ Falling!UnseenEnd \in Nat /\ Falling!UnseenEnd <= Falling!End
  /\ Pace \in Nat /\ Gap \in Nat /\ MaxNotes \in Nat /\ 0 < Pace
  /\ Falling!Notes = 1..MaxNotes
BY NotesAssumptions DEF Falling!End, Falling!UnseenEnd, Falling!Notes

(* The lists. *)

LEMMA InjectionFits ==
  ASSUME NEW m \in Nat, NEW n \in Nat, NEW f \in [1..m -> 1..n],
         \A i \in 1..m : \A j \in 1..m : i < j => f[i] # f[j]
  PROVE  m <= n
<1>1. \A i \in 1..m : \A j \in 1..m : f[i] = f[j] => i = j
  BY SMT
<1>2. f \in Injection(1..m, 1..n)
  BY <1>1 DEF Injection, IsInjective
<1>3. Cardinality(1..m) = m /\ Cardinality(1..n) = n /\ IsFiniteSet(1..n)
  BY FS_Interval
<1>4. Cardinality(1..m) <= Cardinality(1..n)
  BY <1>2, <1>3, FS_Injection DEF ExistsInjection
<1> QED
  BY <1>3, <1>4

LEMMA TakenOut ==
  ASSUME NEW s \in Seq(Falling!Notes), NEW X, NEW l, NEW k, InOrder(s, l),
         \A n \in ToSet(s) \ X : k[n] = l[n]
  PROVE  /\ Without(s, X) \in Seq(Falling!Notes)
         /\ ToSet(Without(s, X)) = ToSet(s) \ X
         /\ InOrder(Without(s, X), k)
         /\ Len(Without(s, X)) <= Len(s)
<1> DEFINE w == Without(s, X)
<1>1. w \in Seq(Falling!Notes) /\ ToSet(w) = ToSet(s) \ X
  BY WithoutIs
<1>2. PICK f \in [DOMAIN w -> DOMAIN s] :
        /\ \A i, j \in DOMAIN w : i < j => f[i] < f[j]
        /\ \A i \in DOMAIN w : w[i] = s[f[i]]
  BY WithoutIs
<1> HIDE DEF w
<1>3. DOMAIN w = 1..Len(w) /\ DOMAIN s = 1..Len(s) /\ Len(w) \in Nat /\ Len(s) \in Nat
  BY <1>1
<1>4. \A i \in DOMAIN w : k[w[i]] = l[s[f[i]]]
  <2> SUFFICES ASSUME NEW i \in DOMAIN w PROVE k[w[i]] = l[s[f[i]]]
    OBVIOUS
  <2>1. w[i] \in ToSet(w) /\ w[i] = s[f[i]]
    BY <1>2 DEF ToSet
  <2> QED
    BY <1>1, <2>1
<1>5. InOrder(w, k)
  <2> SUFFICES ASSUME NEW i \in DOMAIN w, NEW j \in DOMAIN w, i < j
               PROVE  k[w[i]] > k[w[j]] + Gap
    BY DEF InOrder
  <2>1. f[i] \in DOMAIN s /\ f[j] \in DOMAIN s /\ f[i] < f[j]
    BY <1>2
  <2>2. l[s[f[i]]] > l[s[f[j]]] + Gap
    BY <2>1 DEF InOrder
  <2> QED
    BY <1>4, <2>2
<1>6. Len(w) <= Len(s)
  <2>1. \A i \in 1..Len(w) : \A j \in 1..Len(w) : i < j => f[i] # f[j]
    <3> SUFFICES ASSUME NEW i \in 1..Len(w), NEW j \in 1..Len(w), i < j PROVE f[i] # f[j]
      OBVIOUS
    <3>1. f[i] < f[j] /\ f[i] \in 1..Len(s) /\ f[j] \in 1..Len(s)
      BY <1>2, <1>3
    <3> QED
      BY <1>3, <3>1
  <2>2. f \in [1..Len(w) -> 1..Len(s)]
    BY <1>2, <1>3
  <2> QED
    BY <1>3, <2>1, <2>2, InjectionFits
<1> QED
  BY <1>1, <1>5, <1>6 DEF w

LEMMA PutLast ==
  ASSUME NEW s \in Seq(Falling!Notes), NEW n \in Falling!Notes,
         NEW l \in [Falling!Notes -> Nat], InOrder(s, l), l[n] = 0,
         s = <<>> \/ l[s[Len(s)]] > Gap
  PROVE  /\ Append(s, n) \in Seq(Falling!Notes)
         /\ ToSet(Append(s, n)) = ToSet(s) \cup {n}
         /\ InOrder(Append(s, n), l)
<1> DEFINE w == Append(s, n)
           m == Len(s)
<1>1. /\ w \in Seq(Falling!Notes) /\ m \in Nat /\ Len(w) = m + 1
      /\ DOMAIN w = 1..m + 1 /\ DOMAIN s = 1..m
      /\ w[m + 1] = n /\ \A i \in 1..m : w[i] = s[i]
  OBVIOUS
<1>2. s # <<>> => m \in DOMAIN s
  OBVIOUS
<1>3. \A i \in 1..m : s[i] \in Falling!Notes
  OBVIOUS
<1> HIDE DEF w, m
<1>4. ToSet(w) = ToSet(s) \cup {n}
  <2>1. \A i \in 1..m + 1 : i \in 1..m \/ i = m + 1
    BY <1>1
  <2>2. \A i \in 1..m : i \in 1..m + 1
    BY <1>1
  <2>3. m + 1 \in 1..m + 1
    BY <1>1
  <2> QED
    BY <1>1, <2>1, <2>2, <2>3 DEF ToSet
<1>5. InOrder(w, l)
  <2> SUFFICES ASSUME NEW i \in 1..m + 1, NEW j \in 1..m + 1, i < j
               PROVE  l[w[i]] > l[w[j]] + Gap
    BY <1>1 DEF InOrder
  <2>1. i \in 1..m /\ w[i] = s[i] /\ s[i] \in Falling!Notes
    BY <1>1, <1>3
  <2>2. CASE j # m + 1
    <3>1. j \in 1..m /\ w[j] = s[j]
      BY <1>1, <2>2
    <3> QED
      BY <1>1, <2>1, <3>1 DEF InOrder
  <2>3. CASE j = m + 1
    <3>1. w[j] = n /\ l[n] = 0
      BY <1>1, <2>3
    <3>2. s # <<>> /\ m \in 1..m
      BY <1>1, <1>2, <2>1
    <3>3. l[s[m]] > Gap /\ s[m] \in Falling!Notes
      BY <1>3, <3>2 DEF m
    <3>4. i = m \/ l[s[i]] > l[s[m]] + Gap
      BY <1>1, <2>1, <3>2 DEF InOrder
    <3>5. l[s[i]] \in Nat /\ l[s[m]] \in Nat
      BY <2>1, <3>3
    <3>6. l[s[i]] > Gap
      <4>1. \A a, b \in Nat : a > b + Gap /\ b > Gap => a > Gap
        BY Heights
      <4> QED
        BY <3>3, <3>4, <3>5, <4>1
    <3>7. l[w[i]] = l[s[i]] /\ l[w[j]] + Gap = Gap
      BY <2>1, <3>1, Heights
    <3> QED
      BY <3>6, <3>7
  <2> QED
    BY <2>2, <2>3
<1> QED
  BY <1>1, <1>4, <1>5 DEF w

LEMMA Few ==
  ASSUME NEW s \in Seq(Falling!Notes), NEW l \in [Falling!Notes -> Nat], InOrder(s, l)
  PROVE  Len(s) \in 0..MaxNotes
<1>1. Len(s) \in Nat /\ s \in [1..Len(s) -> 1..MaxNotes] /\ DOMAIN s = 1..Len(s)
  BY Heights
<1>2. \A i \in 1..Len(s) : \A j \in 1..Len(s) : i < j => s[i] # s[j]
  <2> SUFFICES ASSUME NEW i \in 1..Len(s), NEW j \in 1..Len(s), i < j PROVE s[i] # s[j]
    OBVIOUS
  <2>1. l[s[i]] > l[s[j]] + Gap
    BY <1>1 DEF InOrder
  <2>2. s[j] \in Falling!Notes /\ l[s[j]] \in Nat
    BY <1>1, Heights
  <2>3. l[s[j]] + Gap >= l[s[j]]
    BY <2>2, Heights
  <2> QED
    BY <2>1, <2>2, <2>3, Heights
<1>3. Len(s) <= MaxNotes
  BY <1>1, <1>2, Heights, InjectionFits
<1> QED
  BY <1>1, <1>3, Heights

LEMMA FallInitHolds == Falling!Init => FallHolds
<1> SUFFICES ASSUME Falling!Init PROVE FallHolds
  OBVIOUS
<1>1. /\ unbroken = TRUE /\ autoPlay = FALSE /\ together = FALSE /\ lock = "free"
      /\ drawKeys = <<>> /\ playKeys = {} /\ unseen = {} /\ judged = {}
      /\ length = [n \in Falling!Notes |-> 0] /\ touch = [n \in Falling!Notes |-> NoTouch]
      /\ played = [n \in Falling!Notes |-> 0] /\ score = 0 /\ combo = 0
      /\ player = [at |-> "out", index |-> 0] /\ iterator = [at |-> "sleep", list |-> {}]
      /\ tap = [at |-> "idle", on |-> NoTouch, rest |-> <<>>, sounded |-> FALSE]
  BY DEF Falling!Init, Falling!NoTap
<1>2. Falling!Added = {}
  BY <1>1 DEF Falling!Added
<1>3. Count = 0 /\ Cardinality({}) = 0
  BY <1>2, FS_EmptySet DEF Count
<1>4. drawKeys \in Seq(Falling!Notes) /\ tap.rest = <<>> /\ tap.rest \in Seq(Falling!Notes)
      /\ DOMAIN drawKeys = {} /\ Len(drawKeys) = 0
  BY <1>1
<1>5. Shown = {} /\ Rest = {}
  BY <1>1, <1>4 DEF Shown, Rest, ToSet
<1>6. tap \in TapStates
  BY <1>1, <1>4 DEF TapStates
<1>7. FallTypes
  <2>1. /\ length \in [Falling!Notes -> 0..(Falling!End + Pace)]
        /\ touch \in [Falling!Notes -> Touches \cup {NoTouch}]
        /\ played \in [Falling!Notes -> 0..1]
    BY <1>1, Heights
  <2>2. /\ player \in [at: {"out", "size", "get"}, index: 0..MaxNotes]
        /\ iterator \in [at: {"sleep", "auto", "clear"}, list: SUBSET Falling!Notes]
    BY <1>1, Heights
  <2>3. Falling!Added = 1..Count /\ Count \in 0..MaxNotes
    BY <1>2, <1>3, Heights
  <2>4. (lock = "player") = (player.at # "out") /\ (lock = "iterator") = (iterator.at # "sleep")
    BY <1>1
  <2> QED
    BY <1>1, <1>4, <1>6, <2>1, <2>2, <2>3, <2>4 DEF FallTypes
<1>8. \A n \in Falling!Notes : NoteHolds(n)
  BY <1>1, <1>2, <1>5 DEF NoteHolds, ComingIsNowhere, SeenOrUnseen, Somewhere,
     EndIsListed, UnseenSounds, StillThere, Coming
<1>9. LastIsRead /\ TouchesApart
  BY <1>1, <1>4 DEF LastIsRead, TouchesApart, InOrder
<1>10. Falling!ScoreEarned
  BY <1>1, <1>3, FallCardinality DEF Falling!ScoreEarned
<1> QED
  BY <1>1, <1>7, <1>8, <1>9, <1>10 DEF FallHolds

-----------------------------------------------------------------------------
(* The score. *)

LEMMA PointsLost ==
  ASSUME Falling!ScoreEarned, Falling!DoLevel(4), UNCHANGED judged, score \in Nat, combo \in Nat,
         judged \in SUBSET Falling!Notes
  PROVE  Falling!ScoreEarned' /\ score' \in Nat /\ combo' \in Nat
<1>1. combo' = 0 /\ score' = IF score + (-5) < 0 THEN 0 ELSE score + (-5)
  BY DEF Falling!DoLevel, Falling!AddSource
<1>2. Cardinality(judged) \in Nat
  <2>1. IsFiniteSet(Falling!Notes)
    BY Heights, FS_Interval
  <2> QED
    BY <2>1, FS_Subset, FS_CardinalityType
<1>3. combo <= Cardinality(judged) /\ score <= 20 * Cardinality(judged)
  BY FallCardinality DEF Falling!ScoreEarned
<1>4. combo' <= Cardinality(judged) /\ score' <= 20 * Cardinality(judged)
      /\ score' \in Nat /\ combo' \in Nat
  BY <1>1, <1>2, <1>3
<1> QED
  BY <1>4, FallCardinality DEF Falling!ScoreEarned

LEMMA PointsWon ==
  ASSUME Falling!ScoreEarned, score \in Nat, combo \in Nat, judged \in SUBSET Falling!Notes,
         NEW n \in Falling!Notes, n \notin judged, judged' = judged \cup {n},
         NEW level \in 0..4, Falling!DoLevel(level)
  PROVE  Falling!ScoreEarned' /\ score' \in Nat /\ combo' \in Nat
<1> DEFINE c == Cardinality(judged)
<1>1. IsFiniteSet(judged)
  <2>1. IsFiniteSet(Falling!Notes)
    BY Heights, FS_Interval
  <2> QED
    BY <2>1, FS_Subset
<1>2. c \in Nat /\ Cardinality(judged') = c + 1
  BY <1>1, FS_CardinalityType, FS_AddElement
<1>3. combo <= c /\ score <= 20 * c
  BY FallCardinality DEF Falling!ScoreEarned
<1> HIDE DEF c
<1>4. ASSUME NEW s \in Int, Falling!AddSource(s), s <= 20
      PROVE  score' \in Nat /\ score' <= 20 * (c + 1)
  <2>1. score' = IF score + s < 0 THEN 0 ELSE score + s
    BY <1>4 DEF Falling!AddSource
  <2> QED
    BY <1>2, <1>3, <1>4, <2>1
<1>5. score' \in Nat /\ combo' \in Nat /\ combo' <= c + 1 /\ score' <= 20 * (c + 1)
  <2>1. CASE level = 0
    <3> DEFINE s == IF combo > 14 THEN 20 ELSE 5 + combo
    <3>1. Falling!AddSource(s) /\ combo' = combo + 1
      BY <2>1 DEF Falling!DoLevel
    <3>2. s \in Int /\ s <= 20
      OBVIOUS
    <3> HIDE DEF s
    <3> QED
      BY <1>2, <1>3, <1>4, <3>1, <3>2
  <2>2. CASE level = 1
    <3> DEFINE s == IF combo > 11 THEN 15 ELSE 4 + combo
    <3>1. Falling!AddSource(s) /\ combo' = combo
      BY <2>2 DEF Falling!DoLevel
    <3>2. s \in Int /\ s <= 20
      OBVIOUS
    <3> HIDE DEF s
    <3> QED
      BY <1>2, <1>3, <1>4, <3>1, <3>2
  <2>3. CASE level = 2
    <3>1. Falling!AddSource(2) /\ combo' = 0
      BY <2>3 DEF Falling!DoLevel
    <3> QED
      BY <1>2, <1>4, <3>1
  <2>4. CASE level = 3
    <3>1. score' = score /\ combo' = combo
      BY <2>4 DEF Falling!DoLevel
    <3> QED
      BY <1>2, <1>3, <3>1
  <2>5. CASE level = 4
    <3>1. Falling!AddSource(-5) /\ combo' = 0
      BY <2>5 DEF Falling!DoLevel
    <3> QED
      BY <1>2, <1>4, <3>1
  <2> QED
    BY <2>1, <2>2, <2>3, <2>4, <2>5
<1> QED
  BY <1>2, <1>5, FallCardinality DEF Falling!ScoreEarned

(* A step that gives no points. *)
LEMMA PointsKept ==
  ASSUME Falling!ScoreEarned, UNCHANGED <<score, combo, judged>>
  PROVE  Falling!ScoreEarned'
BY FallCardinality DEF Falling!ScoreEarned

-----------------------------------------------------------------------------
(* The steps of the threads. *)

LEMMA FallFacts ==
  ASSUME FallTypes
  PROVE  /\ iterator.list \in SUBSET Falling!Notes /\ Rest \in SUBSET Falling!Notes
         /\ Shown \in SUBSET Falling!Notes /\ tap.rest \in Seq(Falling!Notes)
         /\ length \in [Falling!Notes -> Nat]
         /\ \A n \in Falling!Notes : length[n] \in Nat /\ played[n] \in {0, 1}
<1>1. tap.rest \in Seq(Falling!Notes) /\ iterator.list \in SUBSET Falling!Notes
  BY DEF FallTypes, TapStates
<1>2. ASSUME NEW s \in Seq(Falling!Notes) PROVE ToSet(s) \in SUBSET Falling!Notes
  BY DEF ToSet
<1>3. length \in [Falling!Notes -> Nat] /\ played \in [Falling!Notes -> {0, 1}]
  <2>1. length \in [Falling!Notes -> 0..(Falling!End + Pace)] /\ played \in [Falling!Notes -> 0..1]
    BY DEF FallTypes
  <2> QED
    BY <2>1, Heights
<1> QED
  BY <1>1, <1>2, <1>3 DEF Shown, Rest, FallTypes

LEMMA TapRests ==
  ASSUME tap' = Falling!NoTap
  PROVE  /\ tap' \in TapStates /\ ToSet(tap'.rest) \subseteq Rest
         /\ tap'.at = "idle" /\ Rest' = {}
<1>1. tap' = [at |-> "idle", on |-> NoTouch, rest |-> <<>>, sounded |-> FALSE]
  BY DEF Falling!NoTap
<1>2. <<>> \in Seq(Falling!Notes) /\ ToSet(<<>>) = {}
  BY DEF ToSet
<1>3. tap' \in TapStates /\ tap'.rest = <<>> /\ tap'.at = "idle"
  BY <1>1, <1>2 DEF TapStates
<1> QED
  BY <1>2, <1>3 DEF Rest

LEMMA Deaths ==
  ASSUME FallHolds, Falling!Dies, together
  PROVE  FallHolds'
<1>1. UNCHANGED <<lock, drawKeys, playKeys, length, touch, player, iterator, tap, autoPlay,
                  score, combo, judged, played, unseen, together>>
      /\ unbroken' = FALSE
  BY DEF Falling!Dies, Falling!noteVars, Falling!scoreVars
<1>2. Falling!Added' = Falling!Added /\ Count' = Count /\ Shown' = Shown /\ Rest' = Rest
  BY <1>1 DEF Falling!Added, Count, Shown, Rest
<1>3. FallTypes'
  BY <1>1, <1>2 DEF FallHolds, FallTypes
<1>4. ASSUME NEW n \in Falling!Notes PROVE NoteHolds(n)'
  <2>1. NoteHolds(n)
    BY DEF FallHolds
  <2> QED
    BY <1>1, <1>2, <2>1 DEF NoteHolds, ComingIsNowhere, SeenOrUnseen, Somewhere,
       EndIsListed, UnseenSounds, StillThere, Coming
<1>5. LastIsRead' /\ TouchesApart' /\ Falling!ScoreEarned'
  BY <1>1, PointsKept DEF FallHolds, LastIsRead, TouchesApart, InOrder
<1> QED
  BY <1>1, <1>3, <1>4, <1>5 DEF FallHolds

(* What the UI thread looks through only gets less.                        *)
LEMMA TapGoesOn ==
  ASSUME FallHolds, tap.at # "idle", tap' \in TapStates, ToSet(tap'.rest) \subseteq Rest,
         tap'.at = "look" => tap.at = "look" /\ tap'.rest # <<>>,
         tap'.at = "get" => drawKeys # <<>>,
         UNCHANGED <<unbroken, lock, drawKeys, playKeys, length, touch, player, iterator,
                     autoPlay, judged, played, unseen, together>>,
         Falling!ScoreEarned', score' \in Nat, combo' \in Nat
  PROVE  FallHolds'
<1>2. Falling!Added' = Falling!Added /\ Count' = Count /\ Shown' = Shown
  BY DEF Falling!Added, Count, Shown
<1>3. Rest' \subseteq Rest
  BY DEF Rest
<1>4. FallTypes'
  BY <1>2 DEF FallHolds, FallTypes, TapStates
<1>5. ASSUME NEW n \in Falling!Notes PROVE NoteHolds(n)'
  <2>1. NoteHolds(n)
    BY DEF FallHolds
  <2> QED
    BY <1>2, <1>3, <2>1 DEF NoteHolds, ComingIsNowhere, SeenOrUnseen, Somewhere,
       EndIsListed, UnseenSounds, StillThere, Coming
<1>6. LastIsRead' /\ TouchesApart'
  BY DEF FallHolds, LastIsRead, TouchesApart, InOrder
<1> QED
  BY <1>4, <1>5, <1>6 DEF FallHolds

(* onkeyboard: the next note of the snapshot. *)
LEMMA GoneOn ==
  ASSUME FallTypes, tap.at = "look", NEW b \in BOOLEAN, Falling!Goon(b)
  PROVE  /\ tap' \in TapStates /\ ToSet(tap'.rest) \subseteq Rest
         /\ tap'.at = "look" => tap'.rest # <<>>
         /\ tap'.at # "get"
<1> DEFINE r == tap.rest
<1>1. r \in Seq(Falling!Notes) /\ r # <<>> /\ Len(r) \in Nat /\ tap \in TapStates
  BY DEF FallTypes, TapStates
<1>2. CASE Len(r) > 1
  <2>1. tap' = [tap EXCEPT !.rest = Tail(r), !.sounded = b]
    BY <1>2 DEF Falling!Goon
  <2>2. /\ Tail(r) \in Seq(Falling!Notes) /\ Len(Tail(r)) = Len(r) - 1
        /\ \A i \in 1..Len(Tail(r)) : Tail(r)[i] = r[i + 1]
        /\ DOMAIN Tail(r) = 1..Len(Tail(r)) /\ DOMAIN r = 1..Len(r)
    BY <1>1
  <2> DEFINE s == Tail(r)
  <2> HIDE DEF r, s
  <2>3. s # <<>>
    <3>1. Len(s) # 0
      BY <1>1, <1>2, <2>2 DEF s
    <3> QED
      BY <3>1, NotNone
  <2>4. ToSet(s) \subseteq ToSet(r)
    <3>1. \A i \in 1..Len(s) : i + 1 \in 1..Len(r)
      BY <1>1, <2>2 DEF s
    <3> QED
      BY <2>2, <3>1 DEF ToSet, s
  <2>5. tap'.rest = s /\ tap'.at = "look" /\ tap' \in TapStates
    BY <1>1, <2>1, <2>2 DEF TapStates, s
  <2> QED
    BY <2>3, <2>4, <2>5 DEF Rest, r
<1>3. CASE ~(Len(r) > 1) /\ b
  <2>1. tap' = Falling!NoTap
    BY <1>3 DEF Falling!Goon
  <2> QED
    BY <2>1, TapRests
<1>4. CASE ~(Len(r) > 1) /\ ~b
  <2>1. tap' = [tap EXCEPT !.at = "miss", !.rest = <<>>]
    BY <1>4 DEF Falling!Goon
  <2>2. <<>> \in Seq(Falling!Notes) /\ ToSet(<<>>) = {}
    BY DEF ToSet
  <2>3. tap'.rest = <<>> /\ tap'.at = "miss" /\ tap' \in TapStates
    BY <1>1, <2>1, <2>2 DEF TapStates
  <2> QED
    BY <2>2, <2>3
<1> QED
  BY <1>2, <1>3, <1>4

LEMMA FallLooks ==
  ASSUME FallHolds, Falling!LookPast \/ Falling!LookFar
  PROVE  FallHolds'
<1>1. /\ tap.at = "look"
      /\ UNCHANGED <<unbroken, lock, drawKeys, playKeys, length, touch, player, iterator,
                     autoPlay, judged, played, unseen, together>>
  BY DEF Falling!LookPast, Falling!LookFar, Falling!noteVars, Falling!scoreVars
<1>2. FallTypes /\ Falling!ScoreEarned
  BY DEF FallHolds
<1>3. PICK b \in BOOLEAN : Falling!Goon(b)
  <2>1. tap.sounded \in BOOLEAN
    BY <1>2 DEF FallTypes, TapStates
  <2> QED
    BY <2>1 DEF Falling!LookPast, Falling!LookFar
<1>4. Falling!ScoreEarned' /\ score' \in Nat /\ combo' \in Nat
  <2>1. CASE Falling!LookPast
    <3>1. UNCHANGED <<score, combo, judged>>
      BY <2>1 DEF Falling!LookPast, Falling!scoreVars
    <3> QED
      BY <1>2, <3>1, PointsKept DEF FallTypes
  <2>2. CASE Falling!LookFar
    <3>1. Falling!DoLevel(4) /\ UNCHANGED judged
      BY <2>2 DEF Falling!LookFar
    <3> QED
      BY <1>2, <3>1, PointsLost DEF FallTypes
  <2> QED
    BY <2>1, <2>2
<1>5. /\ tap' \in TapStates /\ ToSet(tap'.rest) \subseteq Rest
      /\ tap'.at = "look" => tap'.rest # <<>>
      /\ tap'.at # "get"
  BY <1>1, <1>2, <1>3, GoneOn
<1> QED
  BY <1>1, <1>4, <1>5, TapGoesOn

LEMMA FallMisses ==
  ASSUME FallHolds, Falling!Miss
  PROVE  FallHolds'
<1>1. /\ tap.at = "miss"
      /\ UNCHANGED <<unbroken, lock, drawKeys, playKeys, length, touch, player, iterator,
                     autoPlay, judged, played, unseen, together>>
      /\ Falling!DoLevel(4)
      /\ tap' = IF drawKeys = <<>> THEN Falling!NoTap ELSE [tap EXCEPT !.at = "get"]
  BY DEF Falling!Miss, Falling!noteVars
<1>2. FallTypes /\ Falling!ScoreEarned
  BY DEF FallHolds
<1>3. Falling!ScoreEarned' /\ score' \in Nat /\ combo' \in Nat
  BY <1>1, <1>2, PointsLost DEF FallTypes
<1>4. /\ tap' \in TapStates /\ ToSet(tap'.rest) \subseteq Rest /\ tap'.at # "look"
      /\ tap'.at = "get" => drawKeys # <<>>
  <2>1. CASE drawKeys = <<>>
    BY <1>1, <2>1, TapRests
  <2>2. CASE drawKeys # <<>>
    <3>1. tap' \in TapStates /\ tap'.rest = tap.rest /\ tap'.at = "get"
      BY <1>1, <1>2, <2>2 DEF FallTypes, TapStates
    <3> QED
      BY <2>2, <3>1 DEF Rest
  <2> QED
    BY <2>1, <2>2
<1> QED
  BY <1>1, <1>3, <1>4, TapGoesOn

LEMMA FallMissGets ==
  ASSUME FallHolds, Falling!MissGet
  PROVE  FallHolds'
<1>1. CASE drawKeys = <<>>
  <2>1. Falling!Dies /\ tap.at = "get"
    BY <1>1 DEF Falling!MissGet
  <2>2. together
    BY <1>1, <2>1 DEF FallHolds, FallTypes, TouchesApart
  <2> QED
    BY <2>1, <2>2, Deaths
<1>2. CASE drawKeys # <<>>
  <2>1. /\ tap.at = "get" /\ tap' = Falling!NoTap
        /\ UNCHANGED <<unbroken, lock, drawKeys, playKeys, length, touch, player, iterator,
                       autoPlay, score, combo, judged, played, unseen, together>>
    BY <1>2 DEF Falling!MissGet, Falling!noteVars, Falling!scoreVars
  <2>2. Falling!ScoreEarned' /\ score' \in Nat /\ combo' \in Nat
    BY <2>1, PointsKept DEF FallHolds, FallTypes
  <2> QED
    BY <2>1, <2>2, TapRests, TapGoesOn
<1> QED
  BY <1>1, <1>2

(* A touch begins, or the "auto!" button is touched. *)
LEMMA FallTouched ==
  ASSUME FallHolds, NEW t \in Touches, Falling!Touch(t)
  PROVE  FallHolds'
<1>1. /\ tap.at = "idle" /\ together' = (together \/ lock # "free")
      /\ tap' = [at |-> IF drawKeys = <<>> THEN "miss" ELSE "look", on |-> t,
                 rest |-> drawKeys, sounded |-> FALSE]
      /\ UNCHANGED <<unbroken, lock, drawKeys, playKeys, length, touch, player, iterator,
                     autoPlay, score, combo, judged, played, unseen>>
  BY DEF Falling!Touch, Falling!noteVars, Falling!scoreVars
<1>2. FallTypes
  BY DEF FallHolds
<1>3. Falling!Added' = Falling!Added /\ Count' = Count /\ Shown' = Shown /\ Rest' = Shown
  BY <1>1 DEF Falling!Added, Count, Shown, Rest
<1>4. tap' \in TapStates /\ (tap'.at = "look" => tap'.rest # <<>>) /\ tap'.at # "get"
  BY <1>1, <1>2 DEF FallTypes, TapStates
<1>5. FallTypes'
  <2>1. together' \in BOOLEAN
    BY <1>1, <1>2 DEF FallTypes
  <2> QED
    BY <1>1, <1>2, <1>3, <1>4, <2>1 DEF FallTypes, TapStates
<1>6. ASSUME NEW n \in Falling!Notes PROVE NoteHolds(n)'
  <2>1. NoteHolds(n)
    BY DEF FallHolds
  <2> QED
    BY <1>1, <1>3, <2>1 DEF NoteHolds, ComingIsNowhere, SeenOrUnseen, Somewhere,
       EndIsListed, UnseenSounds, StillThere, Coming
<1>7. LastIsRead' /\ Falling!ScoreEarned'
  BY <1>1, PointsKept DEF FallHolds, LastIsRead, InOrder
<1>8. TouchesApart'
  BY <1>1, <1>4 DEF FallHolds, TouchesApart
<1> QED
  BY <1>1, <1>5, <1>6, <1>7, <1>8 DEF FallHolds

LEMMA FallAuto ==
  ASSUME FallHolds, Falling!SetAutoPlay
  PROVE  FallHolds'
<1>1. /\ autoPlay' = TRUE
      /\ UNCHANGED <<unbroken, lock, drawKeys, playKeys, length, touch, player, iterator,
                     tap, score, combo, judged, played, unseen, together>>
  BY DEF Falling!SetAutoPlay, Falling!noteVars, Falling!scoreVars
<1>2. Falling!Added' = Falling!Added /\ Count' = Count /\ Shown' = Shown /\ Rest' = Rest
  BY <1>1 DEF Falling!Added, Count, Shown, Rest
<1>3. FallTypes'
  BY <1>1, <1>2 DEF FallHolds, FallTypes, TapStates
<1>4. ASSUME NEW n \in Falling!Notes PROVE NoteHolds(n)'
  <2>1. NoteHolds(n)
    BY DEF FallHolds
  <2> QED
    BY <1>1, <1>2, <2>1 DEF NoteHolds, ComingIsNowhere, SeenOrUnseen, Somewhere,
       EndIsListed, UnseenSounds, StillThere, Coming
<1>5. LastIsRead' /\ TouchesApart' /\ Falling!ScoreEarned'
  BY <1>1, PointsKept DEF FallHolds, LastIsRead, TouchesApart, InOrder
<1> QED
  BY <1>1, <1>3, <1>4, <1>5 DEF FallHolds

(* onkeyboard: a note is judged. *)
LEMMA FallJudged ==
  ASSUME FallHolds, Falling!Judge
  PROVE  FallHolds'
<1> DEFINE n == Head(tap.rest)
<1>1. /\ tap.at = "look" /\ tap' = Falling!NoTap
      /\ drawKeys' = Without(drawKeys, {n}) /\ judged' = judged \cup {n}
      /\ Falling!DoLevel(Falling!Level(n))
      /\ UNCHANGED <<unbroken, lock, playKeys, length, touch, player, iterator, autoPlay,
                     played, unseen, together>>
  BY FallWithout DEF Falling!Judge
<1>2. Falling!Level(n) \in 0..4
  <2>1. \A d, h \in Int : (CASE d < h     -> 0
                             [] d < 2 * h -> 1
                             [] d < 4 * h -> 2
                             [] d < 6 * h -> 3
                             [] OTHER     -> 4) \in 0..4
    OBVIOUS
  <2> QED
    BY DEF Falling!Level
<1>3. FallTypes /\ Falling!ScoreEarned /\ InOrder(drawKeys, length)
  BY DEF FallHolds, LastIsRead
<1>4. n \in Rest /\ n \in Falling!Notes
  <2>1. tap.rest \in Seq(Falling!Notes) /\ tap.rest # <<>>
    BY <1>1, <1>3 DEF FallTypes, TapStates
  <2>2. n = tap.rest[1] /\ 1 \in DOMAIN tap.rest /\ n \in Falling!Notes
    BY <2>1
  <2> QED
    BY <2>2 DEF Rest, ToSet
<1> HIDE DEF n
<1>5. /\ drawKeys' \in Seq(Falling!Notes) /\ Shown' = Shown \ {n}
      /\ InOrder(drawKeys', length) /\ Len(drawKeys') <= Len(drawKeys)
  BY <1>1, <1>3, TakenOut DEF Shown, FallTypes
<1>6. Falling!Added' = Falling!Added /\ Count' = Count
  BY <1>1 DEF Falling!Added, Count
<1>7. tap' \in TapStates /\ tap'.at = "idle" /\ Rest' = {}
  BY <1>1, TapRests
<1>8. NoteHolds(n)
  BY <1>4 DEF FallHolds
<1>9. n \notin judged /\ n \notin unseen /\ ~Coming(n)
  BY <1>4, <1>8 DEF NoteHolds, ComingIsNowhere, SeenOrUnseen
<1>10. Falling!ScoreEarned' /\ score' \in Nat /\ combo' \in Nat
  BY <1>1, <1>2, <1>3, <1>4, <1>9, PointsWon DEF FallTypes
<1>11. ~together => n \in Shown /\ lock = "free" /\ iterator.at = "sleep" /\ iterator.list = {}
  <2>1. ~together => lock = "free"
    BY <1>1 DEF FallHolds, TouchesApart
  <2>2. lock = "free" => iterator.at = "sleep"
    BY <1>3 DEF FallTypes
  <2>3. ~together => n \in Shown
    BY <1>1, <1>4, <1>8 DEF NoteHolds, StillThere
  <2> QED
    BY <2>1, <2>2, <2>3 DEF FallHolds
<1>12. ~together => played[n] = 0
  <2>1. played[n] \in {0, 1}
    BY <1>3, <1>4, FallFacts
  <2>2. n \in Shown /\ played[n] > 0 => iterator.at = "clear"
    BY <1>8 DEF NoteHolds, EndIsListed
  <2> QED
    BY <1>11, <2>1, <2>2
<1>13. FallTypes'
  <2>1. judged' \in SUBSET Falling!Notes
    BY <1>1, <1>3, <1>4 DEF FallTypes
  <2>2. tap'.at = "look" => tap'.rest # <<>>
    BY <1>7
  <2> QED
    BY <1>1, <1>3, <1>5, <1>6, <1>7, <1>10, <2>1, <2>2 DEF FallTypes, TapStates
<1>14. ASSUME NEW m \in Falling!Notes PROVE NoteHolds(m)'
  <2>1. NoteHolds(m)
    BY DEF FallHolds
  <2>2. Coming(m)' <=> Coming(m)
    BY <1>1, <1>6 DEF Coming
  <2>3. CASE m = n
    BY <1>1, <1>4, <1>5, <1>7, <1>9, <1>11, <1>12, <2>1, <2>2, <2>3
       DEF NoteHolds, ComingIsNowhere, SeenOrUnseen, Somewhere, EndIsListed, UnseenSounds, StillThere
  <2>4. CASE m # n
    BY <1>1, <1>5, <1>7, <1>11, <2>1, <2>2, <2>4
       DEF NoteHolds, ComingIsNowhere, SeenOrUnseen, Somewhere, EndIsListed, UnseenSounds, StillThere
  <2> QED
    BY <2>3, <2>4
<1>15. LastIsRead'
  <2>1. player.at = "get" => Len(drawKeys') <= player.index
    <3>1. Len(drawKeys) \in Nat /\ Len(drawKeys') \in Nat /\ player.index \in Nat
      BY <1>3, <1>5, Heights DEF FallTypes
    <3>2. player.at = "get" => Len(drawKeys) <= player.index
      BY DEF FallHolds, LastIsRead
    <3> QED
      BY <1>5, <3>1, <3>2
  <2> QED
    BY <1>1, <1>5, <2>1 DEF LastIsRead, InOrder
<1>16. TouchesApart'
  <2>1. ~together => unbroken /\ player.at = "out"
    BY <1>3, <1>11 DEF FallHolds, TouchesApart, FallTypes
  <2> QED
    BY <1>1, <1>7, <2>1 DEF TouchesApart
<1> QED
  BY <1>1, <1>10, <1>13, <1>14, <1>15, <1>16 DEF FallHolds

-----------------------------------------------------------------------------
(* addKey, on the playing thread. *)

LEMMA FallNew ==
  ASSUME FallHolds, NEW t \in Touches, Falling!AddKey(t)
  PROVE  FallHolds'
<1>1. /\ lock = "free" /\ player.at = "out" /\ Count < MaxNotes /\ lock' = "player"
      /\ touch' = [touch EXCEPT ![Count + 1] = t]
      /\ player' = [at |-> IF drawKeys = <<>> THEN "get" ELSE "size", index |-> 0]
      /\ together' = (together \/ tap.at # "idle")
      /\ UNCHANGED <<unbroken, drawKeys, playKeys, length, iterator, tap, autoPlay,
                     score, combo, judged, played, unseen>>
  BY FallCardinality DEF Falling!AddKey, Falling!Overlaps, Falling!scoreVars, Count
<1>2. FallTypes
  BY DEF FallHolds
<1>3. Count + 1 \in Falling!Notes /\ Count \in Nat
  BY <1>1, <1>2, Heights DEF FallTypes
<1>4. touch' \in [Falling!Notes -> Touches \cup {NoTouch}]
  BY <1>1, <1>2, <1>3 DEF FallTypes
<1>5. Falling!Added' = 1..Count + 1
  <2>1. Falling!Added' = {n \in Falling!Notes : touch'[n] # NoTouch}
    BY DEF Falling!Added
  <2>2. Falling!Added = {n \in Falling!Notes : touch[n] # NoTouch} /\ Falling!Added = 1..Count
    BY <1>2 DEF Falling!Added, FallTypes
  <2>3. ASSUME NEW n \in Falling!Notes
        PROVE  touch'[n] # NoTouch <=> n = Count + 1 \/ touch[n] # NoTouch
    <3>1. t # NoTouch
      BY NotesAssumptions
    <3> QED
      BY <1>1, <1>2, <1>3, <3>1 DEF FallTypes
  <2>4. \A n \in Falling!Notes : n \in 1..Count + 1 <=> n = Count + 1 \/ n \in 1..Count
    BY <1>3, Heights
  <2>5. 1..Count + 1 \subseteq Falling!Notes
    BY <1>1, <1>3, Heights
  <2> QED
    BY <2>1, <2>2, <2>3, <2>4, <2>5
<1>6. Count' = Count + 1
  <2>1. Cardinality(1..Count + 1) = Count + 1
    BY <1>3, FS_Interval
  <2>2. Count' = Cardinality(Falling!Added')
    BY DEF Count
  <2> QED
    BY <1>5, <2>1, <2>2
<1>7. /\ player'.at \in {"get", "size"} /\ player'.index = 0
      /\ player'.at = "get" <=> drawKeys = <<>>
      /\ player' \in [at: {"out", "size", "get"}, index: 0..MaxNotes]
  BY <1>1, Heights
<1>8. \A n \in Falling!Notes : Coming(n)' <=> Coming(n)
  <2> SUFFICES ASSUME NEW n \in Falling!Notes PROVE Coming(n)' <=> Coming(n)
    OBVIOUS
  <2>1. Coming(n) <=> n \notin 1..Count
    BY <1>1, <1>2 DEF Coming, FallTypes
  <2>2. Coming(n)' <=> n \notin 1..Count + 1 \/ n = Count + 1
    BY <1>5, <1>6, <1>7 DEF Coming
  <2> QED
    BY <1>3, <2>1, <2>2, Heights
<1>9. Shown' = Shown /\ Rest' = Rest
  BY <1>1 DEF Shown, Rest
<1>10. FallTypes'
  <2>1. Count' \in 0..MaxNotes /\ Falling!Added' = 1..Count' /\ Count' > 0
    BY <1>1, <1>3, <1>5, <1>6, Heights
  <2>2. together' \in BOOLEAN
    BY <1>1, <1>2 DEF FallTypes
  <2>3. iterator.at = "sleep"
    BY <1>1, <1>2 DEF FallTypes
  <2> QED
    BY <1>1, <1>2, <1>4, <1>7, <2>1, <2>2, <2>3 DEF FallTypes, TapStates
<1>11. ASSUME NEW n \in Falling!Notes PROVE NoteHolds(n)'
  <2>1. NoteHolds(n)
    BY DEF FallHolds
  <2>2. Coming(n)' <=> Coming(n)
    BY <1>8
  <2> QED
    BY <1>1, <1>9, <2>1, <2>2 DEF NoteHolds, ComingIsNowhere, SeenOrUnseen, Somewhere,
       EndIsListed, UnseenSounds, StillThere
<1>12. LastIsRead' /\ TouchesApart'
  <2>1. drawKeys = <<>> => Len(drawKeys) = 0
    OBVIOUS
  <2>2. LastIsRead'
    BY <1>1, <1>7, <2>1 DEF FallHolds, LastIsRead, InOrder
  <2>3. TouchesApart'
    BY <1>1, <1>7, <2>1 DEF FallHolds, TouchesApart
  <2> QED
    BY <2>2, <2>3
<1>13. Falling!ScoreEarned' /\ (iterator'.at = "sleep" => iterator'.list = {})
  BY <1>1, PointsKept DEF FallHolds
<1> QED
  BY <1>10, <1>11, <1>12, <1>13 DEF FallHolds

LEMMA FallSize ==
  ASSUME FallHolds, Falling!AddSize
  PROVE  FallHolds'
<1>1. CASE drawKeys = <<>>
  <2>1. Falling!Dies /\ player.at = "size"
    BY <1>1 DEF Falling!AddSize
  <2>2. together
    BY <1>1, <2>1 DEF FallHolds, FallTypes, TouchesApart
  <2> QED
    BY <2>1, <2>2, Deaths
<1>2. CASE drawKeys # <<>>
  <2>1. /\ player.at = "size" /\ player' = [at |-> "get", index |-> Len(drawKeys)]
        /\ UNCHANGED <<unbroken, lock, drawKeys, playKeys, length, touch, iterator, tap,
                       autoPlay, score, combo, judged, played, unseen, together>>
    BY <1>2 DEF Falling!AddSize, Falling!noteVars, Falling!scoreVars
  <2>2. FallTypes /\ InOrder(drawKeys, length)
    BY DEF FallHolds, LastIsRead
  <2>3. Len(drawKeys) \in 0..MaxNotes
    BY <2>2, FallFacts, Few DEF FallTypes
  <2>4. Falling!Added' = Falling!Added /\ Count' = Count /\ Shown' = Shown /\ Rest' = Rest
    BY <2>1 DEF Falling!Added, Count, Shown, Rest
  <2>5. player'.at = "get" /\ player'.index = Len(drawKeys)
        /\ player' \in [at: {"out", "size", "get"}, index: 0..MaxNotes]
    BY <2>1, <2>3
  <2>6. FallTypes'
    BY <2>1, <2>2, <2>4, <2>5 DEF FallTypes, TapStates
  <2>7. ASSUME NEW n \in Falling!Notes PROVE NoteHolds(n)'
    <3>1. NoteHolds(n)
      BY DEF FallHolds
    <3>2. Coming(n)' <=> Coming(n)
      BY <2>1, <2>4, <2>5 DEF Coming
    <3> QED
      BY <2>1, <2>4, <3>1, <3>2 DEF NoteHolds, ComingIsNowhere, SeenOrUnseen, Somewhere,
         EndIsListed, UnseenSounds, StillThere
  <2>8. LastIsRead' /\ TouchesApart' /\ Falling!ScoreEarned'
    <3>1. Len(drawKeys) <= Len(drawKeys)
      BY <2>3
    <3> QED
      BY <2>1, <2>5, <3>1, PointsKept DEF FallHolds, LastIsRead, TouchesApart, InOrder
  <2> QED
    BY <2>1, <2>6, <2>7, <2>8 DEF FallHolds
<1> QED
  BY <1>1, <1>2

LEMMA FallAdded ==
  ASSUME FallHolds, player.at = "get", NEW shown \in BOOLEAN, Falling!AddTo(shown),
         shown => drawKeys = <<>> \/ length[drawKeys[Len(drawKeys)]] > Gap
  PROVE  FallHolds'
<1> DEFINE n == Count
<1>1. /\ drawKeys' = IF shown THEN Append(drawKeys, n) ELSE drawKeys
      /\ playKeys' = IF shown THEN playKeys ELSE playKeys \cup {n}
      /\ unseen' = IF shown THEN unseen ELSE unseen \cup {n}
      /\ player' = [at |-> "out", index |-> 0] /\ lock' = "free"
      /\ UNCHANGED <<unbroken, length, touch, iterator, tap, autoPlay,
                     score, combo, judged, played, together>>
  BY FallCardinality DEF Falling!AddTo, Falling!scoreVars, Count
<1>2. FallTypes /\ InOrder(drawKeys, length)
  BY DEF FallHolds, LastIsRead
<1>3. n \in Falling!Notes
  BY <1>2, Heights DEF FallTypes
<1>4. Falling!Added' = Falling!Added /\ Count' = Count /\ Rest' = Rest
  BY <1>1 DEF Falling!Added, Count, Rest
<1> HIDE DEF n
<1>5. NoteHolds(n) /\ Coming(n)
  BY <1>3 DEF FallHolds, Coming, n
<1>6. length[n] = 0 /\ n \notin unseen
  BY <1>5 DEF NoteHolds, ComingIsNowhere
<1>7. /\ drawKeys' \in Seq(Falling!Notes) /\ InOrder(drawKeys', length)
      /\ Shown' = IF shown THEN Shown \cup {n} ELSE Shown
  <2>1. CASE shown
    BY <1>1, <1>2, <1>3, <1>6, <2>1, FallFacts, PutLast DEF Shown, FallTypes
  <2>2. CASE ~shown
    BY <1>1, <1>2, <2>2 DEF Shown, FallTypes
  <2> QED
    BY <2>1, <2>2
<1>8. lock = "player" /\ iterator.at = "sleep" /\ iterator.list = {}
  BY <1>2 DEF FallHolds, FallTypes
<1>9. FallTypes'
  <2>1. player' \in [at: {"out", "size", "get"}, index: 0..MaxNotes] /\ player'.at = "out"
    BY <1>1, Heights
  <2>2. playKeys' \in SUBSET Falling!Notes /\ unseen' \in SUBSET Falling!Notes
    BY <1>1, <1>2, <1>3 DEF FallTypes
  <2> QED
    BY <1>1, <1>2, <1>4, <1>7, <1>8, <2>1, <2>2 DEF FallTypes, TapStates
<1>10. ASSUME NEW m \in Falling!Notes PROVE NoteHolds(m)'
  <2>1. NoteHolds(m)
    BY DEF FallHolds
  <2>2. Coming(m)' <=> Coming(m) /\ m # n
    <3>1. n \in Falling!Added
      <4>1. n \in 1..Count
        BY <1>2 DEF FallTypes, n
      <4> QED
        BY <1>2, <4>1 DEF FallTypes
    <3>2. player'.at = "out"
      BY <1>1
    <3> QED
      BY <1>4, <3>1, <3>2 DEF Coming, n
  <2>3. CASE m = n
    <3>1. /\ length'[m] = 0 /\ played'[m] = 0 /\ m \notin judged' /\ m \notin Rest'
          /\ m \notin iterator'.list /\ ~Coming(m)' /\ Falling!End \in Nat
          /\ Falling!UnseenEnd \in Nat
      BY <1>1, <1>4, <1>5, <2>2, <2>3, Heights DEF NoteHolds, ComingIsNowhere
    <3>2. /\ shown => m \in Shown' /\ m \notin playKeys' /\ m \notin unseen'
          /\ ~shown => m \notin Shown' /\ m \in playKeys' /\ m \in unseen'
      BY <1>1, <1>5, <1>7, <2>3 DEF NoteHolds, ComingIsNowhere
    <3> QED
      BY <3>1, <3>2 DEF NoteHolds, ComingIsNowhere, SeenOrUnseen, Somewhere,
         EndIsListed, UnseenSounds, StillThere
  <2>4. CASE m # n
    <3>1. (m \in Shown' <=> m \in Shown) /\ (m \in playKeys' <=> m \in playKeys)
          /\ (m \in unseen' <=> m \in unseen)
      BY <1>1, <1>7, <2>4
    <3> QED
      BY <1>1, <1>4, <2>1, <2>2, <2>4, <3>1 DEF NoteHolds, ComingIsNowhere, SeenOrUnseen, Somewhere,
         EndIsListed, UnseenSounds, StillThere
  <2> QED
    BY <2>3, <2>4
<1>11. LastIsRead' /\ TouchesApart' /\ Falling!ScoreEarned'
  <2>1. player'.at = "out"
    BY <1>1
  <2>2. LastIsRead'
    BY <1>1, <1>7, <2>1 DEF LastIsRead, InOrder
  <2>3. TouchesApart'
    <3>1. ~together => tap.at = "idle" /\ unbroken
      BY <1>8 DEF FallHolds, TouchesApart
    <3> QED
      BY <1>1, <2>1, <3>1 DEF TouchesApart
  <2> QED
    BY <1>1, <2>2, <2>3, PointsKept DEF FallHolds
<1> QED
  BY <1>1, <1>8, <1>9, <1>10, <1>11 DEF FallHolds

LEMMA FallGet ==
  ASSUME FallHolds, Falling!AddGet
  PROVE  FallHolds'
<1>1. FallTypes /\ player.at = "get" /\ Len(drawKeys) <= player.index
  BY DEF FallHolds, LastIsRead, Falling!AddGet
<1>2. Len(drawKeys) \in Nat /\ player.index \in Nat
  BY <1>1, Heights DEF FallTypes
<1>3. CASE player.index > Len(drawKeys)
  <2>1. Falling!Dies
    BY <1>3 DEF Falling!AddGet
  <2>2. ~together => player.index = Len(drawKeys)
    BY <1>1 DEF FallHolds, TouchesApart
  <2>3. together \in BOOLEAN
    BY <1>1 DEF FallTypes
  <2> QED
    BY <1>2, <1>3, <2>1, <2>2, <2>3, Deaths
<1>4. CASE ~(player.index > Len(drawKeys))
  <2> DEFINE shown == player.index = 0 \/ length[drawKeys[player.index]] > Gap
  <2>1. Falling!AddTo(shown) /\ player.index = Len(drawKeys)
    BY <1>1, <1>2, <1>4 DEF Falling!AddGet
  <2>2. shown => drawKeys = <<>> \/ length[drawKeys[Len(drawKeys)]] > Gap
    <3>1. Len(drawKeys) = 0 => drawKeys = <<>>
      BY <1>1 DEF FallTypes
    <3> QED
      BY <2>1, <3>1
  <2>3. shown \in BOOLEAN
    OBVIOUS
  <2> HIDE DEF shown
  <2> QED
    BY <1>1, <2>1, <2>2, <2>3, FallAdded
<1> QED
  BY <1>3, <1>4

-----------------------------------------------------------------------------
(* The iterator. *)

LEMMA FallStep ==
  ASSUME FallHolds, Falling!Fall
  PROVE  FallHolds'
<1>1. /\ lock = "free" /\ iterator.at = "sleep" /\ lock' = "iterator"
      /\ length' = [n \in Falling!Notes |-> IF n \in Shown THEN length[n] + Pace ELSE length[n]]
      /\ iterator' = [at |-> "auto", list |-> {n \in Shown : length[n] + Pace > Falling!End}]
      /\ together' = (together \/ tap.at # "idle")
      /\ UNCHANGED <<unbroken, drawKeys, playKeys, touch, player, tap, autoPlay,
                     score, combo, judged, played, unseen>>
  BY FallToSet DEF Falling!Fall, Falling!Overlaps, Falling!scoreVars, Shown
<1>2. FallTypes /\ InOrder(drawKeys, length) /\ iterator.list = {} /\ player.at = "out"
  BY <1>1 DEF FallHolds, LastIsRead, FallTypes
<1>3. Falling!Added' = Falling!Added /\ Count' = Count /\ Shown' = Shown /\ Rest' = Rest
  BY <1>1 DEF Falling!Added, Count, Shown, Rest
<1>4. /\ iterator'.at = "auto"
      /\ iterator'.list = {n \in Shown : length[n] + Pace > Falling!End}
      /\ iterator' \in [at: {"sleep", "auto", "clear"}, list: SUBSET Falling!Notes]
  BY <1>1, <1>2, FallFacts
<1>5. \A n \in Falling!Notes : length'[n] = IF n \in Shown THEN length[n] + Pace ELSE length[n]
  BY <1>1
<1>6. \A n \in Shown : length[n] \in Nat /\ length[n] <= Falling!End /\ played[n] = 0
  <2> SUFFICES ASSUME NEW n \in Shown
               PROVE  length[n] \in Nat /\ length[n] <= Falling!End /\ played[n] = 0
    OBVIOUS
  <2>1. n \in Falling!Notes
    BY <1>2, FallFacts
  <2>2. length[n] \in Nat /\ played[n] \in {0, 1}
    BY <1>2, <2>1, FallFacts
  <2>3. ~(length[n] > Falling!End) /\ ~(played[n] > 0)
    BY <1>2, <2>1 DEF FallHolds, NoteHolds, EndIsListed
  <2> QED
    BY <2>2, <2>3, Heights
<1>7. length' \in [Falling!Notes -> 0..(Falling!End + Pace)]
  <2>1. ASSUME NEW n \in Falling!Notes PROVE length'[n] \in 0..(Falling!End + Pace)
    <3>1. length[n] \in 0..(Falling!End + Pace)
      BY <1>2 DEF FallTypes
    <3> QED
      BY <1>5, <1>6, <3>1, Heights
  <2> QED
    BY <1>1, <2>1
<1>8. FallTypes'
  <2>1. together' \in BOOLEAN
    BY <1>1, <1>2 DEF FallTypes
  <2> QED
    BY <1>1, <1>2, <1>3, <1>4, <1>7, <2>1 DEF FallTypes, TapStates
<1>9. ASSUME NEW n \in Falling!Notes PROVE NoteHolds(n)'
  <2>1. NoteHolds(n)
    BY DEF FallHolds
  <2>2. Coming(n)' <=> Coming(n)
    BY <1>1, <1>3 DEF Coming
  <2>3. CASE n \in Shown
    <3>1. /\ length'[n] = length[n] + Pace /\ length[n] \in Nat /\ played[n] = 0
          /\ n \in iterator'.list <=> length[n] + Pace > Falling!End
          /\ n \in Shown' /\ n \notin playKeys /\ n \notin unseen /\ n \notin judged
          /\ ~Coming(n)
      BY <1>3, <1>4, <1>5, <1>6, <2>1, <2>3 DEF NoteHolds, ComingIsNowhere, SeenOrUnseen
    <3> QED
      BY <1>1, <1>3, <1>4, <2>1, <2>2, <3>1 DEF NoteHolds, ComingIsNowhere, SeenOrUnseen, Somewhere,
         EndIsListed, UnseenSounds, StillThere
  <2>4. CASE n \notin Shown
    <3>1. length'[n] = length[n] /\ n \notin iterator'.list /\ n \notin Shown'
      BY <1>3, <1>4, <1>5, <2>4
    <3> QED
      BY <1>1, <1>3, <1>4, <2>1, <2>2, <3>1 DEF NoteHolds, ComingIsNowhere, SeenOrUnseen, Somewhere,
         EndIsListed, UnseenSounds, StillThere
  <2> QED
    BY <2>3, <2>4
<1>10. LastIsRead'
  <2>1. InOrder(drawKeys, length')
    <3> SUFFICES ASSUME NEW i \in DOMAIN drawKeys, NEW j \in DOMAIN drawKeys, i < j
                 PROVE  length'[drawKeys[i]] > length'[drawKeys[j]] + Gap
      BY DEF InOrder
    <3>1. drawKeys[i] \in Shown /\ drawKeys[j] \in Shown
      BY DEF Shown, ToSet
    <3>2. drawKeys[i] \in Falling!Notes /\ drawKeys[j] \in Falling!Notes
      BY <1>2, <3>1, FallFacts
    <3>3. length[drawKeys[i]] > length[drawKeys[j]] + Gap
      BY <1>2 DEF InOrder
    <3> HIDE DEF InOrder
    <3> QED
      BY <1>5, <1>6, <3>1, <3>2, <3>3, Heights
  <2> QED
    BY <1>1, <1>2, <2>1 DEF LastIsRead, InOrder
<1>11. TouchesApart'
  <2>1. ~together => unbroken
    BY DEF FallHolds, TouchesApart
  <2> QED
    BY <1>1, <1>2, <2>1 DEF TouchesApart, FallTypes
<1>12. Falling!ScoreEarned'
  BY <1>1, PointsKept DEF FallHolds
<1> QED
  BY <1>4, <1>8, <1>9, <1>10, <1>11, <1>12 DEF FallHolds

(* One more sound of each of these notes. *)
LEMMA Sounded ==
  ASSUME FallTypes, NEW S \in SUBSET Falling!Notes, Falling!Sound(S), \A n \in S : played[n] = 0
  PROVE  /\ played' \in [Falling!Notes -> 0..1]
         /\ \A n \in Falling!Notes : played'[n] = IF n \in S THEN 1 ELSE played[n]
<1>1. played' = [n \in Falling!Notes |-> IF n \in S /\ played[n] < 2
                                         THEN played[n] + 1 ELSE played[n]]
  BY DEF Falling!Sound
<1>2. \A n \in Falling!Notes : played'[n] = IF n \in S THEN 1 ELSE played[n]
  BY <1>1
<1>3. \A n \in Falling!Notes : played[n] \in 0..1
  BY DEF FallTypes
<1> QED
  BY <1>1, <1>2, <1>3

LEMMA FallPlays ==
  ASSUME FallHolds, Falling!PlayAtEnd
  PROVE  FallHolds'
<1>1. /\ iterator.at = "auto" /\ iterator' = [iterator EXCEPT !.at = "clear"]
      /\ Falling!Sound(iterator.list) \/ UNCHANGED played
      /\ UNCHANGED <<unbroken, lock, drawKeys, playKeys, length, touch, player, tap, autoPlay,
                     score, combo, judged, unseen, together>>
  BY DEF Falling!PlayAtEnd, Falling!noteVars, Falling!scoreVars
<1>2. FallTypes
  BY DEF FallHolds
<1>3. Falling!Added' = Falling!Added /\ Count' = Count /\ Shown' = Shown /\ Rest' = Rest
  BY <1>1 DEF Falling!Added, Count, Shown, Rest
<1>4. /\ iterator'.at = "clear" /\ iterator'.list = iterator.list
      /\ iterator' \in [at: {"sleep", "auto", "clear"}, list: SUBSET Falling!Notes]
  BY <1>1, <1>2 DEF FallTypes
<1>5. /\ played' \in [Falling!Notes -> 0..1]
      /\ \A n \in Falling!Notes : n \notin iterator.list => played'[n] = played[n]
  <2>1. CASE UNCHANGED played
    BY <1>2, <2>1 DEF FallTypes
  <2>2. CASE Falling!Sound(iterator.list)
    <3>1. iterator.list \in SUBSET Falling!Notes
      BY <1>2, FallFacts
    <3>2. \A n \in iterator.list : played[n] = 0
      BY <1>1, <3>1 DEF FallHolds, NoteHolds, EndIsListed
    <3> QED
      BY <1>2, <2>2, <3>1, <3>2, Sounded
  <2> QED
    BY <1>1, <2>1, <2>2
<1>6. FallTypes'
  BY <1>1, <1>2, <1>3, <1>4, <1>5 DEF FallTypes, TapStates
<1>7. ~together => lock = "iterator" /\ tap.at = "idle"
  BY <1>1, <1>2 DEF FallHolds, FallTypes, TouchesApart
<1>8. ASSUME NEW n \in Falling!Notes PROVE NoteHolds(n)'
  <2>1. NoteHolds(n)
    BY DEF FallHolds
  <2>2. Coming(n)' <=> Coming(n)
    BY <1>1, <1>3 DEF Coming
  <2>3. CASE n \in iterator.list
    BY <1>1, <1>3, <1>4, <1>7, <2>1, <2>2, <2>3 DEF NoteHolds, ComingIsNowhere, SeenOrUnseen, Somewhere,
       EndIsListed, UnseenSounds, StillThere
  <2>4. CASE n \notin iterator.list
    <3>1. played'[n] = played[n]
      BY <1>5, <2>4
    <3> QED
      BY <1>1, <1>3, <1>4, <1>7, <2>1, <2>2, <2>4, <3>1 DEF NoteHolds, ComingIsNowhere, SeenOrUnseen,
         Somewhere, EndIsListed, UnseenSounds, StillThere
  <2> QED
    BY <2>3, <2>4
<1>9. LastIsRead' /\ TouchesApart' /\ Falling!ScoreEarned'
  BY <1>1, PointsKept DEF FallHolds, LastIsRead, TouchesApart, InOrder
<1> QED
  BY <1>4, <1>6, <1>8, <1>9 DEF FallHolds

LEMMA FallCleared ==
  ASSUME FallHolds, Falling!Clear
  PROVE  FallHolds'
<1> DEFINE gone == {n \in playKeys : length[n] + Pace > Falling!UnseenEnd}
<1>1. /\ iterator.at = "clear" /\ drawKeys' = Without(drawKeys, iterator.list)
      /\ length' = [n \in Falling!Notes |-> IF n \in playKeys THEN length[n] + Pace ELSE length[n]]
      /\ playKeys' = playKeys \ gone /\ Falling!Sound(gone)
      /\ iterator' = [at |-> "sleep", list |-> {}] /\ lock' = "free"
      /\ UNCHANGED <<unbroken, touch, player, tap, autoPlay, score, combo, judged,
                     unseen, together>>
  BY FallWithout DEF Falling!Clear, Falling!scoreVars
<1>2. FallTypes /\ InOrder(drawKeys, length) /\ lock = "iterator" /\ player.at = "out"
  BY <1>1 DEF FallHolds, LastIsRead, FallTypes
<1>3. Falling!Added' = Falling!Added /\ Count' = Count /\ Rest' = Rest
  BY <1>1 DEF Falling!Added, Count, Rest
<1>4. gone \subseteq playKeys /\ playKeys \in SUBSET Falling!Notes
  BY <1>2 DEF FallTypes
<1>5. \A n \in gone : length[n] + Pace > Falling!UnseenEnd
  OBVIOUS
<1>6. \A n \in playKeys : n \in gone \/ ~(length[n] + Pace > Falling!UnseenEnd)
  OBVIOUS
<1> HIDE DEF gone
<1>7. \A n \in Falling!Notes : length'[n] = IF n \in playKeys THEN length[n] + Pace ELSE length[n]
  BY <1>1
<1>8. ASSUME NEW n \in playKeys
      PROVE  /\ length[n] \in Nat /\ length[n] <= Falling!UnseenEnd /\ n \in unseen
             /\ played[n] = 0 /\ n \notin Shown /\ n \notin judged
  <2>1. n \in Falling!Notes
    BY <1>4
  <2>2. NoteHolds(n) /\ length[n] \in Nat
    BY <1>2, <2>1, FallFacts DEF FallHolds
  <2> QED
    BY <2>2 DEF NoteHolds, SeenOrUnseen, UnseenSounds
<1>9. /\ played' \in [Falling!Notes -> 0..1]
      /\ \A n \in Falling!Notes : played'[n] = IF n \in gone THEN 1 ELSE played[n]
  <2>1. gone \in SUBSET Falling!Notes /\ \A n \in gone : played[n] = 0
    BY <1>4, <1>8
  <2> QED
    BY <1>1, <1>2, <2>1, Sounded
<1>10. /\ drawKeys' \in Seq(Falling!Notes) /\ Shown' = Shown \ iterator.list
       /\ InOrder(drawKeys', length')
  <2>1. \A n \in Shown \ iterator.list : length'[n] = length[n]
    <3>1. \A n \in Shown : n \in Falling!Notes
      BY <1>2, FallFacts
    <3> QED
      BY <1>7, <1>8, <3>1
  <2> QED
    BY <1>1, <1>2, <2>1, TakenOut DEF Shown, FallTypes
<1>11. length' \in [Falling!Notes -> 0..(Falling!End + Pace)]
  <2>1. ASSUME NEW n \in Falling!Notes PROVE length'[n] \in 0..(Falling!End + Pace)
    <3>1. length[n] \in 0..(Falling!End + Pace)
      BY <1>2 DEF FallTypes
    <3> QED
      BY <1>7, <1>8, <3>1, Heights
  <2> QED
    BY <1>1, <2>1
<1>12. iterator'.at = "sleep" /\ iterator'.list = {}
       /\ iterator' \in [at: {"sleep", "auto", "clear"}, list: SUBSET Falling!Notes]
  BY <1>1
<1>13. FallTypes'
  <2>1. playKeys' \in SUBSET Falling!Notes
    BY <1>1, <1>4
  <2> QED
    BY <1>1, <1>2, <1>3, <1>9, <1>10, <1>11, <1>12, <2>1 DEF FallTypes, TapStates
<1>14. ~together => tap.at = "idle" /\ unbroken
  BY <1>2 DEF FallHolds, TouchesApart
<1>15. ASSUME NEW n \in Falling!Notes PROVE NoteHolds(n)'
  <2>1. NoteHolds(n) /\ length[n] \in Nat /\ played[n] \in {0, 1}
    BY <1>2, FallFacts DEF FallHolds
  <2>2. Coming(n)' <=> Coming(n)
    BY <1>1, <1>3 DEF Coming
  <2>3. CASE n \in playKeys
    <3>1. /\ length'[n] = length[n] + Pace
          /\ n \in playKeys' <=> n \notin gone
          /\ n \in gone => length'[n] > Falling!UnseenEnd
          /\ n \notin gone => length'[n] <= Falling!UnseenEnd
      BY <1>1, <1>5, <1>6, <1>7, <1>8, <2>1, <2>3, Heights
    <3>2. /\ n \in unseen /\ n \notin Shown' /\ n \notin judged /\ n \notin Rest /\ ~Coming(n)
          /\ played'[n] = IF n \in gone THEN 1 ELSE 0
      BY <1>8, <1>9, <1>10, <2>1, <2>3 DEF NoteHolds, SeenOrUnseen, ComingIsNowhere
    <3> QED
      BY <1>1, <1>3, <1>12, <1>14, <2>2, <3>1, <3>2 DEF NoteHolds, ComingIsNowhere, SeenOrUnseen,
         Somewhere, EndIsListed, UnseenSounds, StillThere
  <2>4. CASE n \notin playKeys
    <3>1. length'[n] = length[n] /\ played'[n] = played[n] /\ n \notin playKeys'
      BY <1>1, <1>4, <1>7, <1>9, <2>4
    <3>2. n \in iterator.list => length[n] > Falling!UnseenEnd
      <4>1. n \in iterator.list => length[n] > Falling!End
        BY <2>1 DEF NoteHolds, EndIsListed
      <4> QED
        BY <2>1, <4>1, Heights
    <3>3. n \in Shown' => n \in Shown /\ n \notin iterator.list /\ ~(played[n] > 0)
                          /\ ~(length[n] > Falling!End)
      BY <1>10, <2>1 DEF NoteHolds, EndIsListed
    <3> QED
      BY <1>1, <1>3, <1>10, <1>12, <1>14, <2>1, <2>2, <2>4, <3>1, <3>2, <3>3
         DEF NoteHolds, ComingIsNowhere, SeenOrUnseen, Somewhere, EndIsListed, UnseenSounds, StillThere
  <2> QED
    BY <2>3, <2>4
<1>16. LastIsRead' /\ TouchesApart' /\ Falling!ScoreEarned'
  <2>1. LastIsRead'
    BY <1>1, <1>2, <1>10 DEF LastIsRead, InOrder
  <2>2. TouchesApart'
    BY <1>1, <1>2, <1>14 DEF TouchesApart
  <2> QED
    BY <1>1, <2>1, <2>2, PointsKept DEF FallHolds
<1> QED
  BY <1>12, <1>13, <1>15, <1>16 DEF FallHolds

-----------------------------------------------------------------------------

LEMMA FallsOn ==
  ASSUME FallHolds, [Falling!Next]_(Falling!vars)
  PROVE  FallHolds'
<1>1. CASE UNCHANGED Falling!vars
  <2>1. UNCHANGED <<unbroken, lock, drawKeys, playKeys, length, touch, player, iterator,
                    tap, autoPlay, score, combo, judged, played, unseen, together>>
    BY <1>1 DEF Falling!vars, Falling!noteVars, Falling!scoreVars
  <2>2. Falling!Added' = Falling!Added /\ Count' = Count /\ Shown' = Shown /\ Rest' = Rest
    BY <2>1 DEF Falling!Added, Count, Shown, Rest
  <2>3. FallTypes'
    BY <2>1, <2>2 DEF FallHolds, FallTypes, TapStates
  <2>4. ASSUME NEW n \in Falling!Notes PROVE NoteHolds(n)'
    <3>1. NoteHolds(n)
      BY DEF FallHolds
    <3> QED
      BY <2>1, <2>2, <3>1 DEF NoteHolds, ComingIsNowhere, SeenOrUnseen, Somewhere,
         EndIsListed, UnseenSounds, StillThere, Coming
  <2>5. LastIsRead' /\ TouchesApart' /\ Falling!ScoreEarned'
    BY <2>1, PointsKept DEF FallHolds, LastIsRead, TouchesApart, InOrder
  <2> QED
    BY <2>1, <2>3, <2>4, <2>5 DEF FallHolds
<1>2. CASE Falling!Next
  BY <1>2, FallStep, FallPlays, FallCleared, FallNew, FallSize, FallGet, FallLooks, FallJudged,
     FallMisses, FallMissGets, FallTouched, FallAuto
     DEF Falling!Next, Falling!IteratorStep, Falling!PlayerStep, Falling!TapStep
<1> QED
  BY <1>1, <1>2

LEMMA FallStays == MCSpec => []FallHolds
<1>1. MCInit => FallHolds
  BY FallInitHolds DEF MCInit
<1>2. FallHolds /\ [MCNext]_allVars => FallHolds'
  <2> SUFFICES ASSUME FallHolds, [MCNext]_allVars PROVE FallHolds'
    OBVIOUS
  <2>1. [Falling!Next]_(Falling!vars)
    BY DEF MCNext, allVars, fallVars, Falling!vars, Falling!noteVars, Falling!scoreVars
  <2> QED
    BY <2>1, FallsOn
<1> QED
  BY <1>1, <1>2, PTL DEF MCSpec

(* However touches, the iterator and the playing thread come together:     *)
(* shown notes keep their order and distance, none is lost or sounds twice *)
(* by itself, and the score is earned, for every number of notes and       *)
(* touches and every height and pace (BarrageView.java).                   *)
THEOREM NotesKeepOrder == MCSpec => []NotesInv
<1>1. FallHolds => NotesInv
  <2> SUFFICES ASSUME FallHolds PROVE Falling!Inv
    BY DEF NotesInv
  <2>1. FallTypes /\ InOrder(drawKeys, length) /\ Falling!ScoreEarned
    BY DEF FallHolds, LastIsRead
  <2>2. /\ iterator.list \in SUBSET Falling!Notes /\ Rest \in SUBSET Falling!Notes
        /\ Shown \in SUBSET Falling!Notes /\ tap.rest \in Seq(Falling!Notes)
        /\ \A n \in Falling!Notes : length[n] \in Nat /\ played[n] \in {0, 1}
    BY <2>1, FallFacts
  <2>3. ASSUME NEW n \in Falling!Notes
        PROVE  /\ n \in Shown \/ n \in playKeys \/ n \in unseen \/ n \in judged \/ n \in Rest
                    \/ n \in iterator.list => n \in Falling!Added
               /\ n \in playKeys => n \in unseen
               /\ n \in unseen => n \notin Shown
    <3>1. NoteHolds(n)
      BY DEF FallHolds
    <3> QED
      BY <3>1 DEF NoteHolds, ComingIsNowhere, SeenOrUnseen, Coming
  <2>4. drawKeys \in Seq(Falling!Added) /\ tap.rest \in Seq(Falling!Added)
    <3>1. ASSUME NEW s \in Seq(Falling!Notes), \A n \in ToSet(s) : n \in Falling!Added
          PROVE  s \in Seq(Falling!Added)
      <4>1. \A i \in 1..Len(s) : s[i] \in ToSet(s)
        BY <3>1 DEF ToSet
      <4> QED
        BY <3>1, <4>1
    <3> QED
      BY <2>1, <2>2, <2>3, <3>1 DEF Shown, Rest, FallTypes
  <2>5. Falling!IsInjective(drawKeys)
    <3>1. ASSUME NEW i \in DOMAIN drawKeys, NEW j \in DOMAIN drawKeys, i < j
          PROVE  drawKeys[i] # drawKeys[j]
      <4>1. length[drawKeys[i]] > length[drawKeys[j]] + Gap
        BY <2>1, <3>1 DEF InOrder
      <4>2. drawKeys[j] \in Falling!Notes
        BY <2>1 DEF FallTypes
      <4>3. length[drawKeys[j]] \in Nat
        BY <2>2, <4>2
      <4> QED
        BY <4>1, <4>3, Heights
    <3>2. DOMAIN drawKeys \subseteq Nat
      BY <2>1 DEF FallTypes
    <3>3. ASSUME NEW i \in DOMAIN drawKeys, NEW j \in DOMAIN drawKeys, drawKeys[i] = drawKeys[j]
          PROVE  i = j
      <4>1. i \in Nat /\ j \in Nat
        BY <3>2
      <4>2. ~(i < j) /\ ~(j < i)
        BY <3>1, <3>3
      <4> QED
        BY <4>1, <4>2
    <3> QED
      BY <3>3 DEF Falling!IsInjective
  <2>6. Falling!TypeOK
    <3>1. player \in [at: {"out", "size", "get"}, index: 0..MaxNotes]
      BY <2>1 DEF FallTypes
    <3>2. iterator \in [at: {"sleep", "auto", "clear"}, list: SUBSET Falling!Added]
      BY <2>1, <2>2, <2>3 DEF FallTypes
    <3>3. tap \in [at: {"idle", "look", "miss", "get"}, on: Touches \cup {NoTouch},
                   rest: Seq(Falling!Added), sounded: BOOLEAN]
      BY <2>1, <2>4 DEF FallTypes, TapStates
    <3>4. playKeys \in SUBSET unseen /\ unseen \in SUBSET Falling!Added
          /\ judged \in SUBSET Falling!Added /\ unseen \cap Falling!ToSet(drawKeys) = {}
      BY <2>1, <2>3, FallToSet DEF FallTypes, Shown
    <3>5. played \in [Falling!Notes -> 0..2]
      BY <2>1, 0..1 \subseteq 0..2 DEF FallTypes
    <3> QED
      BY <2>1, <2>4, <2>5, <3>1, <3>2, <3>3, <3>4, <3>5 DEF FallTypes, Falling!TypeOK
  <2>7. Falling!Spaced
    <3>1. \A i \in 1..(Len(drawKeys) - 1) : i \in DOMAIN drawKeys /\ i + 1 \in DOMAIN drawKeys
                                            /\ i < i + 1
      BY <2>1 DEF FallTypes
    <3> QED
      BY <2>1, <3>1 DEF InOrder, Falling!Spaced
  <2>8. Falling!NoneLost
    <3> SUFFICES ASSUME NEW n \in Falling!Added
                 PROVE  \/ n \in Shown \cup playKeys \cup judged
                        \/ length[n] > Falling!UnseenEnd
                        \/ n = Count /\ player.at # "out"
      BY FallToSet, FallCardinality DEF Falling!NoneLost, Shown, Count
    <3>1. n \in Falling!Notes
      BY DEF Falling!Added
    <3> QED
      BY <3>1 DEF FallHolds, NoteHolds, Somewhere, Coming
  <2>9. Falling!SoundsOnce
    <3>1. \A n \in unseen : played[n] = IF n \in playKeys THEN 0 ELSE 1
      BY <2>1 DEF FallHolds, FallTypes, NoteHolds, UnseenSounds
    <3>2. \A n \in Falling!Notes : played[n] <= 1
      BY <2>2
    <3> QED
      BY <3>1, <3>2 DEF Falling!SoundsOnce
  <2> QED
    BY <2>1, <2>6, <2>7, <2>8, <2>9 DEF Falling!Inv
<1> QED
  BY <1>1, FallStays, PTL

(* A touch sounds no note twice, and ends no thread, as long as it does    *)
(* not run together with a thread that holds the lock, for every number of *)
(* notes and touches and every height and pace (BarrageView.onkeyboard).   *)
THEOREM TouchesApartAreHarmless == MCSpec => []TouchesHarmless
<1>1. FallHolds => TouchesHarmless
  <2> SUFFICES ASSUME FallHolds, ~together
               PROVE  unbroken /\ \A n \in judged : played[n] = 0
    BY DEF TouchesHarmless, Falling!HarmlessApart
  <2>1. \A n \in judged : n \in Falling!Notes
    BY DEF FallHolds, FallTypes
  <2> QED
    BY <2>1 DEF FallHolds, NoteHolds, StillThere, TouchesApart
<1> QED
  BY <1>1, FallStays, PTL

=============================================================================
