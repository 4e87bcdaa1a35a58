# JustMusic: a TLA+ verification development

JustMusic is an Android piano game (`newjustpiano/`), a Go library that gives
the app its QUIC client and its sound mixer (`AppBind/`), a Go server with a
desktop console (`Server/`), and a copy of OpenAL Soft 1.23.1 that the mixer is
linked with.  This directory models the parts that keep state across threads,
callbacks, messages and activities, checks the models with TLC on small
instances, and proves what matters most about eight of them with TLAPS for every
value of their constants.

Paths are relative to `src/`; `J/` stands for
`newjustpiano/app/src/main/java/ly/jj/newjustpiano/`, `AL/` for
`AppBind/soundMixer/openal-soft-1.23.1/`.  `PROJECT.json` lists the components,
the runs, the mutants, the source lines of every definition and the hazards.

## 1. The system

### 1.1 Components

| component | source | state it keeps | operations | module |
|---|---|---|---|---|
| sessions and console of the server | `Server/main.go` | map `users`, `isOpen`, every `User`'s account, salt and stream, sleeping notices | accept, SALT, LOGIN, LOGOUT, RECONNECT, end of stream; open/close, notify, force; redraw | `ServerSessions` |
| catalogue of the server | `Server/main.go` | classes of banks of songs, each a list of names and a map | add, delete, draw; CLASS, BANK, SONG | `Catalogue` |
| wire framing | `Server/main.go`, `AppBind/Client/Client.go` | the bytes in a stream, the reading loop's length and body | SendMessage, handleClient, listen, Close | `FrameStream`, `MessageChannel` |
| connection and requests of the client | `AppBind/Client/Client.go`, `J/tools/StaticTools.java`, `J/Main.java`, `J/Online*.java` | `c.stream`, `c.listeners`, a loop per dial, Main's handler, the Online screens | Connect, Close, listen, AddOnMessageListener, SendMessage; asynchronous and waited-for requests | `ClientRequests` |
| MIDI extractor | `J/tools/SequenceExtractor.java` | the cursor and the time in a track, the keys read | head, chunk, one branch per event | `MidiExtractor` |
| sequencer | `J/tools/Sequence.java`, `syncSequence.java` | positions and list of tracks, next and last key, tempo | search, advance, sleep, play | `Songs`, `Sequencer`, `TimedNotes` |
| playback thread | `J/items/StaticItems.java`, `J/Keyboard.java`, `J/Local.java`, `J/Adapter/SongListAdapter.java` | global `playingThread`, interrupts, activities on their way in and out | listen, stop, play, back, destroy | `Playback` |
| falling notes | `J/views/BarrageView.java` | `drawKeys`, `playKeys`, the lock, score and combo | addKey, the iterator, onkeyboard, auto play | `Barrage` |
| keyboard and touches | `J/views/KeyboardView.java`, `BarrageView.java` | number of white keys, pressed keys per finger | down, move, up, cancel; add and remove keys | `KeyboardTouches` |
| start and sound cache | `J/Init.java`, `J/tools/SoundMixer.java`, `AppBind/soundMixer/soundMixer.go` | cache files, mixer buffers and ids | look, decode, create, write, load, name | `SoundCache` |
| songs on the device | `J/tools/DatabaseRW.java`, `J/Songs*.java`, `J/Local.java`, `J/Adapter/SongBankListAdapter.java` | SQLite tables of banks and songs, what the screens show of them | add, delete, search, page through | `SongStore` |
| OpenAL: sources and voices | `AL/al/source.cpp`, `alc/alu.cpp`, `core/voice.cpp` | sources with their queues, voices, pending voice changes | play, stop, pause, rewind, seek, queue, unqueue, loop, delete; the mix; disconnection, reset | `SourceVoices` |
| OpenAL: list of voice changes | `AL/al/source.cpp`, `alc/alu.cpp`, `core/voice_change.h` | one chain of elements: free, processed, pending | take, send; process | `ChangeList`, `ChangeQueue` |
| OpenAL: properties of sources | `AL/al/source.cpp`, `alc/alu.cpp`, `common/atomic.h`, `alc/context.cpp` | containers of settings, the list of free ones, holds | supply, start, defer, apply; copy, give back | `PropertyUpdates` |
| OpenAL: contexts and devices | `AL/alc/alc.cpp`, `alc/context.cpp`, `common/intrusive_ptr.h` | references, current contexts, arrays of contexts, both locks | create, destroy, make current, use, open, close, pause, resume, reset, reopen; the mix | `ContextLife` |
| OpenAL: events of a context | `AL/al/event.cpp`, `common/ringbuffer.cpp` | ring, semaphore, callback and its lock, enabled kinds | write, take, call back, enable, disable, stop | `EventRing` |
| OpenAL: output on Android | `AL/alc/backends/opensl.cpp`, `alc/alc.cpp` | ring of slots, semaphore, thread, player's queue | process, mixerProc, reset, start, stop; what calls them | `OpenSLPlayback` |
| OpenAL: effect slots | `AL/al/auxeffectslot.cpp`, `alc/alu.cpp` | slots, effects' states, array of active slots | generate, target, effect, play, stop, delete; sort, process | `EffectSlots` |
| settings; count of activities; drawing; hashes; `AppBind/main.go`; theme; the rest of OpenAL; assets, build | | | | not modelled, see 6 |

### 1.2 How they interact

* The app's UI thread calls the Go client directly.  Each successful dial
  starts a goroutine that reads the stream and calls a listener looked up by
  message type; the listener posts to a handler of the UI thread, or sets a
  variable that the UI thread is looping upon.
* Every connection has a handler goroutine in the server.  Handlers, the
  notices that sleep ten minutes, and the fyne thread of the console share
  `users`, the catalogue and the console's widgets without a lock.
* A song's bytes become a `Sequence` in `SequenceExtractor`; its `sequence`
  method sleeps a second and runs `syncSequence` in the playing thread, which
  calls the `Keyboard` activity's listener for each key; that puts a note into
  the `BarrageView`, where the iterator and the touches find it.
* A key that sounds goes through `SoundMixer` to `soundMixer.go`, which makes a
  source for it, queues its buffer and plays it.  From there on, calls of the
  app's threads take OpenAL's locks; the mixer thread of the OpenSL backend
  takes none, and meets them in atomics, lists and rings: voice changes,
  containers of properties, arrays of contexts and slots, events.  Calls that
  must not be overtaken wait until the mix under way is over.
* Activities reach one another through the globals of `StaticItems`.

### 1.3 What is hard

The behaviours that a test would hardly reach, at their lines, are the hazards
of `PROJECT.json`, forty of them, each with the properties that would catch it.
In short: maps and lists shared by threads without a lock (sessions, catalogue,
listeners, notes); callbacks that work on a global another callback has replaced
(`playingThread`, `client`, `c.stream`); streams that fail in the middle of a
message, and two Writes that make one message; waits that an answer may miss;
processes killed between two statements; merges, cursors and layouts with
off-by-one edges; and in OpenAL the hand-over between locked calls and a mixer
that may neither lock nor free: an item unqueued while it is mixed, an element
of a list taken while the mixer stands on it, a context destroyed while it is in
the array of a mix, a callback disabled while it runs.

### 1.4 What makes each component correct

* Sessions: who is logged in is listed, notices and console do what they
  announce, and nobody blocks for ever.
* Catalogue: the lists of names and the maps tell the same, and neither the
  server nor an app dies while the catalogue only grows.
* Framing: messages arrive whole, in order, none skipped; the loop ends with
  the stream.
* Requests: one reader per stream, an answer reaches the request it belongs to,
  no wait lasts for ever, no listener or screen is lost or doubled.
* Extractor and sequencer: what a file says is what is played, each note once
  and in time, and a song ends.
* Playback: a song that nobody stopped is the one that can be stopped, and one
  that was told to stop does.
* Notes and keyboard: notes are neither lost nor played twice; the key that is
  touched, drawn and judged is the same.
* Cache and store: what is on disk is whole and consistent wherever the process
  was killed before.
* Voices: the mixer reads no item that has left its queue, a free voice is
  heard of nobody, a pause lasts, and a call on one source leaves others alone.
* Hand-overs: the list of changes is a queue, no container is lost or in two
  places, what is applied together is heard together, the mixer frees nothing.
* Contexts: every reference counted has a holder, nothing is used after it is
  freed, and what a device closed is cleaned up.
* Rings: a cell in use is not overwritten, a callback that was ruled out does
  not come, a device that runs keeps rendering, threads end when told to.

## 2. The modules

`X` is a component, `XProofs` what is proved of it, `MCX` an instance for TLC
with a `.cfg` file.  Definitions that a comment calls a mutant are plausible
bugs: put in the place of the definition after them, each makes TLC find a
property violated.  History variables are marked as such where they are
declared; no guard of an action that models code reads one, but for the bounds
that say so.

Components that share no state are checked in one run: the MC module
instantiates all of them, `part` is chosen at the start and names the one that
moves, and the others stay in their initial states.  The state space is the sum
of the parts', not the product; the same constants can serve for several.

### ServerSessions

One variable for `users`, one for each field of `User` that matters, one for the
notices, one for the console's callback.  Each access to `users` is a step of its
own, as the code takes it between other threads' steps: `Login` checks the hash
and sets the account, `Insert` writes the table, `Draw` is the `buildUI` at the
end.  `Logout` clears the account before `Erase` deletes the entry of "the
account", which by then is the empty name; so the entry stays, as in the code.
`CloseDrop` deletes the entry of the closing user's account whoever owns it.  An
iteration of the console over the map produces what stays and perhaps what is
added (Go's rule); `MapFault` is the Go runtime's fatal error for an access that
overlaps a write; an `EmptyMessage` and a request of an `UnknownName` are panics;
`Crash` takes everything with it.

### Catalogue

An entry is its path.  `Add` and `Put` are the two statements (list, then map),
`Delete` and `RemoveEntry` likewise, and a handler may read in between.
`AnswerBank` and `AnswerSong` look up what an app asks for out of what it was
told of before: by then the console may have deleted it, and the nil entry's
panic ends the server.

### FrameStream, MessageChannel

One direction of a stream.  `WriteLength` and `WriteBody` are the two Writes;
`ReadFirstByte`, `ReadLength`, `ReadBody` the reads of both loops, whose
difference (the server serves what it has at an error, the client returns) is
the variable `reader`.  `MessageChannel` is the abstract specification: messages
arrive whole and in order, until the channel is broken.  `WholeAndInOrder` is
`FrameStream` implementing it with `broken <- overlap`.

### ClientRequests

A connection object and the UI thread: `Send`, `Check`, `Put` are the steps of
`sendMessage` between which the reading loop may clear `c.stream`; `End` and
`Drop` the two halves of `Close`; `Read`, `Take`, `Call`, `Eof` the loop.  The
server answers in order or refuses; the console announces; streams are lost.
`FrameStream` is what lets this module pass whole messages: where two loops
share a stream (`Spoil`), they are not whole any more.

### MidiExtractor, Songs, Sequencer, TimedNotes

`MidiExtractor` gives the bytes of a file (the format, in `Encoding`) and moves a
cursor over them as the code does, one action per branch.  `Songs` is the
`Sequence` both share; the extractor's invariant says that plain files become
the songs `Sequencer` starts from.  `Sequencer` has the loop's local variables;
`TimedNotes` is what any player promises, and `PlaysInOrder` that the loop
implements it.

### Playback

Every UI callback is one step, since only the UI thread touches
`playingThread`; the threads it named play on until their interrupt reaches
them, and an interrupt in the first second is swallowed, as the code's `catch`
swallows it.  A keyboard's `onDestroy` comes some time after the screen below is
back.

### Removal

`Without` is what the loops that keep the other names, the `DELETE` statements and
the removals from the falling notes have in common.

### Barrage, KeyboardTouches

`Barrage` has the three threads of a view, with the lock two of them take, and
`CopyOnWriteArrayList`'s snapshots for the third.  `KeyboardTouches` has the
layout of both views as functions of the number of white keys, and the list of
pressed keys over touches of several fingers.

### SoundCache, SongStore

`SoundCache` is Init's thread, step by step, over deaths of the process;
`SongStore` the screens over the two tables, with `Killed` between any two
statements.

### SourceVoices

Calls exclude one another by `mSourceLock`, so `op` is the one call under way; a
call is split at each of its accesses between which a mix can come: looking up
the voice, storing, sending a change, waiting for the mix.  The mix is split at
the accesses of `Voice::mix` (`MixLoad`, `MixStore`, `MixEnded`), so that a call
can come between the mixer's load of an item and its use.  An item is named by
its source and a number that is not given again: a pointer that outlives its
item can be told from one to its successor.  `Disconnect` and the reset of a
device run without `mSourceLock` where the code does.

`StopOnDisconnect` is the context attribute.  A seek takes the first free voice
for its new one, `AL/al/source.cpp:558`, without another look at the voice it was
given: if that one has ended and faded out, over two mixes, since it was looked up, it
may be the one taken.  Then the change that is sent ends and starts the same voice,
and its mark says that no change is to come while one may be: `VoiceIsFound` fails
(section 4).  The history variable `retaken` says that a seek has done this.
`VoiceIsFound`, `PausedLasts` and `OthersLeaveAlone` are promised until then; the
rest of `Inv`, `GoneIsSilent` and `NoUseAfterFree` are checked of every seek, to the
end of it and of the mixes under way (with `CallsAfter` TRUE they hold of the same
instance, whose ten million states are more than the run is given time for).  A
seek that comes as late and takes another voice, and a voice that ends after the
change was sent, which the comments at 628 to 644 are about, are no exception.

### ChangeList, ChangeQueue

The chain of elements with its three pointers, a step for each link the mixer
follows and each the calls set.  `ChangeQueue` is the abstract specification: a
queue from which what was sent comes in the order it was sent in.
`ChangesAreQueue` is the refinement, together with the invariant that it is one
chain.

### PropertyUpdates

`SupplyPop`, `SupplyLink` with `SupplyPush`, and `GiveBackLink` with
`GiveBackPush` are the compare-and-swap loops with which a call and the mixer
share the list of free containers, a step for each load and each exchange;
`SupplySwap` and `CalcSourceParams` exchange a voice's `mUpdate`, `Copy` reads
what the mixer took.  `mHoldUpdates` and the parity of `mUpdateCount` are
variables; `batch` keeps what the latest `applyAllUpdates` found changed.

### ContextLife

A thread's call is split at every lock it takes, count it changes and pointer it
swaps.  `mContexts` is a number and `arrays` what that array holds: an array
that was deleted has left `arrays`, so that a mix that still reads it is seen.
`CreateLists` gives the reference of a new context away to `ContextList`, and
`CreateEnds` is what the call still does with the context, at pc `"effect"`: a
context that is no longer listed by then may be gone (section 4), so that
`NoUseAfterFree` speaks of those that are.

### EventRing, OpenSLPlayback

Both keep their ring as two numbers, with the code's expressions for the space
to read and to write, and a semaphore with a bounded count.  `EventRing` splits
`writeAdvance` from the post and the look from the lock, `OpenSLPlayback` the
callback's advance from its post and the render from the enqueue.

### EffectSlots

A container of a slot's properties is in `update`, in the free list or in the
mixer's hands; an effect's state is counted by who holds it.  `MixSorts`,
`MixPartitions` and `MixSorted` are the code's sort, partition by partition, over an
array that calls may replace meanwhile; what `std::partition` leaves unsaid of the
order is any order.  `Chain`, where the code follows targets, is the least set closed
under them, and `Left` is what the calls of `updateProps` one after the other leave
of the free list, so that neither needs recursion.  `TargetsAreUsed` has two cases:
a mix that applies updates leads to no deleted slot; one from which they are held may
(section 4), and then the update that leads elsewhere waits in its slot.

## 3. The runs

Every property has a mutant that TLC finds with the same run.

| run | what it shows | bounds and why they are enough |
|---|---|---|
| `server` | sessions: `IInv` (section 5), `SoleSessionListed`; `NoticesAndCommandsEnd`, `ClosedServerAdmitsNobody`: notices close whom they were started for, callbacks end, logins run out after the server is closed for good. Frames: `WholeAndInOrder`, the refinement; `FramesInv` (a close loses at most the client's last message); `FramesEnd`: the loop ends but inside a length, and what is sent alone arrives | two connections share an account, the least for one to unlist the other; more are left to the proofs. Two senders, three messages, bodies of one to three bytes with a length base of 2: lengths have one and two digits and bodies look like lengths |
| `songs` | extractor: `RecoversPlain`: plain files are read to the end, and every note and tempo becomes a key with its time, volume, hand and length; `ComesToAnEnd` with every file. Sequencer: `PlaysInOrder`, the refinement; `Inv`: no note twice, which songs end, and the thread dies only of songs without a key before the last tick; `SongsFinish`: the songs that can end do | tracks of two events or two tracks of one, and of up to three events with the kinds the extractor misreads; files without a head, of an unknown format, cut, or with a track cut a byte short. Songs of one and two tracks of up to two keys at three ticks, three tracks of up to one: all orders and ties of three keys' times |
| `requests` | `Inv` (one reader per stream, answers in order, one screen; a song is the one asked for or empty; what the app may die of); `LatestBankShown`; `WaitIsAnswered`: the only ways to wait for ever | two dials, any two requests out of two banks, two songs and a logout: a listener is taken over by at most one other request |
| `screens` | playback: `PlayingIsTracked`, `LeavesCleanly`. Cache: `SoundsInv`. Store: `StoreInv`, `LostWithBankOnly`. Catalogue: `CatalogueInv`. Notes: `NotesInv` (notes are spaced, sound once, score is earned, none is lost); `TouchesHarmless`: a touch harms only while another thread is inside the lock | three threads and two keyboards: one song replaced by another while a third starts. Three sounds (first, middle, last) and two starts. Two names for three banks, so that one is given again, and three songs. Two classes, a bank, a song, lists of two names; one handler, as handlers do not change the catalogue. Three notes on two keys, in a view that a note crosses in five steps: with the three of `threads`, a note is judged at every level |
| `voices` | voices: `NoUseAfterFree`; until a seek takes the voice it took over from, `VoicesInv`, `PausedLasts`, `OthersLeaveAlone`. Contexts: `LifeInv`. Keys: `KeysInv`: pressed is what is under fingers, touched is drawn, a note falls onto its key | two sources and two voices, so that one voice is fought for; a queue of two items, one without samples; two changes pending. Once `retaken`, the call under way and the mixes go on but no call begins (`CallsAfter`, TRUE for `voices_seek`). Two threads and two contexts. Two fingers at one place of the keyboard, 1 to 15 white keys: two octaves and a key |
| `updates` | properties: `PropertyUpdates`' `Inv`, `HeardTogether`. Slots: `SlotsInv` (the mixer comes across slots in use, knows them as calls have set them but for what is on its way, finds no deleted target but in a mix its update is held from, and processes each slot before the one it feeds), `MixFreesNothing` | two sources, two voices, one container added at a time, one setting each, one hold. Three slots, the least for a chain of targets to be sorted by more than one partition and to lose or change a link; one effect, three calls: to cut a link, delete what it led to and make a slot in its place |
| `threads` | events: `Inv`, `QuietOnceToldSo`, `EventsEnd`. Output: `OutputInv`, `OutputRuns`. Changes: `ChangesAreQueue`. Notes: `NotesEnd`: every note leaves | a ring of four cells with four events: it becomes full and wraps; two kinds, one callback. Two slots, posts up to three. Two clusters of two elements, sends of one or two: elements are taken out of both clusters and given again in another order. Three notes on two keys, in a view that a note crosses in three steps |
| `voices_looping`, `voices_seek`, `contexts_closed`, `output_resume`, `slots_sort` | the findings of section 4 | the counterexamples need no more than two of anything, or three slots for `slots_sort` |

The bounds inside the models (`MaxSent`, `MaxDials`, `MaxAsks`, `MaxNotes`,
`MaxNames`, `MaxBanks`, `MaxSongs`, `MaxItem`, `MaxPending`, `MaxSettings`,
`MaxHolds`, `MaxCalls`, `CallsAfter`, `Clusters`, `MaxEvents`, `MaxLeft`, `MaxPosts`, the
counters that stop at 2, one announcement, one resize per touch, one cancelled
touch, a context made once) are named at their declarations or guards.
`MaxLeft` bounds the events that a disconnection and `StopEventThrd` leave
without a post: the real ring has 511 cells, and the end of the thread is only
promised while there is room.

Deadlock is not checked by the passing runs: in each there is a part that may
really stop (connections or calls are used up, songs end, the app dies).

Assumed of the platform: atomics are sequentially consistent, so that what
weaker orders add is not explored; Android's player dequeues a buffer before it
calls back for it, and calls back no more once its callback is taken back; QUIC
delivers in order or fails.  The default effect slot is initialised without
`mEffectSlotLock` (`AL/alc/alc.cpp:3375` to `3383`), before any thread that makes
calls on slots has been given the context; `EffectSlots` starts after it.

### Fairness

| part | fairness | why the code justifies it |
|---|---|---|
| sessions | every handler in the middle of a message, every notice, the console in the middle of a callback | goroutines are scheduled, `time.Sleep` ends; nobody need send, tap or hang up |
| frames | the reading loop; a writer that wrote a length writes the body | goroutines are scheduled; QUIC delivers or fails |
| requests | the UI thread in a call, every loop, the server's answers | Android's looper and the Go scheduler; the user need not ask, and nothing need fail |
| extractor, sequencer | the extracting and the playing thread | a thread runs, and its sleeps end; nobody need interrupt |
| notes | the iterator, and the playing thread inside `addKey` | both hold the lock for a bounded time; no touch is assumed |
| events | the mixer in a mix, the event thread, `StopEventThrd` | threads are scheduled; no call need be made |
| output | the callback once begun, the mixer thread, a call once begun | threads are scheduled; only `Rendering` assumes besides that the player goes on playing |

The other parts are checked for safety only.

## 4. What the code does against what it says

* `voices_looping` (`AL/al/source.cpp:1637`): setting `AL_LOOPING` looks up the
  voice, stores the item to loop to, and only then waits for the mix, whose
  purpose the comment at 1644 gives.  A voice that reaches its end in between is
  left with an item to loop to and none to mix, which the next mix reads.
* `voices_seek` (`AL/al/source.cpp:558`): the assertion at 2868 says that a start
  finds the voice it has counted.  A seek looks up voice 1; two mixes end it and fade
  it out; the seek takes the first free voice, which is voice 1 again, and sends a
  change from it to itself.  The source is stopped, which marks the voice as waiting
  for a second change; the mixer works off the first, which clears the mark.  A play is
  given the voice, as it is free by the looks of it, and loses it to the stop, that is
  worked off only now.  The next play counts the voice as free and adds none; the mixer
  works off the start of the play before, and the search finds no voice.
* `contexts_closed` (`AL/alc/alc.cpp:3367`): a context made while its device is
  closed is left out of the device's clean-up, against the comment at 3299.
* `output_resume` (`AL/alc/alc.cpp:3970`): after a reset that failed, of which
  the comment at 4119 says that it acts like a disconnection, a pause and a
  resume dereference a null ring.
* `slots_sort` (`AL/alc/alu.cpp:1899`): the assertion that some active slot has
  no target does not hold when a slot that plays targets one that does not.

The properties of the passing runs are exact where the code has an exception,
and name it: `SoleSessionListed` speaks of sole sessions, since the close of one
connection unlists another's; `EndsByItself` says which songs end, since the
loop goes round for ever after the others; `PlayingIsTracked` excepts threads
that were told to stop in their first second; `WaitIsAnswered`, `TouchesHarmless`,
`GrowingIsSafe` and `LoadedWhole` name the overlaps and failures after which
nothing is promised; `retaken` is the seek after which `VoiceIsFound` is not.
Two of these exceptions are faults of the code as well:

* `NoUseAfterFree` of `ContextLife` (`AL/alc/alc.cpp:3375`): once a new context is
  listed and `ListLock` is let go of, `alcCloseDevice` or `alcDestroyContext` may take
  it down before `alcCreateContext` has made it whole, against the same comment at
  3299: the call initialises the default slot of a context that is freed.
* `TargetsAreUsed` (`AL/al/auxeffectslot.cpp:618`): the comment at 620 forces an update
  when a slot had a target, "in case it's about to be deleted".  A mix from which
  `applyAllUpdates` holds updates does not take it: a target changed and the old one
  deleted before `alProcessUpdatesSOFT` leave that mix with the one that is gone.

## 5. The proofs

Each `XProofs` extends `X`, or `MCX` if it is about several components, and proves
what it says for every value of the constants, with the assumptions that `X` states of
them (names that are not elements of the sets they stand beside, numbers that are
natural, sets that are finite) and no bound on the number of steps.

| theorem | says | argument |
|---|---|---|
| `ServerProofs`: `InvariantHolds`, `TypeCorrect`, `GoneStaysUnlisted`, `SoleSessionStaysListed` | the invariant of the session table, its types (no nil user is handed to a notice), that a connection that ended is not listed under its last account, that the sole session of an account stays listed | the invariant below |
| `ServerProofs`: `FramesAreChannel` | `MCSpec => WholeAndInOrder`: a reading loop and its senders implement `MessageChannel`, until a message is begun in the middle of another, whatever the bytes of the messages and however many digits their lengths have | `FrameInv`: what was sent and not received is, byte for byte, what the reader has of a length and of a body, then the stream, then what was lost, below |
| `ServerProofs`: `FramesSafe` | `FramesInv`: a close loses at most the message it catches the client at the end of, and the server none | the same `FrameInv` |
| `SequencerProofs`: `LoopMergesTracks` | the loop implements `TimedNotes`: `Spec => PlaysInOrder` | `IInv`: where each track is, what is sounded |
| `SequencerProofs`: `SongsEndAsTold` | `Spec => []Inv`: no note twice, only songs of the kind `EndsByItself` end, the thread dies only of songs without a key before the last tick | besides `IInv`, `EndInv`: which track took the last key |
| `ScreensProofs`: `PlayingStaysTracked`, `AloneLeavesCleanly` | `playingThread` names every thread nobody told to stop, and one told after its first second plays one more key at most; a keyboard alone from its creation on stops its own song | `IInv`: the interrupt status outlives every step until the thread is done; the keyboard on the screen, or the one leaving, owns the thread |
| `ScreensProofs`: `SoundsStayWhole` | no sound is loaded cut, each has a buffer of its own, Main has them all, unless a start was broken off while it wrote, failed or overlapped another | `SoundsHold`: a cut file is being written, a sound about to be named is in the last buffer, those before the current one are named |
| `ScreensProofs`: `StoreStaysTrue`, `SongsGoWithTheirBank` | the list of banks and the pages of Local show the tables, a song has its bank unless a kill came between the two deletions or a stale list was touched; a song is only lost while its bank is being deleted | `StoreHolds`: rows ascend, so that no two songs are the same; a question is asked over the list only; the screen that adds a song has a bank that is there |
| `ScreensProofs`: `CatalogueStaysTrue` | the lists and the maps tell the same while the console rests; a catalogue that only grows, unread amid a change, is safe to ask for | `ServerHolds`, below |
| `ScreensProofs`: `NotesKeepOrder`, `TouchesApartAreHarmless` | shown notes keep order and distance, none is lost, each sounds once by itself, the score is earned; no thread dies and no judged note sounds, unless a touch runs together with the holder of the lock | `FallHolds`, below |
| `ThreadsProofs`: `RingKeepsOrder` | `Spec => []Inv`: between the pointers lies every event written and not taken, whole and in order, for rings of every size | `Found`: the thread is still to copy no more than there is; `Writer`: one writes at a time, and what it has constructed lies outside the pointers |
| `ThreadsProofs`: `QuietWhenTold` | no callback is under way that has been ruled out by a call that returned | `Held`: the lock is held exactly from the look to the last callback |
| `ThreadsProofs`: `SlotsPlayInOrder` | `OutputInv`: what the ring of the output holds is, in order, the slot called back for, those the player has and those it is to get, for rings of every size | `OffIsStill`: nothing is left of an output that is off; `RingServed`: what the thread is about to write is free and next in turn |
| `ThreadsProofs`: `ChangesArriveInOrder` | `MCSpec => ChangesAreQueue`: the list of voice changes implements `ChangeQueue`, for any number and size of clusters: no element is taken before the mixer is past it, what is sent arrives once and in order, no element is lost | `ListHolds`: one chain of processed elements, the current one and those behind it, and what a call holds beside it, below |
| `PropertyUpdatesProofs`: `AppliedIsHeardTogether` | settings that `applyAllUpdates` applied are heard in one mix by all the voices it found changed, or by none | `BatchComes`: what a voice still waits for is in its container; `HeardSoFar`: an update passes it on voice by voice |
| `SourceVoicesProofs`: `VoicesAreShared`, `ItemsOutliveTheMix` | for any number of sources, voices, items and pending changes, until a seek takes the voice it took over from (`retaken`): `VoicesInv` and `NoUseAfterFree`, that is, a start finds a voice, a source that has one between calls plays or is paused and has something to play, a free voice is not being mixed, a lost device leaves no source a voice, and the mixer reads no item that has left its queue | `Whole`: what is under way between the call and the mixer, below |
| `SourceVoicesProofs`: `PausedKeepsItsVoice`, `NoOtherSourceChanges` | until then, no mix takes the voice of a paused source while no call is under way; a source a step leaves as it is changes its state only by ending, and never by a start or a seek of another | the same `Whole` |
| `VoicesProofs`: `LifeIsSafe`, of which `ReferencesAreHeld` and `NothingFreedIsUsed` are parts | for all finite sets of threads and contexts, `LifeInv`: what is counted is held, whoever the mixer goes through has its event thread, and no call and no mix uses a context, an array or a device that is gone, but for a call that has listed the context it made | `Whole`: who owns a context that is being made or taken down, and what the lists, the array and the counts therefore say |
| `VoicesProofs`: `KeysFollowFingers` | `KeysInv`, for any number of fingers and of white keys: pressed is what is under the fingers, as often as fingers are on it; what is touched is drawn, a note falls onto its key | `KeysHold`: until the keys are resized, the key a finger was last on is the one under it; the layout, octave by octave |
| `PropertyUpdatesProofs`: `ContainersHaveOneOwner` | `OneOwner`: a container is free, supplied to one voice, or in one hand, and the list runs once through the free ones and no other | `Chain`, and that what an exchange compares with has not changed |
| `PropertyUpdatesProofs`: `LatestSettingsAreHeard` | `Spec => []Inv`: every container made is in one place and counted, a cluster is made only where the voices and the mixer hold all there are; a voice is mixed with settings of the source it plays, and has the latest where nothing is on its way | `Current`: what comes to a voice, below |
| `PropertyUpdatesProofs`: `SlotsStayKnown` | `SlotsInv`, for any number of slots, effects and calls: what the mixer processes is in use and has an effect, a slot that plays is known to it as calls have set it but for what is on its way or due, none leads it to a deleted one but in a mix from which the update that leads elsewhere is held, and what leads to the output is processed after all that feeds it | `SlotIInv`: a target that goes is on its way at once; `Parted`, the invariant of the sorting, below |
| `PropertyUpdatesProofs`: `MixLetsNothingGo` | no state of an effect loses its last holder in a step of the mixer | `MixKeepsStates`: who holds what before and after `CalcEffectSlotParams` |
| `ClientRequestsProofs`: `RequestsAreAnswered` | `Spec => []Inv`: until Main's handler dials again, one loop reads at most, answers come in the order of the requests, a song is for its own wait, one tap opens one screen; the app dies only of failures, a second dial, haste or the race for the listeners | `Early`, below |
| `ClientRequestsProofs`: `LatestBankIsShown` | where nothing is under way, the bank asked for last shows its own songs, unless it was refused or the connection failed | `BankComes`: it is being asked for, on its way, or shown |

The theorems about `Sequencer` assume `AllTerminated`: that every track of the
songs in the repertoire ends with its only End of Track, as the MIDI format
demands; without it a track may end without leaving the list.  `SoundsStayWhole`
assumes that the number of sounds is a natural one, the theorems about
`ContextLife` that there are finitely many threads and contexts, as they count
them, and those about `SourceVoices` that its bounds are natural numbers and that a
context starts with a voice.  `ChangesArriveInOrder`
assumes that a cluster has two elements at least (the code's has 128) and that what
a call may hold is bounded by a natural number, `KeysFollowFingers` that fingers are
finitely many and that thirds of keys end at pixels, whatever the number of keys.
The theorems about `EffectSlots` assume that slots are numbered from 1 to some
number (`SlotsAssumptions`).
`SlotsPlayInOrder` assumes that there is a power of two above the number of
slots, since the prover knows nothing of powers; TLC evaluates it.

**Sessions.**  `CloseDrop` deletes the entry of the account it finds, so one must
know that a connection in its last steps has not changed its account since;
`Insert` may list a connection, so one must know where it is; a notice deletes
the entry of whatever account its user carries by then, which spares a sole
session only because the notice has closed the stream before.  `IInv` therefore
adds to `TypeOK` and the two properties:

| part | says | needed for |
|---|---|---|
| `AccountHeld` | the account of a user is one it carried | `held` tells a sole session from a shared one |
| `NoAccountAround` | no account before the accept, nor while LOGOUT erases | `Erase` deletes nothing |
| `OpenWhileServed` | a stream is open only between accept and Close | `CloseDrop` unlists no open session of its own |
| `EntryAccepted`, `NoticeAccepted` | table and notices name accepted connections | `Accept` opens no stream of a listed user |
| `DropAfterShut` | a notice that will delete has closed the stream | `NoticeDrop` unlists no open session |

**Frames.**  `Wire` is the function that lays messages end to end, each behind its
length.  `FrameInv` says that as long as no message was begun in the middle of
another, the bytes the loop has of a length and of a body, those of the stream and
those that went with the connection (`Ahead`) are the `Wire` of the messages sent and
not received, and behind it the length of the one that is being written.  Most steps
only move bytes from one part to the next.  That a message is handed on whole rests
on the lengths: `int2byte` and `bytes2int` are inverse to each other (`Lengths`), and
no length is the beginning of another (`NoLengthInLength`), so that what the loop
takes for the next length and body is the next message (`NextFrame`).  For a server
that serves a body cut short and filled up with zeros it is assumed that this
decompresses, if at all, to the message that was cut: gzip ends in a checksum.

`int2byte`, `bytes2int` and `Wire` are recursive functions.  The library's theorems
on induction and recursion take an operator, which no installed prover instantiates;
they are had here from one that does not: that `<` on the naturals is well-founded.
A set of naturals has a least element (`Least`), so one that contains 0, and `n + 1`
with `n`, contains all (`Naturals`), so a step can be iterated (`Iteration`), and
each recursive function exists, as its definition says, and is the only one.

**Sequencer.**  That the search takes an earliest key is not inductive: one must
know what it has passed before.  `Choosing` says that between two keys no track
in the list is past its end or behind the key last played, so that a sleep is
never negative and `Sentinel`, the note of time -1, never chosen; `Sleeping` that
the key to be played is the song's last or the one its track has just passed;
`GoneAreDone` that a track leaves the list only at its end; `SoundedPassed` that
what is sounded is what the tracks have passed, but for the key of the sleep.
`TakeStep` and `TurnEndsStep` are the two steps of the induction that all
actions share, and `EndTrackExists` shows that the song's last key is one.  For
how a song ends, `TookLast` keeps that nothing was passed after the last key
`nextTrack` took, and nothing before it is left; `OnePassesTick` that only
`nextTrack` passes the last tick.

**Properties of sources.**  That a mix has all of a batch or none (`AllOrNone`)
rests on where its settings are.  `OneOwner` says that no container a voice was
supplied is written before the mixer has copied it, for which the list must hold
none of those: `ChainPop`, `ChainPush` and `ChainGrow` are the three ways the
list changes, and a pop's exchange is right though it compares only the head,
because nobody else pops.  `DirtyIsStale` says that a source that is dirty has its
latest settings nowhere yet, so that `AwaitUpdate` starts a batch no voice has
heard; `CallFits` that a call supplies the latest settings of the source its
voice plays; `Phases` that the mixer takes nothing while a batch is supplied.
`Path` gives the list as a sequence, which a pop shortens and a push or a
cluster lengthens in front; the walk of `FreeContainers` is that sequence, as the
least step at which it were not would follow from the one before
(`FreeIsWalked`), and counting is then one bijection after another
(`MadeIsCounted`).

That a voice has its source's latest settings (`LatestIsHeard`) is not inductive:
settings travel.  `Current` is what comes to a voice, wherever it is: in the
container it was supplied, in the one the mixer copies, or in the voice.  The
mixer's steps never change it (`CurrentKept`), which is the point of the exchange;
a call changes it only as it supplies.  `OwnComes` says whose settings these are,
`LatestComes` that they are the latest unless the source is dirty or a call has
them in its hands, `VoiceIsKnown` that a source plays on one voice, `StartFits`
that a voice is supplied before it has its source, and `ResetDirty` that after a
reset whoever was not supplied yet is dirty.

**Catalogue.**  A list and its map change by two statements, so that they do not tell
the same in between.  `NamesMatch` says of every moment that a list names just the
entries `Expected`: those of the map, and the one that is about to be put there, but
for the one that is about to be removed.  `Closed` says that whatever belongs to an
entry is only there with it, so that a deletion that takes all inside an entry leaves
nothing dangling; `Undisturbed` that as long as nothing was deleted the apps know only
of what is there, for which `ConsoleKnows` must say that what the console is adding is
new.  The loops that keep the other names are `Without` of the module `Removal`, a
function of the prefixes: by induction on these it keeps what is not to go, in order
(`WithoutKeeps`, `WithoutIs`).

**Notes.**  `FallHolds` says, of each note, what the lists tell of it:

| part | says | needed for |
|---|---|---|
| `ComingIsNowhere` | a note that is not in a list yet has not fallen and is in nobody's hands | `addKey` puts it below all the others |
| `SeenOrUnseen` | a note is seen or unseen; a judged one is neither shown nor in the snapshot of a touch | no note is judged twice, and the sounds of the two lists are apart |
| `EndIsListed` | the iterator takes out just the notes at their end, and a shown note sounds between its two loops only | `SoundsOnce`, though the lists change between them |
| `StillThere`, `TouchesApart` | as long as no touch came upon a held lock, nor a lock upon a touch, what a thread relies on is still there | `TouchesHarmless` |
| `LastIsRead` | any two shown notes keep their distance; the index `addKey` has read is the last one's, or beyond the list | a note is shown only if the last one has fallen far enough |

`Spaced` is about neighbours and is not inductive by itself: a touch takes notes out
of the middle, and `TakenOut` needs the distance of any two.

**Voices.**  That the voice a source is found to have is its own depends on changes
that are still to come.  `Whole` is therefore `Always`, which a lost device keeps, and
`Kept`, which holds as long as changes count:

| part | says | needed for |
|---|---|---|
| `CallKnows` | what a call has looked up, as long as it relies on it | a change is sent for a voice that is the source's own, and the free voice that was counted is still there |
| `ChangeIsAhead`, `EndsOnce` | a voice is marked as changing iff exactly one change, pending or about to be sent, ends it | a voice that is free, and given away, is not ended by a change sent before |
| `EndIsLast`, `RestartIsFirst` | no change starts a voice behind the one that ends it, and none that a seek has yet to start is started before | the mixer starts no voice that has been let go |
| `ItemIsQueued`, `LoadedIsSo` | what a voice holds, or the mixer has loaded from it, is in the queue of its source unless the call that took it out still waits for the mix | `NoUseAfterFree` |
| `PausedIsHushed`, `WaitsForMix` | a paused source is silent once what is pending is done, and who has waited for a mix finds its change done | `PausedLasts` |
| `GoneIsLetGo` | on a lost device only the backend's thread, or a call that has just given it, has a voice to let go | `GoneIsSilent` |

What each step does to a source, a voice and the list is one lemma; how each kind of
step keeps each part follows from these, for a call that begins, gives a voice,
sends, waits or leaves, and for a mixer that works off a change, ends a voice, lets
it go or finds the device lost.  All of it fails once a seek has taken the voice it
took over from, so that what is invariant is `retaken \/ Whole`: a step that does not
take it keeps `Whole`, and `retaken` is never taken back.

**Contexts.**  A reference is taken by pointers that others change, so that no
count is right by itself.  `LoadedIsHeld` says that a context loaded from
`sGlobalContext` and not yet counted is still the current one, or held by the
call that took it out, which waits for the spin lock.  `OneOwner` says that the
call that makes or takes down a context is the only one with a hand in it, though
a device being closed takes down many; `RefsCounted` and `DeviceCounted` can then
say what the counts are: those of the calls, threads, lists and pointers that hold
one.  `PlacedOK` and `EventsOK` say which contexts are in the device's array and
have an event thread, from the list and from how far each call has come.  The
mixer takes no lock; what protects it is `OldOK` and `MixOK`: it is in the array in
place, or in one that a call still keeps, and an old array has nothing that is not
in place but the context that leaves, whose call has not come to the end of its
event thread.  `RunningOK` gives a device that runs somebody who will stop it, from
whom it follows that a mix finds the device.  Each part has a law of what the step
of one call may do and a lemma that every action obeys it.

**Keys.**  Bags are compared by how often each key is in them (`BagIs`), and how often
a key is pressed is how many fingers are on it (`PressedCounts`), which adding,
taking out and moving change alike, as long as the key that is let go is the one
under the finger: `LastIsUnder`, which a resize ends.  That what is touched is what is
drawn, and that notes fall where they are taken, is arithmetic: at the edges of thirds
the three ways to divide a width are exact (`AtPixel`), so that all positions become
an octave and a third of it (`ThirdOfOctave`); then `OctaveFits` and `CutFits` are
finite cases, and `InOctave` shifts them.

**Requests.**  Nothing the client checks says which request an answer is for, or how
many loops read: that follows from the order of what is on the way.  `Early` is
what holds until Main's handler dials again:

| part | says | needed for |
|---|---|---|
| `Connected` | one loop is live at most and reads the stream the client names; a stream nobody reads is empty | no message is spoilt; a dial finds no loop |
| `InOrder` | what was shown, what the loop has taken, what comes down, what goes up and what is being asked for were asked for in this order | `AnswersInOrder`; a listener registered now is for the latest request |
| `Registered` | the listener is that of the request being made; of a song something is on the way only while it is waited for | `SongIsOwn` |
| `BankComes` | the latest bank is being asked for, refused, or listened for and on its way or shown | `LatestBankShown` |
| `Greeted`, `OneTap` | the greeting comes alone and before any request | `OneScreen` |
| `Serves`, `Unopened`, `EndIsHeard` | without a failure the stream serves until the screen is left, and nobody hears an end before | no step on the UI thread finds no stream, no wait ends empty |
| `Rests` | a screen left with nothing on the way leaves nothing behind | `DiesOfFailureOnly`: no later answer finds `client` null |

`Posts` bounds what Main's handler is sent, which `TypeOK` needs: each dial posts
once at most, when it fails or when its loop ends, a notice is one at a time, and a
screen is left once.  The lemmas on `Ordered` say what a send, an answer, a read and
a call do to the order; each part then has one lemma for the UI thread, one for the
server and the network, and one for the loops.

**Output.**  The order of the slots says where the thread may write next only if
what it has rendered still follows what is in the ring: `RingServed` carries that
from `getWriteVector` to the last `Enqueue`, while the callback moves the other
pointer.  Start, stop and reset may leave nothing behind, for which `OffIsStill` and
`CallsInTurn` say in which order a call finds the thread told to end, gone, the
player stopped and its queue cleared.

**Effect slots.**  A slot may be deleted as soon as no other targets it for the
calls, and the mixer must by then not be led there by what it still has.  `SlotIInv`
says why it is not:

| part | says | needed for |
|---|---|---|
| `Owned` | what is in use has an effect and targets what is in use; the array names slots in use; of a slot a call is deleting nobody is left | a slot that goes is nobody's target and in no array |
| `MixedOwned` | what the mixer goes through is in use until the mix ends, its array is the current one, or the current one is not sorted | `ProcessedIsUsed`; a call that waits for the mix may end when it is idle |
| `PlayedAsSet` | what a slot that plays has is on its way, known or due | `NoneForgotten` |
| `TargetsKnown` | of a slot in the array the mixer's target, when it has applied what waits, is that of the calls or none; once it has gone through the updates all targets are in use | `TargetsAreUsed`: a target that goes is made known at once, although one that comes may wait for `alProcessUpdatesSOFT` |
| `Sorted` | while the array is partitioned, what is still to be sorted has a target and none among those already looked at, and what is sorted has its target behind it (`Parted`); otherwise the order holds for what leads to the output (`Ordered`) | `TargetsComeLater`, which gives `BeforeItsTarget` |

The sort ends with at most one slot left, which then stands before all the others, or
with nothing more to look at: then those left lead only to each other and not to the
output (`PartedLast`), and their order does not matter, as the code's comment says.
What a mix applies changes targets only together with dropping the order, which the
next sort makes anew; what calls change reaches the mixer in no other way.

**Voice changes.**  The module finds what is sent by walking the chain, a recursive
function of the links, and every step of a call changes links or the ends of the
walk.  `ListHolds` names the chain instead: a sequence `c` without repetition, each
element linked to the next and the last to none, from `tail` on, with
`mCurrentVoiceChange` and the mixer's own element at two places of it in this order.
Beside it is what a call holds, another such sequence with nothing of the first, and
the two together are all the elements made, so that none is lost.  What a call takes
lies before the current element, at which it stops, and what is sent is what lies
behind the mixer's, so that taking, giving, skipping and walking each cut or join the
two sequences (`GetKeeps`, `AllocateKeeps`, `SendKeeps`, `SkipKeeps`, `TakeKeeps`,
`ProcessedKeeps`).  A walk along what is strung together goes to its end (`WalkIs`),
by the least step at which it were not a beginning of it, and with that the sequence
of changes the module computes is the one `ListHolds` names.

**Only model-checked.**  Everything with fairness, as the prover has no liveness
under fairness, nor ENABLED: notices, commands and closed servers, loops, waits,
songs that finish, starts, events that are served, an output that keeps
rendering.  What the extractor computes of a file (`RecoversPlain`): that is
induction over the bytes of its tracks.

## 6. Not modelled, and why

* Settings: a table of integers that its own screen alone reads and writes, on
  the app's one thread; nothing else depends on a setting in this commit.
* The count of activities in front: it only says how long the player's sleeps
  are, and durations are left out of its model.
* The codec's buffers in `MediaDecoder`: the platform's; `SoundCache` has its
  three outcomes.
* SALT and LOGIN hashing, pictures, text events, card and list layouts: no
  state that a property could be about.
* `OnlineFriends`, `OnlinePlay`, `asynSequence`: empty in this commit.
* `AppBind/main.go`, `Server/theme.go`, assets, build files.
* Of OpenAL: what it computes (effects, mixers, HRTF, UHJ, resampling, panning);
  outputs other than OpenSL, which the app is not built for; capture and
  loopback devices; EAX; the utilities and examples, which the app does not
  contain.  What is left out of the parts that are modelled is named in
  `PROJECT.json`: getters, callback buffers, delayed starts, calls on several
  sources or slots at once, the settings of the context and of the listener,
  which go to the mixer as those of sources do, and buffer objects.

The app's own code, in Java and Go, is some 4,400 lines with much layout in them;
its components above are complete but for what the table says.  The vendored
copy is 89,000 lines of C and C++, and its lines that are modelled are the ones
that keep state between threads: some 4,000, a twentieth of it.  Most of the
rest has no control that a state machine would show anything about, so that a
larger share could only be had by widening what the definitions are said to
stand for.

## 7. Plan

Modules were written in the order sessions; sequencer; playback; framing;
requests; notes; keyboard; catalogue; extractor; sound cache; song store;
voices; voice changes; properties; contexts; events; output; effect slots.  The
compositions are `MessageChannel` above `FrameStream`, `TimedNotes` above
`Sequencer`, `ChangeQueue` above `ChangeList`, and `Songs` between
`MidiExtractor` and `Sequencer`.  Next:

1. Prove: that nothing is used after it was freed once a seek has taken the voice it
   took over from, too, which is only model-checked.
2. Model: buffer objects with their references from sources; capture devices;
   calls on several sources; what a weaker order of the atomics in
   `PropertyUpdates` and the rings would let through.
