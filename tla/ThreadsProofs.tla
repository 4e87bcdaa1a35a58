--------------------------- MODULE ThreadsProofs ----------------------------
(***************************************************************************)
(* What the mixer and the threads beside it keep without a lock, for rings *)
(* and lists of every size.                                                *)
(*   Of EventRing: what lies between the pointers is what was written and  *)
(* not taken, whole and in order, and no callback comes once the call that *)
(* rules it out has returned.                                              *)
(*   Of OpenSLPlayback, as MCThreads instantiates it: what the ring holds  *)
(* is, in order, what is called back for, what the player has, and what it *)
(* is to get.                                                              *)
(*   Of ChangeList: it implements a queue of changes, and loses no element.*)
(***************************************************************************)
EXTENDS MCThreads, Integers, FiniteSets, SequenceTheorems, FiniteSetTheorems, TLAPS

(* EventRing: the events and callbacks, and where its thread may stand.    *)
Events == [k : Kind \cup {KillThread, "empty"}, n : Nat]
Callbacks == Callback \cup {None}

Asleep == [pc : {"look", "wait", "gone"}]
Ahand == [pc : {"lock", "copy"}, len : Int]
AtEvent == [pc : {"advance", "serve"}, len : Int, event : Events]
Calling == [pc : {"callback"}, len : Int, event : Events, to : Callbacks]

(* Where each thread may stand, and what it holds there. *)
Shapes ==
  /\ thread \in Asleep \cup Ahand \cup AtEvent \cup Calling
  /\ mixer \in [pc : {"idle", "mix", "report", "leave", "gone"}]
               \cup [pc : {"advance"}, then : {"mix", "leave"}]
  /\ control \in [pc : {"idle"}] \cup [pc : {"await"}, k : Kind]
  /\ stop \in [pc : {"idle", "write", "advance", "join", "stopped"}]
  /\ cell \in [Cells -> Events]
  /\ written \in Nat /\ served \in Nat

(* The event thread holds mEventCbLock while it works on what it found. *)
Held == cbLock <=> thread.pc \in {"copy", "advance", "serve", "callback"}

QuietInv == TypeOK /\ Shapes /\ Held /\ QuietOnceToldSo

-----------------------------------------------------------------------------
(* The pointers. *)

(* How far a pointer is ahead of another, and the cell at a distance. *)
Ahead(a, b) == (a + Mask + 1 - b) % (Mask + 1)
At(a, i) == (a + i) % (Mask + 1)

LEMMA Rest ==
  ASSUME NEW y, NEW m, m = Mask + 1, y \in 0..(2 * Mask + 1)
  PROVE  y % m = IF y < m THEN y ELSE y - m
BY RingAssumptions

LEMMA AheadIs ==
  ASSUME NEW a \in Cells, NEW b \in Cells
  PROVE  Ahead(a, b) = IF a >= b THEN a - b ELSE a - b + Mask + 1
<1>1. Mask \in Nat /\ a \in 0..Mask /\ b \in 0..Mask
  BY RingAssumptions DEF Cells
<1>2. PICK m : m = Mask + 1
  OBVIOUS
<1>3. PICK y : y = a + Mask + 1 - b
  OBVIOUS
<1>4. y % m = IF y < m THEN y ELSE y - m
  BY <1>1, <1>2, <1>3, Rest
<1>5. Ahead(a, b) = y % m
  BY <1>2, <1>3 DEF Ahead
<1> QED
  BY <1>1, <1>2, <1>3, <1>4, <1>5

LEMMA AtIs ==
  ASSUME NEW a \in Cells, NEW i \in 0..Mask
  PROVE  At(a, i) = IF a + i <= Mask THEN a + i ELSE a + i - Mask - 1
<1>1. Mask \in Nat /\ a \in 0..Mask
  BY RingAssumptions DEF Cells
<1>2. PICK m : m = Mask + 1
  OBVIOUS
<1>3. (a + i) % m = IF a + i < m THEN a + i ELSE a + i - m
  BY <1>1, <1>2, Rest
<1> QED
  BY <1>1, <1>2, <1>3 DEF At

LEMMA Spaces ==
  ASSUME w \in Cells, r \in Cells
  PROVE  /\ ReadSpace = Ahead(w, r) /\ ReadSpace \in 0..Mask
         /\ WriteSpace = Mask - ReadSpace
         /\ w = At(r, ReadSpace)
         /\ FirstRead \in 0..ReadSpace /\ (FirstRead = 0 <=> ReadSpace = 0)
         /\ FirstWrite > 0 <=> ReadSpace < Mask
<1>1. Mask \in Nat /\ w \in 0..Mask /\ r \in 0..Mask
  BY RingAssumptions DEF Cells
<1>2. ReadSpace = Ahead(w, r)
  BY DEF ReadSpace, Ahead
<1>3. ReadSpace = (IF w >= r THEN w - r ELSE w - r + Mask + 1) /\ ReadSpace \in 0..Mask
  BY <1>1, <1>2, AheadIs DEF Cells
<1>4. WriteSpace = Mask - ReadSpace
  <2>1. PICK m : m = Mask + 1
    OBVIOUS
  <2>2. PICK y : y = r + Mask - w
    OBVIOUS
  <2>3. y % m = IF y < m THEN y ELSE y - m
    BY <1>1, <2>1, <2>2, Rest
  <2>4. WriteSpace = y % m
    BY <2>1, <2>2 DEF WriteSpace
  <2> QED
    BY <1>1, <1>3, <2>1, <2>2, <2>3, <2>4
<1>5. w = At(r, ReadSpace)
  BY <1>1, <1>3, AtIs DEF Cells
<1>6. FirstRead \in 0..ReadSpace /\ (FirstRead = 0 <=> ReadSpace = 0)
  BY <1>1, <1>3 DEF FirstRead
<1>7. FirstWrite > 0 <=> ReadSpace < Mask
  BY <1>1, <1>3, <1>4 DEF FirstWrite
<1> QED
  BY <1>2, <1>3, <1>4, <1>5, <1>6, <1>7

(* A pointer that advances. *)
LEMMA Advanced ==
  ASSUME w \in Cells, r \in Cells
  PROVE  /\ At(w, 1) \in Cells /\ At(r, 1) \in Cells
         /\ ReadSpace < Mask => Ahead(At(w, 1), r) = ReadSpace + 1
         /\ ReadSpace > 0 => Ahead(w, At(r, 1)) = ReadSpace - 1
         /\ \A i \in 0..Mask : i < Mask => At(At(r, 1), i) = At(r, i + 1)
<1>1. Mask \in Nat /\ w \in 0..Mask /\ r \in 0..Mask
  BY RingAssumptions DEF Cells
<1>2. CASE Mask = 0
  <2>1. \A x \in Nat : x % 1 = 0
    OBVIOUS
  <2> QED
    BY <1>1, <1>2, <2>1, Spaces DEF At, Cells
<1>3. CASE Mask > 0
  <2>1. /\ At(w, 1) = IF w + 1 <= Mask THEN w + 1 ELSE w - Mask
        /\ At(r, 1) = IF r + 1 <= Mask THEN r + 1 ELSE r - Mask
    BY <1>1, <1>3, AtIs DEF Cells
  <2>2. At(w, 1) \in Cells /\ At(r, 1) \in Cells
    BY <1>1, <2>1 DEF Cells
  <2>3. ReadSpace = IF w >= r THEN w - r ELSE w - r + Mask + 1
    BY Spaces, AheadIs
  <2>4. Ahead(At(w, 1), r) = IF At(w, 1) >= r THEN At(w, 1) - r ELSE At(w, 1) - r + Mask + 1
    BY <2>2, AheadIs
  <2>5. Ahead(w, At(r, 1)) = IF w >= At(r, 1) THEN w - At(r, 1) ELSE w - At(r, 1) + Mask + 1
    BY <2>2, AheadIs
  <2>6. ReadSpace < Mask => Ahead(At(w, 1), r) = ReadSpace + 1
    BY <1>1, <1>3, <2>1, <2>3, <2>4
  <2>7. ReadSpace > 0 => Ahead(w, At(r, 1)) = ReadSpace - 1
    BY <1>1, <1>3, <2>1, <2>3, <2>5
  <2>8. ASSUME NEW i \in 0..Mask, i < Mask PROVE At(At(r, 1), i) = At(r, i + 1)
    <3>1. i + 1 \in 0..Mask
      BY <1>1, <2>8
    <3> QED
      BY <1>1, <2>1, <2>2, <2>8, <3>1, AtIs DEF Cells
  <2> QED
    BY <2>2, <2>6, <2>7, <2>8
<1> QED
  BY <1>1, <1>2, <1>3

-----------------------------------------------------------------------------
(* Quiet once told so. *)

LEMMA CellTypes ==
  ASSUME TypeOK, Shapes
  PROVE  /\ \A i \in Cells : cell[i] \in Events
         /\ \A k \in Kind \cup {KillThread} :
              [cell EXCEPT ![w] = [k |-> k, n |-> written + 1]] \in [Cells -> Events]
         /\ [cell EXCEPT ![r] = Empty] \in [Cells -> Events]
         /\ At(w, 1) \in Cells /\ At(r, 1) \in Cells
  BY Advanced DEF TypeOK, Shapes, Events, Empty

LEMMA ThreadTypes ==
  ASSUME Shapes
  PROVE  /\ thread.pc \in {"look", "wait", "gone"} => thread \in Asleep
         /\ thread.pc \in {"lock", "copy"} => thread \in Ahand /\ thread.len \in Int
         /\ thread.pc \in {"advance", "serve"} =>
              thread \in AtEvent /\ thread.len \in Int /\ thread.event \in Events
         /\ thread.pc = "callback" =>
              /\ thread \in Calling /\ thread.len \in Int /\ thread.event \in Events
              /\ thread.to \in Callbacks
         /\ thread.pc \in {"look", "wait", "gone", "lock", "copy", "advance", "serve",
                          "callback"}
<1>1. CASE thread \in Asleep
  BY <1>1 DEF Asleep
<1>2. CASE thread \in Ahand
  BY <1>2 DEF Ahand
<1>3. CASE thread \in AtEvent
  BY <1>3 DEF AtEvent
<1>4. CASE thread \in Calling
  BY <1>4 DEF Calling
<1> QED
  BY <1>1, <1>2, <1>3, <1>4 DEF Shapes

LEMMA QuietMix ==
  ASSUME QuietInv, Mix \/ Disconnects \/ Resets
  PROVE  QuietInv'
<1> USE DEF QuietInv, TypeOK, Shapes, Held, QuietOnceToldSo, Ring, Control, Thread
<1>1. ASSUME NEW k \in Kind, MixWrites(k) PROVE QuietInv'
  BY <1>1, CellTypes DEF MixWrites, Construct
<1>2. CASE MixAdvances
  BY <1>2, CellTypes DEF MixAdvances, WriteAdvance, At
<1>3. CASE MixBegins \/ MixEnds \/ Leaves \/ Resets
  BY <1>3, RingAssumptions DEF MixBegins, MixEnds, Leaves, Resets, Post, NoPost, Idle
<1>4. CASE DisconnectReported
  BY <1>4, CellTypes, RingAssumptions DEF DisconnectReported, WriteAdvance, Post, At
<1>5. CASE Disconnects
  BY <1>5, CellTypes DEF Disconnects, Construct
<1> QED
  BY <1>1, <1>2, <1>3, <1>4, <1>5 DEF Mix

(* What the event thread leaves to show. *)
LEMMA QuietIf ==
  ASSUME QuietInv, UNCHANGED <<mixer, stop, Control>>,
         thread' \in Asleep \cup Ahand \cup AtEvent \cup Calling,
         TypeOK', cell' \in [Cells -> Events], written' \in Nat, served' \in Nat,
         Held', QuietOnceToldSo'
  PROVE  QuietInv'
BY DEF QuietInv, Shapes, Control

LEMMA QuietThread ==
  ASSUME QuietInv, EventThread
  PROVE  QuietInv'
<1> USE DEF Ring, Control
<1>0. TypeOK /\ Shapes /\ Held /\ QuietOnceToldSo
  BY DEF QuietInv
<1>1. CASE Looks
  <2>1. thread' \in Asleep \cup Ahand /\ ~cbLock
    <3>1. FirstRead \in Int
      BY <1>0, Spaces DEF TypeOK
    <3> QED
      BY <1>0, <1>1, <3>1 DEF Looks, Asleep, Ahand, Held
  <2>2. thread'.pc \in {"wait", "lock"} /\ cbLock' = cbLock
    BY <1>1 DEF Looks
  <2>3. Held' /\ QuietOnceToldSo' /\ TypeOK'
    BY <1>0, <1>1, <2>1, <2>2 DEF Looks, Held, QuietOnceToldSo, TypeOK
  <2> QED
    BY <1>0, <1>1, <2>1, <2>3, QuietIf DEF Looks, Shapes
<1>2. CASE Waits
  <2>1. thread' \in Asleep /\ thread'.pc = "look" /\ thread.pc = "wait" /\ cbLock' = cbLock
    BY <1>2 DEF Waits, Asleep
  <2>2. Held' /\ QuietOnceToldSo' /\ TypeOK'
    BY <1>0, <1>2, <2>1, RingAssumptions DEF Waits, Held, QuietOnceToldSo, TypeOK
  <2> QED
    BY <1>0, <1>2, <2>1, <2>2, QuietIf DEF Waits, Shapes
<1>3. CASE LocksCallback
  <2>1. thread' \in Ahand /\ thread'.pc = "copy" /\ cbLock'
    BY <1>0, <1>3, ThreadTypes DEF LocksCallback, Ahand
  <2>2. Held' /\ QuietOnceToldSo' /\ TypeOK'
    BY <1>0, <1>3, <2>1 DEF LocksCallback, Held, QuietOnceToldSo, TypeOK
  <2> QED
    BY <1>0, <1>3, <2>1, <2>2, QuietIf DEF LocksCallback, Shapes
<1>4. CASE Copies
  <2>1. thread' \in AtEvent /\ thread'.pc = "advance" /\ thread.pc = "copy"
    BY <1>0, <1>4, ThreadTypes, CellTypes DEF Copies, AtEvent, TypeOK
  <2>2. Held' /\ QuietOnceToldSo' /\ TypeOK'
    BY <1>0, <1>4, <2>1 DEF Copies, Held, QuietOnceToldSo, TypeOK
  <2> QED
    BY <1>0, <1>4, <2>1, <2>2, QuietIf, CellTypes DEF Copies, Shapes
<1>5. CASE Advances
  <2>1. thread' \in AtEvent /\ thread'.pc = "serve" /\ thread.pc = "advance"
    BY <1>0, <1>5, ThreadTypes DEF Advances, AtEvent
  <2>2. Held' /\ QuietOnceToldSo' /\ TypeOK'
    BY <1>0, <1>5, <2>1, CellTypes DEF Advances, Held, QuietOnceToldSo, TypeOK, At
  <2>3. served' \in Nat
    BY <1>0, <1>5, ThreadTypes DEF Advances, Events
  <2> QED
    BY <1>0, <1>5, <2>1, <2>2, <2>3, QuietIf DEF Advances, Shapes
<1>6. ASSUME thread.pc \in {"serve", "callback"}, Goes(thread.len),
             UNCHANGED <<Ring, Control, sem, left, mixer, stop>>
      PROVE  QuietInv'
  <2>1. thread' \in Asleep \cup Ahand
    BY <1>0, <1>6, ThreadTypes DEF Goes, Asleep, Ahand
  <2>2. Held' /\ QuietOnceToldSo' /\ TypeOK'
    BY <1>0, <1>6 DEF Goes, Held, QuietOnceToldSo, TypeOK
  <2> QED
    BY <1>0, <1>6, <2>1, <2>2, QuietIf DEF Shapes
<1>7. CASE Serves
  <2>1. CASE thread.event.k = KillThread
    <3>1. thread' \in Asleep /\ thread'.pc = "gone" /\ ~cbLock'
      BY <1>7, <2>1 DEF Serves, Asleep
    <3>2. Held' /\ QuietOnceToldSo' /\ TypeOK'
      BY <1>0, <1>7, <2>1, <3>1 DEF Serves, Held, QuietOnceToldSo, TypeOK
    <3> QED
      BY <1>0, <1>7, <3>1, <3>2, QuietIf DEF Serves, Shapes
  <2>2. CASE thread.event.k # KillThread /\ callback # None /\ thread.event.k \in enabled
    <3>1. /\ thread' \in Calling /\ thread'.pc = "callback" /\ thread'.to = callback
          /\ thread'.event = thread.event /\ cbLock' = cbLock /\ thread.pc = "serve"
      BY <1>0, <1>7, <2>2, ThreadTypes DEF Serves, Calling, TypeOK, Callbacks
    <3>2. Held' /\ QuietOnceToldSo' /\ TypeOK'
      BY <1>0, <1>7, <2>2, <3>1 DEF Serves, Held, QuietOnceToldSo, TypeOK
    <3> QED
      BY <1>0, <1>7, <3>1, <3>2, QuietIf DEF Serves, Shapes
  <2> QED
    BY <1>6, <1>7, <2>1, <2>2 DEF Serves
<1>8. CASE CallbackReturns
  BY <1>6, <1>8 DEF CallbackReturns
<1> QED
  BY <1>1, <1>2, <1>3, <1>4, <1>5, <1>7, <1>8 DEF EventThread

LEMMA QuietCalls ==
  ASSUME QuietInv, Calls \/ StopEventThrd
  PROVE  QuietInv'
<1> USE DEF QuietInv, TypeOK, Shapes, Held, QuietOnceToldSo, Ring, Control, Thread
<1>1. ASSUME NEW k \in Kind, Enable(k) PROVE QuietInv'
  BY <1>1 DEF Enable
<1>2. ASSUME NEW k \in Kind, Disable(k) PROVE QuietInv'
  BY <1>2 DEF Disable
<1>3. CASE DisableReturns
  BY <1>3 DEF DisableReturns, Idle
<1>4. ASSUME NEW cb \in Callbacks, alEventCallbackSOFT(cb) PROVE QuietInv'
  BY <1>4 DEF alEventCallbackSOFT, Callbacks
<1>5. CASE StopBegins \/ StopJoins
  BY <1>5 DEF StopBegins, StopJoins
<1>6. CASE StopWrites
  BY <1>6, CellTypes DEF StopWrites, Construct
<1>7. CASE StopAdvances
  BY <1>7, CellTypes, RingAssumptions DEF StopAdvances, WriteAdvance, Post, At
<1> QED
  BY <1>1, <1>2, <1>3, <1>4, <1>5, <1>6, <1>7 DEF Calls, StopEventThrd, Callbacks

-----------------------------------------------------------------------------
(* In order. *)

(* What the event thread counts on: as many events as it is still to copy  *)
(* are there. *)
Found ==
  /\ thread.pc \in {"lock", "copy"} => thread.len \in 1..ReadSpace
  /\ thread.pc = "advance" => thread.len \in 0..(ReadSpace - 1)
  /\ thread.pc \in {"serve", "callback"} => thread.len \in 0..ReadSpace

(* One writes at a time, and what it constructs before it moves the        *)
(* pointer is the next event, in a cell that is not in use. *)
Writer ==
  /\ stop.pc # "idle" => mixer.pc \in {"idle", "gone"}
  /\ mixer.pc \in {"advance", "report"} \/ stop.pc = "advance" =>
       ReadSpace < Mask /\ cell[w] # Empty /\ cell[w].n = written + 1

OrderInv == QuietInv /\ InOrder /\ Found /\ Writer

(* The i-th event of those not taken. *)
Waiting(i) ==
  IF i = 0 /\ thread.pc = "advance" THEN cell[At(r, i)] = Empty
  ELSE cell[At(r, i)] # Empty /\ cell[At(r, i)].n = served + 1 + i

LEMMA OrderIs ==
  ASSUME TypeOK
  PROVE  InOrder <=> /\ \A i \in 0..Mask : i < ReadSpace => Waiting(i)
                     /\ served + ReadSpace = written
                     /\ thread.pc = "advance" =>
                          thread.event # Empty /\ thread.event.n = served + 1
BY Spaces DEF TypeOK, InOrder, Waiting, At

(* The cell that is written is not one of those. *)
LEMMA Beyond ==
  ASSUME TypeOK, ReadSpace < Mask, NEW i \in 0..Mask, i < ReadSpace
  PROVE  At(r, i) # w /\ At(r, i) \in Cells
<1>1. Mask \in Nat /\ w \in 0..Mask /\ r \in 0..Mask /\ ReadSpace \in 0..Mask
  BY RingAssumptions, Spaces DEF TypeOK, Cells
<1>2. w = IF r + ReadSpace <= Mask THEN r + ReadSpace ELSE r + ReadSpace - Mask - 1
  BY <1>1, Spaces, AtIs DEF TypeOK
<1>3. At(r, i) = IF r + i <= Mask THEN r + i ELSE r + i - Mask - 1
  BY AtIs DEF TypeOK
<1> QED
  BY <1>1, <1>2, <1>3 DEF Cells

LEMMA OrderOfConstruct ==
  ASSUME QuietInv, InOrder, Found, ReadSpace < Mask, NEW k \in Kind \cup {KillThread},
         Construct(k), UNCHANGED <<w, r, written, served, thread>>
  PROVE  /\ InOrder' /\ Found' /\ ReadSpace' = ReadSpace
         /\ cell'[w] # Empty /\ cell'[w].n = written + 1
<1> USE DEF QuietInv
<1>1. TypeOK /\ Shapes /\ ReadSpace' = ReadSpace
  BY DEF ReadSpace
<1>2. ASSUME NEW i \in 0..Mask, i < ReadSpace PROVE cell'[At(r, i)] = cell[At(r, i)]
  BY <1>1, <1>2, Beyond DEF Construct, Shapes
<1>3. cell'[w] # Empty /\ cell'[w].n = written + 1
  BY <1>1 DEF Construct, Shapes, TypeOK, Empty
<1>4. InOrder'
  BY <1>1, <1>2 DEF InOrder, At
<1>5. Found'
  BY <1>1 DEF Found
<1> QED
  BY <1>1, <1>3, <1>4, <1>5

LEMMA OrderOfWrite ==
  ASSUME QuietInv, InOrder, Found, ReadSpace < Mask, cell[w] # Empty, cell[w].n = written + 1,
         WriteAdvance, UNCHANGED <<cell, r, served, thread>>
  PROVE  InOrder' /\ Found'
<1> USE DEF QuietInv
<1>1. w' = At(w, 1) /\ w \in Cells /\ r \in Cells /\ w' \in Cells
  BY Advanced DEF WriteAdvance, At, TypeOK
<1>2. ReadSpace' = ReadSpace + 1 /\ ReadSpace \in 0..Mask /\ Mask \in Nat
  BY <1>1, Advanced, Spaces, RingAssumptions DEF ReadSpace, Ahead
<1>3. ASSUME NEW i \in 0..Mask, i < ReadSpace' PROVE Waiting(i)'
  <2>1. CASE i < ReadSpace
    BY <2>1, OrderIs DEF Waiting, At
  <2>2. CASE i = ReadSpace
    <3>1. At(r, i) = w
      BY <1>1, <2>2, Spaces
    <3>2. ~(i = 0 /\ thread.pc = "advance")
      BY <1>2, <2>2 DEF Found
    <3>3. served + 1 + i = written + 1
      BY <1>2, <2>2 DEF InOrder, Shapes
    <3> QED
      BY <3>1, <3>2, <3>3 DEF Waiting, At
  <2> QED
    BY <1>2, <1>3, <2>1, <2>2
<1>4. (served + ReadSpace = written)'
  BY <1>2 DEF InOrder, WriteAdvance, Shapes
<1>5. InOrder'
  BY <1>2, <1>3, <1>4 DEF InOrder, Waiting, At
<1>6. Found'
  BY <1>2 DEF Found
<1> QED
  BY <1>5, <1>6

LEMMA OrderOfCopy ==
  ASSUME QuietInv, InOrder, Found, Copies
  PROVE  InOrder' /\ Found' /\ ReadSpace' = ReadSpace /\ ReadSpace > 0
<1>1. TypeOK /\ Shapes /\ ReadSpace' = ReadSpace
  BY DEF QuietInv, Copies, Ring, ReadSpace
<1>2. /\ Mask \in Nat /\ r \in 0..Mask /\ r \in Cells /\ ReadSpace \in 0..Mask
      /\ thread.len \in 1..ReadSpace /\ thread.pc = "copy"
  BY <1>1, RingAssumptions, Spaces DEF TypeOK, Cells, Found, Copies
<1>3. At(r, 0) = r
  BY <1>2, AtIs
<1>4. cell[r] # Empty /\ cell[r].n = served + 1
  BY <1>1, <1>2, <1>3, OrderIs DEF Waiting, Shapes
<1>5. thread' = [pc |-> "advance", len |-> thread.len - 1, event |-> cell[r]]
  BY DEF Copies
<1>6. ASSUME NEW i \in 0..Mask, i < ReadSpace PROVE Waiting(i)'
  <2>1. CASE i = 0
    BY <1>1, <1>2, <1>3, <1>5, <2>1 DEF Copies, Ring, Waiting, At, Shapes
  <2>2. CASE i # 0
    <3>1. At(r, i) # r
      BY <1>2, <1>6, <2>2, AtIs
    <3>2. Waiting(i)
      BY <1>1, <1>6, OrderIs
    <3>3. cell'[At(r, i)] = cell[At(r, i)]
      BY <1>1, <1>2, <3>1, AtIs DEF Copies, Shapes, Cells
    <3> QED
      BY <2>2, <3>2, <3>3 DEF Waiting, At, Copies, Ring
  <2> QED
    BY <2>1, <2>2
<1>7. InOrder'
  BY <1>1, <1>4, <1>5, <1>6 DEF InOrder, Waiting, At, Copies, Ring
<1>8. Found'
  BY <1>1, <1>2, <1>5 DEF Found
<1> QED
  BY <1>1, <1>2, <1>7, <1>8

LEMMA OrderOfAdvance ==
  ASSUME QuietInv, InOrder, Found, Advances
  PROVE  InOrder' /\ Found' /\ ReadSpace' = ReadSpace - 1
<1>1. TypeOK /\ Shapes
  BY DEF QuietInv
<1>2. /\ Mask \in Nat /\ r \in Cells /\ ReadSpace \in 0..Mask
      /\ thread.len \in 0..(ReadSpace - 1) /\ ReadSpace > 0 /\ thread.pc = "advance"
  BY <1>1, RingAssumptions, Spaces DEF TypeOK, Found, Advances
<1>3. r' = At(r, 1) /\ ReadSpace' = ReadSpace - 1
  BY <1>1, <1>2, Advanced DEF Advances, At, ReadSpace, Ahead, TypeOK
<1>4. served' = served + 1
  BY <1>2 DEF Advances, InOrder
<1>5. thread'.pc = "serve" /\ thread'.len = thread.len
  BY <1>1, <1>2, ThreadTypes DEF Advances, AtEvent
<1>6. ASSUME NEW i \in 0..Mask, i < ReadSpace - 1 PROVE Waiting(i)'
  <2>1. i + 1 \in 0..Mask /\ i + 1 < ReadSpace /\ i + 1 # 0
    BY <1>2, <1>6
  <2>2. cell[At(r, i + 1)] # Empty /\ cell[At(r, i + 1)].n = served + 1 + (i + 1)
    BY <1>1, <2>1, OrderIs DEF Waiting
  <2>3. At(r', i) = At(r, i + 1)
    BY <1>1, <1>2, <1>3, <1>6, <2>1, Advanced DEF TypeOK
  <2>4. served' + 1 + i = served + 1 + (i + 1)
    BY <1>1, <1>4 DEF Shapes
  <2> QED
    BY <1>5, <2>2, <2>3, <2>4 DEF Waiting, At, Advances
<1>7. (served + ReadSpace = written)'
  BY <1>1, <1>2, <1>3, <1>4 DEF InOrder, Advances, Shapes
<1>8. InOrder'
  BY <1>2, <1>3, <1>5, <1>6, <1>7 DEF InOrder, Waiting, At
<1>9. Found'
  BY <1>2, <1>3, <1>5 DEF Found
<1> QED
  BY <1>3, <1>8, <1>9

LEMMA OrderSame ==
  ASSUME InOrder, UNCHANGED Ring,
         thread' = thread \/ (thread.pc # "advance" /\ thread'.pc # "advance")
  PROVE  InOrder' /\ ReadSpace' = ReadSpace
<1>1. ReadSpace' = ReadSpace
  BY DEF ReadSpace, Ring
<1> QED
  BY <1>1 DEF InOrder, Ring

LEMMA OrderMix ==
  ASSUME OrderInv, Mix \/ Disconnects \/ Resets
  PROVE  OrderInv'
<1> USE DEF Ring, Thread, Control
<1>1. QuietInv /\ InOrder /\ Found /\ Writer /\ QuietInv'
  BY QuietMix DEF OrderInv
<1>2. /\ w \in Cells /\ r \in Cells /\ (FirstWrite > 0 <=> ReadSpace < Mask)
      /\ ReadSpace \in Int /\ Mask \in Int
  BY <1>1, Spaces, RingAssumptions DEF QuietInv, TypeOK
<1>3. ASSUME NEW k \in Kind, MixWrites(k) PROVE OrderInv'
  <2>1. /\ InOrder' /\ Found' /\ ReadSpace' = ReadSpace
        /\ cell'[w] # Empty /\ cell'[w].n = written + 1
    BY <1>1, <1>2, <1>3, OrderOfConstruct DEF MixWrites
  <2>2. Writer'
    BY <1>1, <1>2, <1>3, <2>1 DEF MixWrites, Writer
  <2> QED
    BY <1>1, <2>1, <2>2 DEF OrderInv
<1>4. ASSUME mixer.pc \in {"advance", "report"}, WriteAdvance,
             mixer'.pc \notin {"advance", "report"},
             UNCHANGED <<cell, r, served, Thread, Control, stop>>
      PROVE  OrderInv'
  <2>1. InOrder' /\ Found'
    BY <1>1, <1>4, OrderOfWrite DEF Writer
  <2>2. Writer'
    BY <1>1, <1>4 DEF Writer, QuietInv, Shapes
  <2> QED
    BY <1>1, <2>1, <2>2 DEF OrderInv
<1>5. CASE MixAdvances
  BY <1>1, <1>4, <1>5 DEF MixAdvances, QuietInv, Shapes
<1>6. CASE DisconnectReported
  BY <1>4, <1>6 DEF DisconnectReported
<1>7. ASSUME UNCHANGED <<Ring, thread, stop>>, mixer'.pc \notin {"advance", "report"},
             stop.pc = "idle" \/ mixer'.pc \in {"idle", "gone"}, stop.pc # "advance"
      PROVE  OrderInv'
  <2>1. InOrder' /\ ReadSpace' = ReadSpace
    BY <1>1, <1>7, OrderSame
  <2>2. Found' /\ Writer'
    BY <1>1, <1>7, <2>1 DEF Found, Writer
  <2> QED
    BY <1>1, <2>1, <2>2 DEF OrderInv
<1>8. CASE MixBegins \/ MixEnds \/ Leaves
  BY <1>1, <1>7, <1>8 DEF MixBegins, MixEnds, Leaves, Idle, Writer
<1>9. CASE Resets
  <2>1. InOrder' /\ ReadSpace' = ReadSpace
    BY <1>1, <1>9, OrderSame DEF Resets
  <2>2. Found' /\ Writer'
    BY <1>1, <1>9, <2>1 DEF Found, Writer, Resets, Idle
  <2> QED
    BY <1>1, <2>1, <2>2 DEF OrderInv
<1>10. CASE Disconnects
  <2>1. CASE "disconnect" \in enabled /\ FirstWrite > 0 /\ written < MaxEvents
    <3>1. "disconnect" \in Kind
      BY <1>1, <2>1 DEF QuietInv, TypeOK
    <3>2. /\ InOrder' /\ Found' /\ ReadSpace' = ReadSpace
          /\ cell'[w] # Empty /\ cell'[w].n = written + 1
      BY <1>1, <1>2, <1>10, <2>1, <3>1, OrderOfConstruct DEF Disconnects
    <3>3. Writer'
      BY <1>1, <1>2, <1>10, <2>1, <3>2 DEF Disconnects, Writer
    <3> QED
      BY <1>1, <3>2, <3>3 DEF OrderInv
  <2>2. CASE ~("disconnect" \in enabled /\ FirstWrite > 0 /\ written < MaxEvents)
    BY <1>7, <1>10, <2>2 DEF Disconnects
  <2> QED
    BY <2>1, <2>2
<1> QED
  BY <1>3, <1>5, <1>6, <1>8, <1>9, <1>10 DEF Mix

LEMMA OrderThread ==
  ASSUME OrderInv, EventThread
  PROVE  OrderInv'
<1> USE DEF Ring, Control
<1>1. QuietInv /\ InOrder /\ Found /\ Writer /\ QuietInv' /\ Shapes
  BY QuietThread DEF OrderInv, QuietInv
<1>2. w \in Cells /\ r \in Cells /\ ReadSpace \in Nat /\ FirstRead \in 0..ReadSpace
  BY <1>1, Spaces, RingAssumptions DEF QuietInv, TypeOK
<1>3. CASE Copies
  <2>1. InOrder' /\ Found' /\ ReadSpace' = ReadSpace /\ ReadSpace > 0
    BY <1>1, <1>3, OrderOfCopy
  <2>2. ReadSpace < Mask => w # r
    BY <1>2, <2>1, AheadIs, Spaces, RingAssumptions DEF Cells
  <2>3. Writer'
    BY <1>1, <1>2, <1>3, <2>1, <2>2 DEF Copies, Writer, Shapes
  <2> QED
    BY <1>1, <2>1, <2>3 DEF OrderInv
<1>4. CASE Advances
  <2>1. InOrder' /\ Found' /\ ReadSpace' = ReadSpace - 1
    BY <1>1, <1>4, OrderOfAdvance
  <2>2. Writer'
    BY <1>1, <1>2, <1>4, <2>1, RingAssumptions DEF Advances, Writer
  <2> QED
    BY <1>1, <2>1, <2>2 DEF OrderInv
<1>5. ASSUME thread.pc # "advance", thread'.pc # "advance", UNCHANGED <<Ring, mixer, stop>>,
             ReadSpace' = ReadSpace => Found'
      PROVE  OrderInv'
  <2>1. InOrder' /\ ReadSpace' = ReadSpace
    BY <1>1, <1>5, OrderSame
  <2>2. Writer'
    BY <1>1, <1>5, <2>1 DEF Writer
  <2> QED
    BY <1>1, <1>5, <2>1, <2>2 DEF OrderInv
<1>6. CASE Looks
  BY <1>2, <1>5, <1>6 DEF Looks, Found
<1>7. CASE Waits
  BY <1>5, <1>7 DEF Waits, Found
<1>8. CASE LocksCallback
  BY <1>1, <1>5, <1>8 DEF LocksCallback, Found
<1>9. CASE CallbackReturns \/ Serves
  <2>1. thread.pc \in {"serve", "callback"} /\ UNCHANGED <<Ring, mixer, stop>>
    BY <1>9 DEF CallbackReturns, Serves
  <2>2. \/ thread'.pc \in {"gone", "look"}
        \/ /\ thread'.pc \in {"copy", "callback"} /\ thread'.len = thread.len
           /\ thread'.pc = "copy" => thread.len # 0
    BY <1>9 DEF CallbackReturns, Serves, Goes
  <2>3. ReadSpace' = ReadSpace => Found'
    BY <1>1, <1>2, <2>1, <2>2 DEF Found
  <2> QED
    BY <1>5, <2>1, <2>2, <2>3
<1> QED
  BY <1>3, <1>4, <1>6, <1>7, <1>8, <1>9 DEF EventThread

LEMMA OrderCalls ==
  ASSUME OrderInv, Calls \/ StopEventThrd
  PROVE  OrderInv'
<1> USE DEF Ring, Thread, Control
<1>1. QuietInv /\ InOrder /\ Found /\ Writer /\ QuietInv'
  BY QuietCalls DEF OrderInv
<1>2. /\ w \in Cells /\ r \in Cells /\ (FirstWrite > 0 <=> ReadSpace < Mask)
      /\ ReadSpace \in Int /\ Mask \in Int
  BY <1>1, Spaces, RingAssumptions DEF QuietInv, TypeOK
<1>3. CASE StopWrites
  <2>1. /\ InOrder' /\ Found' /\ ReadSpace' = ReadSpace
        /\ cell'[w] # Empty /\ cell'[w].n = written + 1
    BY <1>1, <1>2, <1>3, OrderOfConstruct DEF StopWrites
  <2>2. Writer'
    BY <1>1, <1>2, <1>3, <2>1 DEF StopWrites, Writer
  <2> QED
    BY <1>1, <2>1, <2>2 DEF OrderInv
<1>4. CASE StopAdvances
  <2>1. InOrder' /\ Found'
    BY <1>1, <1>4, OrderOfWrite DEF Writer, StopAdvances
  <2>2. Writer'
    BY <1>1, <1>4 DEF Writer, StopAdvances
  <2> QED
    BY <1>1, <2>1, <2>2 DEF OrderInv
<1>5. ASSUME UNCHANGED <<Ring, thread, mixer>>, stop' = stop \/ stop'.pc # "advance",
             stop'.pc # "idle" => stop.pc # "idle" \/ mixer.pc \in {"idle", "gone"}
      PROVE  OrderInv'
  <2>1. InOrder' /\ ReadSpace' = ReadSpace
    BY <1>1, <1>5, OrderSame
  <2>2. Found' /\ Writer'
    BY <1>1, <1>5, <2>1 DEF Found, Writer
  <2> QED
    BY <1>1, <2>1, <2>2 DEF OrderInv
<1>6. CASE Calls
  BY <1>5, <1>6 DEF Calls, Enable, Disable, DisableReturns, alEventCallbackSOFT, StopBegins
<1>7. CASE StopJoins
  BY <1>5, <1>7 DEF StopJoins
<1> QED
  BY <1>3, <1>4, <1>6, <1>7 DEF StopEventThrd

-----------------------------------------------------------------------------
(* The invariant. *)

LEMMA InitInv == Init => OrderInv
<1> SUFFICES ASSUME Init PROVE OrderInv
  OBVIOUS
<1>1. TypeOK /\ 0 \in Cells
  BY RingAssumptions DEF Init, TypeOK, Cells
<1>2. Shapes
  <2>1. Empty \in Events
    BY DEF Empty, Events
  <2>2. thread \in Asleep
    BY DEF Init, Asleep
  <2> QED
    BY <2>1, <2>2 DEF Init, Shapes, Idle
<1>3. Held /\ QuietOnceToldSo
  BY DEF Init, Held, QuietOnceToldSo
<1>4. ReadSpace = 0
  BY <1>1, Spaces, AheadIs DEF Init
<1>5. InOrder /\ Found /\ Writer
  BY <1>4, RingAssumptions DEF Init, InOrder, Found, Writer, Idle
<1> QED
  BY <1>1, <1>2, <1>3, <1>5 DEF OrderInv, QuietInv

LEMMA StepInv == OrderInv /\ [Next]_vars => OrderInv'
<1> SUFFICES ASSUME OrderInv, [Next]_vars PROVE OrderInv'
  OBVIOUS
<1>1. CASE UNCHANGED vars
  <2>1. InOrder' /\ ReadSpace' = ReadSpace
    BY <1>1, OrderSame DEF vars, Ring, OrderInv
  <2>2. Found' /\ Writer'
    BY <1>1, <2>1 DEF vars, OrderInv, Found, Writer
  <2>3. QuietInv'
    BY <1>1 DEF vars, OrderInv, QuietInv, TypeOK, Shapes, Held, QuietOnceToldSo
  <2> QED
    BY <2>1, <2>2, <2>3 DEF OrderInv
<1> QED
  BY <1>1, OrderMix, OrderThread, OrderCalls DEF Next

LEMMA Invariance == Spec => []OrderInv
BY InitInv, StepInv, PTL DEF Spec

(* The ring holds the events written and not taken, whole and in order,    *)
(* for every size of the ring (RingBuffer.getReadVector, writeAdvance,     *)
(* EventThread).                                                           *)
THEOREM RingKeepsOrder == Spec => []Inv
<1>1. OrderInv => Inv
  BY DEF OrderInv, QuietInv, Inv
<1> QED
  BY <1>1, Invariance, PTL

(* No callback runs once the call that disables its event or replaces it   *)
(* has returned (alEventControlSOFT, alEventCallbackSOFT), for every number*)
(* of kinds and callbacks. *)
THEOREM QuietWhenTold == Spec => []QuietOnceToldSo
<1>1. OrderInv => QuietOnceToldSo
  BY DEF OrderInv, QuietInv
<1> QED
  BY <1>1, Invariance, PTL

-----------------------------------------------------------------------------
(* OpenSLPlayback: where the mixer, process and a call may stand. *)
Stops == {"stop", "join", "clear", "drained"}
Rests == {"paused", "reconnect", "go on"}
CallPcs == Stops \cup Rests \cup {"reset", "start", "crashed"}
Outputs ==
  /\ Output!TypeOK
  /\ mKillNow \in BOOLEAN
  /\ slotMixer \in [pc : {"gone", "begin", "loop", "play", "full", "wait", "render"}]
                   \cup [pc : {"advance", "enqueue"}, slots : Seq(Output!Slot)]
  /\ bufferCallback \in [pc : {"idle", "post"}] \cup [pc : {"advance"}, slot : Output!Slot]
  /\ call \in [pc : {"idle"}] \cup [pc : CallPcs, rest : Rests \cup {"create", "resume"}]
  /\ call.pc \in Stops => call.rest \in Rests

(* The output is off: it was never started, or the call that stops it has  *)
(* come to its end.                                                        *)
Off == ~device.running \/ call.pc \notin {"idle", "stop", "join", "clear"}

(* Nothing is left of an output that is off.  Which of them a call finds,  *)
(* and that the thread is told to end before it is waited for.             *)
OffIsStill ==
  Off => player.queue = <<>> /\ bufferCallback = Output!Idle /\ slotMixer = Output!Gone /\ mKillNow
CallsInTurn ==
  /\ call.pc \in {"reset", "start", "crashed"} => ~device.running
  /\ call.pc \in Stops => device.running
  /\ device.running /\ call.pc \in {"idle", "stop"} => ~mKillNow
  /\ call.pc \in {"join", "clear", "drained"} => mKillNow
  /\ call.pc = "clear" => slotMixer = Output!Gone
  /\ device.running => ~device.paused
  /\ call.pc = "start" => ~device.paused

(* What the thread is about to write is free and next in turn. *)
Given == IF slotMixer.pc = "enqueue" THEN slotMixer.slots ELSE <<>>
Taken == IF bufferCallback.pc = "advance" THEN <<bufferCallback.slot>> ELSE <<>>
RingServed ==
  slotMixer # Output!Gone =>
    /\ player.registered
    /\ Output!ReadSpace <= NumUpdates
    /\ Output!SlotsFrom(ring.r, Output!ReadSpace) = Taken \o player.queue \o Given
    /\ slotMixer.pc = "render" => Output!ReadSpace < NumUpdates
    /\ slotMixer.pc = "advance" =>
         /\ slotMixer.slots # <<>>
         /\ Len(slotMixer.slots) + Output!ReadSpace <= NumUpdates
         /\ slotMixer.slots = Output!SlotsFrom(ring.w, Len(slotMixer.slots))
    /\ slotMixer.pc = "enqueue" => slotMixer.slots # <<>>

OutputKept == Outputs /\ OffIsStill /\ CallsInTurn /\ RingServed
-----------------------------------------------------------------------------
(* The ring of the output. *)
Slots == Output!Slot

LEMMA Wraps ==
  ASSUME NEW y \in Int, NEW m \in Nat \ {0}, 0 <= y + m, y < 2 * m
  PROVE  y % m = IF y < 0 THEN y + m ELSE IF y < m THEN y ELSE y - m
<1>1. CASE y < 0
  BY <1>1
<1>2. CASE y >= 0 /\ y < m
  BY <1>2
<1>3. CASE y >= m
  BY <1>3
<1> QED BY <1>1, <1>2, <1>3

LEMMA ReadSpaceIs ==
  ASSUME ring.w \in Slots, ring.r \in Slots
  PROVE  /\ Output!ReadSpace = IF ring.w >= ring.r THEN ring.w - ring.r
                                                   ELSE ring.w - ring.r + Output!PowerOfTwo
         /\ Output!ReadSpace \in Slots
<1> DEFINE C == Output!PowerOfTwo
<1>1. C \in Nat \ {0} /\ ring.w \in 0..(C - 1) /\ ring.r \in 0..(C - 1)
  BY OutputAssumptions DEF Slots, Output!Slot, Output!Cells
<1>2. PICK m : m = C
  OBVIOUS
<1>3. PICK y : y = ring.w - ring.r
  OBVIOUS
<1>4. Output!ReadSpace = y % m
  BY <1>2, <1>3 DEF Output!ReadSpace, Output!Cells
<1> HIDE DEF C
<1>5. y % m = IF y < 0 THEN y + m ELSE y
  <2>1. y \in Int /\ 0 <= y + m /\ y < m /\ y < 2 * m /\ m \in Nat \ {0}
    BY <1>1, <1>2, <1>3
  <2> QED BY <2>1, Wraps
<1> QED BY <1>1, <1>2, <1>3, <1>4, <1>5 DEF Slots, Output!Slot, Output!Cells, C
(* What is free is what is not to be read. *)
LEMMA WriteSpaceIs ==
  ASSUME ring.w \in Slots, ring.r \in Slots, Output!ReadSpace <= NumUpdates
  PROVE  Output!WriteSpace = NumUpdates - Output!ReadSpace
<1> DEFINE C == Output!PowerOfTwo
           N == NumUpdates
<1>1. /\ C \in Nat \ {0} /\ N \in Nat /\ N < C
      /\ ring.w \in 0..(C - 1) /\ ring.r \in 0..(C - 1)
  BY OutputAssumptions DEF Slots, Output!Slot, Output!Cells
<1>2. PICK m : m = C
  OBVIOUS
<1>3. PICK y : y = ring.r + N - (C - 1) - ring.w - 1
  OBVIOUS
<1>4. Output!WriteSpace = y % m
  BY <1>2, <1>3 DEF Output!WriteSpace, Output!Cells
<1>5. Output!ReadSpace = IF ring.w >= ring.r THEN ring.w - ring.r ELSE ring.w - ring.r + C
  BY ReadSpaceIs
<1> HIDE DEF C, N
<1>8. Output!ReadSpace <= N
  BY DEF N
<1>6. y \in Int /\ 0 <= y + m /\ y < 2 * m
  <2>1. PICK write \in 0..(m - 1) : write = ring.w
    BY <1>1, <1>2
  <2>2. PICK read \in 0..(m - 1) : read = ring.r
    BY <1>1, <1>2
  <2>3. y = read + N - (m - 1) - write - 1
    BY <1>2, <1>3, <2>1, <2>2
  <2>4. Output!ReadSpace = IF write >= read THEN write - read ELSE write - read + m
    BY <1>2, <1>5, <2>1, <2>2
  <2>5. write - read <= N
    BY <1>1, <1>2, <1>8, <2>4
  <2> QED BY <1>1, <1>2, <2>3, <2>5
<1>7. y % m = IF y < 0 THEN y + m ELSE IF y < m THEN y ELSE y - m
  BY <1>1, <1>2, <1>6, Wraps
<1> QED BY <1>1, <1>2, <1>3, <1>4, <1>5, <1>7, <1>8 DEF N

(* The slot at a distance, and the slots from one on. *)
Onwards(a, i) == (a + i) % Output!PowerOfTwo

LEMMA OnwardsIs ==
  ASSUME NEW a \in Slots, NEW i \in 0..NumUpdates
  PROVE  /\ Onwards(a, i) \in Slots
         /\ Onwards(a, i) = IF a + i < Output!PowerOfTwo THEN a + i ELSE a + i - Output!PowerOfTwo
<1> DEFINE C == Output!PowerOfTwo
<1>1. C \in Nat \ {0} /\ NumUpdates \in Nat /\ NumUpdates < C /\ a \in 0..(C - 1)
  BY OutputAssumptions DEF Slots, Output!Slot, Output!Cells
<1>2. PICK m : m = C
  OBVIOUS
<1>3. PICK y : y = a + i
  OBVIOUS
<1>4. Onwards(a, i) = y % m
  BY <1>2, <1>3 DEF Onwards
<1> HIDE DEF C
<1>5. y % m = IF y < m THEN y ELSE y - m
  <2>1. y \in Int /\ 0 <= y /\ 0 <= y + m /\ y < 2 * m /\ m \in Nat \ {0}
    BY <1>1, <1>2, <1>3
  <2>2. y % m = IF y < 0 THEN y + m ELSE IF y < m THEN y ELSE y - m
    BY <2>1, Wraps
  <2>3. ~(y < 0)
    BY <2>1
  <2> QED BY <2>2, <2>3
<1> QED BY <1>1, <1>2, <1>3, <1>4, <1>5 DEF Slots, Output!Slot, Output!Cells, C

LEMMA OnwardsTwice ==
  ASSUME NEW a \in Slots, NEW i \in Nat, NEW j \in Nat, i + j <= NumUpdates
  PROVE  Onwards(Onwards(a, i), j) = Onwards(a, i + j)
<1> DEFINE C == Output!PowerOfTwo
<1>1. C \in Nat \ {0} /\ NumUpdates \in Nat /\ NumUpdates < C /\ a \in 0..(C - 1)
  BY OutputAssumptions DEF Slots, Output!Slot, Output!Cells
<1>2. /\ Onwards(a, i) \in Slots
      /\ Onwards(a, i) = IF a + i < C THEN a + i ELSE a + i - C
  BY <1>1, OnwardsIs
<1>3. Onwards(a, i + j) = IF a + (i + j) < C THEN a + (i + j) ELSE a + (i + j) - C
  BY <1>1, OnwardsIs
<1>4. PICK b \in Slots : b = Onwards(a, i)
  BY <1>2
<1>5. Onwards(b, j) = IF b + j < C THEN b + j ELSE b + j - C
  BY <1>1, <1>4, OnwardsIs
<1> HIDE DEF C
<1> QED BY <1>1, <1>2, <1>3, <1>4, <1>5

(* The write pointer is as far ahead as there is to read. *)
LEMMA WriteIsOnwards ==
  ASSUME ring.w \in Slots, ring.r \in Slots, Output!ReadSpace <= NumUpdates
  PROVE  ring.w = Onwards(ring.r, Output!ReadSpace)
<1>1. Output!PowerOfTwo \in Nat \ {0} /\ ring.w \in 0..(Output!PowerOfTwo - 1) /\ ring.r \in 0..(Output!PowerOfTwo - 1)
  BY OutputAssumptions DEF Slots, Output!Slot, Output!Cells
<1>2. Output!ReadSpace = IF ring.w >= ring.r THEN ring.w - ring.r
                                             ELSE ring.w - ring.r + Output!PowerOfTwo
  BY ReadSpaceIs
<1>3. Output!ReadSpace \in 0..NumUpdates
  BY <1>1, <1>2, OutputAssumptions
<1>4. PICK k \in 0..NumUpdates : k = Output!ReadSpace
  BY <1>3
<1>5. Onwards(ring.r, k) = IF ring.r + k < Output!PowerOfTwo THEN ring.r + k
                                                             ELSE ring.r + k - Output!PowerOfTwo
  BY OnwardsIs
<1> QED BY <1>1, <1>2, <1>4, <1>5

LEMMA SlotsFromIs ==
  ASSUME NEW a \in Slots, NEW n \in 0..NumUpdates
  PROVE  /\ Output!SlotsFrom(a, n) \in Seq(Slots)
         /\ Len(Output!SlotsFrom(a, n)) = n
         /\ \A i \in 1..n : Output!SlotsFrom(a, n)[i] = Onwards(a, i - 1)
<1>1. Output!PowerOfTwo \in Nat \ {0} /\ NumUpdates \in Nat /\ a \in Int
  BY OutputAssumptions DEF Slots, Output!Slot, Output!Cells
<1>2. \A i \in 1..n : a + i - 1 = a + (i - 1)
  BY <1>1
<1>3. Output!SlotsFrom(a, n) = [i \in 1..n |-> Onwards(a, i - 1)]
  BY <1>2 DEF Output!SlotsFrom, Onwards, Output!Cells
<1>4. \A i \in 1..n : Onwards(a, i - 1) \in Slots
  BY <1>1, OnwardsIs
<1>5. PICK s : s = [i \in 1..n |-> Onwards(a, i - 1)]
  OBVIOUS
<1>6. s \in [1..n -> Slots] /\ \A i \in 1..n : s[i] = Onwards(a, i - 1)
  BY <1>4, <1>5
<1>7. n \in Nat
  BY <1>1
<1>8. s \in Seq(Slots)
  BY <1>6, <1>7, SeqDef
<1>9. DOMAIN s = 1..n
  BY <1>6
<1>10. Len(s) = n
  BY <1>7, <1>8, <1>9, LenProperties
<1> QED BY <1>3, <1>5, <1>6, <1>8, <1>10

(* Slots that follow one another. *)
LEMMA SlotsJoined ==
  ASSUME NEW a \in Slots, NEW n \in Nat, NEW k \in Nat, n + k <= NumUpdates
  PROVE  Output!SlotsFrom(a, n) \o Output!SlotsFrom(Onwards(a, n), k) = Output!SlotsFrom(a, n + k)
<1>1. NumUpdates \in Nat /\ n \in 0..NumUpdates /\ k \in 0..NumUpdates /\ n + k \in 0..NumUpdates
  BY OutputAssumptions
<1>2. PICK b \in Slots : b = Onwards(a, n)
  BY <1>1, OnwardsIs
<1>3. PICK s : s = Output!SlotsFrom(a, n)
  OBVIOUS
<1>4. PICK t : t = Output!SlotsFrom(b, k)
  OBVIOUS
<1>5. PICK u : u = Output!SlotsFrom(a, n + k)
  OBVIOUS
<1>6. s \in Seq(Slots) /\ Len(s) = n /\ \A i \in 1..n : s[i] = Onwards(a, i - 1)
  BY <1>1, <1>3, SlotsFromIs
<1>7. t \in Seq(Slots) /\ Len(t) = k /\ \A i \in 1..k : t[i] = Onwards(b, i - 1)
  BY <1>1, <1>4, SlotsFromIs
<1>8. u \in Seq(Slots) /\ Len(u) = n + k /\ \A i \in 1..(n + k) : u[i] = Onwards(a, i - 1)
  BY <1>1, <1>5, SlotsFromIs
<1>9. /\ s \o t \in Seq(Slots) /\ Len(s \o t) = n + k
      /\ \A i \in 1..(n + k) : (s \o t)[i] = IF i <= n THEN s[i] ELSE t[i - n]
  BY <1>6, <1>7, ConcatProperties
<1>10. ASSUME NEW i \in 1..(n + k) PROVE (s \o t)[i] = u[i]
  <2>1. CASE i <= n
    BY <2>1, <1>6, <1>8, <1>9
  <2>2. CASE ~(i <= n)
    <3>1. PICK j \in 1..k : j = i - n
      BY <2>2, <1>1
    <3>2. t[j] = Onwards(b, j - 1)
      BY <1>7
    <3>3. Onwards(b, j - 1) = Onwards(a, n + (j - 1))
      BY <1>1, <1>2, OnwardsTwice
    <3>4. n + (j - 1) = i - 1
      BY <3>1
    <3> QED BY <2>2, <3>1, <3>2, <3>3, <3>4, <1>8, <1>9
  <2> QED BY <2>1, <2>2
<1>11. s \o t = u
  BY <1>8, <1>9, <1>10, SeqEqual
<1> QED BY <1>2, <1>3, <1>4, <1>5, <1>11

(* Without the first. *)
LEMMA SlotsAfterFirst ==
  ASSUME NEW a \in Slots, NEW n \in 1..NumUpdates, NEW x \in Slots, NEW q \in Seq(Slots),
         Output!SlotsFrom(a, n) = <<x>> \o q
  PROVE  Output!SlotsFrom(Onwards(a, 1), n - 1) = q
<1>1. NumUpdates \in Nat /\ n \in Nat /\ 1 \in 0..NumUpdates
  BY OutputAssumptions
<1>2. PICK b \in Slots : b = Onwards(a, 1)
  BY <1>1, OnwardsIs
<1>3. PICK s : s = Output!SlotsFrom(a, 1)
  OBVIOUS
<1>a. PICK k \in Nat : n = 1 + k
  <2>1. n - 1 \in Nat /\ n = 1 + (n - 1)
    BY <1>1
  <2> QED BY <2>1
<1>b. k = n - 1 /\ k \in 0..NumUpdates /\ 1 + k <= NumUpdates
  BY <1>1, <1>a
<1>4. PICK t : t = Output!SlotsFrom(b, k)
  OBVIOUS
<1>5. s \in Seq(Slots) /\ Len(s) = 1
  BY <1>1, <1>3, SlotsFromIs
<1>6. t \in Seq(Slots) /\ Len(t) = k
  BY <1>b, <1>4, SlotsFromIs
<1>7. s \o t = <<x>> \o q
  BY <1>a, <1>b, <1>2, <1>3, <1>4, SlotsJoined
<1>8. <<x>> \in Seq(Slots) /\ Len(<<x>>) = 1
  OBVIOUS
<1>9. /\ Len(s \o t) = 1 + k
      /\ \A i \in 1..(1 + k) : (s \o t)[i] = IF i <= 1 THEN s[i] ELSE t[i - 1]
  <2>1. /\ Len(s \o t) = Len(s) + Len(t)
        /\ \A i \in 1..(Len(s) + Len(t)) : (s \o t)[i] = IF i <= Len(s) THEN s[i] ELSE t[i - Len(s)]
    BY <1>5, <1>6, ConcatProperties
  <2> QED BY <2>1, <1>5, <1>6
<1>10. /\ Len(<<x>> \o q) = 1 + Len(q)
       /\ \A i \in 1..(1 + Len(q)) : (<<x>> \o q)[i] = IF i <= 1 THEN <<x>>[i] ELSE q[i - 1]
  BY <1>8, ConcatProperties
<1>11. Len(q) = k
  <2>1. Len(q) \in Nat
    BY LenProperties
  <2> QED BY <2>1, <1>7, <1>9, <1>10
<1>12. \A i \in 1..k : t[i] = q[i]
  <2> SUFFICES ASSUME NEW i \in 1..k PROVE t[i] = q[i]
    OBVIOUS
  <2>1. i + 1 \in 1..(1 + k) /\ ~(i + 1 <= 1) /\ (i + 1) - 1 = i
    BY <1>1
  <2> QED BY <2>1, <1>7, <1>9, <1>10, <1>11
<1>13. t = q
  BY <1>6, <1>11, <1>12, SeqEqual
<1> QED BY <1>b, <1>2, <1>4, <1>13
-----------------------------------------------------------------------------
(* The invariant of the output: types first. *)
Idlers == [pc : {"gone", "begin", "loop", "play", "full", "wait", "render"}]
Writers == [pc : {"advance", "enqueue"}, slots : Seq(Slots)]
OutputRecords ==
  /\ ring \in [w : Slots, r : Slots, there : BOOLEAN]
  /\ slotSem \in 0..MaxSlotPosts
  /\ device \in [connected : BOOLEAN, running : BOOLEAN, paused : BOOLEAN, context : BOOLEAN]
  /\ player \in [queue : Seq(Slots), plays : BOOLEAN, registered : BOOLEAN]
  /\ mKillNow \in BOOLEAN
  /\ slotMixer \in Idlers \cup Writers
  /\ bufferCallback \in [pc : {"idle", "post"}] \cup [pc : {"advance"}, slot : Slots]

CallTyped ==
  /\ call \in [pc : {"idle"}] \cup [pc : CallPcs, rest : Rests \cup {"create", "resume"}]
  /\ call.pc \in Stops => call.rest \in Rests

LEMMA OutputsAre == Outputs <=> OutputRecords /\ CallTyped
BY DEF Outputs, OutputRecords, CallTyped, Output!TypeOK, Slots, Idlers, Writers

LEMMA PointersMove ==
  ASSUME NEW g \in [w : Slots, r : Slots, there : BOOLEAN], NEW n \in 0..NumUpdates
  PROVE  /\ [g EXCEPT !.w = (@ + n) % Output!Cells] \in [w : Slots, r : Slots, there : BOOLEAN]
         /\ [g EXCEPT !.r = (@ + n) % Output!Cells] \in [w : Slots, r : Slots, there : BOOLEAN]
<1>1. (g.w + n) % Output!Cells \in Slots /\ (g.r + n) % Output!Cells \in Slots
  BY OnwardsIs DEF Onwards, Output!Cells
<1> QED BY <1>1

LEMMA RingsAre ==
  /\ Output!NoRing \in [w : Slots, r : Slots, there : BOOLEAN]
  /\ Output!EmptyRing \in [w : Slots, r : Slots, there : BOOLEAN]
<1>1. 0 \in Slots
  BY OutputAssumptions DEF Slots, Output!Slot, Output!Cells
<1> QED BY <1>1 DEF Output!NoRing, Output!EmptyRing

LEMMA NoneIsASeq == <<>> \in Seq(Slots)
BY EmptySeq

LEMMA PostCounts ==
  ASSUME slotSem \in 0..MaxSlotPosts, Output!Post
  PROVE  slotSem' \in 0..MaxSlotPosts
BY OutputAssumptions DEF Output!Post

(* The steps of the thread and of the player. *)
LEMMA MixerTyped ==
  ASSUME OutputRecords, RingServed, Output!mixerProc
  PROVE  OutputRecords'
<1> USE DEF OutputRecords, Output!MixerGoes, Output!Player, Output!Device
<1>a. Output!Gone \in Idlers
  BY DEF Output!Gone, Idlers
<1>b. \A pc \in {"loop", "play", "full", "wait", "render"} : [pc |-> pc] \in Idlers
  BY DEF Idlers
<1>1. CASE Output!MixerBegins
  BY <1>1, <1>b DEF Output!MixerBegins
<1>2. CASE Output!MixerFails
  BY <1>2, <1>a DEF Output!MixerFails, Output!Disconnects
<1>3. CASE Output!MixerLoops
  BY <1>3, <1>a, <1>b DEF Output!MixerLoops
<1>4. CASE Output!MixerPlays
  BY <1>4, <1>a, <1>b DEF Output!MixerPlays, Output!Disconnects
<1>5. CASE Output!MixerLooksAgain
  BY <1>5, <1>b DEF Output!MixerLooksAgain
<1>6. CASE Output!MixerWaits
  BY <1>6, <1>b, OutputAssumptions DEF Output!MixerWaits
<1>7. CASE Output!MixerRenders
  <2>1. slotMixer # Output!Gone /\ slotMixer.pc = "render"
    BY <1>7 DEF Output!MixerRenders, Output!Gone
  <2>2. Output!ReadSpace \in 0..NumUpdates
    BY <2>1, ReadSpaceIs, OutputAssumptions DEF RingServed, Slots, Output!Slot
  <2>3. Output!WriteSpace \in 0..NumUpdates
    BY <2>2, WriteSpaceIs, OutputAssumptions
  <2>4. Output!SlotsFrom(ring.w, Output!WriteSpace) \in Seq(Slots)
    BY <2>3, SlotsFromIs
  <2>5. slotMixer' \in Writers
    BY <2>4, <1>7 DEF Output!MixerRenders, Writers
  <2> QED BY <2>5, <1>7 DEF Output!MixerRenders
<1>8. CASE Output!MixerAdvances
  <2>1. slotMixer # Output!Gone /\ slotMixer.pc = "advance"
    BY <1>8 DEF Output!MixerAdvances, Output!Gone
  <2>2. slotMixer \in Writers
    BY <2>1 DEF Idlers
  <2>3. Len(slotMixer.slots) \in Nat
    BY <2>2 DEF Writers
  <2>4. Len(slotMixer.slots) \in 0..NumUpdates
    BY <2>1, <2>3, ReadSpaceIs, OutputAssumptions DEF RingServed, Slots, Output!Slot
  <2>5. ring' \in [w : Slots, r : Slots, there : BOOLEAN]
    BY <2>4, <1>8, PointersMove DEF Output!MixerAdvances
  <2>6. slotMixer' \in Writers
    BY <2>2, <1>8 DEF Output!MixerAdvances, Writers
  <2> QED BY <2>5, <2>6, <1>8 DEF Output!MixerAdvances
<1>9. CASE Output!MixerEnqueues
  <2>1. slotMixer # Output!Gone /\ slotMixer.pc = "enqueue"
    BY <1>9 DEF Output!MixerEnqueues, Output!Gone
  <2>2. slotMixer \in Writers
    BY <2>1 DEF Idlers
  <2>3. slotMixer.slots \in Seq(Slots) /\ slotMixer.slots # <<>>
    BY <2>1, <2>2 DEF RingServed, Writers
  <2>4. Head(slotMixer.slots) \in Slots /\ Tail(slotMixer.slots) \in Seq(Slots)
    BY <2>3, HeadTailProperties
  <2>5. CASE Output!Disconnects /\ UNCHANGED player
    BY <2>5, <1>9, <1>a DEF Output!MixerEnqueues, Output!Disconnects
  <2>6. CASE /\ player' = [player EXCEPT !.queue = Append(@, Head(slotMixer.slots))]
             /\ Output!MixerGoes(IF Len(slotMixer.slots) = 1 THEN [pc |-> "loop"]
                                 ELSE [slotMixer EXCEPT !.slots = Tail(@)])
             /\ UNCHANGED device
    <3>1. Append(player.queue, Head(slotMixer.slots)) \in Seq(Slots)
      BY <2>4
    <3>2. player' \in [queue : Seq(Slots), plays : BOOLEAN, registered : BOOLEAN]
      BY <2>6, <3>1
    <3>3. [slotMixer EXCEPT !.slots = Tail(@)] \in Writers
      BY <2>2, <2>4 DEF Writers
    <3> QED BY <2>6, <3>2, <3>3, <1>9, <1>b DEF Output!MixerEnqueues
  <2> QED BY <2>5, <2>6, <1>9 DEF Output!MixerEnqueues
<1> QED BY <1>1, <1>2, <1>3, <1>4, <1>5, <1>6, <1>7, <1>8, <1>9 DEF Output!mixerProc

PlayerStep == Output!Finishes \/ Output!ProcessAdvances \/ Output!ProcessPosts

LEMMA PlayerTyped ==
  ASSUME OutputRecords, PlayerStep
  PROVE  OutputRecords'
<1> USE DEF OutputRecords, Output!Thread, Output!Device
<1>1. CASE Output!Finishes
  <2>1. player.queue \in Seq(Slots) /\ player.queue # <<>>
    BY <1>1 DEF Output!Finishes
  <2>2. Head(player.queue) \in Slots /\ Tail(player.queue) \in Seq(Slots)
    BY <2>1, HeadTailProperties
  <2>3. player' \in [queue : Seq(Slots), plays : BOOLEAN, registered : BOOLEAN]
    BY <2>2, <1>1 DEF Output!Finishes
  <2>4. bufferCallback' \in [pc : {"idle", "post"}] \cup [pc : {"advance"}, slot : Slots]
    BY <2>2, <1>1 DEF Output!Finishes, Output!Idle
  <2> QED BY <2>3, <2>4, <1>1 DEF Output!Finishes
<1>2. CASE Output!ProcessAdvances
  <2>1. 1 \in 0..NumUpdates
    BY OutputAssumptions
  <2>2. ring' \in [w : Slots, r : Slots, there : BOOLEAN]
    BY <2>1, <1>2, PointersMove DEF Output!ProcessAdvances
  <2>3. bufferCallback' \in [pc : {"idle", "post"}] \cup [pc : {"advance"}, slot : Slots]
    BY <1>2 DEF Output!ProcessAdvances
  <2> QED BY <2>2, <2>3, <1>2 DEF Output!ProcessAdvances
<1>3. CASE Output!ProcessPosts
  <2>1. bufferCallback' \in [pc : {"idle", "post"}] \cup [pc : {"advance"}, slot : Slots]
    BY <1>3 DEF Output!ProcessPosts, Output!Idle
  <2> QED BY <2>1, <1>3, PostCounts DEF Output!ProcessPosts
<1> QED BY <1>1, <1>2, <1>3 DEF PlayerStep

OutputCalls == Output!Backend \/ Output!CallEnds \/ Output!CallBegins

LEMMA CallsTyped ==
  ASSUME OutputRecords, CallTyped, OutputCalls
  PROVE  OutputRecords' /\ CallTyped'
<1> USE DEF OutputRecords, CallTyped, CallPcs, Rests, Stops, Output!Idle, Output!CallGoes, Output!Returns,
            Output!Succeeds, Output!Thread, Output!Player, Output!Device
<1>1. CASE Output!StartCrashes
  BY <1>1 DEF Output!StartCrashes
<1>2. CASE Output!Start
  <2>1. ring' \in [w : Slots, r : Slots, there : BOOLEAN]
    BY <1>2, RingsAre DEF Output!Start
  <2>2. CASE /\ player' = [player EXCEPT !.registered = TRUE]
             /\ mKillNow' = FALSE
             /\ slotMixer' = [pc |-> "begin"]
             /\ Output!Succeeds([device EXCEPT !.running = TRUE])
    <3>1. player' \in [queue : Seq(Slots), plays : BOOLEAN, registered : BOOLEAN]
      BY <2>2
    <3>2. device' \in [connected : BOOLEAN, running : BOOLEAN, paused : BOOLEAN, context : BOOLEAN]
      <4>1. device' = [device EXCEPT !.running = TRUE, !.context = @ \/ call.rest = "create"]
        BY <2>2
      <4>2. (device.context \/ call.rest = "create") \in BOOLEAN
        OBVIOUS
      <4> QED BY <4>1, <4>2
    <3>3. slotMixer' \in Idlers
      BY <2>2 DEF Idlers
    <3> QED BY <2>1, <2>2, <3>1, <3>2, <3>3, <1>2 DEF Output!Start
  <2>3. CASE Output!Returns([device EXCEPT !.connected = FALSE]) /\ UNCHANGED <<mKillNow, slotMixer, player>>
    BY <2>1, <2>3, <1>2 DEF Output!Start
  <2> QED BY <2>2, <2>3, <1>2 DEF Output!Start
<1>3. CASE Output!StopKills
  <2>1. slotSem' \in 0..MaxSlotPosts
    BY <1>3, PostCounts DEF Output!StopKills
  <2>2. CallTyped'
    <3>1. call.pc = "stop" /\ call.rest \in Rests
      BY <1>3 DEF Output!StopKills
    <3>2. call' = [call EXCEPT !.pc = call.rest] \/ call' = [call EXCEPT !.pc = "join"]
      BY <1>3 DEF Output!StopKills
    <3>3. CASE call' = [call EXCEPT !.pc = call.rest]
      BY <3>1, <3>3
    <3>4. CASE call' = [call EXCEPT !.pc = "join"]
      BY <3>1, <3>4
    <3> QED BY <3>2, <3>3, <3>4
  <2> QED BY <2>1, <2>2, <1>3 DEF Output!StopKills
<1>4. CASE Output!StopJoins
  BY <1>4 DEF Output!StopJoins
<1>5. CASE Output!StopClears
  <2>1. <<>> \in Seq(Slots)
    BY NoneIsASeq
  <2>2. player' \in [queue : Seq(Slots), plays : BOOLEAN, registered : BOOLEAN]
    BY <2>1, <1>5 DEF Output!StopClears
  <2> QED BY <2>2, <1>5 DEF Output!StopClears
<1>6. CASE Output!StopEnds
  BY <1>6, RingsAre DEF Output!StopEnds
<1>7. CASE Output!Reset
  <2>1. ring' \in [w : Slots, r : Slots, there : BOOLEAN]
    BY <1>7, RingsAre DEF Output!Reset
  <2>2. player' \in [queue : Seq(Slots), plays : BOOLEAN, registered : BOOLEAN]
    BY <1>7, NoneIsASeq DEF Output!Reset, Output!NoPlayer
  <2>3. /\ device' \in [connected : BOOLEAN, running : BOOLEAN, paused : BOOLEAN, context : BOOLEAN]
        /\ CallTyped'
    <3>1. CASE Output!Returns([device EXCEPT !.connected = FALSE])
      BY <3>1
    <3>2. CASE Output!Succeeds(device)
      <4>1. (device.context \/ call.rest = "create") \in BOOLEAN
        OBVIOUS
      <4> QED BY <3>2, <4>1
    <3>3. CASE Output!CallGoes("start") /\ UNCHANGED device
      BY <3>3, <1>7 DEF Output!Reset
    <3> QED BY <3>1, <3>2, <3>3, <1>7 DEF Output!Reset
  <2> QED BY <2>1, <2>2, <2>3, <1>7 DEF Output!Reset
<1>8. CASE Output!PauseEnds
  BY <1>8 DEF Output!PauseEnds
<1>9. CASE Output!Reconnects
  BY <1>9 DEF Output!Reconnects
<1>10. CASE Output!ReopenGoesOn
  <2> DEFINE d == [device EXCEPT !.running = FALSE]
  <2>1. d \in [connected : BOOLEAN, running : BOOLEAN, paused : BOOLEAN, context : BOOLEAN]
    OBVIOUS
  <2>2. device' = d
    BY <1>10 DEF Output!ReopenGoesOn
  <2> HIDE DEF d
  <2>3. call' = [pc |-> "idle"] \/ call' = [call EXCEPT !.pc = "start"]
    BY <1>10 DEF Output!ReopenGoesOn
  <2>4. CallTyped'
    <3>1. CASE call' = [pc |-> "idle"]
      BY <3>1
    <3>2. CASE call' = [call EXCEPT !.pc = "start"]
      BY <3>2, <1>10 DEF Output!ReopenGoesOn
    <3> QED BY <2>3, <3>1, <3>2
  <2>5. device' \in [connected : BOOLEAN, running : BOOLEAN, paused : BOOLEAN, context : BOOLEAN]
    BY <2>1, <2>2
  <2>6. UNCHANGED <<ring, slotSem, mKillNow, slotMixer, player, bufferCallback>>
    BY <1>10 DEF Output!ReopenGoesOn
  <2>7. OutputRecords'
    BY <2>5, <2>6
  <2> QED BY <2>4, <2>7
<1>11. CASE Output!CreateContext
  BY <1>11 DEF Output!CreateContext
<1>12. CASE Output!DevicePause
  BY <1>12 DEF Output!DevicePause, Output!Stopping
<1>13. CASE Output!DeviceResume
  BY <1>13 DEF Output!DeviceResume
<1>14. CASE Output!ResetDevice
  BY <1>14 DEF Output!ResetDevice, Output!Stopping
<1>15. CASE Output!ReopenDevice
  BY <1>15 DEF Output!ReopenDevice, Output!Stopping
<1> QED
  BY <1>1, <1>2, <1>3, <1>4, <1>5, <1>6, <1>7, <1>8, <1>9, <1>10, <1>11, <1>12, <1>13, <1>14, <1>15
  DEF OutputCalls, Output!Backend, Output!CallEnds, Output!CallBegins
-----------------------------------------------------------------------------
(* An output that is off is still, and calls find it as they expect.       *)
Turns == OffIsStill /\ CallsInTurn

LEMMA MixerInTurn ==
  ASSUME OutputRecords, Turns, Output!mixerProc
  PROVE  Turns'
<1>1. slotMixer # Output!Gone
  BY DEF Output!Gone, Output!mixerProc, Output!MixerBegins, Output!MixerFails, Output!MixerLoops,
         Output!MixerPlays, Output!MixerLooksAgain, Output!MixerWaits, Output!MixerRenders,
         Output!MixerAdvances, Output!MixerEnqueues
<1>2. ~Off /\ call.pc # "clear"
  BY <1>1 DEF Turns, OffIsStill, CallsInTurn
<1>3. device' = device \/ device' = [device EXCEPT !.connected = FALSE]
  BY DEF Output!mixerProc, Output!MixerBegins, Output!MixerFails, Output!MixerLoops,
         Output!MixerPlays, Output!MixerLooksAgain, Output!MixerWaits, Output!MixerRenders,
         Output!MixerAdvances, Output!MixerEnqueues, Output!Device, Output!Disconnects
<1>4. UNCHANGED <<call, mKillNow>>
  BY DEF Output!mixerProc, Output!MixerBegins, Output!MixerFails, Output!MixerLoops,
         Output!MixerPlays, Output!MixerLooksAgain, Output!MixerWaits, Output!MixerRenders,
         Output!MixerAdvances, Output!MixerEnqueues, Output!Device, Output!Disconnects,
         Output!MixerGoes
<1>5. device'.running = device.running /\ device'.paused = device.paused
  BY <1>3 DEF OutputRecords
<1> QED BY <1>2, <1>4, <1>5 DEF Turns, OffIsStill, CallsInTurn, Off

LEMMA PlayerInTurn ==
  ASSUME OutputRecords, Turns, PlayerStep
  PROVE  Turns'
<1>1. ~(player.queue = <<>> /\ bufferCallback = Output!Idle)
  BY DEF PlayerStep, Output!Finishes, Output!ProcessAdvances, Output!ProcessPosts, Output!Idle
<1>2. UNCHANGED <<call, device, slotMixer, mKillNow>>
  BY DEF PlayerStep, Output!Finishes, Output!ProcessAdvances, Output!ProcessPosts,
         Output!Thread, Output!Device
<1>3. ~Off
  BY <1>1 DEF Turns, OffIsStill
<1> QED BY <1>2, <1>3 DEF Turns, OffIsStill, CallsInTurn, Off

LEMMA ResetReturns ==
  ASSUME OutputRecords, CallTyped, Output!Reset
  PROVE  /\ device'.running = device.running /\ device'.paused = device.paused
         /\ call'.pc = "idle" \/ (call'.pc = "start" /\ ~device.paused)
<1>1. \/ Output!Returns([device EXCEPT !.connected = FALSE])
      \/ Output!Succeeds(device)
      \/ ~device.paused /\ Output!CallGoes("start") /\ UNCHANGED device
  BY DEF Output!Reset
<1>2. CASE Output!Returns([device EXCEPT !.connected = FALSE])
  <2>1. PICK d : d = [device EXCEPT !.connected = FALSE]
    OBVIOUS
  <2>2. /\ d \in [connected : BOOLEAN, running : BOOLEAN, paused : BOOLEAN, context : BOOLEAN]
        /\ d.running = device.running /\ d.paused = device.paused
    BY <2>1 DEF OutputRecords
  <2>3. Output!Returns(d)
    BY <1>2, <2>1
  <2> QED BY <2>2, <2>3 DEF Output!Returns, Output!Idle
<1>3. CASE Output!Succeeds(device)
  BY <1>3 DEF OutputRecords, Output!Succeeds, Output!Returns, Output!Idle
<1>4. CASE ~device.paused /\ Output!CallGoes("start") /\ UNCHANGED device
  <2>1. call.pc = "reset"
    BY DEF Output!Reset
  <2>2. call'.pc = "start"
    BY <1>4, <2>1 DEF Output!CallGoes, CallTyped, CallPcs, Rests, Stops
  <2> QED BY <1>4, <2>2
<1> QED BY <1>1, <1>2, <1>3, <1>4

LEMMA CallsInTurnNext ==
  ASSUME OutputRecords, CallTyped, Turns, OutputCalls
  PROVE  Turns'
<1> USE DEF OutputRecords, CallTyped, Turns, OffIsStill, CallsInTurn, Off, CallPcs, Rests, Stops, Output!Idle,
            Output!CallGoes, Output!Returns, Output!Succeeds, Output!Thread, Output!Player, Output!Device
<1>1. CASE Output!StartCrashes
  BY <1>1 DEF Output!StartCrashes
<1>2. CASE Output!Start
  <2>1. CASE /\ mKillNow' = FALSE
             /\ Output!Succeeds([device EXCEPT !.running = TRUE])
    <3>1. device'.running /\ device'.paused = device.paused /\ call'.pc = "idle"
      BY <2>1
    <3> QED BY <2>1, <3>1, <1>2 DEF Output!Start
  <2>2. CASE Output!Returns([device EXCEPT !.connected = FALSE]) /\ UNCHANGED <<mKillNow, slotMixer, player>>
    BY <2>2, <1>2 DEF Output!Start
  <2> QED BY <2>1, <2>2, <1>2 DEF Output!Start
<1>3. CASE Output!StopKills
  BY <1>3 DEF Output!StopKills
<1>4. CASE Output!StopJoins
  BY <1>4 DEF Output!StopJoins
<1>5. CASE Output!StopClears
  BY <1>5 DEF Output!StopClears
<1>6. CASE Output!StopEnds
  BY <1>6 DEF Output!StopEnds
<1>7. CASE Output!Reset
  <2>1. player'.queue = <<>> /\ UNCHANGED <<slotMixer, mKillNow, bufferCallback>>
    BY <1>7 DEF Output!Reset, Output!NoPlayer
  <2>3. /\ device'.running = device.running /\ device'.paused = device.paused
        /\ call'.pc = "idle" \/ (call'.pc = "start" /\ ~device.paused)
    BY <1>7, ResetReturns
  <2>4. call.pc = "reset" /\ ~device.running
    BY <1>7 DEF Output!Reset
  <2>5. OffIsStill'
    BY <2>1, <2>4
  <2>6. CallsInTurn'
    BY <2>1, <2>3, <2>4
  <2> QED BY <2>5, <2>6
<1>8. CASE Output!PauseEnds
  BY <1>8 DEF Output!PauseEnds
<1>9. CASE Output!Reconnects
  BY <1>9 DEF Output!Reconnects
<1>10. CASE Output!ReopenGoesOn
  BY <1>10 DEF Output!ReopenGoesOn
<1>11. CASE Output!CreateContext
  BY <1>11 DEF Output!CreateContext
<1>12. CASE Output!DevicePause
  BY <1>12 DEF Output!DevicePause, Output!Stopping
<1>13. CASE Output!DeviceResume
  BY <1>13 DEF Output!DeviceResume
<1>14. CASE Output!ResetDevice
  BY <1>14 DEF Output!ResetDevice, Output!Stopping
<1>15. CASE Output!ReopenDevice
  BY <1>15 DEF Output!ReopenDevice, Output!Stopping
<1> QED
  BY <1>1, <1>2, <1>3, <1>4, <1>5, <1>6, <1>7, <1>8, <1>9, <1>10, <1>11, <1>12, <1>13, <1>14, <1>15
  DEF OutputCalls, Output!Backend, Output!CallEnds, Output!CallBegins

-----------------------------------------------------------------------------
(* The slots of the ring. *)
LEMMA RingStays ==
  ASSUME RingServed, UNCHANGED <<ring, bufferCallback>>,
         player'.queue = player.queue, player'.registered = player.registered,
         \/ slotMixer' = slotMixer
         \/ slotMixer # Output!Gone /\ slotMixer.pc \notin {"advance", "enqueue"}
              /\ \/ slotMixer'.pc \in {"loop", "play", "full", "wait", "gone"}
                 \/ slotMixer'.pc = "render" /\ Output!ReadSpace < NumUpdates
         \/ slotMixer' = Output!Gone
  PROVE  RingServed'
<1>1. Output!ReadSpace' = Output!ReadSpace
  BY DEF Output!ReadSpace
<1>2. Taken' = Taken
  BY DEF Taken
<1>3. Output!SlotsFrom(ring'.r, Output!ReadSpace') = Output!SlotsFrom(ring.r, Output!ReadSpace)
  BY <1>1
<1>4. CASE slotMixer' = slotMixer
  BY <1>1, <1>2, <1>3, <1>4 DEF RingServed, Given
<1>5. CASE slotMixer' = Output!Gone
  BY <1>5 DEF RingServed
<1>6. CASE slotMixer # Output!Gone /\ slotMixer.pc \notin {"advance", "enqueue"}
              /\ \/ slotMixer'.pc \in {"loop", "play", "full", "wait", "gone"}
                 \/ slotMixer'.pc = "render" /\ Output!ReadSpace < NumUpdates
  <2>1. Given' = <<>> /\ Given = <<>>
    BY <1>6 DEF Given
  <2> QED BY <1>1, <1>2, <1>3, <1>6, <2>1 DEF RingServed
<1> QED BY <1>4, <1>5, <1>6

LEMMA GoneIs == ASSUME OutputRecords PROVE slotMixer = Output!Gone <=> slotMixer.pc = "gone"
BY DEF OutputRecords, Output!Gone, Idlers, Writers

LEMMA PointersTyped ==
  ASSUME OutputRecords
  PROVE  /\ ring.w \in Slots /\ ring.r \in Slots
         /\ player.queue \in Seq(Slots) /\ Taken \in Seq(Slots) /\ Given \in Seq(Slots)
         /\ Output!ReadSpace \in Nat
<1>1. ring.w \in Slots /\ ring.r \in Slots
  BY DEF OutputRecords
<1>2. Output!ReadSpace \in Nat
  BY <1>1, ReadSpaceIs, OutputAssumptions DEF Slots, Output!Slot
<1>3. player.queue \in Seq(Slots)
  BY DEF OutputRecords
<1>4. Taken \in Seq(Slots)
  <2>1. CASE bufferCallback.pc = "advance"
    <3>1. bufferCallback.slot \in Slots
      BY <2>1 DEF OutputRecords
    <3> QED BY <3>1, <2>1 DEF Taken
  <2>2. CASE bufferCallback.pc # "advance"
    BY <2>2, NoneIsASeq DEF Taken
  <2> QED BY <2>1, <2>2
<1>5. Given \in Seq(Slots)
  <2>1. CASE slotMixer.pc = "enqueue"
    <3>1. slotMixer \in Writers
      BY <2>1 DEF OutputRecords, Idlers
    <3> QED BY <3>1, <2>1 DEF Given, Writers
  <2>2. CASE slotMixer.pc # "enqueue"
    BY <2>2, NoneIsASeq DEF Given
  <2> QED BY <2>1, <2>2
<1> QED BY <1>1, <1>2, <1>3, <1>4, <1>5

(* The ring holds as many slots as the three have. *)
LEMMA HeldByThree ==
  ASSUME OutputRecords, RingServed, slotMixer # Output!Gone
  PROVE  Output!ReadSpace = Len(Taken) + Len(player.queue) + Len(Given)
<1> DEFINE t == Taken
           q == player.queue
           g == Given
<1>1. t \in Seq(Slots) /\ q \in Seq(Slots) /\ g \in Seq(Slots)
  BY PointersTyped
<1>2. Output!ReadSpace \in 0..NumUpdates
  BY PointersTyped, OutputAssumptions DEF RingServed
<1>3. Len(Output!SlotsFrom(ring.r, Output!ReadSpace)) = Output!ReadSpace
  BY <1>2, PointersTyped, SlotsFromIs
<1>4. Output!SlotsFrom(ring.r, Output!ReadSpace) = (t \o q) \o g
  BY DEF RingServed
<1> HIDE DEF t, q, g
<1>5. t \o q \in Seq(Slots) /\ Len(t \o q) = Len(t) + Len(q)
  BY <1>1, ConcatProperties
<1>6. Len((t \o q) \o g) = Len(t \o q) + Len(g)
  BY <1>1, <1>5, ConcatProperties
<1>7. Output!ReadSpace = Len(t) + Len(q) + Len(g)
  BY <1>3, <1>4, <1>5, <1>6
<1> QED BY <1>7 DEF t, q, g

(* The thread: what it renders into is free and next, and is then queued.  *)
LEMMA RendersInTurn ==
  ASSUME OutputRecords, RingServed, Output!MixerRenders
  PROVE  RingServed'
<1>1. slotMixer # Output!Gone /\ slotMixer.pc = "render"
  BY DEF Output!MixerRenders, Output!Gone
<1>2. Output!ReadSpace \in Nat /\ Output!ReadSpace < NumUpdates
  BY <1>1, PointersTyped DEF RingServed
<1>3. Output!WriteSpace = NumUpdates - Output!ReadSpace
  <2>1. Output!ReadSpace <= NumUpdates
    BY <1>1 DEF RingServed
  <2> QED BY <2>1, PointersTyped, WriteSpaceIs
<1>4. Output!WriteSpace \in 1..NumUpdates /\ Output!WriteSpace + Output!ReadSpace <= NumUpdates
  BY <1>2, <1>3, OutputAssumptions
<1> DEFINE s == Output!SlotsFrom(ring.w, Output!WriteSpace)
<1>5. s \in Seq(Slots) /\ Len(s) = Output!WriteSpace
  BY <1>4, PointersTyped, SlotsFromIs
<1>6. s # <<>>
  BY <1>4, <1>5, EmptySeq
<1>7. slotMixer' = [pc |-> "advance", slots |-> s] /\ UNCHANGED <<ring, player, bufferCallback>>
  BY DEF Output!MixerRenders, Output!MixerGoes, Output!Player
<1>8. s = Output!SlotsFrom(ring.w, Len(s))
  BY <1>5
<1> HIDE DEF s
<1>9. /\ slotMixer'.pc = "advance" /\ slotMixer'.slots = s
      /\ Given = <<>> /\ Given' = <<>> /\ Taken' = Taken
      /\ Output!ReadSpace' = Output!ReadSpace
      /\ ring' = ring /\ player' = player
  BY <1>1, <1>7 DEF Given, Taken, Output!ReadSpace
<1>10. Output!SlotsFrom(ring'.w, Len(s)) = s
  BY <1>8, <1>9
<1>11. Output!SlotsFrom(ring'.r, Output!ReadSpace') = Taken' \o player'.queue \o Given'
  BY <1>1, <1>9 DEF RingServed
<1>12. slotMixer'.slots = Output!SlotsFrom(ring'.w, Len(slotMixer'.slots))
  BY <1>9, <1>10
<1>13. Len(slotMixer'.slots) + Output!ReadSpace' <= NumUpdates /\ slotMixer'.slots # <<>>
  BY <1>4, <1>5, <1>6, <1>9
<1>14. player'.registered /\ Output!ReadSpace' <= NumUpdates
  BY <1>1, <1>9 DEF RingServed
<1> QED BY <1>9, <1>11, <1>12, <1>13, <1>14 DEF RingServed

LEMMA AdvancesInTurn ==
  ASSUME OutputRecords, RingServed, Output!MixerAdvances
  PROVE  RingServed'
<1> DEFINE s == slotMixer.slots
           n == Len(s)
           k == Output!ReadSpace
           t == Taken
           q == player.queue
<1>1. slotMixer # Output!Gone /\ slotMixer.pc = "advance"
  BY DEF Output!MixerAdvances, Output!Gone
<1>2. slotMixer \in Writers
  BY <1>1 DEF OutputRecords, Idlers
<1>3. s \in Seq(Slots) /\ n \in Nat
  BY <1>2 DEF Writers
<1>4. s # <<>> /\ n + k <= NumUpdates /\ s = Output!SlotsFrom(ring.w, n)
  BY <1>1 DEF RingServed
<1>5. k \in Nat /\ ring.w \in Slots /\ ring.r \in Slots /\ q \in Seq(Slots) /\ t \in Seq(Slots)
  BY PointersTyped
<1>6. n \in 0..NumUpdates /\ k \in 0..NumUpdates /\ n + k \in 0..NumUpdates /\ NumUpdates \in Nat
  BY <1>3, <1>4, <1>5, OutputAssumptions
<1>7. ring.w = Onwards(ring.r, k)
  BY <1>5, <1>6, WriteIsOnwards
<1>8. /\ ring'.w = Onwards(ring.w, n) /\ ring'.r = ring.r
      /\ slotMixer' = [slotMixer EXCEPT !.pc = "enqueue"]
      /\ UNCHANGED <<player, bufferCallback>>
  BY DEF Output!MixerAdvances, Output!MixerGoes, Output!Player, Onwards, Output!Cells, OutputRecords
<1>9. ring'.w = Onwards(ring.r, k + n)
  BY <1>3, <1>5, <1>6, <1>7, <1>8, OnwardsTwice
<1>10. ring'.w \in Slots
  BY <1>5, <1>6, <1>8, OnwardsIs
<1>11. Output!ReadSpace' = k + n
  <2>1. PICK a \in Slots, b \in Slots : a = ring'.w /\ b = ring.r
    BY <1>5, <1>10
  <2>2. PICK j \in 0..NumUpdates : j = k + n
    BY <1>6
  <2>3. PICK m \in Nat \ {0} : m = Output!PowerOfTwo /\ NumUpdates < m
    BY OutputAssumptions
  <2>4. a = IF b + j < m THEN b + j ELSE b + j - m
    BY <1>9, <2>1, <2>2, <2>3, OnwardsIs
  <2>5. a \in 0..(m - 1) /\ b \in 0..(m - 1)
    BY <2>1, <2>3 DEF Slots, Output!Slot, Output!Cells
  <2>6. Output!ReadSpace' = (a - b) % m
    BY <1>8, <2>1, <2>3 DEF Output!ReadSpace, Output!Cells
  <2>7. PICK y : y = a - b
    OBVIOUS
  <2>8. y \in Int /\ 0 <= y + m /\ y < 2 * m /\ y < m /\ NumUpdates \in Nat
    BY <2>3, <2>5, <2>7, <1>6
  <2>9. y % m = IF y < 0 THEN y + m ELSE IF y < m THEN y ELSE y - m
    BY <2>3, <2>8, Wraps
  <2>10. (IF y < 0 THEN y + m ELSE y) = j
    <3>1. j \in Nat /\ j < m /\ m \in Nat /\ b \in Nat
      BY <2>2, <2>3, <2>5, <1>6
    <3>2. CASE b + j < m
      BY <3>1, <3>2, <2>4, <2>7
    <3>3. CASE ~(b + j < m)
      BY <3>1, <3>3, <2>4, <2>7
    <3> QED BY <3>2, <3>3
  <2> QED BY <2>2, <2>6, <2>7, <2>8, <2>9, <2>10
<1>12. Output!SlotsFrom(ring.r, k) \o s = Output!SlotsFrom(ring.r, k + n)
  <2>1. k + n <= NumUpdates
    BY <1>6
  <2> HIDE DEF k
  <2>2. Output!SlotsFrom(ring.r, k) \o Output!SlotsFrom(Onwards(ring.r, k), n) = Output!SlotsFrom(ring.r, k + n)
    BY <2>1, <1>3, <1>5, SlotsJoined
  <2> QED BY <2>2, <1>4, <1>7
<1>13. Given = <<>> /\ Output!SlotsFrom(ring.r, k) = (t \o q) \o Given
  BY <1>1 DEF RingServed, Given
<1>14. (t \o q) \o Given = t \o q
  <2>1. t \o q \in Seq(Slots)
    BY <1>5, ConcatProperties
  <2> QED BY <2>1, <1>13, ConcatEmptySeq
<1>15. slotMixer'.pc = "enqueue" /\ slotMixer'.slots = s
  BY <1>2, <1>8 DEF Writers
<1>16. Given' = s /\ Taken' = t /\ player' = player
  BY <1>8, <1>15 DEF Given, Taken
<1> HIDE DEF s, n, k, t, q
<1>17. Output!SlotsFrom(ring'.r, Output!ReadSpace') = Taken' \o player'.queue \o Given'
  <2>1. Output!SlotsFrom(ring'.r, Output!ReadSpace') = Output!SlotsFrom(ring.r, k + n)
    BY <1>8, <1>11
  <2> QED BY <2>1, <1>12, <1>13, <1>14, <1>16 DEF q
<1>18. player'.registered /\ Output!ReadSpace' <= NumUpdates
  <2>1. player.registered
    BY <1>1 DEF RingServed
  <2> QED BY <2>1, <1>16, <1>6, <1>11
<1> QED BY <1>4, <1>15, <1>17, <1>18 DEF RingServed
LEMMA HeadFirst ==
  ASSUME NEW s \in Seq(Slots), s # <<>>
  PROVE  <<Head(s)>> \o Tail(s) = s
<1>1. Len(s) \in Nat /\ Len(s) # 0
  BY EmptySeq
<1>2. SubSeq(s, 1, Len(s)) = s
  BY SubSeqFull
<1>3. 1 \in 1..Len(s) /\ Len(s) \in 1..Len(s)
  BY <1>1
<1>4. SubSeq(s, 1, Len(s)) = <<s[1]>> \o SubSeq(s, 1 + 1, Len(s))
  BY <1>3, SubSeqRecursiveFirst
<1>5. Tail(s) = SubSeq(s, 2, Len(s))
  BY TailIsSubSeq
<1>6. s[1] = Head(s)
  OBVIOUS
<1> QED BY <1>2, <1>4, <1>5, <1>6

LEMMA EnqueuesInTurn ==
  ASSUME OutputRecords, RingServed, Output!MixerEnqueues
  PROVE  RingServed'
<1> DEFINE s == slotMixer.slots
           t == Taken
           q == player.queue
<1>1. slotMixer # Output!Gone /\ slotMixer.pc = "enqueue"
  BY DEF Output!MixerEnqueues, Output!Gone
<1>2. slotMixer \in Writers
  BY <1>1 DEF OutputRecords, Idlers
<1>3. s \in Seq(Slots) /\ s # <<>> /\ Given = s
  BY <1>1, <1>2 DEF Writers, RingServed, Given
<1>4. q \in Seq(Slots) /\ t \in Seq(Slots)
  BY PointersTyped
<1>5. Head(s) \in Slots /\ Tail(s) \in Seq(Slots) /\ Len(Tail(s)) = Len(s) - 1
  BY <1>3, HeadTailProperties
<1>6. UNCHANGED <<ring, bufferCallback>>
  BY DEF Output!MixerEnqueues
<1>7. CASE Output!Disconnects
  BY <1>7 DEF Output!Disconnects, Output!MixerGoes, RingServed
<1>8. CASE /\ player' = [player EXCEPT !.queue = Append(@, Head(slotMixer.slots))]
           /\ Output!MixerGoes(IF Len(slotMixer.slots) = 1 THEN [pc |-> "loop"]
                               ELSE [slotMixer EXCEPT !.slots = Tail(@)])
  <2>1. player'.queue = Append(q, Head(s)) /\ player'.registered = player.registered
    BY <1>8 DEF OutputRecords
  <2>2. /\ Given' = Tail(s)
        /\ \/ slotMixer'.pc = "loop"
           \/ slotMixer'.pc = "enqueue" /\ slotMixer'.slots # <<>>
    <3>1. CASE Len(s) = 1
      <4>1. slotMixer' = [pc |-> "loop"]
        BY <3>1, <1>8 DEF Output!MixerGoes
      <4>2. Len(Tail(s)) = 0
        BY <3>1, <1>5
      <4>3. Tail(s) = <<>>
        BY <4>2, <1>5, EmptySeq
      <4> QED BY <4>1, <4>3 DEF Given
    <3>2. CASE Len(s) # 1
      <4>1. slotMixer' = [slotMixer EXCEPT !.slots = Tail(s)]
        BY <3>2, <1>8 DEF Output!MixerGoes
      <4>2. slotMixer'.pc = "enqueue" /\ slotMixer'.slots = Tail(s)
        BY <4>1, <1>1, <1>2 DEF Writers
      <4>3. Tail(s) # <<>>
        <5>1. Len(s) \in Nat
          BY <1>3, LenProperties
        <5>2. Len(Tail(s)) # 0
          BY <3>2, <5>1, <1>5
        <5> QED BY <5>2, EmptySeq
      <4> QED BY <4>2, <4>3 DEF Given
    <3> QED BY <3>1, <3>2
  <2>3. (t \o Append(q, Head(s))) \o Tail(s) = (t \o q) \o s
    <3> HIDE DEF s, t, q
    <3>1. PICK x \in Slots : x = Head(s)
      BY <1>5
    <3>2. PICK u \in Seq(Slots) : u = Tail(s)
      BY <1>5
    <3>3. s = <<x>> \o u
      BY <3>1, <3>2, <1>3, HeadFirst
    <3>4. Append(q, x) = q \o <<x>>
      BY <1>4, AppendIsConcat
    <3>5. <<x>> \in Seq(Slots)
      OBVIOUS
    <3>6. t \o (q \o <<x>>) = (t \o q) \o <<x>>
      BY <3>5, <1>4, ConcatAssociative
    <3>7. t \o q \in Seq(Slots)
      BY <1>4, ConcatProperties
    <3>8. ((t \o q) \o <<x>>) \o u = (t \o q) \o (<<x>> \o u)
      BY <3>5, <3>7, ConcatAssociative
    <3> QED BY <3>1, <3>2, <3>3, <3>4, <3>6, <3>8
  <2>4. Output!SlotsFrom(ring.r, Output!ReadSpace) = (t \o q) \o s
    BY <1>1, <1>3 DEF RingServed
  <2>5. Output!ReadSpace' = Output!ReadSpace /\ Taken' = t /\ ring' = ring
    BY <1>6 DEF Output!ReadSpace, Taken
  <2>6. player'.registered /\ Output!ReadSpace' <= NumUpdates
    BY <1>1, <2>1, <2>5 DEF RingServed
  <2> HIDE DEF s, t, q
  <2>7. Output!SlotsFrom(ring'.r, Output!ReadSpace') = Taken' \o player'.queue \o Given'
    BY <2>1, <2>2, <2>3, <2>4, <2>5
  <2> QED BY <2>2, <2>6, <2>7 DEF RingServed
<1> QED BY <1>7, <1>8 DEF Output!MixerEnqueues

LEMMA MixerServesRing ==
  ASSUME OutputRecords, RingServed, Output!mixerProc
  PROVE  RingServed'
<1> USE DEF Output!MixerGoes, Output!Player, Output!Device
<1>1. CASE Output!MixerBegins
  BY <1>1, RingStays DEF Output!MixerBegins, Output!Gone
<1>2. CASE Output!MixerFails
  BY <1>2, RingStays DEF Output!MixerFails, Output!Disconnects
<1>3. CASE Output!MixerLoops
  <2>1. slotMixer # Output!Gone /\ slotMixer.pc = "loop"
    BY <1>3 DEF Output!MixerLoops, Output!Gone
  <2>2. Output!WriteSpace # 0 => Output!ReadSpace < NumUpdates
    BY <2>1, PointersTyped, WriteSpaceIs, OutputAssumptions DEF RingServed
  <2> QED BY <2>1, <2>2, <1>3, RingStays DEF Output!MixerLoops
<1>4. CASE Output!MixerPlays
  <2>1. player'.queue = player.queue /\ player'.registered = player.registered
    BY <1>4 DEF Output!MixerPlays, OutputRecords
  <2>2. slotMixer # Output!Gone /\ slotMixer.pc = "play"
    BY <1>4 DEF Output!MixerPlays, Output!Gone
  <2>3. slotMixer'.pc = "full" \/ slotMixer' = Output!Gone
    BY <1>4 DEF Output!MixerPlays, Output!Disconnects
  <2> QED BY <2>1, <2>2, <2>3, <1>4, RingStays DEF Output!MixerPlays
<1>5. CASE Output!MixerLooksAgain
  <2>1. slotMixer # Output!Gone /\ slotMixer.pc = "full"
    BY <1>5 DEF Output!MixerLooksAgain, Output!Gone
  <2>2. Output!WriteSpace # 0 => Output!ReadSpace < NumUpdates
    BY <2>1, PointersTyped, WriteSpaceIs, OutputAssumptions DEF RingServed
  <2> QED BY <2>1, <2>2, <1>5, RingStays DEF Output!MixerLooksAgain
<1>6. CASE Output!MixerWaits
  BY <1>6, RingStays DEF Output!MixerWaits, Output!Gone
<1> QED
  BY <1>1, <1>2, <1>3, <1>4, <1>5, <1>6, RendersInTurn, AdvancesInTurn, EnqueuesInTurn
  DEF Output!mixerProc

-----------------------------------------------------------------------------
(* The player: what it is done with goes, first of all. *)
LEMMA FinishesInTurn ==
  ASSUME OutputRecords, RingServed, Output!Finishes
  PROVE  RingServed'
<1> SUFFICES ASSUME slotMixer' # Output!Gone PROVE RingServed'
  BY DEF RingServed
<1>1. UNCHANGED <<ring, slotMixer>> /\ bufferCallback = Output!Idle
  BY DEF Output!Finishes, Output!Thread
<1>2. slotMixer # Output!Gone /\ player.registered
  BY <1>1 DEF RingServed
<1> DEFINE q == player.queue
           g == Given
<1>3. q \in Seq(Slots) /\ q # <<>> /\ g \in Seq(Slots)
  BY PointersTyped DEF Output!Finishes
<1>4. Head(q) \in Slots /\ Tail(q) \in Seq(Slots)
  BY <1>3, HeadTailProperties
<1>5. /\ player' = [player EXCEPT !.queue = Tail(q)]
      /\ bufferCallback' = [pc |-> "advance", slot |-> Head(q)]
  BY <1>2 DEF Output!Finishes
<1>6. player'.queue = Tail(q) /\ player'.registered
  BY <1>2, <1>5 DEF OutputRecords
<1>7. Taken = <<>> /\ Taken' = <<Head(q)>> /\ Given' = g
  BY <1>1, <1>5 DEF Taken, Given, Output!Idle
<1>8. Output!ReadSpace' = Output!ReadSpace
  BY <1>1 DEF Output!ReadSpace
<1>9. Output!SlotsFrom(ring.r, Output!ReadSpace) = (<<>> \o q) \o g
  BY <1>2, <1>7 DEF RingServed
<1> HIDE DEF q, g
<1>10. <<>> \o q = q
  BY <1>3, ConcatEmptySeq
<1>11. <<Head(q)>> \o Tail(q) = q
  BY <1>3, HeadFirst
<1>12. Output!SlotsFrom(ring'.r, Output!ReadSpace') = Taken' \o player'.queue \o Given'
  BY <1>1, <1>6, <1>7, <1>8, <1>9, <1>10, <1>11
<1> QED BY <1>1, <1>2, <1>6, <1>8, <1>12 DEF RingServed

LEMMA AdvancesReadInTurn ==
  ASSUME OutputRecords, RingServed, Output!ProcessAdvances
  PROVE  RingServed'
<1> SUFFICES ASSUME slotMixer' # Output!Gone PROVE RingServed'
  BY DEF RingServed
<1> DEFINE k == Output!ReadSpace
           q == player.queue
           g == Given
           x == bufferCallback.slot
<1>1. UNCHANGED <<slotMixer, player>> /\ bufferCallback.pc = "advance" /\ bufferCallback'.pc = "post"
  BY DEF Output!ProcessAdvances, Output!Thread
<1>2. slotMixer # Output!Gone /\ player.registered /\ k <= NumUpdates
  BY <1>1 DEF RingServed
<1>3. /\ x \in Slots /\ Taken = <<x>>
      /\ q \in Seq(Slots) /\ g \in Seq(Slots) /\ k \in Nat /\ ring.w \in Slots /\ ring.r \in Slots
  <2>1. x \in Slots
    BY <1>1 DEF OutputRecords
  <2> QED BY <2>1, <1>1, PointersTyped DEF Taken
<1>4. Len(q) \in Nat /\ Len(g) \in Nat
  BY <1>3, LenProperties
<1>5. k = 1 + Len(q) + Len(g)
  <2>1. k = Len(Taken) + Len(q) + Len(g)
    BY <1>2, HeldByThree
  <2> QED BY <2>1, <1>3
<1>6. k \in 1..NumUpdates
  BY <1>2, <1>4, <1>5, OutputAssumptions
<1>7. q \o g \in Seq(Slots)
  BY <1>3, ConcatProperties
<1>8. Output!SlotsFrom(ring.r, k) = <<x>> \o (q \o g)
  <2>1. Output!SlotsFrom(ring.r, k) = (<<x>> \o q) \o g
    BY <1>2, <1>3 DEF RingServed
  <2>2. <<x>> \in Seq(Slots)
    BY <1>3
  <2> HIDE DEF x, q, g, k
  <2> QED BY <2>1, <2>2, <1>3, ConcatAssociative
<1>9. ring'.r = Onwards(ring.r, 1) /\ ring'.w = ring.w
  BY DEF Output!ProcessAdvances, Onwards, Output!Cells, OutputRecords
<1>10. ring'.r \in Slots /\ ring'.w \in Slots
  <2>1. 1 \in 0..NumUpdates
    BY OutputAssumptions
  <2> QED BY <2>1, <1>3, <1>9, OnwardsIs
<1>11. Output!ReadSpace' = k - 1
  <2>1. PICK m \in Nat \ {0} : m = Output!PowerOfTwo /\ NumUpdates < m /\ NumUpdates \in Nat
    BY OutputAssumptions
  <2>2. PICK a \in 0..(m - 1), b \in 0..(m - 1), c \in 0..(m - 1) : a = ring.w /\ b = ring.r /\ c = ring'.r
    BY <2>1, <1>3, <1>10 DEF Slots, Output!Slot, Output!Cells
  <2>3. k = IF a >= b THEN a - b ELSE a - b + m
    BY <2>1, <2>2, <1>3, ReadSpaceIs
  <2>4. c = IF b + 1 < m THEN b + 1 ELSE b + 1 - m
    <3>1. 1 \in 0..NumUpdates
      BY OutputAssumptions
    <3> QED BY <3>1, <2>1, <2>2, <1>3, <1>9, OnwardsIs
  <2>5. Output!ReadSpace' = (a - c) % m
    BY <2>1, <2>2, <1>9 DEF Output!ReadSpace, Output!Cells
  <2>6. PICK y : y = a - c
    OBVIOUS
  <2>7. y \in Int /\ 0 <= y + m /\ y < m /\ y < 2 * m
    BY <2>2, <2>6
  <2>8. y % m = IF y < 0 THEN y + m ELSE IF y < m THEN y ELSE y - m
    BY <2>7, Wraps
  <2>9. (IF y < 0 THEN y + m ELSE y) = k - 1
    <3> HIDE DEF k
    <3>1. CASE b + 1 < m
      BY <3>1, <2>2, <2>3, <2>4, <2>6, <1>6
    <3>2. CASE ~(b + 1 < m)
      BY <3>2, <2>2, <2>3, <2>4, <2>6, <1>6
    <3> QED BY <3>1, <3>2
  <2> QED BY <2>5, <2>6, <2>7, <2>8, <2>9
<1>12. Output!SlotsFrom(Onwards(ring.r, 1), k - 1) = q \o g
  <2> HIDE DEF k, q, g, x
  <2> QED BY <1>3, <1>6, <1>7, <1>8, SlotsAfterFirst
<1>13. Taken' = <<>> /\ Given' = g /\ player' = player
  BY <1>1 DEF Taken, Given
<1>14. <<>> \o q = q
  BY <1>3, ConcatEmptySeq
<1> HIDE DEF k, q, g, x
<1>15. Output!SlotsFrom(ring'.r, Output!ReadSpace') = Taken' \o player'.queue \o Given'
  BY <1>9, <1>11, <1>12, <1>13, <1>14 DEF q
<1>16. Output!ReadSpace' <= NumUpdates /\ (Output!ReadSpace < NumUpdates => Output!ReadSpace' < NumUpdates)
       /\ Output!ReadSpace' < Output!ReadSpace
  BY <1>6, <1>11, OutputAssumptions DEF k
<1>17. slotMixer'.pc = "render" => Output!ReadSpace' < NumUpdates
  BY <1>1, <1>2, <1>16 DEF RingServed
<1>18. slotMixer'.pc = "advance" =>
         /\ slotMixer'.slots # <<>>
         /\ Len(slotMixer'.slots) + Output!ReadSpace' <= NumUpdates
         /\ slotMixer'.slots = Output!SlotsFrom(ring'.w, Len(slotMixer'.slots))
  <2> SUFFICES ASSUME slotMixer.pc = "advance"
               PROVE  /\ slotMixer.slots # <<>>
                      /\ Len(slotMixer.slots) + Output!ReadSpace' <= NumUpdates
                      /\ slotMixer.slots = Output!SlotsFrom(ring.w, Len(slotMixer.slots))
    BY <1>1, <1>9
  <2>1. slotMixer.slots # <<>> /\ Len(slotMixer.slots) + k <= NumUpdates
        /\ slotMixer.slots = Output!SlotsFrom(ring.w, Len(slotMixer.slots))
    BY <1>2 DEF RingServed, k
  <2>2. slotMixer \in Writers
    BY DEF OutputRecords, Idlers
  <2>3. Len(slotMixer.slots) \in Nat
    BY <2>2 DEF Writers
  <2>4. Len(slotMixer.slots) + (k - 1) <= NumUpdates
    BY <2>1, <2>3, <1>6, OutputAssumptions
  <2> QED BY <2>1, <2>4, <1>11
<1>19. slotMixer'.pc = "enqueue" => slotMixer'.slots # <<>>
  BY <1>1, <1>2 DEF RingServed
<1> QED BY <1>1, <1>2, <1>13, <1>15, <1>16, <1>17, <1>18, <1>19 DEF RingServed

LEMMA PlayerServesRing ==
  ASSUME OutputRecords, RingServed, PlayerStep
  PROVE  RingServed'
<1>1. CASE Output!ProcessPosts
  <2>1. Taken' = Taken /\ Given' = Given /\ Output!ReadSpace' = Output!ReadSpace
    BY <1>1 DEF Output!ProcessPosts, Taken, Given, Output!Idle, Output!ReadSpace, Output!Thread
  <2>2. UNCHANGED <<ring, player, slotMixer>>
    BY <1>1 DEF Output!ProcessPosts, Output!Thread
  <2> QED BY <2>1, <2>2 DEF RingServed
<1> QED BY <1>1, FinishesInTurn, AdvancesReadInTurn DEF PlayerStep

(* A call has to do with the ring only while no thread does. *)
LEMMA CallsServeRing ==
  ASSUME OutputRecords, Turns, RingServed, OutputCalls
  PROVE  RingServed'
<1> USE DEF Output!Thread, Output!Player, Output!Device
<1>1. CASE Output!Start
  <2>1. /\ player.queue = <<>> /\ bufferCallback = Output!Idle /\ slotMixer = Output!Gone
    BY <1>1 DEF Output!Start, Turns, OffIsStill, Off
  <2>2. CASE UNCHANGED slotMixer
    BY <2>1, <2>2 DEF RingServed
  <2>3. CASE player' = [player EXCEPT !.registered = TRUE] /\ slotMixer' = [pc |-> "begin"]
    <3>1. player'.queue = <<>> /\ player'.registered
      BY <2>1, <2>3 DEF OutputRecords
    <3>2. Taken' = <<>> /\ Given' = <<>>
      BY <1>1, <2>1, <2>3 DEF Output!Start, Taken, Given, Output!Idle
    <3>3. ring' = Output!EmptyRing
      BY <1>1 DEF Output!Start
    <3>4. PICK m \in Nat \ {0} : m = Output!PowerOfTwo
      BY OutputAssumptions
    <3>5. Output!ReadSpace' = (0 - 0) % m
      BY <3>3, <3>4 DEF Output!ReadSpace, Output!EmptyRing, Output!Cells
    <3>6. Output!ReadSpace' = 0
      BY <3>4, <3>5
    <3>7. Output!SlotsFrom(ring'.r, 0) = <<>>
      <4>1. 0 \in Slots /\ 0 \in 0..NumUpdates
        BY OutputAssumptions DEF Slots, Output!Slot, Output!Cells
      <4>2. Output!SlotsFrom(0, 0) \in Seq(Slots) /\ Len(Output!SlotsFrom(0, 0)) = 0
        BY <4>1, SlotsFromIs
      <4>3. Output!SlotsFrom(0, 0) = <<>>
        BY <4>2, EmptySeq
      <4> QED BY <4>3, <3>3 DEF Output!EmptyRing
    <3>8. <<>> \o <<>> \o <<>> = <<>>
      OBVIOUS
    <3> QED BY <2>3, <3>1, <3>2, <3>6, <3>7, <3>8, OutputAssumptions DEF RingServed
  <2> QED BY <2>2, <2>3, <1>1 DEF Output!Start
<1>2. CASE Output!StopJoins \/ Output!StopClears \/ Output!StopEnds \/ Output!Reset
  <2>1. slotMixer = Output!Gone
    BY <1>2 DEF Output!StopJoins, Output!StopClears, Output!StopEnds, Output!Reset,
                Turns, OffIsStill, Off, CallsInTurn
  <2>2. slotMixer' = slotMixer
    BY <1>2 DEF Output!StopJoins, Output!StopClears, Output!StopEnds, Output!Reset
  <2> QED BY <2>1, <2>2 DEF RingServed
<1>3. CASE UNCHANGED <<ring, bufferCallback, player, slotMixer>>
  BY <1>3, RingStays
<1>4. Output!StartCrashes \/ Output!StopKills \/ Output!CallEnds \/ Output!CallBegins
        => UNCHANGED <<ring, bufferCallback, player, slotMixer>>
  BY DEF Output!StartCrashes, Output!StopKills, Output!CallEnds, Output!PauseEnds, Output!Reconnects,
         Output!ReopenGoesOn, Output!CallBegins, Output!CreateContext, Output!DevicePause,
         Output!DeviceResume, Output!ResetDevice, Output!ReopenDevice
<1> QED BY <1>1, <1>2, <1>3, <1>4 DEF OutputCalls, Output!Backend

-----------------------------------------------------------------------------
(* The invariant holds throughout, and says what the runs check. *)
LEMMA OutputKeptFirst == Output!Init => OutputKept
<1> SUFFICES ASSUME Output!Init PROVE OutputKept
  OBVIOUS
<1> USE DEF Output!Init, Output!Idle, Output!Gone, Output!NoPlayer
<1>1. OutputRecords /\ CallTyped
  BY RingsAre, NoneIsASeq, OutputAssumptions DEF OutputRecords, CallTyped, Idlers, Stops
<1>2. Outputs
  BY <1>1, OutputsAre
<1>3. OffIsStill /\ CallsInTurn
  BY DEF OffIsStill, CallsInTurn, Stops
<1>4. RingServed
  BY DEF RingServed
<1> QED BY <1>2, <1>3, <1>4 DEF OutputKept

LEMMA OutputKeptNext == OutputKept /\ [Output!Next]_(Output!vars) => OutputKept'
<1> SUFFICES ASSUME OutputKept, [Output!Next]_(Output!vars) PROVE OutputKept'
  OBVIOUS
<1>1. OutputRecords /\ CallTyped /\ Turns /\ RingServed
  BY OutputsAre DEF OutputKept, Turns
<1>2. (Outputs <=> OutputRecords /\ CallTyped)'
  BY DEF Outputs, OutputRecords, CallTyped, Output!TypeOK, Slots, Idlers, Writers
<1>3. OutputRecords' /\ CallTyped' /\ Turns' /\ RingServed'
  <2>1. CASE Output!mixerProc
    <3>1. CallTyped'
      <4>1. call' = call
        BY <2>1 DEF Output!mixerProc, Output!MixerBegins, Output!MixerFails, Output!MixerLoops,
           Output!MixerPlays, Output!MixerLooksAgain, Output!MixerWaits, Output!MixerRenders,
           Output!MixerAdvances, Output!MixerEnqueues, Output!Device
      <4> QED BY <4>1, <1>1 DEF CallTyped
    <3> QED BY <3>1, <2>1, <1>1, MixerTyped, MixerInTurn, MixerServesRing
  <2>2. CASE PlayerStep
    <3>1. CallTyped'
      BY <2>2, <1>1 DEF PlayerStep, Output!Finishes, Output!ProcessAdvances, Output!ProcessPosts,
         Output!Device, CallTyped
    <3> QED BY <3>1, <2>2, <1>1, PlayerTyped, PlayerInTurn, PlayerServesRing
  <2>3. CASE OutputCalls
    BY <2>3, <1>1, CallsTyped, CallsInTurnNext, CallsServeRing
  <2>4. CASE UNCHANGED Output!vars
    <3>1. OutputRecords' /\ CallTyped'
      BY <2>4, <1>1 DEF Output!vars, OutputRecords, CallTyped
    <3>2. Turns'
      BY <2>4, <1>1 DEF Output!vars, Turns, OffIsStill, Off, CallsInTurn
    <3>3. RingServed'
      BY <2>4, <1>1, RingStays DEF Output!vars
    <3> QED BY <3>1, <3>2, <3>3
  <2> QED BY <2>1, <2>2, <2>3, <2>4 DEF Output!Next, PlayerStep, OutputCalls
<1> QED BY <1>2, <1>3 DEF OutputKept, Turns

LEMMA OutputIsKept == Output!Spec => []OutputKept
BY OutputKeptFirst, OutputKeptNext, PTL DEF Output!Spec

LEMMA OutputKeptIsInv == OutputKept => Output!Inv
<1> SUFFICES ASSUME OutputKept PROVE Output!Inv
  OBVIOUS
<1>1. OutputRecords /\ RingServed
  BY OutputsAre DEF OutputKept
<1>2. Output!SlotsInOrder
  BY <1>1 DEF RingServed, Output!SlotsInOrder, Taken, Given
<1>3. Output!QueueHasRoom
  <2> SUFFICES ASSUME slotMixer.pc = "enqueue"
               PROVE  Len(player.queue) + Len(slotMixer.slots) <= NumUpdates
    BY DEF Output!QueueHasRoom
  <2>1. slotMixer # Output!Gone /\ Given = slotMixer.slots
    BY DEF Output!Gone, Given
  <2>2. Output!ReadSpace = Len(Taken) + Len(player.queue) + Len(Given)
    BY <1>1, <2>1, HeldByThree
  <2>3. Len(Taken) \in Nat /\ Len(player.queue) \in Nat /\ Len(Given) \in Nat
    BY <1>1, PointersTyped, LenProperties
  <2>4. Output!ReadSpace <= NumUpdates
    BY <1>1, <2>1 DEF RingServed
  <2>5. PICK a \in Nat, b \in Nat, c \in Nat : a = Len(Taken) /\ b = Len(player.queue) /\ c = Len(Given)
    BY <2>3
  <2>6. a + b + c <= NumUpdates
    BY <2>2, <2>4, <2>5
  <2>7. b + c <= NumUpdates
    BY <2>5, <2>6, OutputAssumptions
  <2> QED BY <2>1, <2>5, <2>7
<1> QED BY <1>2, <1>3 DEF OutputKept, Outputs, Output!Inv

(* What the ring of the output holds is, in order, what is called back     *)
(* for, what the player has and what it is to get, so that nothing is      *)
(* rendered into a slot that plays; and the player has room for it         *)
(* (opensl.cpp): for rings of every size, and whatever start, stop and     *)
(* reset come between.                                                     *)
THEOREM OutputKeepsOrder == Output!Spec => []Output!Inv
BY OutputIsKept, OutputKeptIsInv, PTL

(* The same, of the specification that the runs check. *)
THEOREM SlotsPlayInOrder == MCSpec => []OutputInv
<1>1. MCInit => Output!Init
  BY DEF MCInit
<1>2. [MCNext]_<<vars, outputVars, listVars, notesVars, part>> => [Output!Next]_(Output!vars)
  BY DEF MCNext, outputVars, Output!vars
<1>3. OutputKept => OutputInv
  BY OutputKeptIsInv DEF OutputInv
<1> QED BY <1>1, <1>2, <1>3, OutputIsKept, PTL DEF MCSpec, Output!Spec

-----------------------------------------------------------------------------
(* ChangeList: the chain of elements, and the walk along it.               *)

Elements == Changes!Element
End == Changes!Null

(* No element is twice in a sequence, and each is linked to the next one.  *)
Apart(s) == \A i, j \in 1..Len(s) : s[i] = s[j] => i = j
Strung(s, next) == \A i \in 1..(Len(s) - 1) : next[s[i]] = s[i + 1]
Within(s) == {s[i] : i \in 1..Len(s)}

(* The least of some numbers.                                              *)
LEMMA Least ==
  ASSUME NEW K, K \subseteq Nat, K # {}
  PROVE  \E x \in K : \A y \in K : x <= y
<1>1. PICK x \in K : \A y \in K : ~(<<y, x>> \in OpToRel(<, Nat))
  BY NatLessThanWellFounded, WFMin
<1>2. ASSUME NEW y \in K PROVE x <= y
  <2>1. <<y, x>> \in Nat \X Nat /\ <<y, x>> \notin OpToRel(<, Nat)
    BY <1>1
  <2>2. ~(y < x)
    BY <2>1 DEF OpToRel
  <2> QED
    BY <2>2
<1> QED
  BY <1>2

Walks(walk, next, m, n) ==
  walk = [k \in 0..m |->
           IF k = 0 THEN <<n>>
           ELSE LET past == walk[k - 1]
                    then == next[past[Len(past)]]
                IN IF then = End THEN past ELSE Append(past, then)]
Walked(next, m, n) == (CHOOSE walk : Walks(walk, next, m, n))[m]

LEMMA AfterIsWalk == \A n : Changes!After(n) = Walked(mNext, allocated, n)
BY DEF Changes!After, Walked, Walks, End

(* A walk goes to the end of what is strung together.                      *)
LEMMA WalkIs ==
  ASSUME NEW S, End \notin S, NEW next, NEW s \in Seq(S), s # <<>>,
         Strung(s, next), next[s[Len(s)]] = End,
         NEW m \in Nat, Len(s) <= m + 1
  PROVE  Walked(next, m, s[1]) = s
<1> DEFINE l == Len(s)
           size(k) == IF k < l THEN k + 1 ELSE l
           prefix(k) == SubSeq(s, 1, size(k))
<1>1. /\ l \in Nat /\ l >= 1 /\ l <= m + 1
      /\ \A i \in 1..l : s[i] \in S /\ s[i] # End
      /\ \A i \in 1..l : i # l => next[s[i]] = s[i + 1]
      /\ next[s[l]] = End
  <2>1. l \in Nat /\ l # 0 /\ s \in [1..l -> S]
    BY LenProperties, EmptySeq
  <2> HIDE DEF l
  <2>2. \A i \in 1..l : i # l => i \in 1..(l - 1)
    BY <2>1
  <2>3. \A i \in 1..(l - 1) : next[s[i]] = s[i + 1]
    BY DEF Strung, l
  <2>4. l <= m + 1 /\ next[s[l]] = End
    BY DEF l
  <2> QED
    BY <2>1, <2>2, <2>3, <2>4
<1>2. ASSUME NEW k \in Nat
      PROVE  /\ size(k) \in Nat /\ size(k) <= l /\ size(k) >= 1
             /\ prefix(k) \in Seq(S) /\ Len(prefix(k)) = size(k)
             /\ \A i \in 1..size(k) : prefix(k)[i] = s[i]
  <2> HIDE DEF l
  <2>1. size(k) \in Nat /\ size(k) <= l /\ size(k) >= 1
    BY <1>1
  <2> HIDE DEF size
  <2>2. \A i \in 1..size(k) : s[i] \in S
    BY <1>1, <2>1
  <2>3. /\ prefix(k) \in Seq(S) /\ Len(prefix(k)) = size(k)
        /\ \A i \in 1..size(k) : prefix(k)[i] = s[i]
    BY <2>1, <2>2, SubSeqProperties
  <2> QED
    BY <2>1, <2>3
<1> HIDE DEF l
<1>3. prefix(0) = <<s[1]>>
  <2>1. prefix(0) \in Seq(S) /\ Len(prefix(0)) = 1 /\ prefix(0)[1] = s[1]
    BY <1>1, <1>2
  <2>2. <<s[1]>> \in Seq(S) /\ Len(<<s[1]>>) = 1 /\ <<s[1]>>[1] = s[1]
    BY <1>1
  <2> HIDE DEF prefix
  <2> QED
    BY <2>1, <2>2, SeqEqual
<1>4. ASSUME NEW k \in Nat \ {0}
      PROVE  prefix(k) = LET past == prefix(k - 1)
                             then == next[past[Len(past)]]
                         IN IF then = End THEN past ELSE Append(past, then)
  <2>1. k - 1 \in Nat /\ k \in Nat
    OBVIOUS
  <2>2. prefix(k - 1)[Len(prefix(k - 1))] = s[size(k - 1)]
    BY <1>2, <2>1
  <2>3. CASE k - 1 >= l - 1
    <3>1. size(k - 1) = l /\ size(k) = l
      BY <1>1, <2>3
    <3>2. prefix(k) = prefix(k - 1)
      BY <3>1
    <3> QED
      BY <1>1, <2>2, <3>1, <3>2
  <2>4. CASE k - 1 < l - 1
    <3>1. size(k - 1) = k /\ size(k) = k + 1 /\ k \in 1..l /\ k # l /\ k + 1 \in 1..l
      BY <1>1, <2>4
    <3>2. next[s[k]] = s[k + 1] /\ s[k + 1] # End /\ s[k + 1] \in S
      BY <1>1, <3>1
    <3>3. /\ prefix(k) \in Seq(S) /\ prefix(k - 1) \in Seq(S)
          /\ Len(prefix(k)) = k + 1 /\ Len(prefix(k - 1)) = k
          /\ \A i \in 1..(k + 1) : prefix(k)[i] = s[i]
          /\ \A i \in 1..k : prefix(k - 1)[i] = s[i]
      BY <1>2, <2>1, <3>1
    <3> HIDE DEF prefix, size
    <3> DEFINE a == Append(prefix(k - 1), s[k + 1])
    <3>4. /\ a \in Seq(S) /\ Len(a) = k + 1 /\ a[k + 1] = s[k + 1]
          /\ \A i \in 1..k : a[i] = s[i]
      BY <3>2, <3>3
    <3>5. \A i \in 1..(k + 1) : a[i] = prefix(k)[i]
      BY <3>3, <3>4
    <3> HIDE DEF a
    <3>6. prefix(k) = a
      BY <3>3, <3>4, <3>5, SeqEqual
    <3> QED
      BY <2>2, <3>1, <3>2, <3>6 DEF a
  <2> QED
    BY <1>1, <2>3, <2>4
<1> HIDE DEF prefix
<1>5. ASSUME NEW walk, Walks(walk, next, m, s[1]) PROVE walk[m] = prefix(m)
  <2> DEFINE K == {k \in 0..m : walk[k] # prefix(k)}
  <2> SUFFICES ASSUME K # {} PROVE FALSE
    OBVIOUS
  <2>1. PICK k \in K : \A j \in K : k <= j
    <3>1. K \subseteq Nat
      OBVIOUS
    <3> HIDE DEF K
    <3> QED
      BY <3>1, Least
  <2>2. k # 0
    BY <1>3, <1>5 DEF Walks
  <2>3. k \in Nat \ {0} /\ k - 1 \in 0..m /\ walk[k - 1] = prefix(k - 1)
    BY <2>1, <2>2
  <2>4. walk[k] = LET past == walk[k - 1]
                      then == next[past[Len(past)]]
                  IN IF then = End THEN past ELSE Append(past, then)
    BY <1>5, <2>2 DEF Walks
  <2>5. walk[k] = prefix(k)
    BY <1>4, <2>3, <2>4
  <2> QED
    BY <2>5
<1>6. Walks([k \in 0..m |-> prefix(k)], next, m, s[1])
  <2> DEFINE W == [k \in 0..m |-> prefix(k)]
  <2>1. \A k \in 0..m : k # 0 => k \in Nat \ {0} /\ k - 1 \in 0..m /\ W[k - 1] = prefix(k - 1)
    OBVIOUS
  <2>2. \A k \in 0..m :
          prefix(k) = IF k = 0 THEN <<s[1]>>
                      ELSE LET past == W[k - 1]
                               then == next[past[Len(past)]]
                           IN IF then = End THEN past ELSE Append(past, then)
    BY <1>3, <1>4, <2>1
  <2> QED
    BY <2>2 DEF Walks
<1>7. Walked(next, m, s[1]) = prefix(m)
  BY <1>5, <1>6 DEF Walked
<1>8. prefix(m) = s
  <2>1. size(m) = l
    BY <1>1
  <2>2. prefix(m) \in Seq(S) /\ Len(prefix(m)) = Len(s) /\ \A i \in 1..Len(s) : prefix(m)[i] = s[i]
    BY <1>2, <2>1 DEF l
  <2> QED
    BY <2>2, SeqEqual
<1> QED
  BY <1>7, <1>8

(* c is the chain, with the current element and the mixer's at i and j.    *)
ChainIs(c, i, j) ==
  /\ c \in Seq(Elements) /\ c # <<>>
  /\ Apart(c) /\ Strung(c, mNext) /\ mNext[c[Len(c)]] = End
  /\ c[1] = tail
  /\ i \in 1..Len(c) /\ c[i] = current
  /\ j \in i..Len(c) /\ c[j] = Changes!Processed
  /\ Within(c) \cap Within(held) = {}
  /\ Within(c) \cup Within(held) = 1..allocated
  /\ \A k \in (j + 1)..Len(c) : says[c[k]] \in Change

(* What a call holds is strung together, and no element leads to none.     *)
ListTyped ==
  /\ mNext \in [Elements -> Elements \cup {End}]
  /\ says = [n \in Elements |-> says[n]]
  /\ allocated \in Nat /\ 1..allocated \subseteq Elements
  /\ cur \in Elements \cup {End}
  /\ held \in Seq(Elements) /\ Len(held) <= LongestSend
  /\ Apart(held) /\ Strung(held, mNext)
  /\ held # <<>> => mNext[held[Len(held)]] = End
  /\ \A k \in 1..Len(held) : says[held[k]] \in Change

ListHolds == ListTyped /\ \E c \in Seq(Elements), i, j \in Nat : ChainIs(c, i, j)

LEMMA ElementsAre == End \notin Elements /\ Elements \subseteq Nat /\ 0 \notin Elements
BY DEF Elements, End, Changes!Element, Changes!Null

(* A sequence without repetition has as many places as elements.           *)
LEMMA ApartCounts ==
  ASSUME NEW S, NEW s \in Seq(S), Apart(s)
  PROVE  IsFiniteSet(Within(s)) /\ Cardinality(Within(s)) = Len(s)
<1>1. Len(s) \in Nat /\ s \in [1..Len(s) -> S]
  BY LenProperties
<1> DEFINE f == [i \in 1..Len(s) |-> s[i]]
<1>2. f \in Bijection(1..Len(s), Within(s))
  BY DEF Bijection, Injection, Surjection, Within, Apart, IsInjective
<1>3. ExistsBijection(1..Len(s), Within(s))
  BY <1>2 DEF ExistsBijection
<1>4. IsFiniteSet(1..Len(s)) /\ Cardinality(1..Len(s)) = Len(s)
  BY <1>1, FS_Interval
<1> QED
  BY <1>3, <1>4, FS_Bijection

LEMMA ChainCounts ==
  ASSUME ListTyped, NEW c, NEW i, NEW j, ChainIs(c, i, j)
  PROVE  /\ Len(c) \in Nat /\ Len(held) \in Nat
         /\ Len(c) + Len(held) = allocated /\ Cardinality(1..allocated) = allocated
<1>1. /\ c \in Seq(Elements) /\ held \in Seq(Elements) /\ Apart(c) /\ Apart(held)
      /\ Within(c) \cap Within(held) = {} /\ Within(c) \cup Within(held) = 1..allocated
      /\ allocated \in Nat
  BY DEF ListTyped, ChainIs
<1>2. Len(c) \in Nat /\ Len(held) \in Nat
  BY <1>1, LenProperties
<1>3. IsFiniteSet(Within(c)) /\ Cardinality(Within(c)) = Len(c)
  BY <1>1, ApartCounts
<1>4. IsFiniteSet(Within(held)) /\ Cardinality(Within(held)) = Len(held)
  BY <1>1, ApartCounts
<1>5. Cardinality(Within(c) \cup Within(held)) = Len(c) + Len(held) - Cardinality(Within(c) \cap Within(held))
  BY <1>3, <1>4, FS_Union
<1>6. Cardinality(Within(c) \cap Within(held)) = 0
  BY <1>1, FS_EmptySet
<1>7. Cardinality(1..allocated) = allocated
  BY <1>1, FS_Interval
<1>8. Cardinality(Within(c) \cup Within(held)) = allocated
  BY <1>1, <1>7
<1> QED
  BY <1>2, <1>5, <1>6, <1>7, <1>8

(* What follows an element of the chain is the rest of the chain.          *)
LEMMA WalkFrom ==
  ASSUME NEW next, NEW c \in Seq(Elements), Strung(c, next), next[c[Len(c)]] = End,
         NEW m \in Nat, Len(c) <= m, NEW i \in 1..Len(c)
  PROVE  /\ Walked(next, m, c[i]) \in Seq(Elements)
         /\ Len(Walked(next, m, c[i])) = Len(c) - i + 1
         /\ \A k \in 1..(Len(c) - i + 1) : Walked(next, m, c[i])[k] = c[i + k - 1]
<1> DEFINE l == Len(c)
           s == SubSeq(c, i, l)
<1>1. l \in Nat /\ i \in Nat /\ i >= 1 /\ i <= l /\ \A k \in 1..l : c[k] \in Elements
  BY LenProperties
<1>2. \A k \in 1..(l - 1) : next[c[k]] = c[k + 1]
  BY DEF Strung
<1>3. next[c[l]] = End /\ l <= m
  OBVIOUS
<1> HIDE DEF l
<1>4. \A k \in i..l : c[k] \in Elements
  BY <1>1
<1>5. s \in Seq(Elements) /\ Len(s) = l - i + 1 /\ \A k \in 1..(l - i + 1) : s[k] = c[i + k - 1]
  BY <1>1, <1>4, SubSeqProperties
<1> HIDE DEF s
<1>6. s # <<>> /\ s[1] = c[i] /\ s[Len(s)] = c[l]
  <2>1. Len(s) # 0 /\ Len(s) \in 1..(l - i + 1) /\ i + Len(s) - 1 = l /\ 1 \in 1..(l - i + 1)
    BY <1>1, <1>5
  <2> QED
    BY <1>1, <1>5, <2>1, EmptySeq
<1>7. Strung(s, next)
  <2> SUFFICES ASSUME NEW k \in 1..(Len(s) - 1) PROVE next[s[k]] = s[k + 1]
    BY DEF Strung
  <2>1. /\ k \in 1..(l - i + 1) /\ k + 1 \in 1..(l - i + 1) /\ i + k - 1 \in 1..(l - 1)
        /\ i + (k + 1) - 1 = (i + k - 1) + 1
    BY <1>1, <1>5
  <2> QED
    BY <1>2, <1>5, <2>1
<1>8. Len(s) <= m + 1
  BY <1>1, <1>3, <1>5
<1>9. Walked(next, m, s[1]) = s
  BY <1>3, <1>5, <1>6, <1>7, <1>8, WalkIs, ElementsAre
<1> QED
  BY <1>5, <1>6, <1>9 DEF l

LEMMA AfterIs ==
  ASSUME ListTyped, NEW c, NEW i, NEW j, ChainIs(c, i, j), NEW k \in 1..Len(c)
  PROVE  /\ Changes!After(c[k]) \in Seq(Elements)
         /\ Len(Changes!After(c[k])) = Len(c) - k + 1
         /\ \A h \in 1..(Len(c) - k + 1) : Changes!After(c[k])[h] = c[k + h - 1]
<1>1. c \in Seq(Elements) /\ Strung(c, mNext) /\ mNext[c[Len(c)]] = End /\ allocated \in Nat
  BY DEF ChainIs, ListTyped
<1>2. Len(c) <= allocated
  BY <1>1, ChainCounts
<1>3. Changes!After(c[k]) = Walked(mNext, allocated, c[k])
  BY AfterIsWalk
<1>4. PICK next, m : next = mNext /\ m = allocated
  OBVIOUS
<1>5. Strung(c, next) /\ next[c[Len(c)]] = End /\ m \in Nat /\ Len(c) <= m
  BY <1>1, <1>2, <1>4
<1>6. /\ Walked(next, m, c[k]) \in Seq(Elements)
      /\ Len(Walked(next, m, c[k])) = Len(c) - k + 1
      /\ \A h \in 1..(Len(c) - k + 1) : Walked(next, m, c[k])[h] = c[k + h - 1]
  BY <1>1, <1>5, WalkFrom
<1> QED
  BY <1>3, <1>4, <1>6

LEMMA ChainTyped ==
  ASSUME NEW c, NEW i, NEW j, ChainIs(c, i, j)
  PROVE  /\ c \in Seq(Elements) /\ Len(c) \in Nat /\ Len(c) >= 1
         /\ i \in 1..Len(c) /\ i \in Nat /\ j \in 1..Len(c) /\ j \in Nat /\ i <= j
         /\ \A k \in 1..Len(c) : c[k] \in Elements
<1>1. c \in Seq(Elements) /\ c # <<>> /\ i \in 1..Len(c) /\ j \in i..Len(c)
  BY DEF ChainIs
<1>2. Len(c) \in Nat /\ Len(c) # 0 /\ \A k \in 1..Len(c) : c[k] \in Elements
  BY <1>1, LenProperties, EmptySeq
<1> QED
  BY <1>1, <1>2

(* What was sent and not taken is said by the chain behind the mixer.      *)
LEMMA SentIs ==
  ASSUME ListTyped, NEW c, NEW i, NEW j, ChainIs(c, i, j)
  PROVE  Changes!Sent = [k \in 1..(Len(c) - j) |-> says[c[j + k]]]
<1> DEFINE path == Changes!After(Changes!Processed)
           l == Len(c)
<1>1. l \in Nat /\ j \in Nat /\ j >= 1 /\ j <= l /\ Changes!Processed = c[j]
  BY ChainTyped DEF ChainIs
<1>2. j \in 1..Len(c)
  BY <1>1
<1>3. /\ path \in Seq(Elements) /\ Len(path) = l - j + 1
      /\ \A h \in 1..(l - j + 1) : path[h] = c[j + h - 1]
  BY <1>1, <1>2, AfterIs
<1>4. Changes!Pending = SubSeq(path, 2, Len(path))
  BY DEF Changes!Pending
<1> HIDE DEF path, l
<1>5. \A h \in 2..Len(path) : path[h] \in Elements
  BY <1>1, <1>3, LenProperties
<1>6. /\ Changes!Pending \in Seq(Elements) /\ Len(Changes!Pending) = l - j
      /\ \A k \in 1..(l - j) : Changes!Pending[k] = path[k + 1]
  <2>1. Len(path) \in Int /\ 2 \in Int
    BY <1>1, <1>3
  <2>2. /\ SubSeq(path, 2, Len(path)) \in Seq(Elements)
        /\ Len(SubSeq(path, 2, Len(path))) = IF 2 <= Len(path) THEN Len(path) - 2 + 1 ELSE 0
        /\ \A k \in 1..(Len(path) - 2 + 1) : SubSeq(path, 2, Len(path))[k] = path[2 + k - 1]
    BY <1>5, <2>1, SubSeqProperties
  <2>3. \A k \in 1..(l - j) : k \in 1..(Len(path) - 2 + 1) /\ 2 + k - 1 = k + 1
    BY <1>1, <1>3
  <2> QED
    BY <1>1, <1>3, <1>4, <2>2, <2>3
<1>7. DOMAIN Changes!Pending = 1..(l - j)
  BY <1>6, LenProperties
<1>8. \A k \in 1..(l - j) : Changes!Pending[k] = c[j + k]
  <2>1. \A k \in 1..(l - j) : k + 1 \in 1..(l - j + 1) /\ j + (k + 1) - 1 = j + k
    BY <1>1
  <2> QED
    BY <1>3, <1>6, <2>1
<1>9. Changes!Sent = [k \in 1..(l - j) |-> says[Changes!Pending[k]]]
  BY <1>7 DEF Changes!Sent
<1> QED
  BY <1>8, <1>9 DEF l

SentTold ==
  \A c, i, j : ListTyped /\ ChainIs(c, i, j) =>
    /\ Changes!Sent \in Seq(Change) /\ Len(Changes!Sent) = Len(c) - j
    /\ \A k \in 1..(Len(c) - j) : Changes!Sent[k] = says[c[j + k]]

LEMMA SentIsTold == SentTold
<1> SUFFICES ASSUME NEW c, NEW i, NEW j, ListTyped, ChainIs(c, i, j)
             PROVE  /\ Changes!Sent \in Seq(Change) /\ Len(Changes!Sent) = Len(c) - j
                    /\ \A k \in 1..(Len(c) - j) : Changes!Sent[k] = says[c[j + k]]
  BY DEF SentTold
<1>1. Len(c) \in Nat /\ j \in Nat /\ j >= 1 /\ j <= Len(c)
  BY ChainTyped
<1>2. \A k \in (j + 1)..Len(c) : says[c[k]] \in Change
  BY DEF ChainIs
<1>3. Changes!Sent = [k \in 1..(Len(c) - j) |-> says[c[j + k]]]
  BY SentIs
<1> DEFINE n == Len(c) - j
<1>4. n \in Nat /\ \A k \in 1..n : j + k \in (j + 1)..Len(c)
  BY <1>1
<1> HIDE DEF n
<1>5. Changes!Sent \in [1..n -> Change]
  BY <1>2, <1>3, <1>4 DEF n
<1>6. Changes!Sent \in Seq(Change) /\ Len(Changes!Sent) = n
  BY <1>4, <1>5
<1> QED
  BY <1>3, <1>6 DEF n

(* The same of the state that follows.                                     *)
LEMMA SentWillBe ==
  ASSUME ListTyped', NEW c, NEW i, NEW j, ChainIs(c, i, j)'
  PROVE  /\ (Changes!Sent)' \in Seq(Change) /\ Len((Changes!Sent)') = Len(c) - j
         /\ \A k \in 1..(Len(c) - j) : (Changes!Sent)'[k] = says'[c[j + k]]
<1>1. SentTold'
  BY SentIsTold, PTL
<1> QED
  BY <1>1 DEF SentTold

-----------------------------------------------------------------------------
(* Two ways a sequence of elements changes: another comes behind it, and   *)
(* its first element goes.                                                 *)

LEMMA Joins ==
  ASSUME NEW S, NEW s \in Seq(S), NEW t \in Seq(S), NEW next,
         Apart(s), Apart(t), Within(s) \cap Within(t) = {},
         Strung(s, next), Strung(t, next),
         s # <<>> /\ t # <<>> => next[s[Len(s)]] = t[1]
  PROVE  /\ s \o t \in Seq(S) /\ Len(s \o t) = Len(s) + Len(t)
         /\ Len(s) \in Nat /\ Len(t) \in Nat
         /\ \A k \in 1..Len(s) : (s \o t)[k] = s[k]
         /\ \A k \in 1..Len(t) : (s \o t)[Len(s) + k] = t[k]
         /\ Apart(s \o t) /\ Strung(s \o t, next)
         /\ Within(s \o t) = Within(s) \cup Within(t)
<1> DEFINE m == Len(s)
           n == Len(t)
           u == s \o t
<1>1. m \in Nat /\ n \in Nat
  BY LenProperties
<1>2. u \in Seq(S) /\ Len(u) = m + n /\ \A k \in 1..(m + n) : u[k] = IF k <= m THEN s[k] ELSE t[k - m]
  BY ConcatProperties
<1>3. /\ \A k \in 1..m : s[k] \in Within(s) /\ \A h \in 1..m : s[k] = s[h] => k = h
      /\ \A k \in 1..n : t[k] \in Within(t) /\ \A h \in 1..n : t[k] = t[h] => k = h
  BY DEF Within, Apart
<1>4. /\ \A k \in 1..(m - 1) : next[s[k]] = s[k + 1]
      /\ \A k \in 1..(n - 1) : next[t[k]] = t[k + 1]
  BY DEF Strung
<1>5. m # 0 /\ n # 0 => next[s[m]] = t[1]
  BY EmptySeq
<1>6. /\ \A x \in Within(s) : \E k \in 1..m : x = s[k]
      /\ \A x \in Within(t) : \E k \in 1..n : x = t[k]
  BY DEF Within
<1> HIDE DEF m, n, u
<1>7. \A k \in 1..m : k \in 1..(m + n) /\ u[k] = s[k]
  BY <1>1, <1>2
<1>8. \A k \in 1..n : m + k \in 1..(m + n) /\ u[m + k] = t[k]
  <2> SUFFICES ASSUME NEW k \in 1..n PROVE m + k \in 1..(m + n) /\ u[m + k] = t[k]
    OBVIOUS
  <2>1. m + k \in 1..(m + n) /\ ~(m + k <= m) /\ (m + k) - m = k
    BY <1>1
  <2> QED
    BY <1>2, <2>1
<1>9. \A k \in 1..(m + n) : (k \in 1..m /\ u[k] = s[k]) \/ (k > m /\ k - m \in 1..n /\ u[k] = t[k - m])
  BY <1>1, <1>2
<1>10. ASSUME NEW k \in 1..(m + n), NEW h \in 1..(m + n), u[k] = u[h] PROVE k = h
  <2>1. CASE k \in 1..m /\ h \in 1..m
    BY <1>3, <1>7, <1>10, <2>1
  <2>2. CASE k \notin 1..m /\ h \notin 1..m
    <3>1. /\ k - m \in 1..n /\ h - m \in 1..n /\ u[k] = t[k - m] /\ u[h] = t[h - m]
      BY <1>9, <2>2
    <3>2. k - m = h - m
      BY <1>3, <1>10, <3>1
    <3> QED
      BY <1>1, <3>2
  <2>3. CASE k \in 1..m /\ h \notin 1..m
    <3>1. s[k] \in Within(s) /\ u[k] = s[k]
      BY <1>3, <1>7, <2>3
    <3>2. t[h - m] \in Within(t) /\ u[h] = t[h - m]
      BY <1>3, <1>9, <2>3
    <3> QED
      BY <1>10, <3>1, <3>2
  <2>4. CASE k \notin 1..m /\ h \in 1..m
    <3>1. s[h] \in Within(s) /\ u[h] = s[h]
      BY <1>3, <1>7, <2>4
    <3>2. t[k - m] \in Within(t) /\ u[k] = t[k - m]
      BY <1>3, <1>9, <2>4
    <3> QED
      BY <1>10, <3>1, <3>2
  <2> QED
    BY <2>1, <2>2, <2>3, <2>4
<1>11. Apart(u)
  BY <1>2, <1>10 DEF Apart
<1>12. ASSUME NEW k \in 1..(m + n - 1) PROVE next[u[k]] = u[k + 1]
  <2>1. k \in 1..(m + n) /\ k + 1 \in 1..(m + n)
    BY <1>1
  <2>2. CASE k < m
    <3>1. k \in 1..m /\ k + 1 \in 1..m /\ k \in 1..(m - 1)
      BY <1>1, <2>2
    <3> QED
      BY <1>4, <1>7, <3>1
  <2>3. CASE k = m
    <3>1. m \in 1..m /\ m # 0 /\ n # 0 /\ 1 \in 1..n
      BY <1>1, <2>1, <2>3
    <3>2. u[m] = s[m] /\ u[m + 1] = t[1]
      BY <1>7, <1>8, <3>1
    <3> QED
      BY <1>5, <2>3, <3>1, <3>2
  <2>4. CASE k > m
    <3>1. /\ k - m \in 1..(n - 1) /\ k - m \in 1..n /\ (k - m) + 1 \in 1..n
          /\ m + (k - m) = k /\ m + ((k - m) + 1) = k + 1
      BY <1>1, <2>4
    <3>2. u[k] = t[k - m] /\ u[k + 1] = t[(k - m) + 1]
      BY <1>8, <3>1
    <3> QED
      BY <1>4, <3>1, <3>2
  <2> QED
    BY <1>1, <2>2, <2>3, <2>4
<1>13. Strung(u, next)
  <2>1. Len(u) = m + n
    BY <1>2
  <2>2. \A k \in 1..(Len(u) - 1) : next[u[k]] = u[k + 1]
    BY <1>1, <1>12, <2>1
  <2> QED
    BY <2>2 DEF Strung
<1>14. ASSUME NEW x PROVE x \in Within(u) <=> x \in Within(s) \cup Within(t)
  <2>1. ASSUME NEW k \in 1..(m + n) PROVE u[k] \in Within(s) \cup Within(t)
    BY <1>3, <1>9
  <2>2. x \in Within(u) => \E k \in 1..(m + n) : x = u[k]
    BY <1>2 DEF Within
  <2>3. \A k \in 1..(m + n) : u[k] \in Within(u)
    BY <1>2 DEF Within
  <2>4. x \in Within(s) => x \in Within(u)
    BY <1>6, <1>7, <2>3
  <2>5. x \in Within(t) => x \in Within(u)
    BY <1>6, <1>8, <2>3
  <2> QED
    BY <2>1, <2>2, <2>4, <2>5
<1>15. Within(u) = Within(s) \cup Within(t)
  BY <1>14
<1> QED
  BY <1>1, <1>2, <1>7, <1>8, <1>11, <1>13, <1>15 DEF m, n, u

LEMMA FirstGoes ==
  ASSUME NEW S, NEW s \in Seq(S), s # <<>>, NEW next, Apart(s), Strung(s, next)
  PROVE  /\ Tail(s) \in Seq(S) /\ Len(Tail(s)) = Len(s) - 1 /\ Len(s) \in Nat /\ Len(s) >= 1
         /\ \A k \in 1..(Len(s) - 1) : Tail(s)[k] = s[k + 1]
         /\ Apart(Tail(s)) /\ Strung(Tail(s), next)
         /\ Within(Tail(s)) = Within(s) \ {s[1]}
<1> DEFINE m == Len(s)
           t == Tail(s)
<1>1. m \in Nat /\ m # 0
  BY LenProperties, EmptySeq
<1>2. t \in Seq(S) /\ Len(t) = m - 1 /\ \A k \in 1..Len(t) : t[k] = s[k + 1]
  BY HeadTailProperties
<1>3. \A k, h \in 1..m : s[k] = s[h] => k = h
  BY DEF Apart
<1>4. \A k \in 1..(m - 1) : next[s[k]] = s[k + 1]
  BY DEF Strung
<1>5. \A x : x \in Within(s) <=> \E k \in 1..m : x = s[k]
  BY DEF Within
<1> HIDE DEF m, t
<1>6. \A k \in 1..(m - 1) : t[k] = s[k + 1] /\ k + 1 \in 1..m
  BY <1>1, <1>2
<1>7. \A x : x \in Within(t) <=> \E k \in 1..(m - 1) : x = t[k]
  BY <1>2 DEF Within
<1>8. Apart(t)
  <2>1. ASSUME NEW k \in 1..(m - 1), NEW h \in 1..(m - 1), t[k] = t[h] PROVE k = h
    <3>1. k + 1 = h + 1
      BY <1>3, <1>6, <2>1
    <3> QED
      BY <3>1
  <2> QED
    BY <1>2, <2>1 DEF Apart
<1>9. Strung(t, next)
  <2>1. ASSUME NEW k \in 1..(m - 1 - 1) PROVE next[t[k]] = t[k + 1]
    <3>1. k \in 1..(m - 1) /\ k + 1 \in 1..(m - 1)
      BY <1>1
    <3> QED
      BY <1>4, <1>6, <3>1
  <2> QED
    BY <1>2, <2>1 DEF Strung
<1>10. ASSUME NEW x PROVE x \in Within(t) <=> x \in Within(s) \ {s[1]}
  <2>1. ASSUME NEW k \in 1..(m - 1), x = t[k] PROVE x \in Within(s) \ {s[1]}
    <3>1. k + 1 \in 1..m /\ 1 \in 1..m /\ x = s[k + 1] /\ k + 1 # 1
      BY <1>1, <1>6, <2>1
    <3> QED
      BY <1>3, <1>5, <3>1
  <2>2. ASSUME NEW k \in 1..m, x = s[k], x # s[1] PROVE x \in Within(t)
    <3>1. k - 1 \in 1..(m - 1) /\ (k - 1) + 1 = k
      BY <1>1, <2>2
    <3>2. x = t[k - 1]
      BY <1>6, <2>2, <3>1
    <3> QED
      BY <1>7, <3>1, <3>2
  <2> QED
    BY <1>5, <1>7, <2>1, <2>2
<1>11. Within(t) = Within(s) \ {s[1]}
  BY <1>10
<1> QED
  BY <1>1, <1>2, <1>6, <1>8, <1>9, <1>11 DEF m, t

-----------------------------------------------------------------------------
(* The steps: what becomes of the chain, and of what was sent.             *)

(* What is sent stays as the chain beyond the mixer stays.                 *)
LEMMA SentStays ==
  ASSUME ListTyped, ListTyped', NEW c, NEW i, NEW j, NEW d, NEW g, NEW h,
         ChainIs(c, i, j), ChainIs(d, g, h)', Len(d) - h = Len(c) - j,
         \A k \in 1..(Len(c) - j) : says'[d[h + k]] = says[c[j + k]]
  PROVE  (Changes!Sent)' = Changes!Sent
<1>1. /\ Changes!Sent \in Seq(Change) /\ Len(Changes!Sent) = Len(c) - j
      /\ \A k \in 1..(Len(c) - j) : Changes!Sent[k] = says[c[j + k]]
  BY SentIsTold DEF SentTold
<1>2. /\ (Changes!Sent)' \in Seq(Change) /\ Len((Changes!Sent)') = Len(d) - h
      /\ \A k \in 1..(Len(d) - h) : (Changes!Sent)'[k] = says'[d[h + k]]
  BY SentWillBe
<1>3. \A k \in 1..Len((Changes!Sent)') : (Changes!Sent)'[k] = Changes!Sent[k]
  BY <1>1, <1>2
<1> QED
  BY <1>1, <1>2, <1>3, SeqEqual

(* A call takes the first element of the chain.                            *)
LEMMA GetKeeps ==
  ASSUME ListTyped, NEW c, NEW i, NEW j, ChainIs(c, i, j), Changes!GetVoiceChanger
  PROVE  ListTyped' /\ ChainIs(Tail(c), i - 1, j - 1)' /\ (Changes!Sent)' = Changes!Sent
<1> DEFINE d == Tail(c)
           l == Len(c)
<1>1. /\ c \in Seq(Elements) /\ c # <<>> /\ l \in Nat /\ l >= 1
      /\ i \in Nat /\ j \in Nat /\ i >= 1 /\ i <= j /\ j <= l
      /\ \A k \in 1..l : c[k] \in Elements
  BY ChainTyped DEF ChainIs
<1>2. /\ Apart(c) /\ Strung(c, mNext) /\ mNext[c[l]] = End /\ c[1] = tail /\ c[i] = current
      /\ c[j] = Changes!Processed
      /\ Within(c) \cap Within(held) = {} /\ Within(c) \cup Within(held) = 1..allocated
      /\ \A k \in (j + 1)..l : says[c[k]] \in Change
  BY DEF ChainIs
<1>3. PICK a \in Change : says' = [says EXCEPT ![tail] = a]
  BY DEF Changes!GetVoiceChanger
<1>4. /\ tail # current /\ Len(held) < LongestSend
      /\ tail' = mNext[tail] /\ held' = Append(held, tail)
      /\ UNCHANGED <<allocated, current, cur>>
      /\ mNext' = [n \in Elements |->
                    IF n = tail THEN End
                    ELSE IF held # <<>> /\ n = held[Len(held)] THEN tail
                    ELSE mNext[n]]
  BY DEF Changes!GetVoiceChanger, Elements, End
<1>5. i > 1 /\ j > 1 /\ l > 1
  BY <1>1, <1>2, <1>4
<1>6. /\ d \in Seq(Elements) /\ Len(d) = l - 1
      /\ \A k \in 1..(l - 1) : d[k] = c[k + 1]
      /\ Apart(d) /\ Strung(d, mNext)
      /\ Within(d) = Within(c) \ {tail}
  BY <1>1, <1>2, FirstGoes
<1>7. tail \in Within(c) /\ tail \in Elements /\ tail \notin Within(held)
  BY <1>1, <1>2 DEF Within
<1> HIDE DEF d, l
<1>8. /\ held \in Seq(Elements) /\ Apart(held) /\ Strung(held, mNext)
      /\ Len(held) \in Nat /\ (held = <<>> <=> Len(held) = 0)
      /\ \A k \in 1..Len(held) : held[k] \in Within(held) /\ held[k] \in Elements
  BY LenProperties, EmptySeq DEF ListTyped, Within
<1>9. \A k \in 1..(l - 1) : d[k] \in Within(d) /\ d[k] \in Elements
  BY <1>6, LenProperties DEF Within
<1>10. \A x \in Elements : x # tail /\ x \notin Within(held) => mNext'[x] = mNext[x]
  <2>1. held # <<>> => held[Len(held)] \in Within(held)
    BY <1>8
  <2> QED
    BY <1>4, <2>1
<1>11. \A k \in 1..(l - 1) : mNext'[d[k]] = mNext[d[k]]
  BY <1>2, <1>6, <1>9, <1>10
<1>12. Strung(d, mNext')
  <2>1. \A k \in 1..(l - 1 - 1) : k \in 1..(l - 1) /\ mNext[d[k]] = d[k + 1]
    BY <1>1, <1>6 DEF Strung
  <2> QED
    BY <1>6, <1>11, <2>1 DEF Strung
<1>13. d[Len(d)] = c[l] /\ mNext'[d[Len(d)]] = End /\ d[1] = tail' /\ d # <<>>
  <2>1. l - 1 \in 1..(l - 1) /\ (l - 1) + 1 = l /\ 1 \in 1..(l - 1) /\ 1 + 1 = 2
    BY <1>1, <1>5
  <2>2. mNext[c[1]] = c[2]
    BY <2>1 DEF l, Strung, ChainIs
  <2>3. d[l - 1] = c[l] /\ d[1] = c[2]
    BY <1>6, <2>1
  <2>4. Len(d) # 0
    BY <1>1, <1>5, <1>6
  <2> QED
    BY <1>2, <1>4, <1>6, <1>11, <2>1, <2>2, <2>3, <2>4, EmptySeq
<1>14. /\ held' = held \o <<tail>> /\ <<tail>> \in Seq(Elements) /\ Len(<<tail>>) = 1
       /\ Within(<<tail>>) = {tail} /\ Apart(<<tail>>) /\ Strung(<<tail>>, mNext')
  <2>1. <<tail>> \in Seq(Elements) /\ Len(<<tail>>) = 1 /\ <<tail>>[1] = tail
    BY <1>7
  <2>2. held' = held \o <<tail>>
    BY <1>4, <1>7, <1>8, AppendIsConcat
  <2> QED
    BY <2>1, <2>2 DEF Within, Apart, Strung
<1>15. Strung(held, mNext')
  <2> SUFFICES ASSUME NEW k \in 1..(Len(held) - 1) PROVE mNext'[held[k]] = held[k + 1]
    BY DEF Strung
  <2>1. k \in 1..Len(held) /\ Len(held) \in 1..Len(held) /\ k # Len(held)
    BY <1>8
  <2>2. held[k] # held[Len(held)] /\ held[k] # tail /\ held[k] \in Elements
    BY <1>7, <1>8, <2>1 DEF Apart
  <2>3. mNext'[held[k]] = mNext[held[k]]
    BY <1>4, <2>2
  <2> QED
    BY <1>8, <2>3 DEF Strung
<1>16. held # <<>> => mNext'[held[Len(held)]] = tail
  BY <1>4, <1>7, <1>8
<1>17. /\ held' \in Seq(Elements) /\ Len(held') = Len(held) + 1
       /\ \A k \in 1..Len(held) : held'[k] = held[k]
       /\ held'[Len(held) + 1] = tail
       /\ Apart(held') /\ Strung(held', mNext') /\ Within(held') = Within(held) \cup {tail}
  <2>1. PICK t : t = <<tail>>
    OBVIOUS
  <2>2. /\ t \in Seq(Elements) /\ Len(t) = 1 /\ t[1] = tail /\ 1 \in 1..Len(t)
        /\ Apart(t) /\ Strung(t, mNext') /\ Within(t) = {tail} /\ held' = held \o t
    BY <1>14, <2>1
  <2>3. Within(held) \cap Within(t) = {}
    BY <1>7, <2>2
  <2>4. held # <<>> /\ t # <<>> => mNext'[held[Len(held)]] = t[1]
    BY <1>16, <2>2
  <2>5. /\ held \o t \in Seq(Elements) /\ Len(held \o t) = Len(held) + Len(t)
        /\ \A k \in 1..Len(held) : (held \o t)[k] = held[k]
        /\ \A k \in 1..Len(t) : (held \o t)[Len(held) + k] = t[k]
        /\ Apart(held \o t) /\ Strung(held \o t, mNext')
        /\ Within(held \o t) = Within(held) \cup Within(t)
    BY <1>8, <1>15, <2>2, <2>3, <2>4, Joins
  <2> QED
    BY <2>2, <2>5
<1>18. ListTyped'
  <2>1. mNext' \in [Elements -> Elements \cup {End}]
    BY <1>4, <1>7 DEF ListTyped
  <2>2. says' = [n \in Elements |-> says'[n]] /\ says'[tail] = a
        /\ \A n \in Elements : n # tail => says'[n] = says[n]
    BY <1>3, <1>7 DEF ListTyped
  <2>3. \A k \in 1..Len(held') : says'[held'[k]] \in Change
    <3>1. \A k \in 1..Len(held) : held[k] # tail /\ says[held[k]] \in Change
      BY <1>7, <1>8 DEF ListTyped
    <3>2. \A k \in 1..Len(held') : k \in 1..Len(held) \/ k = Len(held) + 1
      BY <1>8, <1>17
    <3> QED
      BY <1>8, <1>17, <2>2, <3>1, <3>2
  <2>4. mNext'[held'[Len(held')]] = End
    BY <1>4, <1>7, <1>17
  <2>5. Len(held') <= LongestSend
    BY <1>4, <1>8, <1>17, ChangesAssumptions
  <2>6. allocated' = allocated /\ cur' = cur
    BY <1>4
  <2> QED
    BY <1>17, <2>1, <2>2, <2>3, <2>4, <2>5, <2>6 DEF ListTyped
<1>19. \A k \in 1..(l - j) : d[j - 1 + k] = c[j + k] /\ c[j + k] # tail /\ c[j + k] \in Elements
  <2> SUFFICES ASSUME NEW k \in 1..(l - j)
               PROVE  d[j - 1 + k] = c[j + k] /\ c[j + k] # tail /\ c[j + k] \in Elements
    OBVIOUS
  <2>1. j - 1 + k \in 1..(l - 1) /\ (j - 1 + k) + 1 = j + k /\ j + k \in 1..l
    BY <1>1, <1>5
  <2>2. d[j - 1 + k] = c[j + k]
    BY <1>6, <2>1
  <2> QED
    BY <1>1, <1>6, <1>9, <2>1, <2>2
<1>20. \A k \in 1..(l - j) : says'[c[j + k]] = says[c[j + k]]
  BY <1>3, <1>19 DEF ListTyped
<1>21. ChainIs(d, i - 1, j - 1)'
  <2>1. i - 1 \in 1..(l - 1) /\ j - 1 \in (i - 1)..(l - 1) /\ j - 1 \in 1..(l - 1)
    BY <1>1, <1>5
  <2>2. d[i - 1] = current' /\ d[j - 1] = (Changes!Processed)'
    <3>1. d[i - 1] = c[i] /\ d[j - 1] = c[j]
      <4>1. (i - 1) + 1 = i /\ (j - 1) + 1 = j
        BY <1>1
      <4> QED
        BY <1>6, <2>1, <4>1
    <3> QED
      BY <1>2, <1>4, <3>1 DEF Changes!Processed
  <2>3. Within(d) \cap Within(held') = {} /\ Within(d) \cup Within(held') = 1..allocated'
    BY <1>2, <1>4, <1>6, <1>7, <1>17
  <2>4. ASSUME NEW k \in ((j - 1) + 1)..Len(d) PROVE says'[d[k]] \in Change
    <3>1. k - (j - 1) \in 1..(l - j) /\ j - 1 + (k - (j - 1)) = k /\ j + (k - (j - 1)) \in (j + 1)..l
      BY <1>1, <1>6
    <3>2. d[k] = c[j + (k - (j - 1))] /\ says'[d[k]] = says[d[k]]
      BY <1>19, <1>20, <3>1
    <3> QED
      BY <1>2, <3>1, <3>2
  <2> QED
    BY <1>6, <1>12, <1>13, <2>1, <2>2, <2>3, <2>4 DEF ChainIs
<1>22. (Changes!Sent)' = Changes!Sent
  <2>1. Len(d) - (j - 1) = Len(c) - j
    BY <1>1, <1>6 DEF l
  <2>2. \A k \in 1..(Len(c) - j) : says'[d[(j - 1) + k]] = says[c[j + k]]
    BY <1>19, <1>20 DEF l
  <2> QED
    BY <1>18, <1>21, <2>1, <2>2, SentStays
<1> QED
  BY <1>18, <1>21, <1>22 DEF d

(* When only the first free element is left, a cluster comes before it.    *)
LEMMA AllocateKeeps ==
  ASSUME ListTyped, NEW c, NEW i, NEW j, ChainIs(c, i, j), Changes!Allocate
  PROVE  /\ ListTyped'
         /\ \E d \in Seq(Elements) : ChainIs(d, Cluster + i, Cluster + j)'
         /\ (Changes!Sent)' = Changes!Sent
<1> DEFINE l == Len(c)
           m == allocated
           new == [k \in 1..Cluster |-> m + k]
<1>1. /\ c \in Seq(Elements) /\ c # <<>> /\ l \in Nat /\ l >= 1
      /\ i \in Nat /\ j \in Nat /\ i >= 1 /\ i <= j /\ j <= l
      /\ \A k \in 1..l : c[k] \in Elements
  BY ChainTyped DEF ChainIs
<1>2. /\ Apart(c) /\ Strung(c, mNext) /\ mNext[c[l]] = End /\ c[1] = tail /\ c[i] = current
      /\ c[j] = Changes!Processed
      /\ Within(c) \cap Within(held) = {} /\ Within(c) \cup Within(held) = 1..m
      /\ \A k \in (j + 1)..l : says[c[k]] \in Change
  BY DEF ChainIs
<1>3. /\ Len(held) \in Nat /\ held \in Seq(Elements)
      /\ \A k \in 1..Len(held) : held[k] \in Within(held) /\ held[k] \in 1..m
      /\ Apart(held) /\ Strung(held, mNext)
  BY <1>2, LenProperties DEF ListTyped, Within
<1>4. \A k \in 1..l : c[k] \in 1..m
  BY <1>2 DEF Within
<1>5. /\ m + Cluster \in Elements /\ allocated' = m + Cluster
      /\ mNext' = [n \in Elements |-> IF n \in (m + 1)..((m + Cluster) - 1) THEN n + 1
                                      ELSE IF n = m + Cluster THEN tail ELSE mNext[n]]
      /\ tail' = m + 1
      /\ UNCHANGED <<says, current, held, cur>>
  BY DEF Changes!Allocate, Changes!allocVoiceChanges, Elements
<1>6. Cluster \in Nat /\ Cluster >= 2 /\ m \in Nat /\ 1..m \subseteq Elements
  BY ChangesAssumptions DEF ListTyped
<1>7. 1..(m + Cluster) \subseteq Elements
  <2>1. Cluster * Clusters \in Nat
    BY ChangesAssumptions
  <2>2. PICK total \in Nat : Elements = 1..total
    BY <2>1 DEF Elements, Changes!Element
  <2> QED
    BY <1>5, <1>6, <2>2
<1> HIDE DEF l, m
<1>8. /\ new \in Seq(Elements) /\ Len(new) = Cluster
      /\ \A k \in 1..Cluster : new[k] = m + k
  <2>1. new \in [1..Cluster -> Elements]
    BY <1>6, <1>7
  <2> QED
    BY <1>6, <2>1
<1> HIDE DEF new
<1>9. Within(new) = (m + 1)..(m + Cluster) /\ Apart(new)
  <2>1. \A x \in (m + 1)..(m + Cluster) : x - m \in 1..Cluster /\ m + (x - m) = x
    BY <1>6
  <2>2. \A k \in 1..Cluster : m + k \in (m + 1)..(m + Cluster)
    BY <1>6
  <2>3. Within(new) = {new[k] : k \in 1..Cluster}
    BY <1>8 DEF Within
  <2>4. Within(new) = (m + 1)..(m + Cluster)
    BY <1>8, <2>1, <2>2, <2>3
  <2>5. \A k, h \in 1..Cluster : m + k = m + h => k = h
    BY <1>6
  <2> QED
    BY <1>8, <2>4, <2>5 DEF Apart
<1>10. \A x \in 1..m : mNext'[x] = mNext[x]
  BY <1>5, <1>6
<1>11. Strung(new, mNext')
  <2>1. ASSUME NEW k \in 1..(Cluster - 1) PROVE mNext'[new[k]] = new[k + 1]
    <3>1. /\ k \in 1..Cluster /\ k + 1 \in 1..Cluster /\ m + k \in (m + 1)..((m + Cluster) - 1)
          /\ m + k \in 1..(m + Cluster) /\ (m + k) + 1 = m + (k + 1)
      BY <1>6
    <3>2. mNext'[m + k] = (m + k) + 1
      BY <1>5, <1>7, <3>1
    <3> QED
      BY <1>8, <3>1, <3>2
  <2> QED
    BY <1>8, <2>1 DEF Strung
<1>12. mNext'[new[Len(new)]] = c[1]
  <2>1. /\ Cluster \in 1..Cluster /\ m + Cluster \notin (m + 1)..((m + Cluster) - 1)
        /\ m + Cluster \in Elements
    BY <1>5, <1>6
  <2> QED
    BY <1>2, <1>5, <1>8, <2>1
<1>13. Strung(c, mNext') /\ mNext'[c[l]] = End
  <2>1. \A k \in 1..(l - 1) : k \in 1..l /\ mNext[c[k]] = c[k + 1]
    BY <1>1, <1>2 DEF Strung, l
  <2>2. \A k \in 1..(l - 1) : mNext'[c[k]] = c[k + 1]
    BY <1>4, <1>10, <2>1
  <2>3. l \in 1..l
    BY <1>1
  <2> QED
    BY <1>2, <1>4, <1>10, <2>2, <2>3 DEF Strung, l
<1>14. Strung(held, mNext') /\ (held # <<>> => mNext'[held[Len(held)]] = End)
  <2>1. \A k \in 1..(Len(held) - 1) : k \in 1..Len(held) /\ mNext[held[k]] = held[k + 1]
    BY <1>3 DEF Strung
  <2>2. \A k \in 1..(Len(held) - 1) : mNext'[held[k]] = held[k + 1]
    BY <1>3, <1>10, <2>1
  <2>3. held # <<>> => Len(held) \in 1..Len(held)
    BY <1>3, EmptySeq
  <2> QED
    BY <1>3, <1>10, <2>2, <2>3 DEF Strung, ListTyped
<1>15. Within(new) \cap Within(c) = {}
  BY <1>2, <1>6, <1>9
<1>16. PICK d : d = new \o c
  OBVIOUS
<1>17. /\ d \in Seq(Elements) /\ Len(d) = Cluster + l
       /\ \A k \in 1..Cluster : d[k] = new[k]
       /\ \A k \in 1..l : d[Cluster + k] = c[k]
       /\ Apart(d) /\ Strung(d, mNext') /\ Within(d) = Within(new) \cup Within(c)
  <2>1. /\ new \in Seq(Elements) /\ c \in Seq(Elements) /\ Apart(new) /\ Apart(c)
        /\ Strung(new, mNext') /\ Strung(c, mNext')
        /\ Within(new) \cap Within(c) = {} /\ mNext'[new[Len(new)]] = c[1]
    BY <1>1, <1>2, <1>8, <1>9, <1>11, <1>12, <1>13, <1>15
  <2>2. /\ new \o c \in Seq(Elements) /\ Len(new \o c) = Len(new) + Len(c)
        /\ \A k \in 1..Len(new) : (new \o c)[k] = new[k]
        /\ \A k \in 1..Len(c) : (new \o c)[Len(new) + k] = c[k]
        /\ Apart(new \o c) /\ Strung(new \o c, mNext')
        /\ Within(new \o c) = Within(new) \cup Within(c)
    BY <2>1, Joins
  <2> QED
    BY <1>8, <1>16, <2>2 DEF l
<1>18. ListTyped'
  <2>1. mNext' \in [Elements -> Elements \cup {End}]
    <3>1. mNext \in [Elements -> Elements \cup {End}] /\ tail \in Elements
      BY <1>1, <1>2 DEF ListTyped
    <3>2. \A n \in (m + 1)..((m + Cluster) - 1) : n + 1 \in 1..(m + Cluster)
      BY <1>6
    <3> QED
      BY <1>5, <1>7, <3>1, <3>2
  <2>2. allocated' \in Nat /\ 1..allocated' \subseteq Elements
    BY <1>5, <1>6, <1>7
  <2> QED
    BY <1>5, <1>14, <2>1, <2>2 DEF ListTyped
<1>19. ChainIs(d, Cluster + i, Cluster + j)'
  <2>1. d # <<>> /\ mNext'[d[Len(d)]] = End
    <3>1. Len(d) # 0 /\ l \in 1..l
      BY <1>1, <1>6, <1>17
    <3> QED
      BY <1>13, <1>17, <3>1, EmptySeq
  <2>2. d[1] = tail'
    <3>1. 1 \in 1..Cluster
      BY <1>6
    <3> QED
      BY <1>5, <1>8, <1>17, <3>1
  <2>3. /\ Cluster + i \in 1..Len(d) /\ Cluster + j \in (Cluster + i)..Len(d)
        /\ i \in 1..l /\ j \in 1..l
    BY <1>1, <1>6, <1>17
  <2>4. d[Cluster + i] = current' /\ d[Cluster + j] = (Changes!Processed)'
    <3>1. d[Cluster + i] = c[i] /\ d[Cluster + j] = c[j]
      BY <1>17, <2>3
    <3> QED
      BY <1>2, <1>5, <3>1 DEF Changes!Processed
  <2>5. Within(d) \cap Within(held') = {}
    <3>1. Within(new) \cap Within(held) = {}
      BY <1>2, <1>6, <1>9
    <3> QED
      BY <1>2, <1>5, <1>17, <3>1
  <2>6. Within(d) \cup Within(held') = 1..allocated'
    <3>1. (m + 1)..(m + Cluster) \cup 1..m = 1..(m + Cluster)
      BY <1>6
    <3>2. Within(d) \cup Within(held) = (m + 1)..(m + Cluster) \cup (Within(c) \cup Within(held))
      BY <1>9, <1>17
    <3> QED
      BY <1>2, <1>5, <3>1, <3>2
  <2>7. ASSUME NEW k \in (Cluster + j + 1)..Len(d) PROVE says'[d[k]] \in Change
    <3>1. k - Cluster \in (j + 1)..l /\ k - Cluster \in 1..l /\ Cluster + (k - Cluster) = k
      BY <1>1, <1>6, <1>17
    <3> QED
      BY <1>2, <1>5, <1>17, <3>1
  <2> QED
    BY <1>17, <2>1, <2>2, <2>3, <2>4, <2>5, <2>6, <2>7 DEF ChainIs
<1>20. (Changes!Sent)' = Changes!Sent
  <2>1. Len(d) - (Cluster + j) = Len(c) - j
    BY <1>1, <1>6, <1>17 DEF l
  <2>2. ASSUME NEW k \in 1..(Len(c) - j) PROVE says'[d[(Cluster + j) + k]] = says[c[j + k]]
    <3>1. j + k \in 1..l /\ (Cluster + j) + k = Cluster + (j + k)
      BY <1>1, <1>6 DEF l
    <3> QED
      BY <1>5, <1>17, <3>1
  <2> QED
    BY <1>18, <1>19, <2>1, <2>2, SentStays
<1> QED
  BY <1>17, <1>18, <1>19, <1>20

(* What a call holds comes behind the chain, and is sent.                  *)
LEMMA SendKeeps ==
  ASSUME ListTyped, NEW c, NEW i, NEW j, ChainIs(c, i, j), Changes!SendVoiceChanges
  PROVE  /\ ListTyped'
         /\ \E d \in Seq(Elements) : ChainIs(d, i, j)'
         /\ \E batch \in Queue!Batches : (Changes!Sent)' = Changes!Sent \o batch
<1> DEFINE l == Len(c)
           n == Len(held)
           path == Changes!After(current)
<1>1. /\ c \in Seq(Elements) /\ c # <<>> /\ l \in Nat /\ l >= 1
      /\ i \in Nat /\ j \in Nat /\ i >= 1 /\ i <= j /\ j <= l
      /\ \A k \in 1..l : c[k] \in Elements
  BY ChainTyped DEF ChainIs
<1>2. /\ Apart(c) /\ Strung(c, mNext) /\ mNext[c[l]] = End /\ c[1] = tail /\ c[i] = current
      /\ c[j] = Changes!Processed
      /\ Within(c) \cap Within(held) = {} /\ Within(c) \cup Within(held) = 1..allocated
      /\ \A k \in (j + 1)..l : says[c[k]] \in Change
  BY DEF ChainIs
<1>3. /\ held \in Seq(Elements) /\ Apart(held) /\ Strung(held, mNext) /\ n \in Nat /\ n <= LongestSend
      /\ \A k \in 1..n : held[k] \in Elements /\ held[k] \in Within(held) /\ says[held[k]] \in Change
      /\ held # <<>> => mNext[held[n]] = End
  BY LenProperties DEF ListTyped, Within
<1>4. path[Len(path)] = c[l]
  <2>1. i \in 1..Len(c)
    BY <1>1
  <2>2. Len(path) = Len(c) - i + 1 /\ \A k \in 1..(Len(c) - i + 1) : path[k] = c[i + k - 1]
    BY <1>2, <2>1, AfterIs
  <2> HIDE DEF path, l
  <2>3. Len(path) \in 1..(Len(c) - i + 1) /\ i + Len(path) - 1 = l
    BY <1>1, <2>2 DEF l
  <2> QED
    BY <2>2, <2>3
<1>5. /\ held # <<>> /\ held' = <<>>
      /\ mNext' = [mNext EXCEPT ![c[l]] = held[1]]
      /\ UNCHANGED <<says, allocated, tail, current, cur>>
  BY <1>4 DEF Changes!SendVoiceChanges
<1>6. n # 0 /\ 1 \in 1..n /\ l \in 1..l
  BY <1>1, <1>3, <1>5, EmptySeq
<1> HIDE DEF l, n, path
<1>7. mNext'[c[l]] = held[1] /\ \A x \in Elements : x # c[l] => mNext'[x] = mNext[x]
  BY <1>1, <1>5, <1>6 DEF ListTyped
<1>8. mNext' \in [Elements -> Elements \cup {End}]
  BY <1>1, <1>3, <1>5, <1>6 DEF ListTyped
<1>9. c[l] \notin Within(held)
  BY <1>2, <1>6 DEF Within, l
<1>10. Strung(held, mNext') /\ mNext'[held[n]] = End
  <2>1. \A k \in 1..n : held[k] # c[l] /\ mNext'[held[k]] = mNext[held[k]]
    BY <1>3, <1>7, <1>9
  <2>2. ASSUME NEW k \in 1..(n - 1) PROVE mNext'[held[k]] = held[k + 1]
    <3>1. k \in 1..n
      BY <1>3
    <3>2. mNext[held[k]] = held[k + 1]
      BY <1>3 DEF Strung, n
    <3> QED
      BY <2>1, <3>1, <3>2
  <2>3. n \in 1..n
    BY <1>3, <1>6
  <2> QED
    BY <1>3, <1>5, <2>1, <2>2, <2>3 DEF Strung, n
<1>11. Strung(c, mNext')
  <2> SUFFICES ASSUME NEW k \in 1..(l - 1) PROVE mNext'[c[k]] = c[k + 1]
    BY DEF Strung, l
  <2>1. k \in 1..l /\ k # l
    BY <1>1
  <2>2. c[k] # c[l]
    BY <1>2, <1>6, <2>1 DEF Apart, l
  <2>3. mNext[c[k]] = c[k + 1]
    BY <1>2 DEF Strung, l
  <2> QED
    BY <1>1, <1>7, <2>1, <2>2, <2>3
<1>12. PICK d : d = c \o held
  OBVIOUS
<1>13. /\ d \in Seq(Elements) /\ Len(d) = l + n
       /\ \A k \in 1..l : d[k] = c[k]
       /\ \A k \in 1..n : d[l + k] = held[k]
       /\ Apart(d) /\ Strung(d, mNext') /\ Within(d) = Within(c) \cup Within(held)
  <2>1. /\ c \in Seq(Elements) /\ held \in Seq(Elements) /\ Apart(c) /\ Apart(held)
        /\ Strung(c, mNext') /\ Strung(held, mNext')
        /\ Within(c) \cap Within(held) = {} /\ mNext'[c[Len(c)]] = held[1]
    BY <1>1, <1>2, <1>3, <1>7, <1>10, <1>11 DEF l
  <2>2. /\ c \o held \in Seq(Elements) /\ Len(c \o held) = Len(c) + Len(held)
        /\ \A k \in 1..Len(c) : (c \o held)[k] = c[k]
        /\ \A k \in 1..Len(held) : (c \o held)[Len(c) + k] = held[k]
        /\ Apart(c \o held) /\ Strung(c \o held, mNext')
        /\ Within(c \o held) = Within(c) \cup Within(held)
    BY <2>1, Joins
  <2> QED
    BY <1>12, <2>2 DEF l, n
<1>14. /\ held' \in Seq(Elements) /\ Len(held') = 0
       /\ Apart(held') /\ Strung(held', mNext') /\ Within(held') = {}
  BY <1>5 DEF Apart, Strung, Within
<1>15. ListTyped'
  <2>1. Len(held') <= LongestSend /\ \A k \in 1..Len(held') : says'[held'[k]] \in Change
    BY <1>14, ChangesAssumptions
  <2> QED
    BY <1>5, <1>8, <1>14, <2>1 DEF ListTyped
<1>16. ChainIs(d, i, j)'
  <2>1. d # <<>> /\ mNext'[d[Len(d)]] = End
    <3>1. Len(d) # 0 /\ n \in 1..n
      BY <1>1, <1>3, <1>6, <1>13
    <3> QED
      BY <1>10, <1>13, <3>1, EmptySeq
  <2>2. i \in 1..Len(d) /\ j \in i..Len(d) /\ i \in 1..l /\ j \in 1..l /\ 1 \in 1..l
    BY <1>1, <1>3, <1>13
  <2>3. d[1] = tail' /\ d[i] = current' /\ d[j] = (Changes!Processed)'
    BY <1>2, <1>5, <1>13, <2>2 DEF Changes!Processed
  <2>4. Within(d) \cap Within(held') = {} /\ Within(d) \cup Within(held') = 1..allocated'
    BY <1>2, <1>5, <1>13, <1>14
  <2>5. ASSUME NEW k \in (j + 1)..Len(d) PROVE says'[d[k]] \in Change
    <3>1. CASE k <= l
      <4>1. k \in 1..l /\ k \in (j + 1)..l
        BY <1>1, <1>3, <1>13, <3>1
      <4> QED
        BY <1>2, <1>5, <1>13, <4>1
    <3>2. CASE k > l
      <4>1. k - l \in 1..n /\ l + (k - l) = k
        BY <1>1, <1>3, <1>13, <3>2
      <4> QED
        BY <1>3, <1>5, <1>13, <4>1
    <3> QED
      BY <1>1, <3>1, <3>2
  <2> QED
    BY <1>13, <2>1, <2>2, <2>3, <2>4, <2>5 DEF ChainIs
<1>17. \E batch \in Queue!Batches : (Changes!Sent)' = Changes!Sent \o batch
  <2> DEFINE batch == [k \in 1..n |-> says[held[k]]]
  <2>1. batch \in [1..n -> Change] /\ n \in 1..LongestSend
    BY <1>3, <1>6, ChangesAssumptions
  <2>2. batch \in Queue!Batches
    BY <2>1 DEF Queue!Batches
  <2>3. batch \in Seq(Change) /\ Len(batch) = n /\ \A k \in 1..n : batch[k] = says[held[k]]
    BY <1>3, <2>1
  <2> HIDE DEF batch
  <2>4. /\ Changes!Sent \in Seq(Change) /\ Len(Changes!Sent) = l - j
        /\ \A k \in 1..(l - j) : Changes!Sent[k] = says[c[j + k]]
    BY SentIsTold DEF SentTold, l
  <2>5. /\ (Changes!Sent)' \in Seq(Change) /\ Len((Changes!Sent)') = Len(d) - j
        /\ \A k \in 1..(Len(d) - j) : (Changes!Sent)'[k] = says'[d[j + k]]
    BY <1>15, <1>16, SentWillBe
  <2> DEFINE t == Changes!Sent \o batch
  <2>6. /\ t \in Seq(Change) /\ Len(t) = (l - j) + n
        /\ \A k \in 1..((l - j) + n) : t[k] = IF k <= l - j THEN Changes!Sent[k] ELSE batch[k - (l - j)]
    <3>1. PICK sent \in Seq(Change) : sent = Changes!Sent
      BY <2>4
    <3>2. /\ sent \o batch \in Seq(Change) /\ Len(sent \o batch) = Len(sent) + Len(batch)
          /\ \A k \in 1..(Len(sent) + Len(batch)) :
               (sent \o batch)[k] = IF k <= Len(sent) THEN sent[k] ELSE batch[k - Len(sent)]
      BY <2>3, <3>1, ConcatProperties
    <3>3. Len(sent) = l - j /\ Len(batch) = n /\ t = sent \o batch
      BY <2>3, <2>4, <3>1
    <3> QED
      BY <3>1, <3>2, <3>3
  <2> HIDE DEF t
  <2>7. Len(d) - j = (l - j) + n
    BY <1>1, <1>3, <1>13
  <2>8. ASSUME NEW k \in 1..((l - j) + n) PROVE (Changes!Sent)'[k] = t[k]
    <3>1. (Changes!Sent)'[k] = says[d[j + k]]
      BY <1>5, <2>5, <2>7
    <3>2. CASE k <= l - j
      <4>1. k \in 1..(l - j) /\ j + k \in 1..l
        BY <1>1, <3>2
      <4> QED
        BY <1>13, <2>4, <2>6, <3>1, <3>2, <4>1
    <3>3. CASE k > l - j
      <4>1. k - (l - j) \in 1..n /\ l + (k - (l - j)) = j + k /\ ~(k <= l - j)
        BY <1>1, <1>3, <3>3
      <4> QED
        BY <1>13, <2>3, <2>6, <3>1, <4>1
    <3> QED
      BY <1>1, <3>2, <3>3
  <2>9. (Changes!Sent)' = t
    BY <2>5, <2>6, <2>7, <2>8, SeqEqual
  <2> QED
    BY <2>2, <2>9 DEF t
<1> QED
  BY <1>13, <1>15, <1>16, <1>17

(* The steps that leave the links alone.                                   *)
LEMMA ChainStays ==
  ASSUME ListTyped, NEW c, NEW i, NEW j, ChainIs(c, i, j), NEW g, NEW h,
         UNCHANGED <<mNext, says, allocated, tail, held>>,
         cur' \in Elements \cup {End},
         g \in 1..Len(c), h \in g..Len(c), j <= h,
         c[g] = current', c[h] = (Changes!Processed)'
  PROVE  ListTyped' /\ ChainIs(c, g, h)'
<1>1. ListTyped'
  BY DEF ListTyped
<1>2. \A k \in (h + 1)..Len(c) : says'[c[k]] \in Change
  <2>1. /\ Len(c) \in Nat /\ j \in Nat /\ h \in Int
        /\ \A k \in (j + 1)..Len(c) : says[c[k]] \in Change
    BY ChainTyped DEF ChainIs
  <2>2. \A k \in (h + 1)..Len(c) : k \in (j + 1)..Len(c)
    BY <2>1
  <2> QED
    BY <2>1, <2>2
<1>3. ChainIs(c, g, h)'
  BY <1>2 DEF ChainIs
<1> QED
  BY <1>1, <1>3

(* The mixer goes on by one element, which it takes.                       *)
LEMMA TakeKeeps ==
  ASSUME ListTyped, NEW c, NEW i, NEW j, ChainIs(c, i, j),
         UNCHANGED <<mNext, says, allocated, tail, current, held>>,
         mNext[c[j]] # End, cur' = mNext[c[j]]
  PROVE  /\ ListTyped' /\ ChainIs(c, i, j + 1)'
         /\ Changes!Sent # <<>> /\ (Changes!Sent)' = Tail(Changes!Sent)
<1> DEFINE l == Len(c)
<1>1. /\ c \in Seq(Elements) /\ l \in Nat /\ l >= 1
      /\ i \in Nat /\ j \in Nat /\ i >= 1 /\ i <= j /\ j <= l
      /\ \A k \in 1..l : c[k] \in Elements
  BY ChainTyped DEF ChainIs
<1>2. mNext[c[l]] = End /\ c[i] = current /\ \A k \in 1..(l - 1) : mNext[c[k]] = c[k + 1]
  BY DEF ChainIs, Strung
<1> HIDE DEF l
<1>3. j < l
  BY <1>1, <1>2
<1>4. cur' = c[j + 1] /\ cur' \in Elements /\ cur' # End
  <2>1. j \in 1..(l - 1) /\ j + 1 \in 1..l
    BY <1>1, <1>3
  <2> QED
    BY <1>1, <1>2, <2>1, ElementsAre
<1>5. (Changes!Processed)' = c[j + 1]
  BY <1>4 DEF Changes!Processed, End
<1>6. i \in 1..Len(c) /\ j + 1 \in i..Len(c) /\ j <= j + 1
  BY <1>1, <1>3 DEF l
<1>7. c[i] = current' /\ cur' \in Elements \cup {End}
  BY <1>2, <1>4
<1>8. ListTyped' /\ ChainIs(c, i, j + 1)'
  BY <1>5, <1>6, <1>7, ChainStays
<1>9. /\ Changes!Sent \in Seq(Change) /\ Len(Changes!Sent) = l - j
      /\ \A k \in 1..(l - j) : Changes!Sent[k] = says[c[j + k]]
  BY SentIsTold DEF SentTold, l
<1>10. /\ (Changes!Sent)' \in Seq(Change) /\ Len((Changes!Sent)') = l - (j + 1)
       /\ \A k \in 1..(l - (j + 1)) : (Changes!Sent)'[k] = says'[c[(j + 1) + k]]
  BY <1>8, SentWillBe DEF l
<1>11. Changes!Sent # <<>>
  BY <1>1, <1>3, <1>9, EmptySeq
<1>12. (Changes!Sent)' = Tail(Changes!Sent)
  <2> DEFINE t == Tail(Changes!Sent)
  <2>1. t \in Seq(Change) /\ Len(t) = Len(Changes!Sent) - 1 /\ \A k \in 1..Len(t) : t[k] = Changes!Sent[k + 1]
    BY <1>9, <1>11, HeadTailProperties
  <2> HIDE DEF t
  <2>2. Len(t) = l - (j + 1)
    BY <1>1, <1>9, <2>1
  <2>3. ASSUME NEW k \in 1..(l - (j + 1)) PROVE (Changes!Sent)'[k] = t[k]
    <3>1. k + 1 \in 1..(l - j) /\ j + (k + 1) = (j + 1) + k
      BY <1>1
    <3> QED
      BY <1>9, <1>10, <2>1, <2>2, <3>1
  <2>4. (Changes!Sent)' = t
    BY <1>10, <2>1, <2>2, <2>3, SeqEqual
  <2> QED
    BY <2>4 DEF t
<1> QED
  BY <1>8, <1>11, <1>12

(* A step of the list, as those see it who send and take.                  *)
Handed ==
  \/ (Changes!Sent)' = Changes!Sent
  \/ \E batch \in Queue!Batches : (Changes!Sent)' = Changes!Sent \o batch
  \/ Changes!Sent # <<>> /\ (Changes!Sent)' = Tail(Changes!Sent)
  \/ (Changes!Sent)' = <<>>

LEMMA ListFirst == Changes!Init => ListHolds /\ Changes!Sent = <<>>
<1> SUFFICES ASSUME Changes!Init PROVE ListHolds /\ Changes!Sent = <<>>
  OBVIOUS
<1> DEFINE c == [k \in 1..Cluster |-> k]
<1>1. /\ allocated = Cluster /\ tail = 1 /\ current = Cluster /\ held = <<>> /\ cur = End
      /\ mNext = [n \in Elements |-> IF n < Cluster THEN n + 1 ELSE End]
      /\ says = [n \in Elements |-> CHOOSE a \in Change : TRUE]
  BY DEF Changes!Init, Elements, End
<1>2. Cluster \in Nat /\ Cluster >= 2
  BY ChangesAssumptions
<1>3. 1..Cluster \subseteq Elements
  <2>1. Cluster * Clusters \in Nat /\ Cluster <= Cluster * Clusters
    <3>1. \A x, y \in Nat : y # 0 => x * y \in Nat /\ x <= x * y
      OBVIOUS
    <3> QED
      BY <3>1, ChangesAssumptions
  <2>2. PICK total \in Nat : Elements = 1..total /\ Cluster <= total
    BY <2>1 DEF Elements, Changes!Element
  <2> QED
    BY <1>2, <2>2
<1>4. /\ c \in Seq(Elements) /\ Len(c) = Cluster
      /\ \A k \in 1..Cluster : c[k] = k
  <2>1. c \in [1..Cluster -> Elements]
    BY <1>3
  <2> QED
    BY <1>2, <2>1
<1> HIDE DEF c
<1>5. ListTyped
  <2>1. mNext \in [Elements -> Elements \cup {End}]
    <3>1. \A n \in Elements : n < Cluster => n + 1 \in Elements
      <4>1. \A n \in Elements : n \in Nat
        BY ElementsAre
      <4>2. \A n \in Nat : n < Cluster => n + 1 \in 1..Cluster
        BY <1>2
      <4> QED
        BY <1>3, <4>1, <4>2
    <3> QED
      BY <1>1, <3>1
  <2>2. /\ held \in Seq(Elements) /\ Len(held) = 0 /\ Apart(held) /\ Strung(held, mNext)
    BY <1>1 DEF Apart, Strung
  <2>3. Len(held) <= LongestSend /\ \A k \in 1..Len(held) : says[held[k]] \in Change
    BY <2>2, ChangesAssumptions
  <2>4. held = <<>> /\ cur = End /\ allocated = Cluster
    BY <1>1
  <2>5. says = [n \in Elements |-> says[n]]
    BY <1>1
  <2> QED
    BY <1>2, <1>3, <2>1, <2>2, <2>3, <2>4, <2>5 DEF ListTyped
<1>6. ChainIs(c, Cluster, Cluster)
  <2>1. Apart(c)
    BY <1>4 DEF Apart
  <2>2. Strung(c, mNext)
    <3>1. ASSUME NEW k \in 1..(Cluster - 1) PROVE mNext[c[k]] = c[k + 1]
      <4>1. k \in 1..Cluster /\ k + 1 \in 1..Cluster /\ k < Cluster
        BY <1>2
      <4> QED
        BY <1>1, <1>3, <1>4, <4>1
    <3> QED
      BY <1>4, <3>1 DEF Strung
  <2>3. mNext[c[Len(c)]] = End /\ c # <<>> /\ c[1] = tail /\ c[Cluster] = current
    <3>1. Cluster \in 1..Cluster /\ 1 \in 1..Cluster /\ ~(Cluster < Cluster) /\ Len(c) # 0
      BY <1>2, <1>4
    <3> QED
      BY <1>1, <1>3, <1>4, <3>1, EmptySeq
  <2>4. Within(c) = 1..Cluster /\ Within(held) = {}
    <3>1. Within(c) = {c[k] : k \in 1..Cluster}
      BY <1>4 DEF Within
    <3>2. Len(held) = 0
      BY <1>1
    <3> QED
      BY <1>2, <1>4, <3>1, <3>2 DEF Within
  <2>5. Changes!Processed = current
    BY <1>1 DEF Changes!Processed, End
  <2>6. Cluster \in 1..Len(c) /\ Cluster \in Cluster..Len(c) /\ (Cluster + 1)..Len(c) = {}
    BY <1>2, <1>4
  <2> QED
    BY <1>1, <1>4, <2>1, <2>2, <2>3, <2>4, <2>5, <2>6 DEF ChainIs
<1>7. Changes!Sent = <<>>
  <2>1. Changes!Sent \in Seq(Change) /\ Len(Changes!Sent) = Len(c) - Cluster
    BY <1>5, <1>6, SentIsTold DEF SentTold
  <2>2. Len(Changes!Sent) = 0
    BY <1>2, <1>4, <2>1
  <2> QED
    BY <2>1, <2>2, EmptySeq
<1> QED
  BY <1>2, <1>4, <1>5, <1>6, <1>7 DEF ListHolds

LEMMA SkipKeeps ==
  ASSUME ListTyped, NEW c, NEW i, NEW j, ChainIs(c, i, j), Changes!SkipPending
  PROVE  ListTyped' /\ ChainIs(c, Len(c), Len(c))' /\ (Changes!Sent)' = <<>>
<1> DEFINE path == Changes!After(current)
<1>1. /\ c \in Seq(Elements) /\ Len(c) \in Nat /\ Len(c) >= 1
      /\ i \in 1..Len(c) /\ i \in Nat /\ j \in 1..Len(c) /\ j \in Nat /\ c[i] = current
  BY ChainTyped DEF ChainIs
<1>2. Len(path) = Len(c) - i + 1 /\ \A k \in 1..(Len(c) - i + 1) : path[k] = c[i + k - 1]
  BY <1>1, AfterIs
<1>3. cur = End /\ current' = path[Len(path)] /\ UNCHANGED <<mNext, says, allocated, tail, held, cur>>
  BY DEF Changes!SkipPending, End
<1> HIDE DEF path
<1>4. path[Len(path)] = c[Len(c)]
  <2>1. Len(path) \in 1..(Len(c) - i + 1) /\ i + Len(path) - 1 = Len(c)
    BY <1>1, <1>2
  <2> QED
    BY <1>2, <2>1
<1>5. c[Len(c)] = current' /\ c[Len(c)] = (Changes!Processed)'
  BY <1>3, <1>4 DEF Changes!Processed, End
<1>6. Len(c) \in 1..Len(c) /\ Len(c) \in Len(c)..Len(c) /\ j <= Len(c)
  BY <1>1
<1>7. cur' \in Elements \cup {End}
  BY <1>3
<1>8. ListTyped' /\ ChainIs(c, Len(c), Len(c))'
  BY <1>3, <1>5, <1>6, <1>7, ChainStays
<1>9. (Changes!Sent)' \in Seq(Change) /\ Len((Changes!Sent)') = Len(c) - Len(c)
  BY <1>8, SentWillBe
<1>10. (Changes!Sent)' = <<>>
  <2>1. Len((Changes!Sent)') = 0
    BY <1>1, <1>9
  <2> QED
    BY <1>9, <2>1, EmptySeq
<1> QED
  BY <1>8, <1>10

LEMMA ProcessedKeeps ==
  ASSUME ListTyped, NEW c, NEW i, NEW j, ChainIs(c, i, j), Changes!ProcessedAll
  PROVE  ListTyped' /\ ChainIs(c, j, j)' /\ (Changes!Sent)' = Changes!Sent
<1>1. /\ cur # End /\ current' = cur /\ cur' = End
      /\ UNCHANGED <<mNext, says, allocated, tail, held>>
  BY DEF Changes!ProcessedAll, End
<1>2. c[j] = cur
  BY <1>1 DEF ChainIs, Changes!Processed, End
<1>3. /\ c \in Seq(Elements) /\ Len(c) \in Nat /\ j \in 1..Len(c) /\ j \in Nat /\ j \in j..Len(c)
  BY ChainTyped
<1>4. c[j] = current' /\ c[j] = (Changes!Processed)' /\ cur' \in Elements \cup {End} /\ j <= j
  BY <1>1, <1>2, <1>3 DEF Changes!Processed, End
<1>5. ListTyped' /\ ChainIs(c, j, j)'
  BY <1>1, <1>3, <1>4, ChainStays
<1>6. \A k \in 1..(Len(c) - j) : says'[c[j + k]] = says[c[j + k]]
  BY <1>1
<1>7. (Changes!Sent)' = Changes!Sent
  BY <1>5, <1>6, SentStays
<1> QED
  BY <1>5, <1>7

LEMMA ListStep ==
  ASSUME ListHolds, Changes!Next
  PROVE  ListHolds' /\ Handed
<1>1. PICK c \in Seq(Elements), i \in Nat, j \in Nat : ListTyped /\ ChainIs(c, i, j)
  BY DEF ListHolds
<1>2. /\ Len(c) \in Nat /\ Len(c) >= 1 /\ i >= 1 /\ i <= j /\ c # <<>>
  BY <1>1, ChainTyped DEF ChainIs
<1>3. CASE Changes!GetVoiceChanger
  <2>1. ListTyped' /\ ChainIs(Tail(c), i - 1, j - 1)' /\ (Changes!Sent)' = Changes!Sent
    BY <1>1, <1>3, GetKeeps
  <2>2. PICK d, g, h : d = Tail(c) /\ g = i - 1 /\ h = j - 1
    OBVIOUS
  <2>3. d \in Seq(Elements) /\ g \in Nat /\ h \in Nat
    <3>1. Tail(c) \in Seq(Elements)
      BY <1>2, HeadTailProperties
    <3> QED
      BY <1>2, <2>2, <3>1
  <2> QED
    BY <2>1, <2>2, <2>3 DEF ListHolds, Handed
<1>4. CASE Changes!Allocate
  <2>1. /\ ListTyped' /\ (Changes!Sent)' = Changes!Sent
        /\ \E d \in Seq(Elements) : ChainIs(d, Cluster + i, Cluster + j)'
    BY <1>1, <1>4, AllocateKeeps
  <2>2. Cluster + i \in Nat /\ Cluster + j \in Nat
    BY ChangesAssumptions
  <2> QED
    BY <2>1, <2>2 DEF ListHolds, Handed
<1>5. CASE Changes!SendVoiceChanges
  BY <1>1, <1>5, SendKeeps DEF ListHolds, Handed
<1>6. CASE Changes!SkipPending
  BY <1>1, <1>2, <1>6, SkipKeeps DEF ListHolds, Handed
<1>7. CASE Changes!ProcessFirst \/ Changes!ProcessNext
  <2>1. /\ UNCHANGED <<mNext, says, allocated, tail, current, held>>
        /\ mNext[Changes!Processed] # End /\ cur' = mNext[Changes!Processed]
    BY <1>7 DEF Changes!ProcessFirst, Changes!ProcessNext, Changes!Processed, End
  <2>2. Changes!Processed = c[j]
    BY <1>1 DEF ChainIs
  <2>3. /\ ListTyped' /\ ChainIs(c, i, j + 1)'
        /\ Changes!Sent # <<>> /\ (Changes!Sent)' = Tail(Changes!Sent)
    BY <1>1, <2>1, <2>2, TakeKeeps
  <2>4. j + 1 \in Nat
    OBVIOUS
  <2> QED
    BY <2>3, <2>4 DEF ListHolds, Handed
<1>8. CASE Changes!ProcessedAll
  BY <1>1, <1>8, ProcessedKeeps DEF ListHolds, Handed
<1> QED
  BY <1>3, <1>4, <1>5, <1>6, <1>7, <1>8 DEF Changes!Next, Changes!ProcessVoiceChanges

LEMMA ListCardinality == ASSUME NEW S PROVE Changes!Cardinality(S) = Cardinality(S)
BY DEF Changes!Cardinality, Cardinality

LEMMA ListIsOneChain == ListHolds => Changes!Inv
<1> SUFFICES ASSUME ListHolds PROVE Changes!OneChain
  BY DEF Changes!Inv
<1>1. PICK c \in Seq(Elements), i \in Nat, j \in Nat : ListTyped /\ ChainIs(c, i, j)
  BY DEF ListHolds
<1>2. /\ Len(c) \in Nat /\ Len(c) >= 1 /\ i \in 1..Len(c) /\ j \in 1..Len(c) /\ i <= j
      /\ 1 \in 1..Len(c)
  BY <1>1, ChainTyped
<1>3. /\ c[1] = tail /\ c[i] = current /\ c[j] = Changes!Processed
      /\ Within(c) \cap Within(held) = {} /\ Within(c) \cup Within(held) = 1..allocated
  BY <1>1 DEF ChainIs
<1>4. /\ Changes!After(tail) \in Seq(Elements) /\ Len(Changes!After(tail)) = Len(c)
      /\ \A k \in 1..Len(c) : Changes!After(tail)[k] = c[k]
  <2>1. /\ Changes!After(c[1]) \in Seq(Elements) /\ Len(Changes!After(c[1])) = Len(c) - 1 + 1
        /\ \A k \in 1..(Len(c) - 1 + 1) : Changes!After(c[1])[k] = c[1 + k - 1]
    BY <1>1, <1>2, AfterIs
  <2>2. Len(c) - 1 + 1 = Len(c) /\ \A k \in 1..Len(c) : 1 + k - 1 = k
    BY <1>2
  <2> QED
    BY <1>3, <2>1, <2>2
<1>5. Changes!Range(Changes!After(tail)) = Within(c)
  <2>1. DOMAIN Changes!After(tail) = 1..Len(c)
    BY <1>4, LenProperties
  <2> QED
    BY <1>4, <2>1 DEF Changes!Range, Within
<1>6. Changes!Range(held) = Within(held)
  <2>1. DOMAIN held = 1..Len(held)
    BY <1>1, LenProperties DEF ListTyped
  <2> QED
    BY <2>1 DEF Changes!Range, Within
<1>7. Changes!Processed \in Changes!Range(Changes!After(current))
  <2>1. /\ Changes!After(c[i]) \in Seq(Elements) /\ Len(Changes!After(c[i])) = Len(c) - i + 1
        /\ \A k \in 1..(Len(c) - i + 1) : Changes!After(c[i])[k] = c[i + k - 1]
    BY <1>1, <1>2, AfterIs
  <2>2. DOMAIN Changes!After(c[i]) = 1..(Len(c) - i + 1)
    BY <2>1, LenProperties
  <2>3. j - i + 1 \in 1..(Len(c) - i + 1) /\ i + (j - i + 1) - 1 = j
    BY <1>2
  <2>4. Changes!After(c[i])[j - i + 1] = c[j]
    BY <2>1, <2>3
  <2> QED
    BY <1>3, <2>2, <2>3, <2>4 DEF Changes!Range
<1>8. {tail, current, Changes!Processed} \subseteq Within(c)
  BY <1>2, <1>3 DEF Within
<1>9. Cardinality(1..allocated) = Len(c) + Len(held)
  BY <1>1, ChainCounts
<1> QED
  BY <1>3, <1>4, <1>5, <1>6, <1>7, <1>8, <1>9, ListCardinality DEF Changes!OneChain

(* What is in the queue while the list moves, and a step of it.            *)
Sending == IF part = "changes" THEN Changes!Sent ELSE <<>>
QueueStep == [Queue!Next]_Sending

ListKept == part = "changes" => ListHolds

LEMMA ListSteps ==
  ListKept /\ [MCNext]_<<vars, outputVars, listVars, notesVars, part>> => ListKept' /\ QueueStep
<1> SUFFICES ASSUME ListKept, [MCNext]_<<vars, outputVars, listVars, notesVars, part>>
             PROVE  ListKept' /\ QueueStep
  OBVIOUS
<1>1. CASE part = "changes" /\ Changes!Next /\ UNCHANGED part
  <2>1. ListHolds' /\ Handed
    BY <1>1, ListStep DEF ListKept
  <2>2. Sending = Changes!Sent /\ Sending' = (Changes!Sent)'
    BY <1>1 DEF Sending
  <2>3. QueueStep
    BY <2>1, <2>2 DEF Handed, QueueStep, Queue!Next, Queue!Send, Queue!Take, Queue!Drop, Sending
  <2> QED
    BY <2>1, <2>3 DEF ListKept
<1>2. CASE UNCHANGED <<listVars, part>>
  <2>1. ListKept'
    BY <1>2 DEF ListKept, ListHolds, ListTyped, ChainIs, listVars, Changes!Processed
  <2>2. Sending' = Sending
    BY <1>2 DEF Sending, listVars, Changes!Sent, Changes!Pending, Changes!After, Changes!Processed
  <2> QED
    BY <2>1, <2>2 DEF QueueStep
<1>3. CASE part # "changes" /\ UNCHANGED part
  BY <1>3 DEF ListKept, QueueStep, Sending
<1> QED
  BY <1>1, <1>2, <1>3 DEF MCNext

(* The list of voice changes implements a queue, whatever the number and   *)
(* the size of its clusters (al/source.cpp, alc/alu.cpp): a call takes     *)
(* none of its elements before the mixer is past it, what is sent arrives, *)
(* in order, each change once, and no element is lost.                     *)
THEOREM ChangesArriveInOrder == MCSpec => ChangesAreQueue
<1>1. MCInit => ListKept /\ Queue!Init
  BY ListFirst DEF MCInit, ListKept, Queue!Init
<1>2. ListKept /\ [MCNext]_<<vars, outputVars, listVars, notesVars, part>> => ListKept' /\ QueueStep
  BY ListSteps
<1>3. ListKept => (part = "changes" => Changes!Inv)
  BY ListIsOneChain DEF ListKept
<1> QED
  BY <1>1, <1>2, <1>3, PTL DEF MCSpec, ChangesAreQueue, Queue!Spec, QueueStep, Sending

=============================================================================
