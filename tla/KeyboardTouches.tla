-------------------------- MODULE KeyboardTouches ---------------------------
(***************************************************************************)
(* The keys of a Keyboard activity: where they are drawn, which one is     *)
(* under a finger, which are shown as pressed (views/KeyboardView.java),   *)
(* and where the notes for them fall (views/BarrageView.java).  The number *)
(* of white keys changes with the "add!" and "reduce!" buttons.            *)
(*                                                                         *)
(* Abstractions.  x counts the pixels of a width that every number of      *)
(* thirds divides in the instances; y only tells the part with black keys  *)
(* from the part below.  What a listener does with a key is in Barrage.    *)
(***************************************************************************)
EXTENDS Integers, FiniteSets, Bags

CONSTANTS
  Fingers,      \* the pointer ids
  Width,        \* the width of both views
  Xs,           \* where fingers may be
  Counts        \* bound: the numbers of white keys the buttons lead to

ASSUME TouchAssumptions ==
  /\ Width \in Nat \ {0}
  /\ Xs \subseteq 0..(Width - 1)
  /\ 8 \in Counts /\ Counts \subseteq Nat \ {0}

Up == [x |-> Width, upper |-> FALSE]      \* not on the screen
Places == [x: Xs, upper: BOOLEAN]
NoKey == -1

VARIABLES
  keyCount,     \* the white keys of both views
  finger,       \* where each finger is
  lastPresses,  \* the key it was last on
  pressed,      \* the keys shown as pressed, with repetition
  alive,        \* the app has not died of a view without keys
  resized,      \* history: the keys changed under a finger since all were up
  cancelled     \* history: Android has cancelled a touch since then

vars == <<keyCount, finger, lastPresses, pressed, alive, resized, cancelled>>

-----------------------------------------------------------------------------
(* The layout.  An octave is twelve keys over seven white ones. *)

(* The keys KeyboardView draws. *)
drawCount(n) ==
  LET l == n % 7 IN
  (n \div 7) * 12 + (CASE l = 0 -> 0 [] l = 1 -> 2 [] l = 2 -> 4 [] l \in {3, 4} -> l + 3
                       [] l = 5 -> 9 [] l = 6 -> 11)

Keys == UNION {0..drawCount(n) : n \in Counts}

(* The keys BarrageView divides the notes among. *)
barrageCount(n) ==
  LET l == n % 7 IN
  (n \div 7) * 12 + (CASE l \in {0, 1} -> l [] l = 2 -> 3 [] l \in {3, 4} -> l + 2
                       [] l = 5 -> 8 [] l = 6 -> 10)

(* Mutant: a third of a key is counted in the wrong gap. *)
divisionOffByOne(n, place) ==
  LET white == (place.x * n) \div Width
      third == (place.x * 3 * n) \div Width
      l == third % 21 IN
  IF ~place.upper
  THEN (white \div 7) * 12 + (LET w == white % 7 IN IF w > 2 THEN 2 * w - 1 ELSE 2 * w)
  ELSE (third \div 21) * 12
       + (IF l > 16 THEN l + 3 ELSE IF l > 14 THEN l + 2 ELSE IF l > 4 THEN l + 1 ELSE l) \div 2

(* The key under a finger: below, by white keys; above, by thirds of them. *)
division(n, place) ==
  LET white == (place.x * n) \div Width
      third == (place.x * 3 * n) \div Width
      l == third % 21 IN
  IF ~place.upper
  THEN (white \div 7) * 12 + (LET w == white % 7 IN IF w > 2 THEN 2 * w - 1 ELSE 2 * w)
  ELSE (third \div 21) * 12
       + (IF l > 16 THEN l + 3 ELSE IF l > 13 THEN l + 2 ELSE IF l > 4 THEN l + 1 ELSE l) \div 2

(* onDraw counts half white keys, 14 to the octave; odd ones are black.    *)
Halves(key) == LET l == key % 12 IN (key \div 12) * 14 + (IF l > 4 THEN l + 1 ELSE l)
Black(key) == Halves(key) % 2 = 1

(* Mutant: the missing black key of the octave is forgotten. *)
noteHalvesAll(n, value) == (value % barrageCount(n)) + 1

(* Where BarrageView draws the middle of a note. *)
noteHalves(n, value) == Halves(value % barrageCount(n)) + 1

(* In sixths of a white key, what KeyboardView draws of a key.             *)
DrawnAt(key) ==
  IF Black(key) THEN (3 * (Halves(key) + 1) - 2)..(3 * (Halves(key) + 1) + 1)
                ELSE (3 * Halves(key))..(3 * Halves(key) + 5)

-----------------------------------------------------------------------------
(* The touches. *)

(* The type invariant: among others, a finger has a key while it is down.  *)
TypeOK ==
  /\ keyCount \in Counts
  /\ finger \in [Fingers -> Places \cup {Up}]
  /\ lastPresses \in [Fingers -> Keys \cup {NoKey}]
  /\ \A f \in Fingers : finger[f] # Up => lastPresses[f] # NoKey
  /\ IsABag(pressed)
  /\ {alive, resized, cancelled} \subseteq BOOLEAN

Init ==
  /\ keyCount = 8
  /\ finger = [f \in Fingers |-> Up]
  /\ lastPresses = [f \in Fingers |-> NoKey]
  /\ pressed = EmptyBag
  /\ alive = TRUE /\ resized = FALSE /\ cancelled = FALSE

Down == {f \in Fingers : finger[f] # Up}

(* The keys that fingers are on, each as often as fingers are on it.       *)
KeysOf(on, fingers) ==
  [key \in {on[f] : f \in fingers} |-> Cardinality({f \in fingers : on[f] = key})]

(* ACTION_DOWN and ACTION_POINTER_DOWN. *)
FingerDown(f, place) ==
  LET key == division(keyCount, place) IN
  /\ f \notin Down
  /\ finger' = [finger EXCEPT ![f] = place]
  /\ lastPresses' = [lastPresses EXCEPT ![f] = key]
  /\ pressed' = pressed (+) SetToBag({key})
  /\ UNCHANGED <<keyCount, alive, resized, cancelled>>

(* What the last key of a lifted finger was is never looked at again.      *)
Lift(f) ==
  /\ finger' = [finger EXCEPT ![f] = Up]
  /\ lastPresses' = [lastPresses EXCEPT ![f] = NoKey]

(* ACTION_UP: the last finger goes, and all keys with it. *)
LastUp(f) ==
  /\ Down = {f}
  /\ Lift(f)
  /\ pressed' = EmptyBag
  /\ resized' = FALSE /\ cancelled' = FALSE
  /\ UNCHANGED <<keyCount, alive>>

(* ACTION_POINTER_UP: the key under the finger by the keys there are now.  *)
PointerUp(f) ==
  /\ f \in Down /\ Down # {f}
  /\ Lift(f)
  /\ pressed' = pressed (-) SetToBag({division(keyCount, finger[f])})
  /\ UNCHANGED <<keyCount, alive, resized, cancelled>>

(* Mutant: the key a finger has left stays pressed. *)
MoveKeeps(f, place) ==
  LET to == [finger EXCEPT ![f] = place]
      on == [g \in Fingers |-> IF g \in Down THEN division(keyCount, to[g]) ELSE lastPresses[g]]
      moved == {g \in Down : on[g] # lastPresses[g]} IN
  /\ f \in Down
  /\ finger' = to
  /\ lastPresses' = on
  /\ pressed' = pressed (+) KeysOf(on, moved)
  /\ UNCHANGED <<keyCount, alive, resized, cancelled>>

(* ACTION_MOVE, of one finger: every finger is looked at.  All keys left   *)
(* are taken out before the new ones are put in, the code's order but for  *)
(* a key that a resize has left out of pressed.                            *)
Move(f, place) ==
  LET to == [finger EXCEPT ![f] = place]
      on == [g \in Fingers |-> IF g \in Down THEN division(keyCount, to[g]) ELSE lastPresses[g]]
      moved == {g \in Down : on[g] # lastPresses[g]} IN
  /\ f \in Down
  /\ finger' = to
  /\ lastPresses' = on
  /\ pressed' = (pressed (-) KeysOf(lastPresses, moved)) (+) KeysOf(on, moved)
  /\ UNCHANGED <<keyCount, alive, resized, cancelled>>

(* Nobody listens to ACTION_CANCEL.  Bound: once until all fingers are up. *)
Cancel ==
  /\ Down # {} /\ ~cancelled
  /\ finger' = [f \in Fingers |-> Up]
  /\ lastPresses' = [f \in Fingers |-> NoKey]
  /\ cancelled' = TRUE
  /\ UNCHANGED <<keyCount, pressed, alive, resized>>

(* The buttons.  Bound: the keys change once under a finger.               *)
addCount(n) ==
  /\ n \in Counts /\ (n = keyCount + 1 \/ n + 1 = keyCount)
  /\ ~resized
  /\ keyCount' = n
  /\ resized' = (Down # {})
  /\ UNCHANGED <<finger, lastPresses, pressed, alive, cancelled>>

(* Without keys, a key is infinitely wide.                                 *)
NoKeysLeft ==
  /\ keyCount = 1
  /\ alive' = FALSE
  /\ UNCHANGED <<keyCount, finger, lastPresses, pressed, resized, cancelled>>

Next ==
  alive /\
    ( \/ \E f \in Fingers, place \in Places : FingerDown(f, place) \/ Move(f, place)
      \/ \E f \in Fingers : LastUp(f) \/ PointerUp(f)
      \/ Cancel \/ NoKeysLeft
      \/ \E n \in Counts : addCount(n) )

Spec == Init /\ [][Next]_vars

-----------------------------------------------------------------------------
(* Properties. *)

(* The keys shown as pressed are those under the fingers, each as often as *)
(* fingers are on it, unless the keys changed under them.                  *)
PressedIsUnderFingers ==
  ~resized /\ ~cancelled =>
    pressed = KeysOf([f \in Down |-> division(keyCount, finger[f])], Down)

(* When all fingers have been lifted no key is shown as pressed, whatever  *)
(* happened to the keys meanwhile; only a cancelled touch leaves some.     *)
AllUpAllClear == Down = {} /\ ~cancelled => pressed = EmptyBag

(* What the view promises of the keys it shows, at every touch event.      *)
Inv == TypeOK /\ PressedIsUnderFingers /\ AllUpAllClear

(* The edges of all thirds of keys.                                        *)
Everywhere(n) == [x: {(t * Width) \div (3 * n) : t \in 0..(3 * n - 1)}, upper: BOOLEAN]

(* The key found under a finger is the one drawn there: a black key where  *)
(* one is drawn above, and a white one everywhere else.                    *)
TouchesFit(n) ==
  \A p \in Everywhere(n) :
    LET key == division(n, p)
        sixth == (p.x * 6 * n) \div Width IN
    /\ key < drawCount(n)
    /\ sixth \in DrawnAt(key)
    /\ Black(key) = (p.upper /\ \E k \in 0..(drawCount(n) - 1) :
                                   Black(k) /\ sixth \in DrawnAt(k))
CountsThatFit == {n \in Counts : TouchesFit(n)}
TouchedIsDrawn == keyCount \in CountsThatFit

(* A note falls onto the key that takes it: the one drawn below its middle *)
(* is the one whose touch fits it.  And every key takes some note, but the *)
(* half black one at the right edge, which KeyboardView counts and         *)
(* BarrageView does not.                                                   *)
NotesFit(n) ==
  \A value \in 0..(barrageCount(n) - 1) :
    LET at == [x |-> (noteHalves(n, value) * Width) \div (2 * n), upper |-> Black(value)] IN
    at.x < Width => division(n, at) = value
KeysFit(n) ==
  \A p \in Everywhere(n) :
    LET key == division(n, p) IN
    \/ key < barrageCount(n)
    \/ key = barrageCount(n) /\ Black(key) /\ p.upper
CountsForNotes == {n \in Counts : NotesFit(n) /\ KeysFit(n)}
NoteFallsOnItsKey == keyCount \in CountsForNotes

=============================================================================
