---------------------------- MODULE ServerProofs -----------------------------
(***************************************************************************)
(* What MCServer promises of every number of connections, accounts and     *)
(* notices, and of every length and number of messages: the invariants of  *)
(* ServerSessions, from one that is inductive, and that the frames of a    *)
(* stream implement a channel of messages (FrameStream, MessageChannel)    *)
(* and lose one message at most when the stream is closed.                 *)
(***************************************************************************)
EXTENDS MCServer, WellFoundedInduction, TLAPS

-----------------------------------------------------------------------------
(* Type correctness, one action at a time. *)

(* What a crash leaves behind satisfies every part of the invariant.       *)
LEMMA CrashInv == Crash => IInv'
<1> SUFFICES ASSUME Crash PROVE IInv'
  OBVIOUS
<1>1. TypeOK'
  BY DEF Crash, TypeOK, HandlerStates, ConsoleStates
<1>2. AccountHeld' /\ NoAccountAround' /\ GoneIsNotListed' /\ SoleSessionListed'
  BY SessionAssumptions DEF Crash, AccountHeld, NoAccountAround, GoneIsNotListed, SoleSessionListed
<1>3. OpenWhileServed' /\ EntryAccepted' /\ NoticeAccepted' /\ DropAfterShut'
  BY DEF Crash, OpenWhileServed, EntryAccepted, NoticeAccepted, DropAfterShut, Unused
<1> QED
  BY <1>1, <1>2, <1>3 DEF IInv

LEMMA TypeHandler ==
  ASSUME TypeOK, NEW c \in Conns, HandlerStep(c) \/ Request(c)
  PROVE  TypeOK'
<1> USE DEF TypeOK, HandlerStates, ConsoleStates, Goto
<1>1. CASE Insert(c)
  BY <1>1 DEF Insert
<1>2. CASE Erase(c)
  BY <1>2 DEF Erase, Delete
<1>3. CASE Draw(c)
  BY <1>3 DEF Draw
<1>4. CASE CloseDrop(c)
  BY <1>4 DEF CloseDrop, Delete
<1>5. CASE LastDraw(c)
  BY <1>5 DEF LastDraw
<1>6. CASE \E a \in Accounts : Lookup(c, a)
  BY <1>6, CrashInv DEF Lookup, Carry, IInv
<1>7. CASE Accept(c)
  BY <1>7 DEF Accept
<1>8. CASE SaltRequest(c)
  BY <1>8 DEF SaltRequest
<1>9. CASE Logout(c)
  BY <1>9 DEF Logout, Carry
<1>10. CASE Reconnect(c)
  BY <1>10 DEF Reconnect
<1>11. CASE EndOfStream(c)
  BY <1>11 DEF EndOfStream, Shut
<1>12. CASE \E a \in Accounts : Login(c, a)
  BY <1>12 DEF Login, Carry
<1>13. CASE EmptyMessage(c) \/ UnknownName(c)
  BY <1>13, CrashInv DEF EmptyMessage, UnknownName, IInv
<1> QED
  BY <1>1, <1>2, <1>3, <1>4, <1>5, <1>6, <1>7, <1>8, <1>9, <1>10, <1>11, <1>12, <1>13
     DEF HandlerStep, Request

LEMMA TypeOthers ==
  ASSUME TypeOK, (\E a \in Accounts : NoticeStep(a)) \/ ConsoleStep \/ AdminTap \/ MapFault
  PROVE  TypeOK'
<1> USE DEF TypeOK, NoticeStates, ConsoleStates, Unused
<1>1. ASSUME NEW a \in Accounts, Wake(a) PROVE TypeOK'
  BY <1>1 DEF Wake, Shut, connVars
<1>2. ASSUME NEW a \in Accounts, NoticeDrop(a) PROVE TypeOK'
  BY <1>2 DEF NoticeDrop, Delete, connVars, Unused
<1>3. ASSUME NEW a \in Accounts, NoticeDraw(a) PROVE TypeOK'
  BY <1>3 DEF NoticeDraw, connVars
<1>4. ASSUME NEW a \in Accounts, NotifyNext(a) PROVE TypeOK'
  BY <1>4 DEF NotifyNext, Listed, connVars
<1>5. ASSUME NEW a \in Accounts, ForceNext(a) PROVE TypeOK'
  BY <1>5 DEF ForceNext, Listed, Shut, connVars
<1>6. CASE IterationEnds \/ ConsoleDraw
  BY <1>6 DEF IterationEnds, ConsoleDraw, connVars
<1>7. CASE AdminTap
  <2>1. \E k \in ConsoleStates : Tap(k)
    BY <1>7 DEF AdminTap, Toggle, Redraw, TapNotify, TapForce
  <2>2. console' \in [at: ConsoleStates, must: SUBSET Accounts, seen: SUBSET Accounts]
    BY <2>1 DEF Tap, Listed
  <2>3. isOpen' \in BOOLEAN /\ UNCHANGED <<connVars, users, notice, up>>
    BY <1>7 DEF AdminTap, Toggle, Redraw, TapNotify, TapForce
  <2> QED
    BY <2>2, <2>3 DEF connVars
<1>8. CASE MapFault
  BY <1>8, CrashInv DEF MapFault, IInv
<1> QED
  BY <1>1, <1>2, <1>3, <1>4, <1>5, <1>6, <1>7, <1>8 DEF NoticeStep, ConsoleStep

-----------------------------------------------------------------------------
(* The rest of the invariant, one action at a time. *)

Rest ==
  /\ AccountHeld /\ NoAccountAround /\ OpenWhileServed
  /\ EntryAccepted /\ NoticeAccepted /\ DropAfterShut
  /\ GoneIsNotListed /\ SoleSessionListed

LEMMA RestHandler ==
  ASSUME IInv, NEW d \in Conns, HandlerStep(d) \/ Request(d)
  PROVE  Rest'
<1> USE SessionAssumptions DEF IInv, TypeOK, Unused, connVars, Rest,
          AccountHeld, NoAccountAround, OpenWhileServed, EntryAccepted,
          NoticeAccepted, DropAfterShut, GoneIsNotListed, SoleSessionListed
<1>1. ASSUME NEW c \in Conns, Insert(c) PROVE Rest'
  BY <1>1 DEF Insert, Goto
<1>2. ASSUME NEW c \in Conns, Erase(c) PROVE Rest'
  BY <1>2 DEF Erase, Goto, Delete
<1>3. ASSUME NEW c \in Conns, Draw(c) PROVE Rest'
  BY <1>3 DEF Draw, Goto
<1>4. ASSUME NEW c \in Conns, CloseDrop(c) PROVE Rest'
  BY <1>4 DEF CloseDrop, Goto, Delete
<1>5. ASSUME NEW c \in Conns, LastDraw(c) PROVE Rest'
  BY <1>5 DEF LastDraw, Goto
<1>6. ASSUME NEW c \in Conns, Accept(c) PROVE Rest'
  BY <1>6 DEF Accept, Goto
<1>7. ASSUME NEW c \in Conns, SaltRequest(c) PROVE Rest'
  BY <1>7 DEF SaltRequest, Goto
<1>8. ASSUME NEW c \in Conns, Logout(c) PROVE Rest'
  BY <1>8 DEF Logout, Goto, Carry
<1>9. ASSUME NEW c \in Conns, Reconnect(c) PROVE Rest'
  BY <1>9 DEF Reconnect, Goto
<1>10. ASSUME NEW c \in Conns, EndOfStream(c) PROVE Rest'
  BY <1>10 DEF EndOfStream, Goto, Shut
<1>11. ASSUME NEW c \in Conns, NEW a \in Accounts, Login(c, a) PROVE Rest'
  BY <1>11 DEF Login, Goto, Carry
<1>12. ASSUME NEW c \in Conns, NEW a \in Accounts, Lookup(c, a) PROVE Rest'
  <2>1. CASE Crash
    BY <2>1, CrashInv
  <2>2. CASE ~Crash
    BY <1>12, <2>2 DEF Lookup, Goto, Carry
  <2> QED
    BY <2>1, <2>2
<1>13. ASSUME NEW c \in Conns, EmptyMessage(c) \/ UnknownName(c) PROVE Rest'
  BY <1>13, CrashInv DEF EmptyMessage, UnknownName
<1> QED
  BY <1>1, <1>2, <1>3, <1>4, <1>5, <1>6, <1>7, <1>8, <1>9, <1>10, <1>11, <1>12, <1>13
     DEF HandlerStep, Request

LEMMA RestOthers ==
  ASSUME IInv, (\E b \in Accounts : NoticeStep(b)) \/ ConsoleStep \/ AdminTap \/ MapFault
  PROVE  Rest'
<1> USE SessionAssumptions DEF IInv, TypeOK, Unused, connVars, Rest,
          AccountHeld, NoAccountAround, OpenWhileServed, EntryAccepted,
          NoticeAccepted, DropAfterShut, GoneIsNotListed, SoleSessionListed
<1>1. ASSUME NEW a \in Accounts, Wake(a) PROVE Rest'
  BY <1>1 DEF Wake, Shut
<1>2. ASSUME NEW a \in Accounts, NoticeDrop(a) PROVE Rest'
  BY <1>2 DEF NoticeDrop, Delete
<1>3. ASSUME NEW a \in Accounts, NoticeDraw(a) PROVE Rest'
  BY <1>3 DEF NoticeDraw
<1>4. ASSUME IterationEnds PROVE Rest'
  BY <1>4 DEF IterationEnds
<1>5. ASSUME ConsoleDraw PROVE Rest'
  BY <1>5 DEF ConsoleDraw
<1>6. ASSUME NEW a \in Accounts, NotifyNext(a) PROVE Rest'
  BY <1>6 DEF NotifyNext, Listed
<1>7. ASSUME NEW a \in Accounts, ForceNext(a) PROVE Rest'
  BY <1>7 DEF ForceNext, Shut, Listed
<1>8. ASSUME Toggle PROVE Rest'
  BY <1>8 DEF Toggle, Tap
<1>9. ASSUME Redraw PROVE Rest'
  BY <1>9 DEF Redraw, Tap
<1>10. ASSUME TapNotify PROVE Rest'
  BY <1>10 DEF TapNotify, Tap
<1>11. ASSUME TapForce PROVE Rest'
  BY <1>11 DEF TapForce, Tap
<1>12. CASE MapFault
  BY <1>12, CrashInv DEF MapFault, Rest
<1> QED
  BY <1>1, <1>2, <1>3, <1>4, <1>5, <1>6, <1>7, <1>8, <1>9, <1>10, <1>11, <1>12 DEF NoticeStep, ConsoleStep, AdminTap

-----------------------------------------------------------------------------
(* The theorems. *)

LEMMA InitInv == Init => IInv
BY SessionAssumptions
   DEF Init, IInv, TypeOK, HandlerStates, ConsoleStates, Unused, AccountHeld,
       NoAccountAround, OpenWhileServed, EntryAccepted, NoticeAccepted,
       DropAfterShut, GoneIsNotListed, SoleSessionListed

LEMMA NextInv == IInv /\ [Next]_vars => IInv'
<1> SUFFICES ASSUME IInv, [Next]_vars PROVE TypeOK' /\ Rest'
  BY DEF IInv, Rest
<1>1. CASE \E c \in Conns : HandlerStep(c) \/ Request(c)
  BY <1>1, TypeHandler, RestHandler DEF IInv
<1>2. CASE (\E a \in Accounts : NoticeStep(a)) \/ ConsoleStep \/ AdminTap \/ MapFault
  BY <1>2, TypeOthers, RestOthers DEF IInv
<1>3. CASE UNCHANGED vars
  BY <1>3 DEF vars, connVars, IInv, TypeOK, Rest, AccountHeld, NoAccountAround,
       OpenWhileServed, EntryAccepted, NoticeAccepted, DropAfterShut,
       GoneIsNotListed, SoleSessionListed
<1> QED
  BY <1>1, <1>2, <1>3 DEF Next

(* The inductive invariant: what handlers, notices and the console keep    *)
(* together of the table, the open streams and the accounts of the         *)
(* connections.                                                            *)
THEOREM InvariantHolds == Spec => []IInv
BY InitInv, NextInv, PTL DEF Spec

(* The type invariant, for every number of connections and accounts.       *)
THEOREM TypeCorrect == Spec => []TypeOK
<1>1. IInv => TypeOK
  BY DEF IInv
<1> QED
  BY <1>1, InvariantHolds, PTL

(* Whatever threads interleave, the deferred Close of handleClient leaves  *)
(* no entry of a connection under the account it had at the end.           *)
THEOREM GoneStaysUnlisted == Spec => []GoneIsNotListed
<1>1. IInv => GoneIsNotListed
  BY DEF IInv
<1> QED
  BY <1>1, InvariantHolds, PTL

(* The open session of an account that nobody else carried is never lost   *)
(* from the table to a notice, a forced close or another connection.       *)
THEOREM SoleSessionStaysListed == Spec => []SoleSessionListed
<1>1. IInv => SoleSessionListed
  BY DEF IInv
<1> QED
  BY <1>1, InvariantHolds, PTL

-----------------------------------------------------------------------------
(* Induction over the naturals, and sequences.                            *)

(* A set of naturals has a least one. *)
LEMMA Least ==
  ASSUME NEW S \in SUBSET Nat, S # {}
  PROVE  \E n \in S : \A k \in S : n <= k
<1>1. PICK n \in S : \A k \in S : ~(<<k, n>> \in OpToRel(<, Nat))
  BY NatLessThanWellFounded, WFMin
<1>2. ASSUME NEW k \in S PROVE n <= k
  <2>1. k \in Nat /\ n \in Nat
    OBVIOUS
  <2>2. ~(k < n)
    BY <1>1, <2>1, Zenon DEF OpToRel
  <2> QED
    BY <2>1, <2>2
<1> QED
  BY <1>2

(* What holds of 0, and of n + 1 whenever it holds of n, holds of every n. *)
LEMMA Naturals ==
  ASSUME NEW S, 0 \in S, \A n \in Nat : n \in S => n + 1 \in S
  PROVE  Nat \subseteq S
<1> SUFFICES ASSUME Nat \ S # {} PROVE FALSE
  OBVIOUS
<1>1. PICK n \in Nat \ S : \A k \in Nat \ S : n <= k
  BY Least
<1>2. n # 0 /\ n - 1 \in Nat /\ n - 1 \in S
  BY <1>1
<1> QED
  BY <1>1, <1>2

(* A step taken again and again from a start.                              *)
Iterates(f, X, start, step) ==
  f \in [Nat -> X] /\ f[0] = start /\ \A n \in Nat : f[n + 1] = step[<<n, f[n]>>]

LEMMA Iteration ==
  ASSUME NEW X, NEW start \in X, NEW step \in [Nat \X X -> X]
  PROVE  \E f : Iterates(f, X, start, step)
<1> DEFINE Steps(g, n) == g[0] = start /\ \A k \in 0..n - 1 : g[k + 1] = step[<<k, g[k]>>]
           Some == {n \in Nat : \E g \in [0..n -> X] : Steps(g, n)}
           Sole == {n \in Nat : \A g, h : Steps(g, n) /\ Steps(h, n) => g[n] = h[n]}
<1>1. Nat \subseteq Some
  <2>1. 0 \in Some
    <3> DEFINE h == [k \in 0..0 |-> start]
    <3>1. h \in [0..0 -> X] /\ Steps(h, 0)
      OBVIOUS
    <3> HIDE DEF Steps, h
    <3> QED
      BY <3>1
  <2>2. ASSUME NEW n \in Nat, n \in Some PROVE n + 1 \in Some
    <3>1. PICK g \in [0..n -> X] : Steps(g, n)
      BY <2>2
    <3> DEFINE h == [k \in 0..n + 1 |-> IF k = n + 1 THEN step[<<n, g[n]>>] ELSE g[k]]
    <3>2. h \in [0..n + 1 -> X]
      OBVIOUS
    <3>3. Steps(h, n + 1)
      <4>1. h[0] = start
        BY <3>1
      <4>2. ASSUME NEW k \in 0..(n + 1) - 1 PROVE h[k + 1] = step[<<k, h[k]>>]
        <5>1. CASE k = n
          <6>1. h[n] = g[n] /\ h[n + 1] = step[<<n, g[n]>>]
            OBVIOUS
          <6> QED  BY <5>1, <6>1
        <5>2. CASE k # n
          <6>1. k \in 0..n - 1 /\ h[k] = g[k] /\ h[k + 1] = g[k + 1]
            BY <5>2
          <6> QED  BY <3>1, <6>1
        <5> QED  BY <5>1, <5>2
      <4> QED  BY <4>1, <4>2
    <3> HIDE DEF Steps, h
    <3> QED
      BY <3>2, <3>3
  <2> HIDE DEF Some
  <2> QED
    BY <2>1, <2>2, Naturals
<1>2. Nat \subseteq Sole
  <2>1. 0 \in Sole
    OBVIOUS
  <2>2. ASSUME NEW n \in Nat, n \in Sole PROVE n + 1 \in Sole
    <3>1. ASSUME NEW g, NEW h, Steps(g, n + 1), Steps(h, n + 1) PROVE g[n + 1] = h[n + 1]
      <4>1. Steps(g, n) /\ Steps(h, n)
        BY <3>1
      <4>2. g[n] = h[n]
        <5> HIDE DEF Steps
        <5> QED  BY <2>2, <4>1
      <4>3. n \in 0..(n + 1) - 1
        OBVIOUS
      <4> QED
        BY <3>1, <4>2, <4>3
    <3> HIDE DEF Steps
    <3> QED
      BY <3>1
  <2> HIDE DEF Sole
  <2> QED
    BY <2>1, <2>2, Naturals
<1> DEFINE G(n) == CHOOSE g \in [0..n -> X] : Steps(g, n)
           f == [n \in Nat |-> G(n)[n]]
<1>3. ASSUME NEW n \in Nat PROVE G(n) \in [0..n -> X] /\ Steps(G(n), n)
  <2>1. \E g \in [0..n -> X] : Steps(g, n)
    BY <1>1
  <2> HIDE DEF Steps
  <2> QED
    BY <2>1
<1>4. f \in [Nat -> X]
  <2> HIDE DEF G
  <2> QED
    BY <1>3
<1>5. f[0] = start
  <2>1. Steps(G(0), 0)
    BY <1>3
  <2> HIDE DEF G
  <2> QED
    BY <2>1
<1>6. ASSUME NEW n \in Nat PROVE f[n + 1] = step[<<n, f[n]>>]
  <2> HIDE DEF G
  <2>1. Steps(G(n), n) /\ Steps(G(n + 1), n + 1)
    <3> HIDE DEF Steps
    <3>1. n + 1 \in Nat
      OBVIOUS
    <3> QED
      BY <1>3, <3>1
  <2>2. Steps(G(n + 1), n) /\ G(n + 1)[n + 1] = step[<<n, G(n + 1)[n]>>]
    <3>1. n \in 0..(n + 1) - 1
      OBVIOUS
    <3> QED
      BY <2>1, <3>1
  <2>3. G(n + 1)[n] = G(n)[n]
    <3> HIDE DEF Steps
    <3> QED
      BY <1>2, <2>1, <2>2
  <2> QED
    BY <2>2, <2>3
<1> HIDE DEF f
<1> QED
  BY <1>4, <1>5, <1>6 DEF Iterates

LEMMA PlaceDef ==
  /\ Frames!Place \in [Nat -> Nat] /\ Frames!Place[0] = 1
  /\ \A n \in Nat : Frames!Place[n + 1] = Base * Frames!Place[n]
<1> DEFINE step == [p \in Nat \X Nat |-> Base * p[2]]
<1>1. PICK f \in [Nat -> Nat] : f[0] = 1 /\ \A n \in Nat : f[n + 1] = step[<<n, f[n]>>]
  <2>1. step \in [Nat \X Nat -> Nat]
    BY FrameAssumptions
  <2>2. 1 \in Nat
    OBVIOUS
  <2> HIDE DEF step
  <2>3. \E f : Iterates(f, Nat, 1, step)
    BY <2>1, <2>2, Iteration
  <2> QED
    BY <2>3 DEF Iterates
<1> DEFINE Solves(g) == g = [k \in Nat |-> IF k = 0 THEN 1 ELSE Base * g[k - 1]]
<1>2. Solves(f)
  <2>1. ASSUME NEW k \in Nat PROVE f[k] = IF k = 0 THEN 1 ELSE Base * f[k - 1]
    <3>1. CASE k # 0
      <4>1. k - 1 \in Nat /\ (k - 1) + 1 = k
        BY <3>1
      <4> QED
        BY <1>1, <3>1, <4>1
    <3> QED
      BY <1>1, <3>1
  <2> QED
    BY <2>1
<1>3. Frames!Place = CHOOSE g : Solves(g)
  BY DEF Frames!Place
<1>4. Solves(Frames!Place)
  <2> HIDE DEF Solves
  <2> QED
    BY <1>2, <1>3
<1>5. Frames!Place[0] = 1 /\ \A n \in Nat : Frames!Place[n + 1] = Base * Frames!Place[n]
  BY <1>4
<1>6. Nat \subseteq {n \in Nat : Frames!Place[n] \in Nat}
  <2>1. \A n \in Nat : Frames!Place[n] \in Nat => Base * Frames!Place[n] \in Nat
    BY FrameAssumptions
  <2> DEFINE S == {n \in Nat : Frames!Place[n] \in Nat}
  <2>2. 0 \in S /\ \A n \in Nat : n \in S => n + 1 \in S
    BY <1>5, <2>1
  <2> HIDE DEF S
  <2>3. Nat \subseteq S
    BY <2>2, Naturals
  <2> QED
    BY <2>3 DEF S
<1> QED
  BY <1>4, <1>5, <1>6

LEMMA Digits ==
  ASSUME NEW n \in Nat
  PROVE  /\ n % Base \in 0..Base - 1 /\ n \div Base \in Nat
         /\ n = (n % Base) + Base * (n \div Base)
         /\ n >= Base => n \div Base < n
         /\ (n % Base) + Base \in Base..2 * Base - 1 /\ ((n % Base) + Base) % Base = n % Base
         /\ n < Base => n % Base = n
<1>1. \A b \in Nat : b > 1 => n = b * (n \div b) + (n % b)
  OBVIOUS
<1>2. Base \in Nat /\ Base > 1
  BY FrameAssumptions
<1>3. n % Base \in 0..Base - 1 /\ n \div Base \in Nat /\ (n >= Base => n \div Base < n)
  BY <1>2
<1>4. n = (n % Base) + Base * (n \div Base)
  <2>1. n = Base * (n \div Base) + (n % Base) /\ Base * (n \div Base) \in Nat
    BY <1>1, <1>2, <1>3
  <2> QED
    BY <2>1, <1>2, <1>3
<1>5. (n % Base) + Base \in Base..2 * Base - 1
  BY <1>2, <1>3
<1>6. \A k \in 0..Base - 1 : (k + Base) % Base = k /\ k % Base = k
  BY <1>2
<1> QED
  BY <1>2, <1>3, <1>4, <1>5, <1>6

(* A length is written digit by digit, the least significant first.        *)
LEMMA LengthDef ==
  /\ Frames!int2byte \in [Nat -> Seq(Frames!Byte)]
  /\ \A n \in Nat : Frames!int2byte[n] =
       IF n >= Base THEN <<(n % Base) + Base>> \o Frames!int2byte[n \div Base] ELSE <<n>>
<1> DEFINE B == Seq(Frames!Byte)
           Next1(g) == [k \in Nat |->
             IF k >= Base THEN <<(k % Base) + Base>> \o g[k \div Base] ELSE <<k>>]
           Solves(g) == g = Next1(g)
           none == [k \in Nat |-> <<>>]
           step == [p \in Nat \X [Nat -> B] |-> Next1(p[2])]
<1>1. ASSUME NEW g \in [Nat -> B] PROVE Next1(g) \in [Nat -> B]
  <2>1. ASSUME NEW k \in Nat
        PROVE  (IF k >= Base THEN <<(k % Base) + Base>> \o g[k \div Base] ELSE <<k>>) \in B
    <3>1. CASE k >= Base
      <4>1. (k % Base) + Base \in Frames!Byte
        BY Digits, FrameAssumptions DEF Frames!Byte
      <4>2. <<(k % Base) + Base>> \in B
        BY <4>1
      <4>3. g[k \div Base] \in B
        BY Digits
      <4>4. <<(k % Base) + Base>> \o g[k \div Base] \in B
        BY <4>2, <4>3
      <4> QED
        BY <3>1, <4>4
    <3>2. CASE ~(k >= Base)
      <4>1. k \in Frames!Byte
        BY <3>2, FrameAssumptions DEF Frames!Byte
      <4> QED
        BY <3>2, <4>1
    <3> QED
      BY <3>1, <3>2
  <2> QED
    BY <2>1
<1>2. PICK f : Iterates(f, [Nat -> B], none, step)
  <2>1. none \in [Nat -> B]
    OBVIOUS
  <2>2. step \in [Nat \X [Nat -> B] -> [Nat -> B]]
    <3> HIDE DEF Next1, B
    <3> QED
      BY <1>1
  <2> HIDE DEF none, step, B
  <2> QED
    BY <2>1, <2>2, Iteration
<1>3. /\ f \in [Nat -> [Nat -> B]]
      /\ \A n \in Nat : f[n + 1] = Next1(f[n])
  <2> HIDE DEF Next1, B
  <2> QED
    BY <1>2 DEF Iterates
<1>4. \A n \in Nat : \A k \in Nat :
        f[n + 1][k] = IF k >= Base THEN <<(k % Base) + Base>> \o f[n][k \div Base] ELSE <<k>>
  BY <1>3
<1> DEFINE S == {k \in Nat : \A n \in Nat : k <= n => f[n + 1][k] = f[k + 1][k]}
<1>5. Nat \subseteq S
  <2> SUFFICES ASSUME Nat \ S # {} PROVE FALSE
    OBVIOUS
  <2>1. PICK k \in Nat \ S : \A j \in Nat \ S : k <= j
    <3> HIDE DEF S
    <3> QED  BY Least
  <2>2. PICK n \in Nat : k <= n /\ f[n + 1][k] # f[k + 1][k]
    BY <2>1
  <2>3. k >= Base
    BY <1>4, <2>2
  <2> DEFINE j == k \div Base
  <2>4. j \in Nat /\ j < k
    BY <2>3, Digits
  <2>5. j \in S
    <3> HIDE DEF S, j
    <3> QED
      BY <2>1, <2>4
  <2>6. f[n][j] = f[k][j]
    <3>1. n - 1 \in Nat /\ k - 1 \in Nat /\ (n - 1) + 1 = n /\ (k - 1) + 1 = k
          /\ j <= n - 1 /\ j <= k - 1
      BY <2>2, <2>4
    <3> QED
      BY <2>5, <3>1
  <2> QED
    BY <1>4, <2>2, <2>3, <2>6
<1> DEFINE h == [k \in Nat |-> f[k + 1][k]]
<1>6. h \in [Nat -> B]
  <2> HIDE DEF B
  <2>1. \A k \in Nat : k + 1 \in Nat
    OBVIOUS
  <2> QED
    BY <1>3, <2>1
<1>7. \A k \in Nat : h[k] = IF k >= Base THEN <<(k % Base) + Base>> \o h[k \div Base] ELSE <<k>>
  <2> SUFFICES ASSUME NEW k \in Nat
      PROVE  h[k] = IF k >= Base THEN <<(k % Base) + Base>> \o h[k \div Base] ELSE <<k>>
    OBVIOUS
  <2>1. CASE k >= Base
    <3> DEFINE j == k \div Base
    <3>1. j \in Nat /\ j < k
      BY <2>1, Digits
    <3>2. k - 1 \in Nat /\ j <= k - 1 /\ (k - 1) + 1 = k
      BY <3>1
    <3>3. f[k][j] = f[j + 1][j]
      BY <1>5, <3>1, <3>2
    <3> QED
      BY <1>4, <2>1, <3>1, <3>3
  <2>2. CASE ~(k >= Base)
    BY <1>4, <2>2
  <2> QED
    BY <2>1, <2>2
<1>8. Solves(h)
  <2> HIDE DEF h
  <2> QED
    BY <1>6, <1>7
<1>9. Frames!int2byte = CHOOSE g : Solves(g)
  BY DEF Frames!int2byte
<1>10. Solves(Frames!int2byte)
  <2> HIDE DEF Solves
  <2> QED
    BY <1>8, <1>9
<1> DEFINE T == {k \in Nat : Frames!int2byte[k] = h[k]}
<1>11. Nat \subseteq T
  <2> SUFFICES ASSUME Nat \ T # {} PROVE FALSE
    OBVIOUS
  <2>1. PICK k \in Nat \ T : \A j \in Nat \ T : k <= j
    <3> HIDE DEF T
    <3> QED  BY Least
  <2>2. Frames!int2byte[k] # h[k]
    BY <2>1
  <2> HIDE DEF h
  <2>3. k >= Base
    BY <1>7, <1>10, <2>2
  <2>4. k \div Base \in T
    BY <2>1, <2>3, Digits
  <2> QED
    BY <1>7, <1>10, <2>2, <2>3, <2>4
<1>12. Frames!int2byte = h
  <2> HIDE DEF h
  <2> QED
    BY <1>6, <1>10, <1>11
<1> HIDE DEF h
<1> QED
  BY <1>6, <1>7, <1>12

(* The sums that bytes2int goes through. *)
Sums(s, d) ==
  /\ s \in [0..Len(d) -> Nat] /\ s[0] = 0
  /\ \A i \in 1..Len(d) : s[i] = s[i - 1] + (d[i] % Base) * Frames!Place[i - 1]

LEMMA SumsExist ==
  ASSUME NEW d \in Seq(Frames!Byte)
  PROVE  \E s : Sums(s, d)
<1> DEFINE step == [p \in Nat \X Nat |->
             p[2] + IF p[1] + 1 \in 1..Len(d) THEN (d[p[1] + 1] % Base) * Frames!Place[p[1]] ELSE 0]
<1>1. \A i \in 1..Len(d) : d[i] \in Nat /\ d[i] % Base \in Nat
  BY FrameAssumptions DEF Frames!Byte
<1>2. step \in [Nat \X Nat -> Nat]
  <2>1. ASSUME NEW n \in Nat, NEW v \in Nat, n + 1 \in 1..Len(d)
        PROVE  v + (d[n + 1] % Base) * Frames!Place[n] \in Nat
    <3>1. d[n + 1] % Base \in Nat /\ Frames!Place[n] \in Nat
      BY <1>1, <2>1, PlaceDef
    <3>2. \A a, b \in Nat : a * b \in Nat
      OBVIOUS
    <3> QED
      BY <3>1, <3>2
  <2>2. ASSUME NEW n \in Nat, NEW v \in Nat
        PROVE  v + (IF n + 1 \in 1..Len(d) THEN (d[n + 1] % Base) * Frames!Place[n] ELSE 0) \in Nat
    BY <2>1
  <2>3. ASSUME NEW p \in Nat \X Nat PROVE step[p] \in Nat
    <3>1. PICK n \in Nat, v \in Nat : p = <<n, v>>
      OBVIOUS
    <3>2. step[p] = v + (IF n + 1 \in 1..Len(d) THEN (d[n + 1] % Base) * Frames!Place[n] ELSE 0)
      BY <3>1
    <3> QED
      BY <2>2, <3>2
  <2>4. step = [p \in Nat \X Nat |-> step[p]]
    OBVIOUS
  <2> HIDE DEF step
  <2> QED
    BY <2>3, <2>4
<1>3. PICK f : Iterates(f, Nat, 0, step)
  <2>1. 0 \in Nat
    OBVIOUS
  <2> HIDE DEF step
  <2> QED
    BY <1>2, <2>1, Iteration
<1>4. f \in [Nat -> Nat] /\ f[0] = 0 /\ \A n \in Nat : f[n + 1] = step[<<n, f[n]>>]
  <2> HIDE DEF step
  <2> QED
    BY <1>3 DEF Iterates
<1>5. \A i \in 1..Len(d) : f[i] = f[i - 1] + (d[i] % Base) * Frames!Place[i - 1]
  <2> SUFFICES ASSUME NEW i \in 1..Len(d)
      PROVE  f[i] = f[i - 1] + (d[i] % Base) * Frames!Place[i - 1]
    OBVIOUS
  <2>1. i - 1 \in Nat /\ (i - 1) + 1 = i
    OBVIOUS
  <2>2. f[i] = step[<<i - 1, f[i - 1]>>]
    BY <1>4, <2>1
  <2>3. f[i - 1] \in Nat
    BY <1>4, <2>1
  <2> QED
    BY <2>1, <2>2, <2>3
<1> DEFINE s == [i \in 0..Len(d) |-> f[i]]
<1>6. Sums(s, d)
  <2>1. s \in [0..Len(d) -> Nat] /\ s[0] = 0
    BY <1>4
  <2>2. \A i \in 1..Len(d) : s[i] = f[i] /\ s[i - 1] = f[i - 1]
    OBVIOUS
  <2> HIDE DEF s
  <2> QED
    BY <1>5, <2>1, <2>2 DEF Sums
<1> HIDE DEF s
<1> QED
  BY <1>6

LEMMA SumIsLast ==
  ASSUME NEW d \in Seq(Frames!Byte), NEW s, Sums(s, d)
  PROVE  Frames!bytes2int(d) = s[Len(d)]
<1> DEFINE Solves(g) == g = [i \in 0..Len(d) |->
             IF i = 0 THEN 0 ELSE g[i - 1] + (d[i] % Base) * Frames!Place[i - 1]]
           u == CHOOSE g : Solves(g)
<1>1. Frames!bytes2int(d) = u[Len(d)]
  BY DEF Frames!bytes2int
<1>2. Solves(s)
  BY DEF Sums
<1>3. Solves(u)
  <2> HIDE DEF Solves
  <2> QED
    BY <1>2
<1> DEFINE S == {n \in Nat : n <= Len(d) => u[n] = s[n]}
<1> HIDE DEF u
<1>4. Nat \subseteq S
  <2>1. 0 \in S
    BY <1>2, <1>3
  <2>2. ASSUME NEW n \in Nat, n \in S PROVE n + 1 \in S
    BY <1>2, <1>3, <2>2
  <2> HIDE DEF S
  <2> QED
    BY <2>1, <2>2, Naturals
<1> QED
  BY <1>1, <1>4

LEMMA BytesType ==
  ASSUME NEW d \in Seq(Frames!Byte)
  PROVE  Frames!bytes2int(d) \in Nat
<1>1. PICK s : Sums(s, d)
  BY SumsExist
<1>2. s[Len(d)] \in Nat
  BY <1>1 DEF Sums
<1> QED
  BY <1>1, <1>2, SumIsLast

LEMMA BytesOne ==
  ASSUME NEW b \in Frames!Byte
  PROVE  Frames!bytes2int(<<b>>) = b % Base
<1> DEFINE s == [i \in 0..1 |-> IF i = 0 THEN 0 ELSE b % Base]
<1>1. b % Base \in Nat
  BY FrameAssumptions DEF Frames!Byte
<1>2. Sums(s, <<b>>)
  BY <1>1, PlaceDef DEF Sums
<1>3. <<b>> \in Seq(Frames!Byte) /\ Len(<<b>>) = 1 /\ s[1] = b % Base
  OBVIOUS
<1> HIDE DEF s
<1> QED
  BY <1>2, <1>3, SumIsLast

(* Another digit before the others. *)
LEMMA BytesMore ==
  ASSUME NEW b \in Frames!Byte, NEW e \in Seq(Frames!Byte)
  PROVE  Frames!bytes2int(<<b>> \o e) = (b % Base) + Base * Frames!bytes2int(e)
<1> DEFINE d == <<b>> \o e
<1>1. /\ d \in Seq(Frames!Byte) /\ Len(d) = Len(e) + 1 /\ d[1] = b
      /\ \A i \in 1..Len(e) : d[i + 1] = e[i]
  OBVIOUS
<1> HIDE DEF d
<1>2. PICK t : Sums(t, e)
  BY SumsExist
<1> DEFINE s == [i \in 0..Len(d) |-> IF i = 0 THEN 0 ELSE (b % Base) + Base * t[i - 1]]
<1>3. Base \in Nat /\ b % Base \in Nat /\ Len(e) \in Nat
  BY FrameAssumptions DEF Frames!Byte
<1>4. /\ t \in [0..Len(e) -> Nat] /\ t[0] = 0
      /\ \A i \in 1..Len(e) : t[i] = t[i - 1] + (e[i] % Base) * Frames!Place[i - 1]
  BY <1>2 DEF Sums
<1>5. s \in [0..Len(d) -> Nat]
  <2>1. ASSUME NEW i \in 0..Len(d), i # 0 PROVE (b % Base) + Base * t[i - 1] \in Nat
    <3>1. i - 1 \in 0..Len(e)
      BY <1>1, <1>3, <2>1
    <3>2. t[i - 1] \in Nat
      BY <1>4, <3>1
    <3> QED
      BY <1>3, <3>2
  <2> QED
    BY <2>1
<1>6. ASSUME NEW i \in 1..Len(d)
      PROVE  s[i] = s[i - 1] + (d[i] % Base) * Frames!Place[i - 1]
  <2>1. CASE i = 1
    <3>1. s[1] = b % Base /\ s[0] = 0
      BY <1>1, <1>3, <1>4
    <3> QED
      BY <1>1, <1>3, <2>1, <3>1, PlaceDef
  <2>2. CASE i # 1
    <3>1. i - 1 \in 1..Len(e) /\ i - 2 \in Nat /\ (i - 1) - 1 = i - 2 /\ (i - 2) + 1 = i - 1
      BY <1>1, <1>3, <2>2
    <3>2. d[i] = e[i - 1] /\ s[i] = (b % Base) + Base * t[i - 1]
          /\ s[i - 1] = (b % Base) + Base * t[i - 2]
      BY <1>1, <2>2, <3>1
    <3>3. t[i - 1] = t[i - 2] + (e[i - 1] % Base) * Frames!Place[i - 2]
      BY <1>4, <3>1
    <3>4. Frames!Place[i - 1] = Base * Frames!Place[i - 2] /\ Frames!Place[i - 2] \in Nat
      BY <3>1, PlaceDef
    <3>5. e[i - 1] % Base \in Nat /\ t[i - 2] \in Nat
      <4>1. e[i - 1] \in Nat
        BY <3>1, FrameAssumptions DEF Frames!Byte
      <4>2. i - 2 \in 0..Len(e)
        BY <1>3, <3>1
      <4>3. t[i - 2] \in Nat
        BY <1>4, <4>2
      <4>4. \A x, y \in Nat : y > 1 => x % y \in Nat
        OBVIOUS
      <4>5. e[i - 1] % Base \in Nat
        BY <4>1, <4>4, FrameAssumptions
      <4> QED
        BY <4>3, <4>5
    <3>6. \A r, q, u, x, p \in Nat : r + q * (u + x * p) = (r + q * u) + x * (q * p)
      OBVIOUS
    <3> HIDE DEF s
    <3>7. s[i] = (b % Base) + Base * (t[i - 2] + (e[i - 1] % Base) * Frames!Place[i - 2])
      BY <3>2, <3>3
    <3>8. s[i] = ((b % Base) + Base * t[i - 2])
                 + (e[i - 1] % Base) * (Base * Frames!Place[i - 2])
      BY <1>3, <3>4, <3>5, <3>6, <3>7
    <3> QED
      BY <3>2, <3>4, <3>8
  <2> QED
    BY <2>1, <2>2
<1>7. Sums(s, d)
  <2>1. s[0] = 0
    BY <1>1, <1>3
  <2> HIDE DEF s
  <2> QED
    BY <1>5, <1>6, <2>1 DEF Sums
<1>8. s[Len(d)] = (b % Base) + Base * t[Len(e)]
  BY <1>1, <1>3
<1> HIDE DEF s
<1>9. Frames!bytes2int(d) = s[Len(d)] /\ Frames!bytes2int(e) = t[Len(e)]
  BY <1>1, <1>2, <1>7, SumIsLast
<1> QED
  BY <1>8, <1>9 DEF d

(* The bytes of a length: all marked but the last. *)
IsLength(l) ==
  /\ l \in Seq(Frames!Byte) /\ l # <<>>
  /\ ~Frames!Marked(l[Len(l)])
  /\ \A i \in 1..Len(l) - 1 : Frames!Marked(l[i])

(* Every length is read as it was written. *)
LEMMA Lengths ==
  ASSUME NEW n \in Nat
  PROVE  IsLength(Frames!int2byte[n]) /\ Frames!bytes2int(Frames!int2byte[n]) = n
<1> DEFINE l(k) == Frames!int2byte[k]
           S == {k \in Nat : IsLength(l(k)) /\ Frames!bytes2int(l(k)) = k}
<1> SUFFICES ASSUME Nat \ S # {} PROVE FALSE
  OBVIOUS
<1>1. PICK k \in Nat \ S : \A j \in Nat \ S : k <= j
  <2> HIDE DEF S
  <2> QED  BY Least
<1>0. k \in Nat /\ Base \in Nat /\ Base > 1
  BY FrameAssumptions
<1>2. CASE k >= Base
  <2> DEFINE j == k \div Base
             b == (k % Base) + Base
  <2>1. j \in Nat /\ j < k /\ b \in Frames!Byte /\ b >= Base /\ b % Base = k % Base
        /\ k = (k % Base) + Base * j
    <3> HIDE DEF S, l
    <3>1. b \in Base..2 * Base - 1 /\ b % Base = k % Base /\ k \div Base < k
          /\ k \div Base \in Nat /\ k = (k % Base) + Base * (k \div Base)
      BY <1>0, <1>2, Digits
    <3> QED
      BY <1>0, <3>1 DEF Frames!Byte
  <2>2. IsLength(l(j)) /\ Frames!bytes2int(l(j)) = j
    BY <1>1, <2>1
  <2>3. l(k) = <<b>> \o l(j)
    BY <1>2, LengthDef
  <2> HIDE DEF b, j, l
  <2>4. l(j) \in Seq(Frames!Byte)
    BY <2>2 DEF IsLength
  <2>5. Frames!bytes2int(l(k)) = k
    BY <2>1, <2>2, <2>3, <2>4, BytesMore
  <2>6. IsLength(l(k))
    <3>1. /\ l(k) \in Seq(Frames!Byte) /\ Len(l(k)) = Len(l(j)) + 1 /\ l(k)[1] = b
          /\ \A i \in 1..Len(l(j)) : l(k)[i + 1] = l(j)[i]
          /\ Len(l(j)) \in Nat /\ Len(l(j)) # 0
      BY <2>1, <2>2, <2>3, <2>4 DEF IsLength
    <3>2. ~Frames!Marked(l(k)[Len(l(k))])
      BY <2>2, <3>1 DEF IsLength
    <3>3. ASSUME NEW i \in 1..Len(l(k)) - 1 PROVE Frames!Marked(l(k)[i])
      <4>1. CASE i = 1
        BY <2>1, <3>1, <4>1 DEF Frames!Marked
      <4>2. CASE i # 1
        <5>1. i - 1 \in 1..Len(l(j)) - 1 /\ l(k)[i] = l(j)[i - 1]
          BY <3>1, <4>2
        <5> QED
          BY <2>2, <5>1 DEF IsLength
      <4> QED
        BY <4>1, <4>2
    <3> QED
      BY <3>1, <3>2, <3>3 DEF IsLength
  <2> QED
    BY <1>1, <2>5, <2>6
<1>3. CASE ~(k >= Base)
  <2>1. k \in Frames!Byte /\ k % Base = k /\ l(k) = <<k>>
    <3> HIDE DEF S
    <3>1. k \in 0..Base - 1
      BY <1>0, <1>3
    <3>2. k % Base = k /\ k \in Frames!Byte
      BY <1>0, <1>3, Digits DEF Frames!Byte
    <3> QED
      BY <1>0, <1>3, <3>2, LengthDef
  <2>2. Frames!bytes2int(l(k)) = k
    BY <2>1, BytesOne
  <2>3. IsLength(l(k))
    BY <1>3, <2>1 DEF IsLength, Frames!Marked
  <2> QED
    BY <1>1, <2>2, <2>3
<1> QED
  BY <1>2, <1>3

(* No length begins with another one. *)
LEMMA NoLengthInLength ==
  ASSUME NEW l, NEW k, IsLength(l), IsLength(k),
         \A i \in 1..Len(l) : i <= Len(k) => l[i] = k[i]
  PROVE  l = k
<1>1. Len(l) \in Nat \ {0} /\ Len(k) \in Nat \ {0}
  BY DEF IsLength
<1>2. Len(l) = Len(k)
  BY <1>1 DEF IsLength
<1> QED
  BY <1>1, <1>2 DEF IsLength

(* Sequences of equal length that agree everywhere are one. *)
LEMMA SeqsEqual ==
  ASSUME NEW s \in Seq(Frames!Byte), NEW t \in Seq(Frames!Byte), Len(s) = Len(t),
         \A i \in 1..Len(s) : s[i] = t[i]
  PROVE  s = t
OBVIOUS

LEMMA Joining ==
  ASSUME NEW s \in Seq(Frames!Byte), NEW t \in Seq(Frames!Byte), NEW u \in Seq(Frames!Byte)
  PROVE  /\ (s \o t) \o u = s \o (t \o u)
         /\ s \o <<>> = s /\ <<>> \o s = s
<1>1. (s \o t) \o u \in Seq(Frames!Byte) /\ s \o (t \o u) \in Seq(Frames!Byte)
  OBVIOUS
<1>2. Len((s \o t) \o u) = Len(s \o (t \o u))
  OBVIOUS
<1>3. ASSUME NEW i \in 1..Len((s \o t) \o u) PROVE ((s \o t) \o u)[i] = (s \o (t \o u))[i]
  OBVIOUS
<1>4. s \o <<>> = s /\ <<>> \o s = s
  OBVIOUS
<1> QED
  BY <1>1, <1>2, <1>3, <1>4, SeqsEqual

LEMMA Parts ==
  ASSUME NEW s \in Seq(Frames!Byte), NEW t \in Seq(Frames!Byte)
  PROVE  /\ s \o t \in Seq(Frames!Byte) /\ Len(s \o t) = Len(s) + Len(t)
         /\ \A i \in 1..Len(s) : (s \o t)[i] = s[i]
         /\ \A i \in 1..Len(t) : (s \o t)[Len(s) + i] = t[i]
OBVIOUS

(* Two ways to cut one sequence at one place. *)
LEMMA SameCut ==
  ASSUME NEW s \in Seq(Frames!Byte), NEW t \in Seq(Frames!Byte), NEW u \in Seq(Frames!Byte),
         NEW v \in Seq(Frames!Byte), s \o u = t \o v, Len(s) = Len(t)
  PROVE  s = t /\ u = v
<1> DEFINE p == s \o u
           q == t \o v
<1>1. /\ Len(p) = Len(s) + Len(u)
      /\ \A i \in 1..Len(s) : p[i] = s[i]
      /\ \A i \in 1..Len(u) : p[Len(s) + i] = u[i]
  BY Parts
<1>2. /\ Len(q) = Len(t) + Len(v)
      /\ \A i \in 1..Len(t) : q[i] = t[i]
      /\ \A i \in 1..Len(v) : q[Len(t) + i] = v[i]
  BY Parts
<1>3. p = q
  OBVIOUS
<1> HIDE DEF p, q
<1>4. Len(u) = Len(v)
  BY <1>1, <1>2, <1>3
<1>5. s = t
  <2>1. \A i \in 1..Len(s) : s[i] = t[i]
    BY <1>1, <1>2, <1>3
  <2> QED
    BY <2>1, SeqsEqual
<1>6. u = v
  <2>1. \A i \in 1..Len(u) : u[i] = v[i]
    BY <1>1, <1>2, <1>3, <1>4
  <2> QED
    BY <1>4, <2>1, SeqsEqual
<1> QED
  BY <1>5, <1>6

(* The bytes that messages leave on the stream when nothing comes between. *)
Frame(m) == Frames!int2byte[Len(m)] \o m
IsWire(f) ==
  /\ f \in [Seq(Bodies) -> Seq(Frames!Byte)]
  /\ f[<<>>] = <<>>
  /\ \A ms \in Seq(Bodies) : ms # <<>> => f[ms] = Frame(Head(ms)) \o f[Tail(ms)]
Wire == CHOOSE f : IsWire(f)

LEMMA BodyType ==
  ASSUME NEW m \in Bodies
  PROVE  /\ m \in Seq(Frames!Byte) /\ m # <<>> /\ Len(m) \in Nat /\ Len(m) # 0 /\ m[1] # 0
         /\ Frames!int2byte[Len(m)] \in Seq(Frames!Byte) /\ Frame(m) \in Seq(Frames!Byte)
<1>1. m \in Seq(Frames!Byte) /\ m # <<>> /\ m[1] # 0
  BY FrameAssumptions DEF Frames!Byte
<1>2. Len(m) \in Nat /\ Len(m) # 0
  BY <1>1
<1>3. Frames!int2byte[Len(m)] \in Seq(Frames!Byte)
  BY <1>2, LengthDef
<1> QED
  BY <1>1, <1>2, <1>3 DEF Frame

LEMMA WireExists == IsWire(Wire)
<1> DEFINE B == Seq(Frames!Byte)
           M == Seq(Bodies)
           More(g) == [ms \in M |-> IF ms = <<>> THEN <<>> ELSE Frame(Head(ms)) \o g[Tail(ms)]]
           none == [ms \in M |-> <<>>]
           step == [p \in Nat \X [M -> B] |-> More(p[2])]
<1>1. ASSUME NEW g \in [M -> B] PROVE More(g) \in [M -> B]
  <2>1. ASSUME NEW ms \in M, ms # <<>> PROVE Frame(Head(ms)) \o g[Tail(ms)] \in B
    <3>1. Head(ms) \in Bodies /\ Tail(ms) \in M
      BY <2>1
    <3>2. Frame(Head(ms)) \in B /\ g[Tail(ms)] \in B
      BY <3>1, BodyType
    <3> QED
      BY <3>2
  <2>2. <<>> \in B
    OBVIOUS
  <2> HIDE DEF B, M
  <2> QED
    BY <2>1, <2>2
<1>2. PICK f : Iterates(f, [M -> B], none, step)
  <2>1. none \in [M -> B]
    OBVIOUS
  <2>2. step \in [Nat \X [M -> B] -> [M -> B]]
    <3> HIDE DEF More, B, M
    <3> QED
      BY <1>1
  <2> HIDE DEF none, step, B, M
  <2> QED
    BY <2>1, <2>2, Iteration
<1>3. /\ f \in [Nat -> [M -> B]]
      /\ \A n \in Nat : f[n + 1] = More(f[n])
  <2> HIDE DEF More, B, M
  <2> QED
    BY <1>2 DEF Iterates
<1> DEFINE h == [ms \in M |-> f[Len(ms) + 1][ms]]
<1>4. IsWire(h)
  <2>1. \A ms \in M : Len(ms) \in Nat
    OBVIOUS
  <2>2. <<>> \in M /\ Len(<<>>) = 0
    OBVIOUS
  <2>3. \A ms \in M : ms # <<>> => Tail(ms) \in M /\ Len(ms) = Len(Tail(ms)) + 1
    OBVIOUS
  <2>4. h \in [M -> B]
    <3> HIDE DEF B, M
    <3>1. \A n \in Nat : n + 1 \in Nat
      OBVIOUS
    <3> QED
      BY <1>3, <2>1, <3>1
  <2>5. h[<<>>] = <<>>
    <3> HIDE DEF B, M
    <3>1. f[0 + 1] = More(f[0])
      BY <1>3
    <3> QED
      BY <2>2, <3>1
  <2>6. ASSUME NEW ms \in M, ms # <<>> PROVE h[ms] = Frame(Head(ms)) \o h[Tail(ms)]
    <3> HIDE DEF B, M
    <3>1. f[Len(ms) + 1] = More(f[Len(ms)])
      BY <1>3, <2>1
    <3> QED
      BY <2>3, <2>6, <3>1
  <2> QED
    BY <2>4, <2>5, <2>6 DEF IsWire
<1> HIDE DEF h
<1> QED
  BY <1>4 DEF Wire

LEMMA WireDef ==
  /\ Wire[<<>>] = <<>>
  /\ \A ms \in Seq(Bodies) : Wire[ms] \in Seq(Frames!Byte)
  /\ \A ms \in Seq(Bodies) : ms # <<>> => Wire[ms] = Frame(Head(ms)) \o Wire[Tail(ms)]
BY WireExists DEF IsWire

(* A message that is written in full comes behind the others. *)
LEMMA WireAppend ==
  ASSUME NEW ms \in Seq(Bodies), NEW m \in Bodies
  PROVE  Wire[Append(ms, m)] = Wire[ms] \o Frame(m)
<1> DEFINE S == {n \in Nat : \A ks \in Seq(Bodies) :
                   Len(ks) = n => Wire[Append(ks, m)] = Wire[ks] \o Frame(m)}
<1>0. Frame(m) \in Seq(Frames!Byte)
  BY BodyType
<1>1. 0 \in S
  <2>0. \A ks \in Seq(Bodies) : Len(ks) = 0 => ks = <<>>
    OBVIOUS
  <2>1. Append(<<>>, m) \in Seq(Bodies) /\ Append(<<>>, m) # <<>>
        /\ Head(Append(<<>>, m)) = m /\ Tail(Append(<<>>, m)) = <<>>
    OBVIOUS
  <2>2. Wire[Append(<<>>, m)] = Frame(m) \o <<>>
    BY <2>1, WireDef
  <2>3. Wire[Append(<<>>, m)] = Wire[<<>>] \o Frame(m)
    BY <1>0, <2>2, Joining, WireDef
  <2> QED
    BY <2>0, <2>3
<1>2. ASSUME NEW n \in Nat, n \in S PROVE n + 1 \in S
  <2> SUFFICES ASSUME NEW ks \in Seq(Bodies), Len(ks) = n + 1
      PROVE  Wire[Append(ks, m)] = Wire[ks] \o Frame(m)
    OBVIOUS
  <2>1. ks # <<>> /\ Tail(ks) \in Seq(Bodies) /\ Len(Tail(ks)) = n /\ Head(ks) \in Bodies
    OBVIOUS
  <2>2. Append(ks, m) \in Seq(Bodies) /\ Append(ks, m) # <<>>
        /\ Head(Append(ks, m)) = Head(ks) /\ Tail(Append(ks, m)) = Append(Tail(ks), m)
    BY <2>1
  <2>3. Wire[Append(ks, m)] = Frame(Head(ks)) \o (Wire[Tail(ks)] \o Frame(m))
    <3>1. Wire[Append(Tail(ks), m)] = Wire[Tail(ks)] \o Frame(m)
      BY <1>2, <2>1
    <3> QED
      BY <2>2, <3>1, WireDef
  <2>4. Wire[ks] = Frame(Head(ks)) \o Wire[Tail(ks)]
    BY <2>1, WireDef
  <2>5. Frame(Head(ks)) \in Seq(Frames!Byte) /\ Wire[Tail(ks)] \in Seq(Frames!Byte)
    BY <2>1, BodyType, WireDef
  <2>6. Frame(Head(ks)) \o (Wire[Tail(ks)] \o Frame(m)) = (Frame(Head(ks)) \o Wire[Tail(ks)]) \o Frame(m)
    <3> DEFINE p == Frame(Head(ks))
               q == Wire[Tail(ks)]
               r == Frame(m)
    <3>1. p \in Seq(Frames!Byte) /\ q \in Seq(Frames!Byte) /\ r \in Seq(Frames!Byte)
      BY <1>0, <2>5
    <3> HIDE DEF p, q, r
    <3>2. p \o (q \o r) = (p \o q) \o r
      BY <3>1, Joining
    <3> QED
      BY <3>2 DEF p, q, r
  <2> QED
    BY <2>3, <2>4, <2>6
<1> HIDE DEF S
<1>3. Nat \subseteq S
  BY <1>1, <1>2, Naturals
<1> QED
  BY <1>3 DEF S

(* The next message and what is behind it.                                 *)
LEMMA WireHead ==
  ASSUME NEW ms \in Seq(Bodies), ms # <<>>, NEW t \in Seq(Frames!Byte)
  PROVE  /\ Head(ms) \in Bodies /\ Tail(ms) \in Seq(Bodies)
         /\ Wire[ms] \o t =
              Frames!int2byte[Len(Head(ms))] \o (Head(ms) \o (Wire[Tail(ms)] \o t))
<1> DEFINE m == Head(ms)
           k == Frames!int2byte[Len(m)]
           w == Wire[Tail(ms)]
<1>1. m \in Bodies /\ Tail(ms) \in Seq(Bodies)
  OBVIOUS
<1>2. m \in Seq(Frames!Byte) /\ k \in Seq(Frames!Byte) /\ w \in Seq(Frames!Byte)
  BY <1>1, BodyType, WireDef
<1>3. Wire[ms] = (k \o m) \o w
  BY WireDef DEF Frame
<1> HIDE DEF m, k, w
<1>4. Wire[ms] \o t = k \o (m \o (w \o t))
  <2>1. ((k \o m) \o w) \o t = k \o (m \o (w \o t))
    <3>1. ((k \o m) \o w) \o t = (k \o m) \o (w \o t)
      <4> DEFINE r == k \o m
      <4>1. r \in Seq(Frames!Byte)
        BY <1>2
      <4> HIDE DEF r
      <4>2. (r \o w) \o t = r \o (w \o t)
        BY <1>2, <4>1, Joining
      <4> QED
        BY <4>2 DEF r
    <3>2. (k \o m) \o (w \o t) = k \o (m \o (w \o t))
      <4> DEFINE r == w \o t
      <4>1. r \in Seq(Frames!Byte)
        BY <1>2
      <4> HIDE DEF r
      <4>2. (k \o m) \o r = k \o (m \o r)
        BY <1>2, <4>1, Joining
      <4> QED
        BY <4>2 DEF r
    <3> QED
      BY <3>1, <3>2
  <2> QED
    BY <1>3, <2>1
<1> QED
  BY <1>1, <1>4 DEF m, k, w

(* What a reader takes for a length and a body of that length, or for the  *)
(* beginning of one, is the next message of the wire.                      *)
LEMMA NextFrame ==
  ASSUME NEW l, NEW got \in Seq(Frames!Byte), NEW c \in Seq(Frames!Byte),
         NEW ms \in Seq(Bodies), NEW t \in Seq(Frames!Byte),
         t = <<>> \/ \E b \in Bodies : t = Frames!int2byte[Len(b)],
         IsLength(l), Len(got) <= Frames!bytes2int(l),
         l \o (got \o c) = Wire[ms] \o t
  PROVE  \/ /\ ms # <<>> /\ Frames!bytes2int(l) = Len(Head(ms))
            /\ got \o c = Head(ms) \o (Wire[Tail(ms)] \o t)
            /\ \A i \in 1..Len(got) : got[i] = Head(ms)[i]
         \/ /\ ms = <<>> /\ got = <<>> /\ c = <<>>
            /\ \E b \in Bodies : Frames!bytes2int(l) = Len(b)
<1>0. l \in Seq(Frames!Byte) /\ l # <<>>
  BY DEF IsLength
<1>1. CASE ms # <<>>
  <2> DEFINE m == Head(ms)
             k == Frames!int2byte[Len(m)]
             u == m \o (Wire[Tail(ms)] \o t)
  <2>1. m \in Bodies /\ Tail(ms) \in Seq(Bodies)
    BY <1>1
  <2>2. m \in Seq(Frames!Byte) /\ k \in Seq(Frames!Byte) /\ Wire[Tail(ms)] \in Seq(Frames!Byte)
        /\ Len(m) \in Nat
    BY <2>1, BodyType, WireDef
  <2>4. Wire[ms] \o t = k \o u
    BY <1>1, WireHead
  <2> HIDE DEF m, k
  <2>5. u \in Seq(Frames!Byte) /\ got \o c \in Seq(Frames!Byte)
    BY <2>2
  <2>6. IsLength(k) /\ Frames!bytes2int(k) = Len(m)
    BY <2>2, Lengths DEF k
  <2>7. l = k
    <3> HIDE DEF u
    <3>1. ASSUME NEW i \in 1..Len(l), i <= Len(k) PROVE l[i] = k[i]
      <4>1. l[i] = (l \o (got \o c))[i] /\ k[i] = (k \o u)[i]
        BY <1>0, <2>2, <2>5, <3>1
      <4> QED
        BY <2>4, <4>1
    <3> QED
      BY <2>6, <3>1, NoLengthInLength
  <2>8. got \o c = u
    <3> DEFINE v == got \o c
    <3>1. v \in Seq(Frames!Byte) /\ u \in Seq(Frames!Byte) /\ l \o v = k \o u
      BY <2>4, <2>5
    <3> HIDE DEF u, v
    <3>2. v = u
      BY <1>0, <2>2, <2>7, <3>1, SameCut
    <3> QED
      BY <3>2 DEF v
  <2>9. \A i \in 1..Len(got) : got[i] = m[i]
    <3> SUFFICES ASSUME NEW i \in 1..Len(got) PROVE got[i] = m[i]
      OBVIOUS
    <3>1. got[i] = (got \o c)[i]
      OBVIOUS
    <3>2. i \in 1..Len(m)
      BY <2>2, <2>6, <2>7
    <3>3. m[i] = u[i]
      BY <2>2, <3>2
    <3> QED
      BY <2>8, <3>1, <3>3
  <2> QED
    BY <1>1, <2>6, <2>7, <2>8, <2>9 DEF m
<1>2. CASE ms = <<>>
  <2>1. l \o (got \o c) = t
    BY <1>2, WireDef, Joining
  <2>2. t # <<>>
    BY <1>0, <2>1
  <2>3. PICK b \in Bodies : t = Frames!int2byte[Len(b)]
    BY <2>2
  <2>4. Len(b) \in Nat
    BY BodyType
  <2>5. IsLength(t) /\ Frames!bytes2int(t) = Len(b)
    BY <2>3, <2>4, Lengths
  <2>6. l = t
    <3>1. \A i \in 1..Len(l) : l[i] = t[i]
      BY <1>0, <2>1
    <3> QED
      BY <2>5, <3>1, NoLengthInLength
  <2>7. Len(got) = 0 /\ Len(c) = 0
    BY <1>0, <2>1, <2>6
  <2>8. got = <<>> /\ c = <<>>
    BY <2>7
  <2> QED
    BY <1>2, <2>5, <2>6, <2>8
<1> QED
  BY <1>1, <1>2

-----------------------------------------------------------------------------
(* What holds at every byte of a stream. *)

(* What of a message is where, and nothing on a connection that failed.    *)
Shape ==
  /\ at # "body" => data = <<>>
  /\ at \in {"start", "closed"} => lenData = <<>>
  /\ at = "length" => \A i \in 1..Len(lenData) : Frames!Marked(lenData[i])
  /\ at = "body" => IsLength(lenData)
  /\ lost => stream = <<>>

LEMMA Marks ==
  ASSUME NEW b \in Frames!Byte, NEW l \in Seq(Frames!Byte),
         \A i \in 1..Len(l) : Frames!Marked(l[i])
  PROVE  /\ Append(l, b) \in Seq(Frames!Byte)
         /\ ~Frames!Marked(b) => IsLength(Append(l, b))
         /\ Frames!Marked(b) => \A i \in 1..Len(Append(l, b)) : Frames!Marked(Append(l, b)[i])
<1> DEFINE k == Append(l, b)
<1>1. /\ k \in Seq(Frames!Byte) /\ Len(k) = Len(l) + 1 /\ k[Len(k)] = b /\ Len(l) \in Nat
      /\ \A i \in 1..Len(l) : k[i] = l[i]
  OBVIOUS
<1> HIDE DEF k
<1>2. k # <<>>
  BY <1>1
<1> QED
  BY <1>1, <1>2 DEF IsLength, k

LEMMA ServeType ==
  ASSUME Frames!TypeOK, NEW body, Frames!Serve(body)
  PROVE  /\ at' \in {"start", "closed"} /\ lenData' = <<>> /\ data' = <<>>
         /\ received' \in Seq(Bodies)
<1>1. received \in Seq(Bodies)
  BY DEF Frames!TypeOK
<1>2. body \in Bodies => Append(received, body) \in Seq(Bodies)
  BY <1>1
<1> QED
  BY <1>1, <1>2 DEF Frames!Serve

(* The bytes of a length, and what comes of them.                          *)
LEMMA ByteTypeShape ==
  ASSUME Frames!TypeOK, Shape, at \in {"start", "length"}, stream # <<>>, Frames!Take(1),
         Frames!LengthByte(Head(stream)), UNCHANGED <<reader, lost, Frames!sendVars>>
  PROVE  Frames!TypeOK' /\ Shape'
<1> DEFINE b == Head(stream)
           got == Append(lenData, b)
<1>1. b \in Frames!Byte /\ lenData \in Seq(Frames!Byte) /\ data = <<>>
      /\ \A i \in 1..Len(lenData) : Frames!Marked(lenData[i])
  BY DEF Frames!TypeOK, Shape
<1>2. /\ got \in Seq(Frames!Byte)
      /\ ~Frames!Marked(b) => IsLength(got)
      /\ Frames!Marked(b) => \A i \in 1..Len(got) : Frames!Marked(got[i])
  BY <1>1, Marks
<1>3. stream' \in Seq(Frames!Byte) /\ (lost' => stream' = <<>>)
  BY DEF Frames!Take, Frames!TypeOK, Shape
<1>4. UNCHANGED <<reader, writing, shut, lost, begun, sent, overlap>>
  BY DEF Frames!sendVars
<1>5. CASE ~Frames!Marked(b) /\ Frames!bytes2int(got) = 0
  <2>1. at' \in {"start", "closed"} /\ lenData' = <<>> /\ data' = <<>>
        /\ received' \in Seq(Bodies)
    BY <1>5, ServeType DEF Frames!LengthByte
  <2> QED
    BY <1>3, <1>4, <2>1 DEF Frames!TypeOK, Shape
<1>6. CASE ~(~Frames!Marked(b) /\ Frames!bytes2int(got) = 0)
  <2>1. lenData' = got /\ at' = (IF Frames!Marked(b) THEN "length" ELSE "body")
        /\ data' = data /\ received' = received
    BY <1>6 DEF Frames!LengthByte
  <2>2. Frames!bytes2int(got) \in Nat
    BY <1>2, BytesType
  <2>3. at' = "body" => Len(data') < Frames!bytes2int(lenData)'
    <3>1. Frames!bytes2int(lenData)' = Frames!bytes2int(got)
      BY <2>1 DEF Frames!bytes2int
    <3> HIDE DEF got, b
    <3> QED
      BY <1>1, <1>6, <2>1, <2>2, <3>1
  <2> HIDE DEF got, b
  <2>4. Frames!TypeOK'
    BY <1>1, <1>2, <1>3, <1>4, <2>1, <2>3 DEF Frames!TypeOK
  <2>5. Shape'
    BY <1>1, <1>2, <1>3, <1>4, <2>1 DEF Shape
  <2> QED
    BY <2>4, <2>5
<1> QED
  BY <1>5, <1>6

LEMMA TypeShape ==
  ASSUME Frames!TypeOK, Shape, Frames!Next
  PROVE  Frames!TypeOK' /\ Shape'
<1>1. ASSUME NEW w \in Writers, Frames!WriteBody(w) PROVE Frames!TypeOK' /\ Shape'
  <2>1. writing[w] \in Bodies /\ writing[w] \in Seq(Frames!Byte)
    BY <1>1, BodyType DEF Frames!WriteBody, Frames!TypeOK
  <2>2. stream' \in Seq(Frames!Byte) /\ (lost => stream' = stream)
    BY <1>1, <2>1 DEF Frames!WriteBody, Frames!Put, Frames!TypeOK
  <2>3. Frames!bytes2int(lenData)' = Frames!bytes2int(lenData)
    BY <1>1 DEF Frames!bytes2int, Frames!WriteBody, Frames!readVars
  <2>4. sent' \in Seq(Bodies) /\ writing' \in [Writers -> Bodies \cup {Nothing}]
    BY <1>1, <2>1 DEF Frames!WriteBody, Frames!TypeOK
  <2> QED
    BY <1>1, <2>2, <2>3, <2>4 DEF Frames!WriteBody, Frames!readVars, Frames!TypeOK, Shape
<1>2. ASSUME NEW w \in Writers, NEW m \in Bodies, Frames!WriteLength(w, m)
      PROVE  Frames!TypeOK' /\ Shape'
  <2>1. stream' \in Seq(Frames!Byte) /\ (lost => stream' = stream)
    BY <1>2, BodyType DEF Frames!WriteLength, Frames!Put, Frames!TypeOK
  <2>2. Frames!bytes2int(lenData)' = Frames!bytes2int(lenData)
    BY <1>2 DEF Frames!bytes2int, Frames!WriteLength, Frames!readVars
  <2>3. begun' \in 0..MaxSent /\ writing' \in [Writers -> Bodies \cup {Nothing}]
        /\ overlap' \in BOOLEAN
    BY <1>2, FrameAssumptions DEF Frames!WriteLength, Frames!TypeOK
  <2> QED
    BY <1>2, <2>1, <2>2, <2>3 DEF Frames!WriteLength, Frames!readVars, Frames!TypeOK, Shape
<1>3. CASE Frames!CloseStream
  <2>1. Frames!bytes2int(lenData)' = Frames!bytes2int(lenData)
    BY <1>3 DEF Frames!bytes2int, Frames!CloseStream, Frames!readVars
  <2> QED
    BY <1>3, <2>1 DEF Frames!CloseStream, Frames!readVars, Frames!TypeOK, Shape
<1>4. CASE Frames!Lose
  <2>1. Frames!bytes2int(lenData)' = Frames!bytes2int(lenData)
    BY <1>4 DEF Frames!bytes2int, Frames!Lose, Frames!readVars
  <2> QED
    BY <1>4, <2>1 DEF Frames!Lose, Frames!readVars, Frames!sendVars, Frames!TypeOK, Shape
<1>5. CASE Frames!ReadFirstByte
  BY <1>5, ByteTypeShape DEF Frames!ReadFirstByte
<1>6. CASE Frames!ReadLength
  BY <1>6, ByteTypeShape DEF Frames!ReadLength
<1>7. CASE Frames!StreamEnds
  <2>1. stream' \in Seq(Frames!Byte) /\ (lost => stream' = <<>>)
    BY <1>7 DEF Frames!StreamEnds, Frames!Take, Frames!TypeOK, Shape
  <2> QED
    BY <1>7, <2>1 DEF Frames!StreamEnds, Frames!GiveUp, Frames!sendVars, Frames!TypeOK, Shape
<1>8. CASE Frames!ReadBody
  <2>1. PICK k \in 1..Len(stream) :
          /\ k <= Frames!Missing /\ Frames!Take(k)
          /\ IF k = Frames!Missing THEN Frames!Serve(data \o SubSeq(stream, 1, k))
             ELSE data' = data \o SubSeq(stream, 1, k) /\ UNCHANGED <<at, lenData, received>>
    BY <1>8 DEF Frames!ReadBody
  <2>2. k \in Nat /\ k <= Len(stream) /\ stream \in Seq(Frames!Byte)
    BY DEF Frames!TypeOK
  <2>3. /\ SubSeq(stream, 1, k) \in Seq(Frames!Byte) /\ Len(SubSeq(stream, 1, k)) = k
        /\ stream' \in Seq(Frames!Byte)
    BY <2>1, <2>2 DEF Frames!Take
  <2>4. UNCHANGED <<reader, writing, shut, lost, begun, sent, overlap>> /\ at = "body"
        /\ (lost' => stream' = <<>>)
    BY <1>8, <2>1, <2>2 DEF Frames!ReadBody, Frames!sendVars, Shape
  <2>5. CASE k = Frames!Missing
    <3>1. at' \in {"start", "closed"} /\ lenData' = <<>> /\ data' = <<>>
          /\ received' \in Seq(Bodies)
      BY <2>1, <2>5, ServeType
    <3> QED
      BY <2>3, <2>4, <3>1 DEF Frames!TypeOK, Shape
  <2>6. CASE k # Frames!Missing
    <3>1. data' = data \o SubSeq(stream, 1, k) /\ UNCHANGED <<at, lenData, received>>
      BY <2>1, <2>6
    <3>2. Frames!bytes2int(lenData)' = Frames!bytes2int(lenData)
      BY <3>1 DEF Frames!bytes2int
    <3>3. data \in Seq(Frames!Byte) /\ Len(data) < Frames!bytes2int(lenData)
          /\ Frames!bytes2int(lenData) \in Nat /\ IsLength(lenData)
      BY <2>4, BytesType DEF Frames!TypeOK, Shape
    <3>4. data' \in Seq(Frames!Byte) /\ Len(data') = Len(data) + k
      BY <2>3, <3>1, <3>3
    <3>5. Len(data') < Frames!bytes2int(lenData)
      BY <2>1, <2>2, <2>6, <3>3, <3>4 DEF Frames!Missing
    <3>6. Frames!TypeOK'
      BY <2>3, <2>4, <3>1, <3>2, <3>4, <3>5 DEF Frames!TypeOK
    <3> QED
      BY <2>4, <3>1, <3>6 DEF Shape
  <2> QED
    BY <2>5, <2>6
<1>9. CASE Frames!BodyEnds
  <2>1. at' \in {"start", "closed"} /\ lenData' = <<>> /\ data' = <<>> /\ stream' = <<>>
        /\ received' \in Seq(Bodies)
    BY <1>9, ServeType DEF Frames!BodyEnds, Frames!GiveUp, Frames!TypeOK
  <2> QED
    BY <1>9, <2>1 DEF Frames!BodyEnds, Frames!sendVars, Frames!TypeOK, Shape
<1> QED
  BY <1>1, <1>2, <1>3, <1>4, <1>5, <1>6, <1>7, <1>8, <1>9 DEF Frames!Next, Frames!ReadStep

(* Some bytes of the stream move behind those that were read.              *)
LEMMA Moved ==
  ASSUME NEW d \in Seq(Frames!Byte), NEW s \in Seq(Frames!Byte), NEW r \in Seq(Frames!Byte),
         NEW k \in 0..Len(s)
  PROVE  /\ SubSeq(s, 1, k) \in Seq(Frames!Byte)
         /\ SubSeq(s, k + 1, Len(s)) \in Seq(Frames!Byte)
         /\ (d \o SubSeq(s, 1, k)) \o (SubSeq(s, k + 1, Len(s)) \o r) = d \o (s \o r)
<1> DEFINE a == SubSeq(s, 1, k)
           b == SubSeq(s, k + 1, Len(s))
<1>1. /\ a \in Seq(Frames!Byte) /\ Len(a) = k
      /\ b \in Seq(Frames!Byte) /\ Len(b) = Len(s) - k
      /\ \A i \in 1..k : a[i] = s[i]
      /\ \A i \in 1..Len(s) - k : b[i] = s[k + i]
  OBVIOUS
<1> HIDE DEF a, b
<1>2. a \o b = s
  <2>1. /\ a \o b \in Seq(Frames!Byte) /\ Len(a \o b) = Len(s)
        /\ \A i \in 1..k : (a \o b)[i] = a[i]
        /\ \A i \in 1..Len(s) - k : (a \o b)[k + i] = b[i]
    BY <1>1
  <2>2. ASSUME NEW i \in 1..Len(s) PROVE (a \o b)[i] = s[i]
    <3>1. CASE i <= k
      BY <1>1, <2>1, <3>1
    <3>2. CASE ~(i <= k)
      <4> DEFINE j == i - k
      <4>1. j \in 1..Len(s) - k /\ k + j = i
        BY <3>2
      <4> HIDE DEF j
      <4>2. (a \o b)[k + j] = b[j]
        BY <2>1, <4>1
      <4>3. b[j] = s[k + j]
        BY <1>1, <4>1
      <4> QED
        BY <4>1, <4>2, <4>3
    <3> QED
      BY <3>1, <3>2
  <2> QED
    BY <2>1, <2>2, SeqsEqual
<1>3. (d \o a) \o (b \o r) = d \o (a \o (b \o r))
  <2> DEFINE c == b \o r
  <2>1. c \in Seq(Frames!Byte)
    BY <1>1
  <2> HIDE DEF c
  <2>2. (d \o a) \o c = d \o (a \o c)
    BY <1>1, <2>1, Joining
  <2> QED
    BY <2>2 DEF c
<1>4. a \o (b \o r) = (a \o b) \o r
  BY <1>1, Joining
<1>5. (d \o a) \o (b \o r) = d \o (s \o r)
  BY <1>2, <1>3, <1>4
<1> QED
  BY <1>1, <1>5 DEF a, b

(* The bytes of the messages that were not received, as they are cut into  *)
(* those of a length, of a body, of the stream and those that are lost.    *)
Ahead(l, d, s, r) == l \o (d \o (s \o r))

(* Bytes that are written come behind those that were.                     *)
LEMMA Behind ==
  ASSUME NEW k \in Seq(Frames!Byte), NEW d \in Seq(Frames!Byte), NEW s \in Seq(Frames!Byte),
         NEW m \in Seq(Frames!Byte)
  PROVE  Ahead(k, d, s \o m, <<>>) = Ahead(k, d, s, <<>>) \o m
<1>1. (s \o m) \o <<>> = s \o m /\ s \o <<>> = s
  <2>1. s \o m \in Seq(Frames!Byte)
    OBVIOUS
  <2> QED
    BY <2>1, Joining
<1>2. d \o (s \o m) = (d \o s) \o m
  BY Joining
<1>3. k \o ((d \o s) \o m) = (k \o (d \o s)) \o m
  <2> DEFINE x == d \o s
  <2>1. x \in Seq(Frames!Byte)
    OBVIOUS
  <2> HIDE DEF x
  <2>2. k \o (x \o m) = (k \o x) \o m
    BY <2>1, Joining
  <2> QED
    BY <2>2 DEF x
<1> QED
  BY <1>1, <1>2, <1>3 DEF Ahead

(* While no message was begun in the middle of another one: at most one is *)
(* being written ...                                                       *)
Sole == \A v, w \in Writers : writing[v] # Nothing /\ writing[w] # Nothing => v = w

(* ... and its length is behind the whole messages on the wire.            *)
IsTail(t) == t = <<>> \/ \E b \in Bodies : t = Frames!int2byte[Len(b)]
TailAhead(t) ==
  /\ (\A w \in Writers : writing[w] = Nothing) => t = <<>>
  /\ \A w \in Writers : writing[w] # Nothing => t = Frames!int2byte[Len(writing[w])]

(* The messages that were sent and not received are on the wire, in part   *)
(* read already, and in part lost with the connection: rest.               *)
Carried(unread, rest, t) ==
  /\ sent = received \o unread
  /\ IsTail(t)
  /\ at # "closed" => Ahead(lenData, data, stream, rest) = Wire[unread] \o t
  /\ ~lost => rest = <<>>
  /\ at # "closed" /\ ~lost /\ ~shut => TailAhead(t)
  /\ at = "closed" => shut \/ lost
  /\ at = "closed" /\ ~lost => unread = <<>> \/ (reader = "client" /\ Len(unread) = 1)

SoleMessages ==
  ~overlap => /\ Sole
              /\ \E unread \in Seq(Bodies), rest, t \in Seq(Frames!Byte) :
                   Carried(unread, rest, t)

FrameInv == Frames!TypeOK /\ Shape /\ SoleMessages

(* A step of the channel that a reader and its senders are to each other.  *)
ChannelStep == [Frames!Channel!Next]_<<sent, received, overlap>>

LEMMA SeqBase ==
  ASSUME NEW ms \in Seq(Bodies), NEW m \in Bodies, NEW ks \in Seq(Bodies)
  PROVE  /\ Append(ks \o ms, m) = ks \o Append(ms, m)
         /\ Append(ms, m) \in Seq(Bodies)
<1>1. Append(ks \o ms, m) = ks \o Append(ms, m)
  <2> DEFINE p == Append(ks \o ms, m)
             q == ks \o Append(ms, m)
  <2>1. p \in Seq(Bodies) /\ q \in Seq(Bodies) /\ Len(p) = Len(q)
    OBVIOUS
  <2>2. \A i \in 1..Len(p) : p[i] = q[i]
    OBVIOUS
  <2> HIDE DEF p, q
  <2>3. p = q
    BY <2>1, <2>2
  <2> QED
    BY <2>3 DEF p, q
<1> QED
  BY <1>1

LEMMA SeqNext ==
  ASSUME NEW ms \in Seq(Bodies), NEW ks \in Seq(Bodies), ms # <<>>
  PROVE  /\ Head(ms) \in Bodies /\ Tail(ms) \in Seq(Bodies)
         /\ ks \o ms = Append(ks, Head(ms)) \o Tail(ms)
         /\ Len(ks) < Len(ks \o ms) /\ (ks \o ms)[Len(ks) + 1] = Head(ms)
<1>1. /\ Head(ms) \in Bodies /\ Tail(ms) \in Seq(Bodies) /\ Len(ms) \in Nat /\ Len(ms) > 0
      /\ Len(Tail(ms)) = Len(ms) - 1 /\ \A i \in 1..Len(ms) - 1 : Tail(ms)[i] = ms[i + 1]
      /\ Head(ms) = ms[1] /\ Len(ks) \in Nat
  OBVIOUS
<1> DEFINE p == ks \o ms
           r == Append(ks, Head(ms))
           q == r \o Tail(ms)
<1>2. /\ p \in Seq(Bodies) /\ Len(p) = Len(ks) + Len(ms)
      /\ \A i \in 1..Len(ks) : p[i] = ks[i]
      /\ \A i \in 1..Len(ms) : p[Len(ks) + i] = ms[i]
  OBVIOUS
<1>3. /\ r \in Seq(Bodies) /\ Len(r) = Len(ks) + 1 /\ r[Len(ks) + 1] = Head(ms)
      /\ \A i \in 1..Len(ks) : r[i] = ks[i]
  BY <1>1
<1>4. /\ q \in Seq(Bodies) /\ Len(q) = Len(ks) + Len(ms)
      /\ \A i \in 1..Len(ks) + 1 : q[i] = r[i]
      /\ \A i \in 1..Len(ms) - 1 : q[Len(ks) + 1 + i] = Tail(ms)[i]
  <2> HIDE DEF r
  <2> QED
    BY <1>1, <1>3
<1> HIDE DEF p, q, r
<1>5. ASSUME NEW i \in 1..Len(p) PROVE p[i] = q[i]
  <2>1. CASE i <= Len(ks)
    BY <1>1, <1>2, <1>3, <1>4, <2>1
  <2>2. CASE i = Len(ks) + 1
    BY <1>1, <1>2, <1>3, <1>4, <2>2
  <2>3. CASE i > Len(ks) + 1
    <3> DEFINE j == i - (Len(ks) + 1)
    <3>1. j \in 1..Len(ms) - 1 /\ i = Len(ks) + 1 + j /\ i = Len(ks) + (j + 1)
          /\ j + 1 \in 1..Len(ms)
      BY <1>1, <1>2, <2>3
    <3> HIDE DEF j
    <3> QED
      BY <1>1, <1>2, <1>4, <3>1
  <2> QED
    BY <1>1, <1>2, <2>1, <2>2, <2>3
<1>6. p = q
  BY <1>2, <1>4, <1>5
<1>7. Len(ks) < Len(p) /\ p[Len(ks) + 1] = Head(ms)
  BY <1>1, <1>2
<1> QED
  BY <1>1, <1>6, <1>7 DEF p, q, r

(* The sole sender finishes its message. *)
LEMMA WriteBodyKeeps ==
  ASSUME FrameInv, NEW w \in Writers, Frames!WriteBody(w)
  PROVE  SoleMessages' /\ ChannelStep
<1> DEFINE m == writing[w]
<1>0. m \in Bodies /\ sent \in Seq(Bodies) /\ received \in Seq(Bodies)
      /\ stream \in Seq(Frames!Byte) /\ lenData \in Seq(Frames!Byte) /\ data \in Seq(Frames!Byte)
      /\ writing \in [Writers -> Bodies \cup {Nothing}]
  BY DEF FrameInv, Frames!TypeOK, Frames!WriteBody
<1>1. /\ UNCHANGED <<reader, shut, lost, overlap, at, lenData, data, received>>
      /\ writing' = [writing EXCEPT ![w] = Nothing]
      /\ sent' = IF shut \/ lost THEN sent ELSE Append(sent, m)
      /\ stream' = IF shut \/ lost THEN stream ELSE stream \o m
  BY DEF Frames!WriteBody, Frames!Put, Frames!readVars
<1>2. CASE overlap
  <2>1. ChannelStep
    <3>1. sent' \in Seq(Bodies) /\ received' \in Seq(Bodies)
      BY <1>0, <1>1
    <3> QED
      BY <1>1, <1>2, <3>1 DEF ChannelStep, Frames!Channel!Next, Frames!Channel!Garble
  <2> QED
    BY <1>1, <1>2, <2>1 DEF SoleMessages
<1>3. CASE ~overlap
  <2>1. Sole
    BY <1>3 DEF FrameInv, SoleMessages
  <2>2. PICK unread \in Seq(Bodies), rest \in Seq(Frames!Byte), t \in Seq(Frames!Byte) :
          Carried(unread, rest, t)
    BY <1>3 DEF FrameInv, SoleMessages
  <2>3. Sole'
    BY <1>0, <1>1, <2>1 DEF Sole
  <2>4. \A v \in Writers : writing'[v] = Nothing
    BY <1>0, <1>1, <2>1 DEF Sole, Frames!WriteBody
  <2>5. CASE shut \/ lost
    <3>1. Carried(unread, rest, t)'
      BY <1>1, <2>2, <2>5 DEF Carried, IsTail
    <3>2. ChannelStep
      BY <1>1, <2>5 DEF ChannelStep
    <3> QED
      BY <2>2, <2>3, <3>1, <3>2 DEF SoleMessages
  <2>6. CASE ~(shut \/ lost)
    <3>1. at # "closed" /\ rest = <<>> /\ t = Frames!int2byte[Len(m)]
      BY <2>2, <2>6 DEF Carried, TailAhead, Frames!WriteBody
    <3>0. PICK more : more = Append(unread, m)
      OBVIOUS
    <3>2. more \in Seq(Bodies) /\ sent' = received' \o more
      BY <1>0, <1>1, <2>2, <2>6, <3>0, SeqBase DEF Carried
    <3>3. Wire[more] = (Wire[unread] \o t) \o m
      <4>1. Wire[more] = Wire[unread] \o (t \o m)
        BY <1>0, <2>2, <3>0, <3>1, WireAppend DEF Frame
      <4>2. Wire[unread] \in Seq(Frames!Byte) /\ t \in Seq(Frames!Byte) /\ m \in Seq(Frames!Byte)
        BY <1>0, <2>2, WireDef, BodyType
      <4> DEFINE x == Wire[unread]
      <4> HIDE DEF x, m
      <4>3. x \o (t \o m) = (x \o t) \o m
        BY <4>2, Joining DEF x
      <4> QED
        BY <4>1, <4>3 DEF x
    <3>4. Ahead(lenData, data, stream \o m, <<>>) = Ahead(lenData, data, stream, <<>>) \o m
      <4>1. m \in Seq(Frames!Byte)
        BY <1>0, BodyType
      <4> HIDE DEF m
      <4> QED
        BY <1>0, <4>1, Behind
    <3>5. Wire[more] \o <<>> = Wire[more]
      <4>1. Wire[more] \in Seq(Frames!Byte)
        BY <3>2, WireDef
      <4> QED
        BY <4>1, Joining
    <3>6. Ahead(lenData', data', stream', rest) = Wire[more] \o <<>>
      BY <1>1, <2>2, <2>6, <3>1, <3>3, <3>4, <3>5 DEF Carried
    <3>7. <<>> \in Seq(Frames!Byte)
      OBVIOUS
    <3>8. Carried(more, rest, <<>>)'
      <4> HIDE DEF m
      <4>1. TailAhead(<<>>)'
        BY <2>4 DEF TailAhead
      <4> QED
        BY <1>1, <2>6, <3>1, <3>2, <3>6, <4>1 DEF Carried, IsTail
    <3>9. ChannelStep
      BY <1>0, <1>1, <1>3, <2>6 DEF ChannelStep, Frames!Channel!Next, Frames!Channel!Send
    <3> QED
      BY <2>2, <2>3, <3>2, <3>7, <3>8, <3>9 DEF SoleMessages
  <2> QED
    BY <2>5, <2>6
<1> QED
  BY <1>2, <1>3

(* A message is begun. *)
LEMMA WriteLengthKeeps ==
  ASSUME FrameInv, NEW w \in Writers, NEW m \in Bodies, Frames!WriteLength(w, m)
  PROVE  SoleMessages' /\ ChannelStep
<1> DEFINE l == Frames!int2byte[Len(m)]
<1>0. sent \in Seq(Bodies) /\ received \in Seq(Bodies) /\ overlap \in BOOLEAN
      /\ stream \in Seq(Frames!Byte) /\ lenData \in Seq(Frames!Byte) /\ data \in Seq(Frames!Byte)
      /\ writing \in [Writers -> Bodies \cup {Nothing}] /\ l \in Seq(Frames!Byte)
  BY BodyType DEF FrameInv, Frames!TypeOK
<1>1. /\ UNCHANGED <<reader, shut, lost, at, lenData, data, received, sent>>
      /\ writing[w] = Nothing /\ writing' = [writing EXCEPT ![w] = m]
      /\ overlap' = (overlap \/ \E v \in Writers : writing[v] # Nothing)
      /\ stream' = IF shut \/ lost THEN stream ELSE stream \o l
  BY DEF Frames!WriteLength, Frames!Put, Frames!readVars
<1> HIDE DEF l
<1>2. CASE overlap'
  <2>1. ChannelStep
    <3>1. CASE overlap
      <4>1. overlap' = overlap
        BY <1>0, <1>1, <3>1
      <4> QED
        BY <1>1, <4>1 DEF ChannelStep
    <3>2. CASE ~overlap
      <4>1. overlap' = TRUE
        BY <1>1, <1>2, <3>2
      <4> QED
        BY <1>1, <3>2, <4>1 DEF ChannelStep, Frames!Channel!Next, Frames!Channel!Break
    <3> QED
      BY <3>1, <3>2
  <2> QED
    BY <1>2, <2>1 DEF SoleMessages
<1>3. CASE ~overlap'
  <2>1. ~overlap /\ overlap' = overlap /\ \A v \in Writers : writing[v] = Nothing
    BY <1>0, <1>1, <1>3
  <2>2. PICK unread \in Seq(Bodies), rest \in Seq(Frames!Byte), t \in Seq(Frames!Byte) :
          Carried(unread, rest, t)
    BY <2>1 DEF FrameInv, SoleMessages
  <2>3. Sole'
    BY <1>0, <1>1, <2>1 DEF Sole
  <2>4. ChannelStep
    BY <1>1, <2>1 DEF ChannelStep
  <2>5. CASE shut \/ lost
    <3>1. Carried(unread, rest, t)'
      BY <1>1, <2>2, <2>5 DEF Carried, IsTail
    <3> QED
      BY <2>2, <2>3, <2>4, <3>1 DEF SoleMessages
  <2>6. CASE ~(shut \/ lost)
    <3>1. at # "closed" /\ rest = <<>> /\ t = <<>>
      BY <2>1, <2>2, <2>6 DEF Carried, TailAhead
    <3>2. Ahead(lenData, data, stream \o l, <<>>) = Ahead(lenData, data, stream, <<>>) \o l
      BY <1>0, Behind
    <3>3. Wire[unread] \o <<>> = Wire[unread]
      <4>1. Wire[unread] \in Seq(Frames!Byte)
        BY <2>2, WireDef
      <4> QED
        BY <4>1, Joining
    <3>4. Ahead(lenData', data', stream', rest) = Wire[unread] \o l
      BY <1>1, <2>2, <2>6, <3>1, <3>2, <3>3 DEF Carried
    <3>5. TailAhead(l)'
      <4>1. m # Nothing
        BY FrameAssumptions
      <4>2. \A v \in Writers : writing'[v] = IF v = w THEN m ELSE Nothing
        BY <1>0, <1>1, <2>1
      <4> QED
        BY <4>1, <4>2 DEF TailAhead, l
    <3>6. Carried(unread, rest, l)'
      <4>1. IsTail(l)
        BY DEF IsTail, l
      <4> QED
        BY <1>1, <2>2, <2>6, <3>1, <3>4, <3>5, <4>1 DEF Carried, IsTail
    <3> QED
      BY <1>0, <2>2, <2>3, <2>4, <3>6 DEF SoleMessages
  <2> QED
    BY <2>5, <2>6
<1> QED
  BY <1>2, <1>3

LEMMA OnceBroken ==
  ASSUME Frames!TypeOK', overlap, UNCHANGED overlap
  PROVE  SoleMessages' /\ ChannelStep
BY DEF Frames!TypeOK, SoleMessages, ChannelStep, Frames!Channel!Next, Frames!Channel!Garble

LEMMA Types ==
  ASSUME Frames!TypeOK
  PROVE  /\ stream \in Seq(Frames!Byte) /\ lenData \in Seq(Frames!Byte) /\ data \in Seq(Frames!Byte)
         /\ sent \in Seq(Bodies) /\ received \in Seq(Bodies) /\ reader \in {"server", "client"}
         /\ <<>> \in Seq(Frames!Byte) /\ <<>> \in Seq(Bodies)
         /\ at \in {"start", "length", "body", "closed"}
BY DEF Frames!TypeOK

LEMMA CloseStreamKeeps ==
  ASSUME FrameInv, Frames!CloseStream
  PROVE  SoleMessages' /\ ChannelStep
<1>1. /\ UNCHANGED <<reader, stream, lost, writing, sent, overlap, at, lenData, data, received>>
      /\ shut' = TRUE
  BY DEF Frames!CloseStream, Frames!readVars
<1>2. ChannelStep
  BY <1>1 DEF ChannelStep
<1>3. ASSUME ~overlap PROVE SoleMessages'
  <2>1. PICK unread \in Seq(Bodies), rest \in Seq(Frames!Byte), t \in Seq(Frames!Byte) :
          Carried(unread, rest, t)
    BY <1>3 DEF FrameInv, SoleMessages
  <2>2. Carried(unread, rest, t)'
    BY <1>1, <2>1 DEF Carried, IsTail
  <2>3. Sole'
    BY <1>1, <1>3 DEF FrameInv, SoleMessages, Sole
  <2> QED
    BY <2>1, <2>2, <2>3 DEF SoleMessages
<1> QED
  BY <1>1, <1>2, <1>3 DEF SoleMessages

LEMMA LoseKeeps ==
  ASSUME FrameInv, Frames!Lose
  PROVE  SoleMessages' /\ ChannelStep
<1>1. /\ UNCHANGED <<reader, shut, writing, sent, overlap, at, lenData, data, received>>
      /\ lost' = TRUE /\ stream' = <<>>
  BY DEF Frames!Lose, Frames!readVars, Frames!sendVars
<1>2. ChannelStep
  BY <1>1 DEF ChannelStep
<1>3. ASSUME ~overlap PROVE SoleMessages'
  <2>1. PICK unread \in Seq(Bodies), rest \in Seq(Frames!Byte), t \in Seq(Frames!Byte) :
          Carried(unread, rest, t)
    BY <1>3 DEF FrameInv, SoleMessages
  <2>2. PICK more \in Seq(Frames!Byte) : more = stream \o rest
    <3>1. stream \in Seq(Frames!Byte)
      BY Types DEF FrameInv
    <3>2. stream \o rest \in Seq(Frames!Byte)
      BY <3>1
    <3> QED
      BY <3>2, Zenon
  <2>3. Ahead(lenData, data, <<>>, more) = Ahead(lenData, data, stream, rest)
    BY <2>2, Joining DEF Ahead
  <2>4. Carried(unread, more, t)'
    BY <1>1, <2>1, <2>3 DEF Carried, IsTail
  <2>5. Sole'
    BY <1>1, <1>3 DEF FrameInv, SoleMessages, Sole
  <2> QED
    BY <2>1, <2>4, <2>5 DEF SoleMessages
<1> QED
  BY <1>1, <1>2, <1>3 DEF SoleMessages

LEMMA OneMore ==
  ASSUME NEW l \in Seq(Frames!Byte), NEW a \in Seq(Frames!Byte), Len(a) = 1
  PROVE  Append(l, a[1]) = l \o a
<1> DEFINE p == Append(l, a[1])
           q == l \o a
<1>1. a[1] \in Frames!Byte /\ 1 \in 1..Len(a) /\ Len(l) \in Nat
  OBVIOUS
<1>2. /\ p \in Seq(Frames!Byte) /\ Len(p) = Len(l) + 1 /\ p[Len(l) + 1] = a[1]
      /\ \A i \in 1..Len(l) : p[i] = l[i]
  BY <1>1
<1>3. /\ q \in Seq(Frames!Byte) /\ Len(q) = Len(l) + 1
      /\ \A i \in 1..Len(l) : q[i] = l[i]
      /\ \A i \in 1..Len(a) : q[Len(l) + i] = a[i]
  BY Parts
<1> HIDE DEF p, q
<1>4. \A i \in 1..Len(p) : p[i] = q[i]
  <2>1. \A i \in 1..Len(p) : i = Len(l) + 1 \/ i \in 1..Len(l)
    BY <1>1, <1>2
  <2> QED
    BY <1>1, <1>2, <1>3, <2>1
<1>5. p = q
  BY <1>2, <1>3, <1>4, SeqsEqual
<1> QED
  BY <1>5 DEF p, q

(* A byte of a length. *)
LEMMA ByteAhead ==
  ASSUME NEW l \in Seq(Frames!Byte), NEW s \in Seq(Frames!Byte), NEW r \in Seq(Frames!Byte),
         s # <<>>
  PROVE  /\ Append(l, Head(s)) \in Seq(Frames!Byte)
         /\ SubSeq(s, 2, Len(s)) \in Seq(Frames!Byte)
         /\ Ahead(Append(l, Head(s)), <<>>, SubSeq(s, 2, Len(s)), r) = Ahead(l, <<>>, s, r)
<1> DEFINE b == SubSeq(s, 2, Len(s))
           a == SubSeq(s, 1, 1)
<1>1. 1 \in 0..Len(s) /\ 1 + 1 = 2
  OBVIOUS
<1>2. /\ a \in Seq(Frames!Byte) /\ b \in Seq(Frames!Byte)
      /\ (l \o a) \o (b \o r) = l \o (s \o r)
  <2>1. \A k \in 0..Len(s) :
          /\ SubSeq(s, 1, k) \in Seq(Frames!Byte)
          /\ SubSeq(s, k + 1, Len(s)) \in Seq(Frames!Byte)
          /\ (l \o SubSeq(s, 1, k)) \o (SubSeq(s, k + 1, Len(s)) \o r) = l \o (s \o r)
    BY Moved, Zenon
  <2>2. SubSeq(s, 1 + 1, Len(s)) = b
    BY <1>1
  <2> HIDE DEF b
  <2> QED
    BY <1>1, <2>1, <2>2, Zenon
<1>3. Append(l, Head(s)) = l \o a
  <2>1. Len(a) = 1 /\ a[1] = Head(s) /\ a \in Seq(Frames!Byte)
    BY <1>1
  <2> HIDE DEF a
  <2>2. Append(l, a[1]) = l \o a
    BY <2>1, OneMore
  <2> QED
    BY <2>1, <2>2
<1>4. b \o r \in Seq(Frames!Byte) /\ s \o r \in Seq(Frames!Byte)
  BY <1>2
<1>5. <<>> \o (b \o r) = b \o r /\ <<>> \o (s \o r) = s \o r
  <2> HIDE DEF b
  <2> QED
    BY <1>4, Joining
<1> HIDE DEF a, b
<1>6. Ahead(Append(l, Head(s)), <<>>, b, r) = Ahead(l, <<>>, s, r)
  BY <1>2, <1>3, <1>5 DEF Ahead
<1>7. Append(l, Head(s)) \in Seq(Frames!Byte)
  BY <1>2, <1>3
<1> QED
  BY <1>2, <1>6, <1>7 DEF b

LEMMA ByteKeeps ==
  ASSUME FrameInv, Frames!TypeOK', at \in {"start", "length"}, stream # <<>>, Frames!Take(1),
         Frames!LengthByte(Head(stream)), UNCHANGED <<reader, lost, Frames!sendVars>>
  PROVE  SoleMessages' /\ ChannelStep
<1> DEFINE b == Head(stream)
           got == Append(lenData, b)
<1>0. stream \in Seq(Frames!Byte) /\ lenData \in Seq(Frames!Byte) /\ data = <<>>
      /\ b \in Frames!Byte /\ \A i \in 1..Len(lenData) : Frames!Marked(lenData[i])
  BY DEF FrameInv, Frames!TypeOK, Shape
<1>1. UNCHANGED <<reader, lost, writing, shut, begun, sent, overlap>>
      /\ stream' = SubSeq(stream, 2, Len(stream))
  BY DEF Frames!sendVars, Frames!Take
<1>2. CASE overlap
  BY <1>1, <1>2, OnceBroken
<1>3. CASE ~overlap
  <2>1. PICK unread \in Seq(Bodies), rest \in Seq(Frames!Byte), t \in Seq(Frames!Byte) :
          Carried(unread, rest, t)
    BY <1>3 DEF FrameInv, SoleMessages
  <2>2. /\ got \in Seq(Frames!Byte) /\ stream' \in Seq(Frames!Byte)
        /\ Ahead(got, <<>>, stream', rest) = Ahead(lenData, <<>>, stream, rest)
    BY <1>0, <1>1, ByteAhead
  <2>3. Ahead(got, <<>>, stream', rest) = Wire[unread] \o t
    BY <1>0, <2>1, <2>2 DEF Carried
  <2>4. ~(~Frames!Marked(b) /\ Frames!bytes2int(got) = 0)
    <3> SUFFICES ASSUME ~Frames!Marked(b), Frames!bytes2int(got) = 0 PROVE FALSE
      OBVIOUS
    <3>1. IsLength(got)
      BY <1>0, Marks
    <3>2. PICK c \in Seq(Frames!Byte) : c = stream' \o rest
      <4>1. stream' \o rest \in Seq(Frames!Byte)
        BY <2>2
      <4> QED
        BY <4>1, Zenon
    <3>3. got \o (<<>> \o c) = Wire[unread] \o t
      BY <2>3, <3>2 DEF Ahead
    <3>4. <<>> \in Seq(Frames!Byte) /\ Len(<<>>) <= Frames!bytes2int(got)
      OBVIOUS
    <3>5. t = <<>> \/ \E x \in Bodies : t = Frames!int2byte[Len(x)]
      BY <2>1 DEF Carried, IsTail
    <3> HIDE DEF got
    <3>6. \E x \in Bodies : Frames!bytes2int(got) = Len(x)
      <4>1. unread # <<>> => Head(unread) \in Bodies
        OBVIOUS
      <4>2. \/ unread # <<>> /\ Frames!bytes2int(got) = Len(Head(unread))
            \/ \E x \in Bodies : Frames!bytes2int(got) = Len(x)
        BY <3>1, <3>3, <3>4, <3>5, NextFrame
      <4> QED
        BY <4>1, <4>2
    <3> QED
      BY <3>6, BodyType
  <2>5. lenData' = got /\ at' = (IF Frames!Marked(b) THEN "length" ELSE "body")
        /\ data' = <<>> /\ received' = received
    BY <1>0, <2>4 DEF Frames!LengthByte
  <2>6. ChannelStep
    BY <1>1, <2>5 DEF ChannelStep
  <2>7. Ahead(lenData', data', stream', rest) = Wire[unread] \o t
    BY <2>3, <2>5
  <2> HIDE DEF got, b
  <2>8. Carried(unread, rest, t)'
    BY <1>1, <2>1, <2>5, <2>7 DEF Carried, IsTail, TailAhead
  <2>9. Sole'
    BY <1>1, <1>3 DEF FrameInv, SoleMessages, Sole
  <2> QED
    BY <2>1, <2>6, <2>8, <2>9 DEF SoleMessages
<1> QED
  BY <1>2, <1>3

(* A frame is longer than one byte. *)
LEMMA ShortWire ==
  ASSUME NEW ms \in Seq(Bodies), NEW t \in Seq(Frames!Byte), Len(Wire[ms] \o t) <= 1
  PROVE  ms = <<>>
<1> SUFFICES ASSUME ms # <<>> PROVE FALSE
  OBVIOUS
<1> DEFINE m == Head(ms)
           l == Frames!int2byte[Len(m)]
           c == Wire[Tail(ms)] \o t
<1>1. m \in Bodies /\ Wire[ms] \o t = l \o (m \o c)
  BY WireHead
<1>2. l \in Seq(Frames!Byte) /\ l # <<>> /\ m \in Seq(Frames!Byte) /\ m # <<>>
  BY <1>1, BodyType, Lengths DEF IsLength
<1>3. c \in Seq(Frames!Byte)
  <2>1. Wire[Tail(ms)] \in Seq(Frames!Byte)
    BY <1>1, WireHead, WireDef
  <2> QED
    BY <2>1
<1> HIDE DEF l, m, c
<1>4. m \o c \in Seq(Frames!Byte) /\ Len(m \o c) > 0
  BY <1>2, <1>3
<1>5. Len(l \o (m \o c)) > 1
  <2> DEFINE e == m \o c
  <2> HIDE DEF e
  <2>1. e \in Seq(Frames!Byte) /\ Len(e) > 0
    BY <1>4 DEF e
  <2>2. Len(l \o e) > 1
    BY <1>2, <2>1
  <2> QED
    BY <2>2 DEF e
<1> QED
  BY <1>1, <1>5

LEMMA StreamEndsKeeps ==
  ASSUME FrameInv, Frames!TypeOK', Frames!StreamEnds
  PROVE  SoleMessages' /\ ChannelStep
<1>1. /\ UNCHANGED <<reader, lost, writing, shut, begun, sent, overlap, received>>
      /\ at' = "closed" /\ at = "start" /\ lenData = <<>> /\ data = <<>> /\ stream \in Seq(Frames!Byte)
      /\ shut \/ lost
      /\ Len(stream) <= 1
  <2>1. CASE Frames!Ended /\ UNCHANGED stream
    BY <2>1 DEF Frames!StreamEnds, Frames!GiveUp, Frames!sendVars, Frames!Ended, FrameInv,
         Frames!TypeOK, Shape
  <2>2. CASE shut /\ Len(stream) = 1
    BY <2>2 DEF Frames!StreamEnds, Frames!GiveUp, Frames!sendVars, FrameInv, Frames!TypeOK, Shape
  <2> QED
    BY <2>1, <2>2 DEF Frames!StreamEnds
<1>2. CASE overlap
  BY <1>1, <1>2, OnceBroken
<1>3. CASE ~overlap
  <2>1. PICK unread \in Seq(Bodies), rest \in Seq(Frames!Byte), t \in Seq(Frames!Byte) :
          Carried(unread, rest, t)
    BY <1>3 DEF FrameInv, SoleMessages
  <2>2. ~lost => unread = <<>>
    <3> SUFFICES ASSUME ~lost PROVE unread = <<>>
      OBVIOUS
    <3>1. Ahead(<<>>, <<>>, stream, <<>>) = Wire[unread] \o t
      BY <1>1, <2>1 DEF Carried
    <3>2. Ahead(<<>>, <<>>, stream, <<>>) = stream
      BY <1>1, Joining DEF Ahead
    <3> QED
      BY <1>1, <2>1, <3>1, <3>2, ShortWire
  <2>3. Carried(unread, rest, t)'
    BY <1>1, <2>1, <2>2 DEF Carried, IsTail
  <2>4. Sole'
    BY <1>1, <1>3 DEF FrameInv, SoleMessages, Sole
  <2>5. ChannelStep
    BY <1>1 DEF ChannelStep
  <2> QED
    BY <2>1, <2>3, <2>4, <2>5 DEF SoleMessages
<1> QED
  BY <1>2, <1>3

LEMMA Zeros ==
  ASSUME NEW n \in Nat
  PROVE  /\ Frames!Zeros(n) \in Seq(Frames!Byte) /\ Len(Frames!Zeros(n)) = n
         /\ \A i \in 1..n : Frames!Zeros(n)[i] = 0
<1>1. 0 \in Frames!Byte
  BY FrameAssumptions DEF Frames!Byte
<1> DEFINE z == [i \in 1..n |-> 0]
<1>2. z \in Seq(Frames!Byte)
  BY <1>1
<1>3. Len(z) = n /\ \A i \in 1..n : z[i] = 0
  BY <1>2
<1> HIDE DEF z
<1> QED
  BY <1>2, <1>3 DEF Frames!Zeros, z

(* A body that begins as a message does and is filled up with zeros is     *)
(* that message, when it decompresses.                                     *)
LEMMA Filled ==
  ASSUME NEW m \in Bodies, NEW got \in Seq(Frames!Byte), Len(got) <= Len(m),
         \A i \in 1..Len(got) : got[i] = m[i],
         got \o Frames!Zeros(Len(m) - Len(got)) \in Bodies
  PROVE  got \o Frames!Zeros(Len(m) - Len(got)) = m
<1> DEFINE n == Len(m) - Len(got)
           z == Frames!Zeros(n)
           b == got \o z
<1>1. n \in Nat /\ Len(m) \in Nat /\ Len(got) \in 0..Len(m)
  BY BodyType
<1>2. z \in Seq(Frames!Byte) /\ Len(z) = n /\ \A i \in 1..n : z[i] = 0
  BY <1>1, Zeros
<1> HIDE DEF z
<1>3. /\ Len(b) = Len(got) + Len(z)
      /\ \A i \in 1..Len(got) : b[i] = got[i]
      /\ \A i \in 1..Len(z) : b[Len(got) + i] = z[i]
  BY <1>2, Parts
<1>4. b \in Bodies
  BY DEF z
<1> HIDE DEF b
<1>5. ASSUME NEW i \in 1..Len(m) PROVE b[i] = IF i <= Len(got) THEN m[i] ELSE 0
  <2>1. CASE i <= Len(got)
    BY <1>1, <1>3, <2>1
  <2>2. CASE ~(i <= Len(got))
    <3>1. i - Len(got) \in 1..n /\ Len(got) + (i - Len(got)) = i
      BY <1>1, <2>2
    <3> QED
      BY <1>2, <1>3, <2>2, <3>1
  <2> QED
    BY <2>1, <2>2
<1>6. Len(b) = Len(m)
  BY <1>1, <1>2, <1>3
<1>7. b = m
  BY <1>1, <1>4, <1>5, <1>6, FrameAssumptions
<1> QED
  BY <1>7 DEF b, z

(* Nothing is ahead of what nothing was read of. *)
LEMMA NoneRead ==
  ASSUME NEW s \in Seq(Frames!Byte), NEW r \in Seq(Frames!Byte)
  PROVE  Ahead(<<>>, <<>>, s, r) = s \o r
<1> DEFINE x == s \o r
<1>1. x \in Seq(Frames!Byte)
  OBVIOUS
<1> HIDE DEF x
<1>2. <<>> \o x = x /\ <<>> \in Seq(Frames!Byte)
  BY <1>1, Joining
<1>3. <<>> \o (<<>> \o x) = x
  BY <1>2
<1> QED
  BY <1>3 DEF Ahead, x

(* The next message is handed on. *)
LEMMA Receives ==
  ASSUME FrameInv, ~overlap, NEW unread \in Seq(Bodies), unread # <<>>,
         NEW rest \in Seq(Frames!Byte), NEW t \in Seq(Frames!Byte),
         Carried(unread, rest, t), Frames!Serve(Head(unread)), at # "closed",
         UNCHANGED <<reader, lost, Frames!sendVars>>,
         NEW more \in Seq(Frames!Byte), ~lost => more = <<>>,
         Ahead(<<>>, <<>>, stream', more) = Wire[Tail(unread)] \o t
  PROVE  SoleMessages' /\ ChannelStep
<1>1. UNCHANGED <<reader, lost, writing, shut, begun, sent, overlap>>
  BY DEF Frames!sendVars
<1>2. received \in Seq(Bodies)
  BY Types DEF FrameInv
<1>3. sent = received \o unread
  BY DEF Carried
<1>4. /\ Head(unread) \in Bodies /\ Tail(unread) \in Seq(Bodies)
      /\ sent = Append(received, Head(unread)) \o Tail(unread)
      /\ Len(received) < Len(sent) /\ sent[Len(received) + 1] = Head(unread)
  BY <1>2, <1>3, SeqNext
<1>5. received' = Append(received, Head(unread)) /\ at' = "start" /\ lenData' = <<>> /\ data' = <<>>
  BY <1>4 DEF Frames!Serve
<1>6. ChannelStep
  BY <1>1, <1>4, <1>5 DEF ChannelStep, Frames!Channel!Next, Frames!Channel!Receive
<1>7. PICK left \in Seq(Bodies) : left = Tail(unread)
  BY <1>4
<1>8. Carried(left, more, t)'
  <2>1. IsTail(t) /\ (at # "closed" /\ ~lost /\ ~shut => TailAhead(t))
    BY DEF Carried
  <2>2. IsTail(t)' /\ (~lost' /\ ~shut' => TailAhead(t)')
    BY <1>1, <2>1 DEF IsTail, TailAhead
  <2>3. Ahead(lenData', data', stream', more) = Wire[left] \o t
    BY <1>5, <1>7
  <2>4. sent' = received' \o left
    BY <1>1, <1>4, <1>5, <1>7
  <2> QED
    BY <1>1, <1>5, <2>2, <2>3, <2>4 DEF Carried
<1>9. Sole'
  BY <1>1 DEF FrameInv, SoleMessages, Sole
<1> QED
  BY <1>6, <1>8, <1>9 DEF SoleMessages

LEMMA ReadBodyKeeps ==
  ASSUME FrameInv, Frames!TypeOK', Frames!ReadBody
  PROVE  SoleMessages' /\ ChannelStep
<1>1. UNCHANGED <<reader, lost, writing, shut, begun, sent, overlap>> /\ at = "body"
      /\ UNCHANGED <<reader, lost, Frames!sendVars>>
  BY DEF Frames!ReadBody, Frames!sendVars
<1>2. CASE overlap
  BY <1>1, <1>2, OnceBroken
<1>3. CASE ~overlap
  <2>1. PICK unread \in Seq(Bodies), rest \in Seq(Frames!Byte), t \in Seq(Frames!Byte) :
          Carried(unread, rest, t)
    BY <1>3 DEF FrameInv, SoleMessages
  <2>2. PICK k \in 1..Len(stream) :
          /\ k <= Frames!Missing /\ Frames!Take(k)
          /\ IF k = Frames!Missing THEN Frames!Serve(data \o SubSeq(stream, 1, k))
             ELSE data' = data \o SubSeq(stream, 1, k) /\ UNCHANGED <<at, lenData, received>>
    BY DEF Frames!ReadBody
  <2>3. stream \in Seq(Frames!Byte) /\ data \in Seq(Frames!Byte) /\ lenData \in Seq(Frames!Byte)
        /\ IsLength(lenData) /\ Len(data) < Frames!bytes2int(lenData)
        /\ Frames!bytes2int(lenData) \in Nat
    BY <1>1, BytesType DEF FrameInv, Frames!TypeOK, Shape
  <2> DEFINE s == SubSeq(stream, 1, k)
             got == data \o s
  <2>4. /\ s \in Seq(Frames!Byte) /\ stream' \in Seq(Frames!Byte)
        /\ got \o (stream' \o rest) = data \o (stream \o rest)
    <3>1. k \in 0..Len(stream)
      BY <2>3
    <3> QED
      BY <2>1, <2>2, <2>3, <3>1, Moved DEF Frames!Take
  <2>5. Len(s) = k
    BY <2>3
  <2>6. got \in Seq(Frames!Byte) /\ Len(got) = Len(data) + k
    <3> HIDE DEF s
    <3>1. s \in Seq(Frames!Byte) /\ data \in Seq(Frames!Byte) /\ Len(s) = k
      BY <2>3, <2>4, <2>5
    <3>2. got \in Seq(Frames!Byte) /\ Len(got) = Len(data) + Len(s)
      BY <3>1, Parts, Zenon
    <3> QED
      BY <3>1, <3>2
  <2> HIDE DEF s, got
  <2>7. Ahead(lenData, got, stream', rest) = Wire[unread] \o t
    <3>1. Ahead(lenData, got, stream', rest) = Ahead(lenData, data, stream, rest)
      BY <2>4 DEF Ahead
    <3> QED
      BY <1>1, <2>1, <3>1 DEF Carried
  <2>8. CASE k # Frames!Missing
    <3>1. data' = got /\ UNCHANGED <<at, lenData, received>>
      BY <2>2, <2>8 DEF got, s
    <3>2. Ahead(lenData', data', stream', rest) = Wire[unread] \o t
      BY <2>7, <3>1
    <3>3. Carried(unread, rest, t)'
      BY <1>1, <2>1, <3>1, <3>2 DEF Carried, IsTail, TailAhead
    <3>4. Sole' /\ ChannelStep
      BY <1>1, <1>3, <3>1 DEF FrameInv, SoleMessages, Sole, ChannelStep
    <3> QED
      BY <2>1, <3>3, <3>4 DEF SoleMessages
  <2>9. CASE k = Frames!Missing
    <3>1. Len(got) = Frames!bytes2int(lenData) /\ got # <<>>
      <4>1. Len(got) = Frames!bytes2int(lenData) /\ Len(got) # 0
        BY <2>3, <2>6, <2>9 DEF Frames!Missing
      <4> QED
        BY <4>1
    <3>2. PICK c \in Seq(Frames!Byte) : c = stream' \o rest
      <4>1. stream' \o rest \in Seq(Frames!Byte)
        BY <2>4
      <4> QED
        BY <4>1, Zenon
    <3>3. lenData \o (got \o c) = Wire[unread] \o t
      BY <2>7, <3>2 DEF Ahead
    <3>4. Len(got) <= Frames!bytes2int(lenData)
      BY <2>3, <3>1
    <3>5. t = <<>> \/ \E b \in Bodies : t = Frames!int2byte[Len(b)]
      BY <2>1 DEF Carried, IsTail
    <3>6. /\ unread # <<>> /\ Frames!bytes2int(lenData) = Len(Head(unread))
          /\ got \o c = Head(unread) \o (Wire[Tail(unread)] \o t)
          /\ \A i \in 1..Len(got) : got[i] = Head(unread)[i]
      <4>1. got \in Seq(Frames!Byte) /\ IsLength(lenData)
        BY <2>3, <2>6
      <4> QED
        BY <3>1, <3>3, <3>4, <3>5, <4>1, NextFrame, Zenon
    <3> DEFINE m == Head(unread)
               w == Wire[Tail(unread)]
               d == w \o t
    <3>7. m \in Bodies /\ m \in Seq(Frames!Byte) /\ w \in Seq(Frames!Byte)
      <4>1. unread # <<>>
        BY <3>6
      <4>2. m \in Bodies /\ Tail(unread) \in Seq(Bodies)
        BY <4>1
      <4> QED
        BY <4>2, BodyType, WireDef
    <3> HIDE DEF m, w
    <3>8. d \in Seq(Frames!Byte) /\ got \o c = m \o d /\ Len(got) = Len(m)
      BY <3>1, <3>6, <3>7 DEF m, w
    <3> HIDE DEF d
    <3>9. got = m /\ c = d
      BY <2>6, <3>7, <3>8, SameCut
    <3>10. Frames!Serve(Head(unread))
      BY <2>2, <2>9, <3>9 DEF got, s, m
    <3>11. Ahead(<<>>, <<>>, stream', rest) = Wire[Tail(unread)] \o t
      BY <2>4, <3>2, <3>9, NoneRead DEF d, w
    <3>12. at # "closed" /\ (~lost => rest = <<>>)
      BY <1>1, <2>1 DEF Carried
    <3> QED
      BY <1>1, <1>3, <2>1, <3>6, <3>10, <3>11, <3>12, Receives
  <2> QED
    BY <2>8, <2>9
<1> QED
  BY <1>2, <1>3

(* The stream ends in a body: what of it is on the wire.                   *)
LEMMA LastFrame ==
  ASSUME NEW unread \in Seq(Bodies), NEW rest \in Seq(Frames!Byte), NEW t \in Seq(Frames!Byte),
         NEW l, IsLength(l), NEW got \in Seq(Frames!Byte), Len(got) <= Frames!bytes2int(l),
         IsTail(t), l \o (got \o rest) = Wire[unread] \o t
  PROVE  \/ /\ unread # <<>> /\ Head(unread) \in Bodies
            /\ Frames!bytes2int(l) = Len(Head(unread)) /\ Len(Head(unread)) \in Nat
            /\ \A i \in 1..Len(got) : got[i] = Head(unread)[i]
            /\ rest = <<>> => /\ got = Head(unread) /\ Wire[Tail(unread)] \o t = <<>>
                              /\ Tail(unread) = <<>>
         \/ unread = <<>> /\ got = <<>> /\ Frames!bytes2int(l) \in Nat \ {0}
<1>1. CASE unread = <<>>
  BY <1>1, NextFrame, BodyType DEF IsTail
<1>2. CASE unread # <<>>
  <2> DEFINE m == Head(unread)
             w == Wire[Tail(unread)]
             d == w \o t
  <2>1. /\ Frames!bytes2int(l) = Len(m) /\ got \o rest = m \o d
        /\ \A i \in 1..Len(got) : got[i] = m[i]
    BY <1>2, NextFrame DEF IsTail
  <2>2. m \in Bodies /\ m \in Seq(Frames!Byte) /\ w \in Seq(Frames!Byte)
        /\ Tail(unread) \in Seq(Bodies)
    <3>1. m \in Bodies /\ Tail(unread) \in Seq(Bodies)
      BY <1>2
    <3> QED
      BY <3>1, BodyType, WireDef
  <2> HIDE DEF m, w
  <2>3. d \in Seq(Frames!Byte)
    BY <2>2
  <2> HIDE DEF d
  <2>4. ASSUME rest = <<>> PROVE got = m /\ d = <<>>
    <3>1. got = m \o d
      BY <2>1, <2>4, Joining
    <3>2. Len(got) = Len(m) + Len(d)
      BY <2>2, <2>3, <3>1
    <3>3. Len(d) = 0
      BY <2>1, <2>2, <2>3, <3>2
    <3>4. d = <<>>
      BY <2>3, <3>3
    <3> QED
      BY <2>2, <3>1, <3>4, Joining
  <2>5. ASSUME rest = <<>> PROVE Tail(unread) = <<>>
    <3>1. Len(Wire[Tail(unread)] \o t) <= 1
      BY <2>4, <2>5 DEF d, w
    <3> QED
      BY <2>2, <3>1, ShortWire
  <2> QED
    BY <1>2, <2>1, <2>2, <2>4, <2>5 DEF m, d, w
<1> QED
  BY <1>1, <1>2

LEMMA LastOne ==
  ASSUME NEW u \in Seq(Bodies), u # <<>>, Tail(u) = <<>>
  PROVE  Len(u) = 1
<1>1. Len(u) \in Nat /\ Len(Tail(u)) = Len(u) - 1 /\ Len(<<>>) = 0
  OBVIOUS
<1> QED
  BY <1>1

LEMMA BodyEndsKeeps ==
  ASSUME FrameInv, Frames!TypeOK', Frames!BodyEnds
  PROVE  SoleMessages' /\ ChannelStep
<1>1. UNCHANGED <<reader, lost, writing, shut, begun, sent, overlap>> /\ at = "body"
      /\ UNCHANGED <<reader, lost, Frames!sendVars>> /\ stream' = <<>>
  BY DEF Frames!BodyEnds, Frames!sendVars
<1>2. CASE overlap
  BY <1>1, <1>2, OnceBroken
<1>3. CASE ~overlap
  <2>1. PICK unread \in Seq(Bodies), rest \in Seq(Frames!Byte), t \in Seq(Frames!Byte) :
          Carried(unread, rest, t)
    BY <1>3 DEF FrameInv, SoleMessages
  <2>2. stream \in Seq(Frames!Byte) /\ data \in Seq(Frames!Byte) /\ lenData \in Seq(Frames!Byte)
        /\ IsLength(lenData) /\ Len(data) < Frames!bytes2int(lenData)
        /\ Frames!bytes2int(lenData) \in Nat /\ (lost => stream = <<>>)
        /\ reader \in {"server", "client"} /\ received \in Seq(Bodies)
    BY <1>1, BytesType DEF FrameInv, Frames!TypeOK, Shape
  <2>3. Len(stream) <= Frames!Missing /\ (shut \/ lost) /\ Len(stream) \in Nat /\ Len(data) \in Nat
    BY <2>2 DEF Frames!BodyEnds, Frames!Ended, Frames!Missing
  <2> DEFINE got == data \o stream
             n == Frames!bytes2int(lenData)
             body == got \o Frames!Zeros(n - Len(got))
  <2>4. got \in Seq(Frames!Byte) /\ Len(got) = Len(data) + Len(stream)
    BY <2>2
  <2>5. n \in Nat /\ Len(got) <= n /\ n - Len(got) \in Nat
        /\ Frames!Missing - Len(stream) = n - Len(got)
    BY <2>2, <2>3, <2>4 DEF Frames!Missing
  <2>6. IsTail(t) /\ (~lost => rest = <<>>) /\ at # "closed"
    BY <1>1, <2>1 DEF Carried
  <2>7. lenData \o (got \o rest) = Wire[unread] \o t
    <3>1. got \o rest = data \o (stream \o rest)
      BY <2>1, <2>2, Joining, Zenon
    <3>2. Ahead(lenData, data, stream, rest) = Wire[unread] \o t
      BY <2>1, <2>6 DEF Carried
    <3> QED
      BY <3>1, <3>2 DEF Ahead
  <2>8. IF reader = "server" THEN Frames!Serve(body) ELSE Frames!GiveUp
    BY <2>5 DEF Frames!BodyEnds
  <2> HIDE DEF got, n, body
  <2>9. \/ /\ unread # <<>> /\ Head(unread) \in Bodies
           /\ n = Len(Head(unread)) /\ Len(Head(unread)) \in Nat
           /\ \A i \in 1..Len(got) : got[i] = Head(unread)[i]
           /\ rest = <<>> => /\ got = Head(unread) /\ Wire[Tail(unread)] \o t = <<>>
                             /\ Tail(unread) = <<>>
        \/ unread = <<>> /\ got = <<>> /\ n \in Nat \ {0}
    BY <2>1, <2>2, <2>4, <2>5, <2>6, <2>7, LastFrame, Zenon DEF n
  <2>10. Sole'
    BY <1>1, <1>3 DEF FrameInv, SoleMessages, Sole
  <2>11. body \in Bodies => unread # <<>> /\ body = Head(unread)
    <3> SUFFICES ASSUME body \in Bodies PROVE unread # <<>> /\ body = Head(unread)
      OBVIOUS
    <3>1. CASE unread = <<>>
      <4>1. got = <<>> /\ n \in Nat \ {0}
        BY <2>9, <3>1
      <4>2. Frames!Zeros(n) \in Seq(Frames!Byte) /\ Frames!Zeros(n)[1] = 0
        BY <4>1, Zeros
      <4>3. body = Frames!Zeros(n)
        <5>1. n - Len(got) = n
          BY <2>5, <4>1
        <5>2. body = <<>> \o Frames!Zeros(n)
          BY <4>1, <5>1 DEF body
        <5> QED
          BY <4>2, <5>2, Joining
      <4> QED
        BY <4>2, <4>3, BodyType
    <3>2. CASE unread # <<>>
      <4>1. Head(unread) \in Bodies /\ n = Len(Head(unread))
            /\ \A i \in 1..Len(got) : got[i] = Head(unread)[i]
        BY <2>9, <3>2
      <4>2. got \o Frames!Zeros(Len(Head(unread)) - Len(got)) = body
        BY <4>1 DEF body
      <4>3. Len(got) <= Len(Head(unread))
        BY <2>5, <4>1
      <4> QED
        BY <2>4, <3>2, <4>1, <4>2, <4>3, Filled
    <3> QED
      BY <3>1, <3>2
  <2>12. CASE reader = "server" /\ body \in Bodies
    <3>1. unread # <<>> /\ body = Head(unread) /\ Frames!Serve(Head(unread))
      BY <2>8, <2>11, <2>12
    <3>2. Tail(unread) \in Seq(Bodies)
      BY <3>1
    <3>3. Wire[Tail(unread)] \in Seq(Frames!Byte)
      BY <3>2, WireDef
    <3>4. PICK more \in Seq(Frames!Byte) : more = Wire[Tail(unread)] \o t
      <4>1. Wire[Tail(unread)] \o t \in Seq(Frames!Byte)
        BY <3>3
      <4> QED
        BY <4>1, Zenon
    <3>5. ~lost => more = <<>>
      BY <2>6, <2>9, <3>1, <3>4
    <3>6. Ahead(<<>>, <<>>, stream', more) = Wire[Tail(unread)] \o t
      <4>1. <<>> \in Seq(Frames!Byte)
        OBVIOUS
      <4> QED
        BY <1>1, <3>4, <4>1, NoneRead, Joining
    <3> QED
      BY <1>1, <1>3, <2>1, <2>6, <3>1, <3>5, <3>6, Receives
  <2>13. CASE reader = "server" /\ body \notin Bodies
    <3>1. received' = received /\ at' = "start" /\ lenData' = <<>> /\ data' = <<>>
      BY <2>8, <2>13 DEF Frames!Serve
    <3>2. ~lost => unread = <<>>
      <4> SUFFICES ASSUME ~lost, unread # <<>> PROVE FALSE
        OBVIOUS
      <4>1. got = Head(unread) /\ n = Len(Head(unread)) /\ Head(unread) \in Bodies
        BY <2>6, <2>9
      <4>2. body = got
        <5>1. n - Len(got) = 0 /\ got \in Seq(Frames!Byte)
          BY <2>4, <2>5, <4>1
        <5>2. Frames!Zeros(0) = <<>>
          <6>1. Frames!Zeros(0) \in Seq(Frames!Byte) /\ Len(Frames!Zeros(0)) = 0
            BY Zeros
          <6> QED
            BY <6>1
        <5> QED
          BY <5>1, <5>2, Joining DEF body
      <4> QED
        BY <2>13, <4>1, <4>2
    <3>3. Wire[unread] \in Seq(Frames!Byte) /\ <<>> \in Seq(Frames!Byte)
      BY <2>1, WireDef
    <3>4. PICK more \in Seq(Frames!Byte), tail \in Seq(Frames!Byte) :
            /\ IsTail(tail) /\ more = Wire[unread] \o tail /\ (~lost => more = <<>>)
      <4>1. CASE lost
        <5>1. Wire[unread] \o t \in Seq(Frames!Byte)
          BY <3>3
        <5> QED
          BY <2>6, <4>1, <5>1, Zenon
      <4>2. CASE ~lost
        <5>1. Wire[unread] \o <<>> = <<>>
          BY <3>2, <3>3, <4>2, WireDef, Joining
        <5>2. IsTail(<<>>)
          BY DEF IsTail
        <5> QED
          BY <3>3, <5>1, <5>2, Zenon
      <4> QED
        BY <4>1, <4>2
    <3>5. Ahead(<<>>, <<>>, stream', more) = Wire[unread] \o tail
      BY <1>1, <3>3, <3>4, NoneRead, Joining
    <3>6. Carried(unread, more, tail)'
      <4>1. sent' = received' \o unread
        BY <1>1, <2>1, <3>1 DEF Carried
      <4> QED
        BY <1>1, <2>3, <3>1, <3>4, <3>5, <4>1 DEF Carried, IsTail
    <3>7. ChannelStep
      BY <1>1, <3>1 DEF ChannelStep
    <3> QED
      BY <2>1, <2>10, <3>4, <3>6, <3>7 DEF SoleMessages
  <2>14. CASE reader = "client"
    <3>1. received' = received /\ at' = "closed"
      BY <2>8, <2>14 DEF Frames!GiveUp
    <3>2. ~lost => unread = <<>> \/ Len(unread) = 1
      <4> SUFFICES ASSUME ~lost, unread # <<>> PROVE Len(unread) = 1
        OBVIOUS
      <4>1. Tail(unread) = <<>>
        BY <2>6, <2>9
      <4> QED
        BY <4>1, LastOne
    <3>3. Carried(unread, rest, t)'
      <4>1. sent' = received' \o unread
        BY <1>1, <2>1, <3>1 DEF Carried
      <4> QED
        BY <1>1, <2>3, <2>6, <2>14, <3>1, <3>2, <4>1 DEF Carried, IsTail
    <3>4. ChannelStep
      BY <1>1, <3>1 DEF ChannelStep
    <3> QED
      BY <2>1, <2>10, <3>3, <3>4 DEF SoleMessages
  <2> QED
    BY <2>2, <2>12, <2>13, <2>14
<1> QED
  BY <1>2, <1>3

LEMMA FrameInit == MCInit => FrameInv
<1> SUFFICES ASSUME MCInit PROVE FrameInv
  OBVIOUS
<1> USE DEF MCInit, Frames!Init
<1>1. Frames!TypeOK
  <2>1. 0 \in 0..MaxSent /\ <<>> \in Seq(Frames!Byte) /\ <<>> \in Seq(Bodies)
    BY FrameAssumptions
  <2> QED
    BY <2>1 DEF Frames!TypeOK
<1>2. Shape
  BY DEF Shape
<1>3. SoleMessages
  <2>1. <<>> \in Seq(Frames!Byte) /\ <<>> \in Seq(Bodies) /\ <<>> \o <<>> = <<>>
    OBVIOUS
  <2>2. Ahead(<<>>, <<>>, <<>>, <<>>) = Wire[<<>>] \o <<>>
    BY <2>1, WireDef, NoneRead
  <2>3. Carried(<<>>, <<>>, <<>>)
    BY <2>1, <2>2 DEF Carried, IsTail, TailAhead
  <2> QED
    BY <2>1, <2>3 DEF SoleMessages, Sole
<1> QED
  BY <1>1, <1>2, <1>3 DEF FrameInv

LEMMA FrameNext ==
  ASSUME FrameInv, Frames!Next
  PROVE  FrameInv' /\ ChannelStep
<1>1. Frames!TypeOK' /\ Shape'
  BY TypeShape DEF FrameInv
<1>3. SoleMessages' /\ ChannelStep
  <2>1. CASE \E w \in Writers : Frames!WriteBody(w)
    BY <2>1, WriteBodyKeeps
  <2>2. CASE \E w \in Writers, m \in Bodies : Frames!WriteLength(w, m)
    BY <2>2, WriteLengthKeeps
  <2>3. CASE Frames!CloseStream
    BY <2>3, CloseStreamKeeps
  <2>4. CASE Frames!Lose
    BY <2>4, LoseKeeps
  <2>5. CASE Frames!ReadFirstByte
    BY <1>1, <2>5, ByteKeeps DEF Frames!ReadFirstByte
  <2>6. CASE Frames!ReadLength
    BY <1>1, <2>6, ByteKeeps DEF Frames!ReadLength
  <2>7. CASE Frames!StreamEnds
    BY <1>1, <2>7, StreamEndsKeeps
  <2>8. CASE Frames!ReadBody
    BY <1>1, <2>8, ReadBodyKeeps
  <2>9. CASE Frames!BodyEnds
    BY <1>1, <2>9, BodyEndsKeeps
  <2> QED
    BY <2>1, <2>2, <2>3, <2>4, <2>5, <2>6, <2>7, <2>8, <2>9 DEF Frames!Next, Frames!ReadStep
<1> QED
  BY <1>1, <1>3 DEF FrameInv

LEMMA FrameSteps ==
  ASSUME FrameInv, [MCNext]_<<vars, frameVars, part>>
  PROVE  FrameInv' /\ ChannelStep
<1>1. CASE Frames!Next
  BY <1>1, FrameNext
<1>2. CASE UNCHANGED frameVars
  <2>1. UNCHANGED <<reader, writing, stream, shut, lost, at, lenData, data, received, begun, sent,
                    overlap>>
    BY <1>2 DEF frameVars
  <2>2. Frames!TypeOK'
    <3>1. Frames!bytes2int(lenData)' = Frames!bytes2int(lenData)
      BY <2>1 DEF Frames!bytes2int
    <3> QED
      BY <2>1, <3>1 DEF FrameInv, Frames!TypeOK
  <2>3. Shape'
    BY <2>1 DEF FrameInv, Shape
  <2>4. SoleMessages'
    BY <2>1 DEF FrameInv, SoleMessages, Sole, Carried, TailAhead, IsTail
  <2>5. ChannelStep
    BY <2>1 DEF ChannelStep
  <2> QED
    BY <2>2, <2>3, <2>4, <2>5 DEF FrameInv
<1> QED
  BY <1>1, <1>2 DEF MCNext

LEMMA MessageParts ==
  ASSUME NEW r \in Seq(Bodies), NEW u \in Seq(Bodies)
  PROVE  /\ r \o u \in Seq(Bodies) /\ Len(r \o u) = Len(r) + Len(u)
         /\ \A i \in 1..Len(r) : (r \o u)[i] = r[i]
OBVIOUS

LEMMA AllButLast ==
  ASSUME NEW r \in Seq(Bodies), NEW u \in Seq(Bodies), Len(u) = 1
  PROVE  r \o u # <<>> /\ Frames!Front(r \o u) = r
<1> DEFINE s == r \o u
<1>0. s \in Seq(Bodies) /\ Len(s) = Len(r) + Len(u) /\ \A i \in 1..Len(r) : s[i] = r[i]
  BY MessageParts
<1> HIDE DEF s
<1>1. /\ s \in Seq(Bodies) /\ Len(s) = Len(r) + 1 /\ Len(r) \in Nat
      /\ \A i \in 1..Len(r) : s[i] = r[i]
  BY <1>0
<1> DEFINE f == SubSeq(s, 1, Len(s) - 1)
<1>2. f \in Seq(Bodies) /\ Len(f) = Len(r) /\ \A i \in 1..Len(r) : f[i] = r[i]
  BY <1>1
<1> HIDE DEF f
<1>3. f = r
  BY <1>2
<1>4. s # <<>>
  BY <1>1
<1> QED
  BY <1>3, <1>4 DEF f, s, Frames!Front

(* Frames keep their shape, and a close loses no message but the one it    *)
(* catches the client at the end of (main.go, Client.go).                  *)
THEOREM FramesSafe == MCSpec => []FramesInv
<1>1. ASSUME FrameInv PROVE FramesInv
  <2>1. ASSUME at = "closed", ~lost, ~overlap
        PROVE  received = sent \/ (reader = "client" /\ sent # <<>> /\ received = Frames!Front(sent))
    <3>1. PICK unread \in Seq(Bodies), rest \in Seq(Frames!Byte), t \in Seq(Frames!Byte) :
            Carried(unread, rest, t)
      BY <1>1, <2>1 DEF FrameInv, SoleMessages
    <3>2. received \in Seq(Bodies) /\ sent \in Seq(Bodies) /\ sent = received \o unread
          /\ (unread = <<>> \/ (reader = "client" /\ Len(unread) = 1))
      BY <1>1, <2>1, <3>1 DEF FrameInv, Frames!TypeOK, Carried
    <3>3. CASE unread = <<>>
      BY <3>2, <3>3
    <3>4. CASE reader = "client" /\ Len(unread) = 1
      <4>1. received \o unread # <<>> /\ Frames!Front(received \o unread) = received
        BY <3>1, <3>2, <3>4, AllButLast
      <4> QED
        BY <3>2, <3>4, <4>1
    <3> QED
      BY <3>2, <3>3, <3>4
  <2> QED
    BY <1>1, <2>1 DEF FramesInv, Frames!Inv, Frames!CloseLosesAtMostOne, FrameInv
<1>2. FrameInv /\ [MCNext]_<<vars, frameVars, part>> => FrameInv'
  BY FrameSteps
<1> QED
  BY FrameInit, <1>1, <1>2, PTL DEF MCSpec

(* A reader and its senders implement a message channel, step by step, for *)
(* every base, set of messages and number of senders.                      *)
THEOREM FramesAreChannel == MCSpec => WholeAndInOrder
<1>1. MCInit => Frames!Channel!Init
  BY DEF MCInit, Frames!Init, Frames!Channel!Init
<1>2. FrameInv /\ [MCNext]_<<vars, frameVars, part>> => FrameInv'
  BY FrameSteps
<1>3. FrameInv /\ [MCNext]_<<vars, frameVars, part>> => ChannelStep
  BY FrameSteps
<1> QED
  BY FrameInit, <1>1, <1>2, <1>3, PTL
     DEF MCSpec, WholeAndInOrder, Frames!WholeAndInOrder, Frames!Channel!Spec, ChannelStep

=============================================================================
