----------------------------- MODULE ChangeList -----------------------------
(***************************************************************************)
(* The linked list in which voice changes go from the calls on sources to  *)
(* the mixer without a lock between them.  One chain holds it all: from    *)
(* mVoiceChangeTail the elements free for use, then mCurrentVoiceChange,   *)
(* the one last processed, and after it those that are pending.            *)
(*                                                                         *)
(* The calls exclude each other by mSourceLock.  The mixer reads links and *)
(* writes only mCurrentVoiceChange, once per mix, so that what it is       *)
(* working through is not free before it is done.                          *)
(***************************************************************************)
EXTENDS Naturals, Sequences, FiniteSets

CONSTANTS
  Change,        \* what a change says
  Cluster,       \* elements allocVoiceChanges adds, 2 at least (128 in the code)
  Clusters,      \* bound on the times it may add them
  LongestSend    \* bound on the changes one call sends

VARIABLES
  mNext,      \* the links
  says,       \* the rest of each element
  allocated,  \* the number of elements there are
  tail,       \* mVoiceChangeTail
  current,    \* mCurrentVoiceChange
  held,       \* the elements a call has taken and linked but not sent
  cur         \* the mixer's place in the list, or Null between mixes

vars == <<mNext, says, allocated, tail, current, held, cur>>

Element == 1..(Cluster * Clusters)
Null == 0

(* The elements from n on, along the links.                                *)
After(n) ==
  LET walk[k \in 0..allocated] ==
        IF k = 0 THEN <<n>>
        ELSE LET w == walk[k - 1]
                 then == mNext[w[Len(w)]]
             IN IF then = Null THEN w ELSE Append(w, then)
  IN walk[allocated]

Range(s) == {s[i] : i \in DOMAIN s}

(* A new cluster is linked from its first element to its last, and that to *)
(* what the free elements were.                                            *)
allocVoiceChanges ==
  LET first == allocated + 1
      last == allocated + Cluster
  IN /\ last \in Element
     /\ allocated' = last
     /\ mNext' = [n \in Element |-> IF n \in first..(last - 1) THEN n + 1
                                    ELSE IF n = last THEN tail ELSE mNext[n]]
     /\ tail' = first

(* ALCcontext::init: one cluster, the last element of which is current.    *)
Init ==
  /\ allocated = Cluster
  /\ mNext = [n \in Element |-> IF n < Cluster THEN n + 1 ELSE Null]
  /\ says = [n \in Element |-> CHOOSE c \in Change : TRUE]
  /\ tail = 1
  /\ current = Cluster
  /\ held = <<>>
  /\ cur = Null

-----------------------------------------------------------------------------
(* The calls on sources.                                                   *)

(* A mutant: the free elements are taken to end where the list ends.       *)
GetWhatFollows ==
  /\ mNext[tail] # Null
  /\ Len(held) < LongestSend
  /\ tail' = mNext[tail]
  /\ mNext' = [n \in Element |->
                 IF n = tail THEN Null
                 ELSE IF held # <<>> /\ n = held[Len(held)] THEN tail
                 ELSE mNext[n]]
  /\ \E c \in Change : says' = [says EXCEPT ![tail] = c]
  /\ held' = Append(held, tail)
  /\ UNCHANGED <<allocated, current, cur>>

(* GetVoiceChanger, its use, and the link from the element before.         *)
GetVoiceChanger ==
  /\ tail # current
  /\ Len(held) < LongestSend
  /\ tail' = mNext[tail]
  /\ mNext' = [n \in Element |->
                 IF n = tail THEN Null
                 ELSE IF held # <<>> /\ n = held[Len(held)] THEN tail
                 ELSE mNext[n]]
  /\ \E c \in Change : says' = [says EXCEPT ![tail] = c]
  /\ held' = Append(held, tail)
  /\ UNCHANGED <<allocated, current, cur>>

(* The same call when it finds no element free.                            *)
Allocate ==
  /\ tail = current
  /\ Len(held) < LongestSend
  /\ allocVoiceChanges
  /\ UNCHANGED <<says, current, held, cur>>

(* SendVoiceChanges walks from the current element to the end.             *)
(* A mutant: the changes are linked to the element last processed.         *)
SendAfterCurrent ==
  /\ held # <<>>
  /\ mNext' = [mNext EXCEPT ![current] = held[1]]
  /\ held' = <<>>
  /\ UNCHANGED <<says, allocated, tail, current, cur>>

SendVoiceChanges ==
  /\ held # <<>>
  /\ LET path == After(current)
     IN mNext' = [mNext EXCEPT ![path[Len(path)]] = held[1]]
  /\ held' = <<>>
  /\ UNCHANGED <<says, allocated, tail, current, cur>>

(* On a device that is gone with its voices, with no mix under way, what   *)
(* is pending is passed over: here and in ResetDeviceParams.               *)
SkipPending ==
  /\ cur = Null
  /\ held = <<>>
  /\ LET path == After(current) IN current' = path[Len(path)]
  /\ UNCHANGED <<mNext, says, allocated, tail, held, cur>>

-----------------------------------------------------------------------------
(* ProcessVoiceChanges, an element at a time.                              *)

ProcessFirst ==
  /\ cur = Null
  /\ mNext[current] # Null
  /\ cur' = mNext[current]
  /\ UNCHANGED <<mNext, says, allocated, tail, current, held>>

ProcessNext ==
  /\ cur # Null
  /\ mNext[cur] # Null
  /\ cur' = mNext[cur]
  /\ UNCHANGED <<mNext, says, allocated, tail, current, held>>

ProcessedAll ==
  /\ cur # Null
  /\ mNext[cur] = Null
  /\ current' = cur
  /\ cur' = Null
  /\ UNCHANGED <<mNext, says, allocated, tail, held>>

ProcessVoiceChanges == ProcessFirst \/ ProcessNext \/ ProcessedAll

Next ==
  \/ GetVoiceChanger \/ Allocate \/ SendVoiceChanges \/ SkipPending
  \/ ProcessVoiceChanges

Spec == Init /\ [][Next]_vars

-----------------------------------------------------------------------------
(* What holds.                                                             *)

Processed == IF cur = Null THEN current ELSE cur
Pending == LET path == After(Processed) IN SubSeq(path, 2, Len(path))

(* The chain from the tail runs through the current element and through    *)
(* the mixer's, and with what a call holds it is every element there is,   *)
(* each once: none is lost, and none is free that the mixer has to read.   *)
OneChain ==
  LET chain == After(tail)
  IN /\ {tail, current, Processed} \subseteq Range(chain)
     /\ Processed \in Range(After(current))
     /\ Range(chain) \cap Range(held) = {}
     /\ Range(chain) \cup Range(held) = 1..allocated
     /\ Cardinality(1..allocated) = Len(chain) + Len(held)

Inv == OneChain

(* The list is a queue of the changes.                                     *)
Sent == LET pending == Pending IN [i \in DOMAIN pending |-> says[pending[i]]]
Queue == INSTANCE ChangeQueue WITH queue <- Sent
IsQueue == Queue!Spec

=============================================================================
