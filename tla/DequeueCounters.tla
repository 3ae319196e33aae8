-------------------------- MODULE DequeueCounters --------------------------
(***************************************************************************)
(* How the consumers of one sub-queue agree, without a lock, on who takes  *)
(* which items (thirdparty/concurrentqueue/concurrentqueue.h, dequeue and  *)
(* dequeue_bulk of both producers up to the fetch_add of headIndex).  A    *)
(* consumer first counts itself in dequeueOptimisticCount, then looks at   *)
(* the tail again, and takes back through dequeueOvercommit what it        *)
(* counted in excess; what is left it claims from headIndex.               *)
(* A step is one atomic access.  index_t has 64 bits and does not wrap, so *)
(* the circular comparisons are comparisons of integers.                   *)
(***************************************************************************)
EXTENDS Integers, FiniteSets

CONSTANTS
  Consumer,
  DequeueSize, \* items a call asks for: 1, or the max of dequeue_bulk
  MaxCount     \* bound: dequeueOptimisticCount when a call begins

ASSUME ConsumerAssumption == IsFiniteSet(Consumer)
ASSUME DequeueAssumption == DequeueSize \subseteq (Nat \ {0}) /\ MaxCount \in Nat

VARIABLES
  tailIndex, headIndex, dequeueOptimisticCount, dequeueOvercommit,
  claim       \* per consumer: how far its call is, and its locals

counters == <<tailIndex, headIndex, dequeueOptimisticCount, dequeueOvercommit, claim>>

Unclaimed == [pc |-> "idle", want |-> 0, tail |-> 0, over |-> 0, count |-> 0,
              next |-> 0, last |-> 0]

CountersInit ==
  /\ tailIndex = 0 /\ headIndex = 0
  /\ dequeueOptimisticCount = 0 /\ dequeueOvercommit = 0
  /\ claim = [c \in Consumer |-> Unclaimed]

ClaimStep(c, from, to) ==
  claim[c].pc = from /\ claim' = [claim EXCEPT ![c] = to]

LoadTail(c, k) ==
  /\ dequeueOptimisticCount < MaxCount
  /\ ClaimStep(c, "idle", [Unclaimed EXCEPT !.pc = "over", !.want = k, !.tail = tailIndex])
  /\ UNCHANGED <<tailIndex, headIndex, dequeueOptimisticCount, dequeueOvercommit>>

LoadOvercommit(c) ==
  /\ ClaimStep(c, "over", [claim[c] EXCEPT !.pc = "optimistic", !.over = dequeueOvercommit])
  /\ UNCHANGED <<tailIndex, headIndex, dequeueOptimisticCount, dequeueOvercommit>>

(* desiredCount; a call that sees nothing to take returns. *)
LoadOptimistic(c) ==
  LET desired == claim[c].tail - (dequeueOptimisticCount - claim[c].over)
  IN /\ ClaimStep(c, "optimistic",
          IF desired > 0
          THEN [claim[c] EXCEPT !.pc = "count", !.tail = 0,
                                !.want = IF desired < @ THEN desired ELSE @]
          ELSE Unclaimed)
     /\ UNCHANGED <<tailIndex, headIndex, dequeueOptimisticCount, dequeueOvercommit>>

AddOptimistic(c) ==
  /\ ClaimStep(c, "count", [claim[c] EXCEPT !.pc = "check", !.count = dequeueOptimisticCount])
  /\ dequeueOptimisticCount' = dequeueOptimisticCount + claim[c].want
  /\ UNCHANGED <<tailIndex, headIndex, dequeueOvercommit>>

(* Mutant of Actual: the first look at the tail is taken to be enough. *)
Actual_unchecked(c) == claim[c].want

(* actualCount: what the counters leave of the desired items. *)
Actual(c) ==
  LET a == tailIndex - (claim[c].count - claim[c].over)
  IN IF a <= 0 THEN 0 ELSE IF claim[c].want < a THEN claim[c].want ELSE a

(* The tail is read again; who gets less than it counted corrects the      *)
(* count first (next keeps actualCount until the claim).                   *)
CheckTail(c) ==
  /\ ClaimStep(c, "check",
       [claim[c] EXCEPT !.pc = IF Actual(c) < claim[c].want THEN "correct" ELSE "claim",
                        !.over = 0, !.count = 0, !.next = Actual(c)])
  /\ UNCHANGED <<tailIndex, headIndex, dequeueOptimisticCount, dequeueOvercommit>>

(* Who gets nothing returns. *)
AddOvercommit(c) ==
  /\ ClaimStep(c, "correct",
       IF claim[c].next = 0 THEN Unclaimed ELSE [claim[c] EXCEPT !.pc = "claim"])
  /\ dequeueOvercommit' = dequeueOvercommit + claim[c].want - claim[c].next
  /\ UNCHANGED <<tailIndex, headIndex, dequeueOptimisticCount>>

(* The items next..last-1 are this consumer's. *)
AddHead(c) ==
  /\ ClaimStep(c, "claim",
       [claim[c] EXCEPT !.pc = "claimed", !.want = 0, !.next = headIndex,
                        !.last = headIndex + claim[c].next])
  /\ headIndex' = headIndex + claim[c].next
  /\ UNCHANGED <<tailIndex, dequeueOptimisticCount, dequeueOvercommit>>

ClaimItems(c) ==
  \/ \E k \in DequeueSize : LoadTail(c, k)
  \/ LoadOvercommit(c) \/ LoadOptimistic(c) \/ AddOptimistic(c)
  \/ CheckTail(c) \/ AddOvercommit(c) \/ AddHead(c)

(* Of the claimed items those before i have been taken. *)
TakenUpTo(c, i) ==
  claim' = [claim EXCEPT ![c].next = i]

Return(c) ==
  claim' = [claim EXCEPT ![c] = Unclaimed]
=============================================================================
