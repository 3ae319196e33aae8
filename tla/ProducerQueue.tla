--------------------------- MODULE ProducerQueue ---------------------------
(***************************************************************************)
(* What one producer's sub-queue promises                                  *)
(* (thirdparty/concurrentqueue/concurrentqueue.h): its items leave in the  *)
(* order they came, each of them to one consumer.  An item is known by its *)
(* number, from 0 on.  ImplicitProducer and ExplicitProducer implement it. *)
(***************************************************************************)
EXTENDS Integers, Sequences

CONSTANTS
  Consumer,
  MaxBulk   \* a positive number: the most items of one call

VARIABLES
  sent,    \* how many items were ever enqueued
  queue,   \* items no consumer has claimed
  claimed  \* per consumer: the items of the dequeue under way

vars == <<sent, queue, claimed>>

Numbers(a, k) == [i \in 1..k |-> a + i - 1]

Init ==
  /\ sent = 0
  /\ queue = <<>>
  /\ claimed = [c \in Consumer |-> <<>>]

(* enqueue and enqueue_bulk: all the items appear at once. *)
Enqueue(k) ==
  /\ sent' = sent + k
  /\ queue' = queue \o Numbers(sent, k)
  /\ UNCHANGED claimed

(* dequeue and dequeue_bulk get hold of the k oldest items ... *)
Claim(c, k) ==
  /\ claimed[c] = <<>> /\ k <= Len(queue)
  /\ claimed' = [claimed EXCEPT ![c] = SubSeq(queue, 1, k)]
  /\ queue' = SubSeq(queue, k + 1, Len(queue))
  /\ UNCHANGED sent

(* ... and hand them to their caller. *)
Deliver(c) ==
  /\ claimed[c] # <<>>
  /\ claimed' = [claimed EXCEPT ![c] = <<>>]
  /\ UNCHANGED <<sent, queue>>

Next ==
  \/ \E k \in 1..MaxBulk : Enqueue(k)
  \/ \E c \in Consumer, k \in 1..MaxBulk : Claim(c, k)
  \/ \E c \in Consumer : Deliver(c)

Spec == Init /\ [][Next]_vars
=============================================================================
