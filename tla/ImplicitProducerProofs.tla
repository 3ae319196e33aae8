----------------------- MODULE ImplicitProducerProofs -----------------------
(***************************************************************************)
(* Theorems about an implicit producer, in three parts.                    *)
(*                                                                         *)
(* The counters by which consumers claim items without a lock: headIndex   *)
(* never passes tailIndex, although a consumer looks at each counter at    *)
(* another time, and an item is claimed by one consumer.                   *)
(*                                                                         *)
(* The blocks and the index that leads to them: a consumer finds the block *)
(* of its item, however the index grows and blocks are reused, and blocks  *)
(* are not lost.  The p-th block has the items p * BLOCK_SIZE ..           *)
(* (p + 1) * BLOCK_SIZE - 1.  An index of Cap places holds the keys of the *)
(* last Cap blocks only, so the invariant says which keys it still has     *)
(* (Window), that the blocks with unread items are among them, and that a  *)
(* consumer under way, in whatever index it began, is on its way to such   *)
(* blocks (Ways).                                                          *)
(*                                                                         *)
(* The whole is a FIFO whose items go to one consumer each: it implements  *)
(* ProducerQueue.                                                          *)
(***************************************************************************)
EXTENDS ImplicitProducer, TotalsProofs, SequenceTheorems

(***************************************************************************)
(* What the producer's steps do to the counters                            *)
(***************************************************************************)

OtherCounters == <<tailIndex, headIndex, dequeueOptimisticCount, dequeueOvercommit>>

(* A consumer takes the claimed items before the i-th, or returns. *)
Uses(c) ==
  /\ claim[c].pc = "claimed"
  /\ \/ \E i \in Int : claim[c].next <= i /\ i <= claim[c].last /\ TakenUpTo(c, i)
     \/ Return(c)
  /\ UNCHANGED OtherCounters

TailGrows ==
  /\ tailIndex' \in Nat /\ tailIndex <= tailIndex'
  /\ UNCHANGED <<headIndex, dequeueOptimisticCount, dequeueOvercommit, claim>>

CountersStep == (\E c \in Consumer : ClaimItems(c) \/ Uses(c)) \/ TailGrows \/ UNCHANGED counters

(***************************************************************************)
(* The inductive invariant of the counters                                 *)
(***************************************************************************)

Locals == [
  pc : {"idle", "over", "optimistic", "count", "check", "correct", "claim", "claimed"},
  want : Nat, tail : Nat, over : Nat, count : Nat, next : Int, last : Int]

CountersTypeOK ==
  /\ tailIndex \in Nat /\ headIndex \in Nat
  /\ dequeueOptimisticCount \in Nat /\ dequeueOvercommit \in Nat
  /\ claim \in [Consumer -> Locals]

(* Consumer c has counted itself in and not compared itself with the tail.  *)
Counted(c) == claim[c].pc = "check"

(* What is still counted in, and not in headIndex, for d. *)
Pending == [d \in Consumer |->
  IF claim[d].pc \in {"check", "correct"} THEN claim[d].want
  ELSE IF claim[d].pc = "claim" THEN claim[d].next ELSE 0]

(* What d was told it may have. *)
Granted == [d \in Consumer |-> IF claim[d].pc \in {"correct", "claim"} THEN claim[d].next ELSE 0]

(* The same, and what those want that counted themselves in before c, or   *)
(* up to c.                                                                *)
Before(c) == [d \in Consumer |->
  IF Counted(d) /\ claim[d].count < claim[c].count THEN claim[d].want ELSE Granted[d]]
UpTo(c) == [d \in Consumer |->
  IF Counted(d) /\ claim[d].count <= claim[c].count THEN claim[d].want ELSE Granted[d]]

(* The locals of a call agree with each other and with the counters. *)
Agree(r) ==
  /\ r.pc \in {"over", "optimistic", "count", "check", "correct"} => r.want > 0
  /\ r.pc \in {"optimistic", "count", "check"} => r.over <= dequeueOvercommit
  /\ r.pc = "check" => r.count + r.want <= dequeueOptimisticCount
  /\ r.pc = "correct" => 0 <= r.next /\ r.next < r.want
  /\ r.pc = "claim" => r.next > 0
  /\ r.pc # "claimed" => r.last = 0

LocalsAgree == \A c \in Consumer : Agree(claim[c])

(* Nobody counts itself in at the place of another. *)
Apart(r, q) ==
  r.pc = "check" /\ q.pc = "check" =>
    r.count + r.want <= q.count \/ q.count + q.want <= r.count

PlacesDisjoint ==
  \A c, d \in Consumer : c # d => Apart(claim[c], claim[d])

(* What was counted in and not taken back is claimed or will be claimed.   *)
NothingLost ==
  dequeueOptimisticCount - dequeueOvercommit = headIndex + Total(Pending)

(* A consumer that has counted itself in has room for all before it, or    *)
(* one behind it was granted something: then there is room up to it.       *)
RoomBefore ==
  \A c \in Consumer : Counted(c) =>
    \/ headIndex + Total(Before(c)) <= claim[c].count - claim[c].over
    \/ headIndex + Total(UpTo(c)) <= tailIndex

(* What is granted is there. *)
GrantedIsThere == headIndex + Total(Granted) <= tailIndex

(* Claimed ranges lie below headIndex and do not overlap. *)
Claims(c) == claim[c].next..(claim[c].last - 1)
ClaimsBelowHead ==
  \A c \in Consumer : claim[c].pc = "claimed" =>
    0 <= claim[c].next /\ claim[c].next <= claim[c].last /\ claim[c].last <= headIndex
ClaimsDisjoint ==
  \A c, d \in Consumer : c # d /\ claim[c].pc = "claimed" /\ claim[d].pc = "claimed" =>
    Claims(c) \cap Claims(d) = {}

CountersInv ==
  /\ CountersTypeOK
  /\ LocalsAgree
  /\ PlacesDisjoint
  /\ NothingLost
  /\ RoomBefore
  /\ GrantedIsThere
  /\ ClaimsBelowHead
  /\ ClaimsDisjoint

LEMMA SumTypes ==
  ASSUME CountersTypeOK, LocalsAgree
  PROVE  /\ Pending \in [Consumer -> Nat] /\ Granted \in [Consumer -> Nat]
         /\ \A c \in Consumer : Before(c) \in [Consumer -> Nat] /\ UpTo(c) \in [Consumer -> Nat]
  BY DEF CountersTypeOK, Locals, LocalsAgree, Agree, Pending, Granted, Before, UpTo, Counted

LEMMA SumTypesNext ==
  ASSUME CountersTypeOK', LocalsAgree'
  PROVE  /\ Pending' \in [Consumer -> Nat] /\ Granted' \in [Consumer -> Nat]
         /\ \A c \in Consumer :
              Before(c)' \in [Consumer -> Nat] /\ UpTo(c)' \in [Consumer -> Nat]
  BY DEF CountersTypeOK, Locals, LocalsAgree, Agree, Pending, Granted, Before, UpTo, Counted

(***************************************************************************)
(* The locals: types, places and claims                                    *)
(***************************************************************************)

LEMMA InitCounters == CountersInit => CountersInv
  <1> SUFFICES ASSUME CountersInit PROVE CountersInv
    OBVIOUS
  <1>1. CountersTypeOK /\ LocalsAgree /\ PlacesDisjoint /\ ClaimsBelowHead /\ ClaimsDisjoint
    BY DEF CountersInit, Unclaimed, CountersTypeOK, Locals, LocalsAgree, Agree,
           PlacesDisjoint, Apart, ClaimsBelowHead, ClaimsDisjoint
  <1>2. Total(Pending) = 0 /\ Total(Granted) = 0
    <2>1. \A d \in Consumer : Pending[d] = 0 /\ Granted[d] = 0
      BY DEF CountersInit, Unclaimed, Pending, Granted
    <2> QED
      BY <1>1, <2>1, SumTypes, TotalZero
  <1>3. NothingLost /\ GrantedIsThere /\ RoomBefore
    BY <1>2 DEF CountersInit, NothingLost, GrantedIsThere, RoomBefore, Counted, Unclaimed
  <1> QED
    BY <1>1, <1>3 DEF CountersInv

LEMMA ActualBounds ==
  ASSUME CountersTypeOK, NEW c \in Consumer
  PROVE  /\ Actual(c) \in Nat /\ Actual(c) <= claim[c].want
         /\ Actual(c) > 0 => claim[c].count - claim[c].over + Actual(c) <= tailIndex
  BY DEF Actual, CountersTypeOK, Locals

(* One call goes on to locals r, and the counters of the calls only grow.  *)
Moves(c, r) ==
  /\ claim' = [claim EXCEPT ![c] = r]
  /\ tailIndex' \in Nat /\ headIndex' \in Nat
  /\ dequeueOptimisticCount' \in Nat /\ dequeueOptimisticCount <= dequeueOptimisticCount'
  /\ dequeueOvercommit' \in Nat /\ dequeueOvercommit <= dequeueOvercommit'

LEMMA MoveKeepsLocals ==
  ASSUME CountersInv, NEW c \in Consumer, NEW r \in Locals, Moves(c, r), Agree(r)',
         \A d \in Consumer : d # c => Apart(r, claim[d])
  PROVE  CountersTypeOK' /\ LocalsAgree' /\ PlacesDisjoint'
  <1>1. claim' \in [Consumer -> Locals] /\ claim'[c] = r
        /\ \A d \in Consumer : d # c => claim'[d] = claim[d]
    BY DEF CountersInv, CountersTypeOK, Moves
  <1>2. CountersTypeOK'
    BY <1>1 DEF CountersTypeOK, Moves
  <1>3. LocalsAgree'
    <2> SUFFICES ASSUME NEW d \in Consumer PROVE Agree(claim[d])'
      BY DEF LocalsAgree
    <2>1. CASE d = c
      BY <2>1, <1>1 DEF Agree
    <2>2. CASE d # c
      BY <2>2, <1>1 DEF CountersInv, CountersTypeOK, Locals, LocalsAgree, Agree, Moves
    <2> QED
      BY <2>1, <2>2
  <1>4. PlacesDisjoint'
    <2> SUFFICES ASSUME NEW a \in Consumer, NEW d \in Consumer, a # d
                 PROVE  Apart(claim'[a], claim'[d])
      BY DEF PlacesDisjoint, Apart
    <2>1. CASE a = c
      BY <2>1, <1>1
    <2>2. CASE d = c
      <3>1. Apart(r, claim[a])
        BY <2>2
      <3> QED
        BY <2>2, <3>1, <1>1 DEF Apart
    <2>3. CASE a # c /\ d # c
      BY <2>3, <1>1 DEF CountersInv, PlacesDisjoint
    <2> QED
      BY <2>1, <2>2, <2>3
  <1> QED
    BY <1>2, <1>3, <1>4

LEMMA LocalsKept ==
  ASSUME CountersInv, CountersStep
  PROVE  CountersTypeOK' /\ LocalsAgree' /\ PlacesDisjoint'
  <1> DEFINE Ok == CountersTypeOK' /\ LocalsAgree' /\ PlacesDisjoint'
  <1>0. CountersTypeOK /\ LocalsAgree /\ \A c \in Consumer : claim[c] \in Locals /\ Agree(claim[c])
    BY DEF CountersInv, CountersTypeOK, LocalsAgree
  <1>1. ASSUME NEW c \in Consumer, NEW k \in DequeueSize, LoadTail(c, k) PROVE Ok
    <2>1. PICK r : r = [Unclaimed EXCEPT !.pc = "over", !.want = k, !.tail = tailIndex]
      OBVIOUS
    <2>2. r \in Locals
      <3>1. k \in Nat /\ tailIndex \in Nat
        BY <1>0, DequeueAssumption DEF CountersTypeOK
      <3>2. r = [pc |-> "over", want |-> k, tail |-> tailIndex, over |-> 0, count |-> 0,
                 next |-> 0, last |-> 0]
        BY <2>1 DEF Unclaimed
      <3> QED
        BY <3>1, <3>2 DEF Locals
    <2>3. Agree(r)'
      BY <2>1, DequeueAssumption DEF Agree, Unclaimed
    <2>4. Moves(c, r)
      BY <1>0, <1>1, <2>1 DEF LoadTail, ClaimStep, Moves, CountersTypeOK, Locals
    <2>5. r.pc # "check"
      BY <1>0, <2>1 DEF Locals, Unclaimed
    <2>6. \A q : Apart(r, q)
      BY <2>5 DEF Apart
    <2> QED
      BY <2>2, <2>3, <2>4, <2>6, MoveKeepsLocals
  <1>2. ASSUME NEW c \in Consumer, LoadOvercommit(c) PROVE Ok
    <2>1. PICK r : r = [claim[c] EXCEPT !.pc = "optimistic", !.over = dequeueOvercommit]
      OBVIOUS
    <2>2. r \in Locals
      BY <1>0, <2>1 DEF Locals, CountersTypeOK
    <2>3. Agree(r)'
      BY <1>0, <1>2, <2>1 DEF LoadOvercommit, ClaimStep, Agree, Locals, CountersTypeOK
    <2>4. Moves(c, r)
      BY <1>0, <1>2, <2>1 DEF LoadOvercommit, ClaimStep, Moves, CountersTypeOK, Locals
    <2>5. r.pc # "check"
      BY <1>0, <2>1 DEF Locals, Unclaimed
    <2>6. \A q : Apart(r, q)
      BY <2>5 DEF Apart
    <2> QED
      BY <2>2, <2>3, <2>4, <2>6, MoveKeepsLocals
  <1>3. ASSUME NEW c \in Consumer, LoadOptimistic(c) PROVE Ok
    <2> DEFINE desired == claim[c].tail - (dequeueOptimisticCount - claim[c].over)
    <2>0. desired \in Int
      BY <1>0 DEF Locals, CountersTypeOK
    <2>1. PICK r : r = IF desired > 0
                    THEN [claim[c] EXCEPT !.pc = "count", !.tail = 0,
                                          !.want = IF desired < @ THEN desired ELSE @]
                    ELSE Unclaimed
      OBVIOUS
    <2>2. r \in Locals /\ Agree(r)'
      <3>1. /\ claim[c] \in Locals /\ claim[c].pc = "optimistic" /\ claim[c].over <= dequeueOvercommit
            /\ claim[c].want > 0 /\ dequeueOvercommit' = dequeueOvercommit /\ claim[c].last = 0
        BY <1>0, <1>3 DEF LoadOptimistic, ClaimStep, Agree
      <3>2. CASE desired > 0
        <4> HIDE DEF desired
        <4>1. PICK w \in Nat : w > 0 /\ w = IF desired < claim[c].want THEN desired ELSE claim[c].want
          BY <2>0, <3>1, <3>2 DEF Locals
        <4>2. r = [claim[c] EXCEPT !.pc = "count", !.tail = 0, !.want = w]
          BY <2>1, <3>2, <4>1
        <4> QED
          BY <3>1, <4>1, <4>2 DEF Locals, Agree
      <3>3. CASE ~(desired > 0)
        BY <2>1, <3>3 DEF Locals, Unclaimed, Agree
      <3> QED
        BY <3>2, <3>3
    <2>4. Moves(c, r)
      BY <1>0, <1>3, <2>1 DEF LoadOptimistic, ClaimStep, Moves, CountersTypeOK
    <2>5. r.pc # "check"
      BY <1>0, <2>1 DEF Locals, Unclaimed
    <2>6. \A q : Apart(r, q)
      BY <2>5 DEF Apart
    <2> QED
      BY <2>2, <2>4, <2>6, MoveKeepsLocals
  <1>4. ASSUME NEW c \in Consumer, AddOptimistic(c) PROVE Ok
    <2>1. PICK r : r = [claim[c] EXCEPT !.pc = "check", !.count = dequeueOptimisticCount]
      OBVIOUS
    <2>2. r \in Locals
      BY <1>0, <2>1 DEF Locals, CountersTypeOK
    <2>3. Agree(r)'
      BY <1>0, <1>4, <2>1 DEF AddOptimistic, ClaimStep, Agree, Locals, CountersTypeOK
    <2>4. Moves(c, r)
      BY <1>0, <1>4, <2>1 DEF AddOptimistic, ClaimStep, Moves, CountersTypeOK, Locals
    <2>5. ASSUME NEW d \in Consumer, d # c PROVE Apart(r, claim[d])
      <3>1. claim[d] \in Locals /\ Agree(claim[d])
        BY <1>0
      <3>2. claim[d].pc = "check" => claim[d].count + claim[d].want <= r.count
        BY <1>0, <2>1, <3>1 DEF Agree, Locals
      <3> QED
        BY <3>2 DEF Apart
    <2> QED
      BY <2>2, <2>3, <2>4, <2>5, MoveKeepsLocals
  <1>5. ASSUME NEW c \in Consumer, CheckTail(c) PROVE Ok
    <2>0. Actual(c) \in Nat /\ Actual(c) <= claim[c].want /\ claim[c].pc = "check"
      BY <1>0, <1>5, ActualBounds DEF CheckTail, ClaimStep
    <2>1. PICK r : r = [claim[c] EXCEPT
                      !.pc = IF Actual(c) < claim[c].want THEN "correct" ELSE "claim",
                      !.over = 0, !.count = 0, !.next = Actual(c)]
      OBVIOUS
    <2>2. r \in Locals
      <3>1. PICK p \in {"correct", "claim"}, n \in Nat :
              n = Actual(c) /\ p = IF Actual(c) < claim[c].want THEN "correct" ELSE "claim"
        BY <2>0
      <3>2. r = [claim[c] EXCEPT !.pc = p, !.over = 0, !.count = 0, !.next = n]
        BY <2>1, <3>1
      <3>3. r = [pc |-> p, want |-> claim[c].want, tail |-> claim[c].tail, over |-> 0,
                 count |-> 0, next |-> n, last |-> claim[c].last]
        BY <1>0, <3>2 DEF Locals
      <3>4. claim[c].want \in Nat /\ claim[c].tail \in Nat /\ claim[c].last \in Int
        BY <1>0 DEF Locals
      <3> QED
        BY <3>3, <3>4 DEF Locals
    <2>3. Agree(r)'
      BY <1>0, <1>5, <2>1, <2>0 DEF CheckTail, ClaimStep, Agree, Locals
    <2>4. Moves(c, r)
      BY <1>0, <1>5, <2>1, <2>0 DEF CheckTail, ClaimStep, Moves, CountersTypeOK, Locals
    <2>5. r.pc # "check"
      BY <1>0, <2>1 DEF Locals, Unclaimed
    <2>6. \A q : Apart(r, q)
      BY <2>5 DEF Apart
    <2> QED
      BY <2>2, <2>3, <2>4, <2>6, MoveKeepsLocals
  <1>6. ASSUME NEW c \in Consumer, AddOvercommit(c) PROVE Ok
    <2>0. claim[c].pc = "correct" /\ 0 <= claim[c].next /\ claim[c].next < claim[c].want
      BY <1>0, <1>6 DEF AddOvercommit, ClaimStep, Agree
    <2>1. PICK r : r = IF claim[c].next = 0 THEN Unclaimed
                     ELSE [claim[c] EXCEPT !.pc = "claim"]
      OBVIOUS
    <2>2. r \in Locals
      BY <1>0, <2>1, <2>0 DEF Locals, Unclaimed
    <2>3. Agree(r)'
      BY <1>0, <1>6, <2>1, <2>0 DEF AddOvercommit, ClaimStep, Agree, Locals, Unclaimed
    <2>4. Moves(c, r)
      BY <1>0, <1>6, <2>1, <2>0 DEF AddOvercommit, ClaimStep, Moves, CountersTypeOK, Locals
    <2>5. r.pc # "check"
      BY <1>0, <2>1 DEF Locals, Unclaimed
    <2>6. \A q : Apart(r, q)
      BY <2>5 DEF Apart
    <2> QED
      BY <2>2, <2>3, <2>4, <2>6, MoveKeepsLocals
  <1>7. ASSUME NEW c \in Consumer, AddHead(c) PROVE Ok
    <2>0. claim[c].pc = "claim" /\ claim[c].next > 0
      BY <1>0, <1>7 DEF AddHead, ClaimStep, Agree
    <2>1. PICK r : r = [claim[c] EXCEPT !.pc = "claimed", !.want = 0, !.next = headIndex,
                                         !.last = headIndex + claim[c].next]
      OBVIOUS
    <2>2. r \in Locals
      <3>1. PICK h \in Int, l \in Int : h = headIndex /\ l = headIndex + claim[c].next
        BY <1>0 DEF Locals, CountersTypeOK
      <3>2. r = [claim[c] EXCEPT !.pc = "claimed", !.want = 0, !.next = h, !.last = l]
        BY <2>1, <3>1
      <3>3. r = [pc |-> "claimed", want |-> 0, tail |-> claim[c].tail, over |-> claim[c].over,
                 count |-> claim[c].count, next |-> h, last |-> l]
        BY <1>0, <3>2 DEF Locals
      <3>4. claim[c].tail \in Nat /\ claim[c].over \in Nat /\ claim[c].count \in Nat
        BY <1>0 DEF Locals
      <3> QED
        BY <3>3, <3>4 DEF Locals
    <2>3. Agree(r)'
      BY <1>0, <1>7, <2>1, <2>0 DEF AddHead, ClaimStep, Agree, Locals
    <2>4. Moves(c, r)
      BY <1>0, <1>7, <2>1, <2>0 DEF AddHead, ClaimStep, Moves, CountersTypeOK, Locals
    <2>5. r.pc # "check"
      BY <1>0, <2>1 DEF Locals, Unclaimed
    <2>6. \A q : Apart(r, q)
      BY <2>5 DEF Apart
    <2> QED
      BY <2>2, <2>3, <2>4, <2>6, MoveKeepsLocals
  <1>8. ASSUME NEW c \in Consumer, Uses(c) PROVE Ok
    <2>1. ASSUME NEW i \in Int, TakenUpTo(c, i) PROVE Ok
      <3>1. PICK r : r = [claim[c] EXCEPT !.next = i]
        OBVIOUS
      <3>2. r \in Locals /\ r.pc = "claimed"
        BY <1>0, <1>8, <3>1 DEF Locals, Uses
      <3>3. Agree(r)' /\ \A q : Apart(r, q)
        BY <3>2 DEF Agree, Apart
      <3>4. Moves(c, r)
        BY <1>0, <1>8, <2>1, <3>1 DEF Uses, OtherCounters, TakenUpTo, Moves, CountersTypeOK
      <3> QED
        BY <3>2, <3>3, <3>4, MoveKeepsLocals
    <2>2. ASSUME Return(c) PROVE Ok
      <3>1. PICK r : r = Unclaimed
        OBVIOUS
      <3>2. r \in Locals /\ (\A q : Apart(r, q)) /\ Agree(r)'
        BY <3>1 DEF Locals, Apart, Unclaimed, Agree
      <3>3. Moves(c, r)
        BY <1>0, <1>8, <2>2, <3>1 DEF Uses, OtherCounters, Return, Moves, CountersTypeOK
      <3> QED
        BY <3>2, <3>3, MoveKeepsLocals
    <2> QED
      BY <1>8, <2>1, <2>2 DEF Uses
  <1>9. CASE TailGrows \/ UNCHANGED counters
    BY <1>9 DEF TailGrows, counters, CountersInv, CountersTypeOK, LocalsAgree, Agree,
                PlacesDisjoint, Apart
  <1> QED
    BY <1>1, <1>2, <1>3, <1>4, <1>5, <1>6, <1>7, <1>8, <1>9 DEF CountersStep, ClaimItems

(* A claim starts at headIndex, above all others, and only shrinks.        *)
LEMMA ClaimsKept ==
  ASSUME CountersInv, CountersStep
  PROVE  ClaimsBelowHead' /\ ClaimsDisjoint'
  <1> USE DEF CountersInv, CountersTypeOK, Locals, LocalsAgree, Agree, ClaimsBelowHead, ClaimsDisjoint, Claims
  <1>1. ASSUME NEW c \in Consumer, AddHead(c)
        PROVE  ClaimsBelowHead' /\ ClaimsDisjoint'
    BY <1>1 DEF AddHead, ClaimStep
  <1>2. ASSUME NEW c \in Consumer, Uses(c)
        PROVE  ClaimsBelowHead' /\ ClaimsDisjoint'
    BY <1>2 DEF Uses, OtherCounters, TakenUpTo, Return, Unclaimed
  <1>3. ASSUME NEW c \in Consumer, NEW r, claim[c].pc # "claimed", r.pc # "claimed",
               claim' = [claim EXCEPT ![c] = r], headIndex' = headIndex
        PROVE  ClaimsBelowHead' /\ ClaimsDisjoint'
    BY <1>3
  <1>4. ASSUME NEW c \in Consumer, ClaimItems(c), ~AddHead(c)
        PROVE  ClaimsBelowHead' /\ ClaimsDisjoint'
    <2> DEFINE LeavesClaims(r) == /\ claim[c].pc # "claimed" /\ r.pc # "claimed"
                          /\ claim' = [claim EXCEPT ![c] = r] /\ headIndex' = headIndex
    <2>0. claim[c] \in Locals
      OBVIOUS
    <2>1. ASSUME NEW k \in DequeueSize, LoadTail(c, k) PROVE \E r : LeavesClaims(r)
      BY <2>0, <2>1 DEF LoadTail, ClaimStep, Unclaimed
    <2>2. ASSUME LoadOvercommit(c) PROVE \E r : LeavesClaims(r)
      BY <2>0, <2>2 DEF LoadOvercommit, ClaimStep
    <2>3. ASSUME LoadOptimistic(c) PROVE \E r : LeavesClaims(r)
      BY <2>0, <2>3 DEF LoadOptimistic, ClaimStep, Unclaimed
    <2>4. ASSUME AddOptimistic(c) PROVE \E r : LeavesClaims(r)
      BY <2>0, <2>4 DEF AddOptimistic, ClaimStep
    <2>5. ASSUME CheckTail(c) PROVE \E r : LeavesClaims(r)
      BY <2>0, <2>5 DEF CheckTail, ClaimStep
    <2>6. ASSUME AddOvercommit(c) PROVE \E r : LeavesClaims(r)
      BY <2>0, <2>6 DEF AddOvercommit, ClaimStep, Unclaimed
    <2>7. PICK r : LeavesClaims(r)
      BY <1>4, <2>1, <2>2, <2>3, <2>4, <2>5, <2>6 DEF ClaimItems
    <2> QED
      BY <1>3, <2>7
  <1>5. CASE TailGrows \/ UNCHANGED counters
    BY <1>5 DEF TailGrows, counters
  <1> QED
    BY <1>1, <1>2, <1>4, <1>5 DEF CountersStep

(***************************************************************************)
(* The sums                                                                *)
(***************************************************************************)

LEMMA OthersKept ==
  ASSUME CountersTypeOK, NEW e \in Consumer, NEW r, claim' = [claim EXCEPT ![e] = r]
  PROVE  /\ claim'[e] = r
         /\ \A d \in Consumer : d # e =>
              claim'[d] = claim[d] /\ Pending'[d] = Pending[d] /\ Granted'[d] = Granted[d]
  <1>1. claim'[e] = r /\ \A d \in Consumer : d # e => claim'[d] = claim[d]
    BY DEF CountersTypeOK
  <1> QED
    BY <1>1 DEF Pending, Granted

LEMMA OthersBefore ==
  ASSUME CountersTypeOK, NEW e \in Consumer, NEW r, claim' = [claim EXCEPT ![e] = r],
         NEW c \in Consumer, c # e
  PROVE  \A d \in Consumer : d # e => Before(c)'[d] = Before(c)[d] /\ UpTo(c)'[d] = UpTo(c)[d]
  <1>1. /\ claim'[c] = claim[c]
        /\ \A d \in Consumer : d # e => claim'[d] = claim[d] /\ Granted'[d] = Granted[d]
    BY OthersKept
  <1> QED
    BY <1>1 DEF Before, UpTo, Counted

(* A consumer with no comparison ahead of it moves k items from what it was *)
(* granted to headIndex.                                                    *)
LEMMA SettledKept ==
  ASSUME CountersInv, CountersTypeOK', LocalsAgree',
         NEW e \in Consumer, NEW r, claim' = [claim EXCEPT ![e] = r],
         ~Counted(e), r.pc # "check", tailIndex' = tailIndex,
         headIndex' + Granted'[e] = headIndex + Granted[e]
  PROVE  GrantedIsThere' /\ RoomBefore'
  <1>1. /\ CountersTypeOK /\ LocalsAgree /\ GrantedIsThere /\ RoomBefore
        /\ IsFiniteSet(Consumer) /\ claim'[e] = r
    BY ConsumerAssumption, OthersKept DEF CountersInv
  <1>2. /\ headIndex \in Nat /\ headIndex' \in Nat /\ tailIndex \in Nat
        /\ Granted[e] \in Nat /\ Granted'[e] \in Nat
    BY <1>1, SumTypes, SumTypesNext DEF CountersTypeOK
  <1>3. Total(Granted') = Total(Granted) - Granted[e] + Granted'[e]
    <2>1. Granted \in [Consumer -> Nat] /\ Granted' \in [Consumer -> Nat]
      BY <1>1, SumTypes, SumTypesNext
    <2>2. \A d \in Consumer : d # e => Granted'[d] = Granted[d]
      BY <1>1, OthersKept
    <2> QED
      BY <1>1, <2>1, <2>2, TotalChange
  <1>4. Total(Granted) \in Nat /\ Total(Granted') \in Nat
    BY <1>1, SumTypes, SumTypesNext, TotalType
  <1>5. GrantedIsThere'
    BY <1>1, <1>2, <1>3, <1>4 DEF GrantedIsThere
  <1>6. ASSUME NEW c \in Consumer, Counted(c)'
        PROVE  \/ headIndex' + Total(Before(c)') <= claim'[c].count - claim'[c].over
               \/ headIndex' + Total(UpTo(c)') <= tailIndex'
    <2>1. c # e /\ claim'[c] = claim[c] /\ Counted(c)
      BY <1>1, <1>6, OthersKept DEF Counted
    <2>2. /\ Before(c)[e] = Granted[e] /\ Before(c)'[e] = Granted'[e]
          /\ UpTo(c)[e] = Granted[e] /\ UpTo(c)'[e] = Granted'[e]
      BY <1>1 DEF Before, UpTo, Counted
    <2>3. Total(Before(c)') = Total(Before(c)) - Granted[e] + Granted'[e]
      <3>1. Before(c) \in [Consumer -> Nat] /\ Before(c)' \in [Consumer -> Nat]
        BY <1>1, SumTypes, SumTypesNext
      <3>2. \A d \in Consumer : d # e => Before(c)'[d] = Before(c)[d]
        BY <1>1, <2>1, OthersBefore
      <3>3. Total(Before(c)') = Total(Before(c)) - Before(c)[e] + Before(c)'[e]
        BY <1>1, <3>1, <3>2, TotalChange
      <3> QED
        BY <2>2, <3>3
    <2>4. Total(UpTo(c)') = Total(UpTo(c)) - Granted[e] + Granted'[e]
      <3>1. UpTo(c) \in [Consumer -> Nat] /\ UpTo(c)' \in [Consumer -> Nat]
        BY <1>1, SumTypes, SumTypesNext
      <3>2. \A d \in Consumer : d # e => UpTo(c)'[d] = UpTo(c)[d]
        BY <1>1, <2>1, OthersBefore
      <3>3. Total(UpTo(c)') = Total(UpTo(c)) - UpTo(c)[e] + UpTo(c)'[e]
        BY <1>1, <3>1, <3>2, TotalChange
      <3> QED
        BY <2>2, <3>3
    <2>5. Total(Before(c)) \in Nat /\ Total(UpTo(c)) \in Nat
      BY <1>1, SumTypes, TotalType
    <2>6. claim[c].count \in Nat /\ claim[c].over \in Nat
      BY <1>1 DEF CountersTypeOK, Locals
    <2>7. \/ headIndex + Total(Before(c)) <= claim[c].count - claim[c].over
          \/ headIndex + Total(UpTo(c)) <= tailIndex
      BY <1>1, <2>1 DEF RoomBefore
    <2> QED
      BY <1>2, <2>1, <2>3, <2>4, <2>5, <2>6, <2>7
  <1> QED
    BY <1>5, <1>6 DEF RoomBefore

(* A step of e changes the sum of what is pending by e's part. *)
LEMMA PendingChange ==
  ASSUME CountersInv, CountersTypeOK', LocalsAgree',
         NEW e \in Consumer, NEW r, claim' = [claim EXCEPT ![e] = r]
  PROVE  /\ Total(Pending') = Total(Pending) - Pending[e] + Pending'[e]
         /\ Total(Pending) \in Nat /\ Pending[e] \in Nat /\ Pending'[e] \in Nat
  <1>1. /\ CountersTypeOK /\ LocalsAgree /\ IsFiniteSet(Consumer)
    BY ConsumerAssumption DEF CountersInv
  <1>2. Pending \in [Consumer -> Nat] /\ Pending' \in [Consumer -> Nat]
    BY <1>1, SumTypes, SumTypesNext
  <1>3. \A d \in Consumer : d # e => Pending'[d] = Pending[d]
    BY <1>1, OthersKept
  <1>4. Total(Pending') = Total(Pending) - Pending[e] + Pending'[e]
    BY <1>1, <1>2, <1>3, TotalChange
  <1> QED
    BY <1>1, <1>2, <1>4, TotalType

(* Who counts itself in has room: what was counted in before it and not    *)
(* taken back is pending.                                                  *)
LEMMA AddOptimisticKeepsSums ==
  ASSUME CountersInv, CountersTypeOK', LocalsAgree', NEW e \in Consumer, AddOptimistic(e)
  PROVE  NothingLost' /\ GrantedIsThere' /\ RoomBefore'
  <1>1. PICK r : r = [claim[e] EXCEPT !.pc = "check", !.count = dequeueOptimisticCount]
    OBVIOUS
  <1>2. /\ CountersTypeOK /\ LocalsAgree /\ IsFiniteSet(Consumer)
        /\ NothingLost /\ GrantedIsThere /\ RoomBefore
    BY ConsumerAssumption DEF CountersInv
  <1>3. /\ claim' = [claim EXCEPT ![e] = r] /\ claim[e].pc = "count"
        /\ dequeueOptimisticCount' = dequeueOptimisticCount + claim[e].want
        /\ tailIndex' = tailIndex /\ headIndex' = headIndex /\ dequeueOvercommit' = dequeueOvercommit
    BY <1>1 DEF AddOptimistic, ClaimStep
  <1>4. /\ claim'[e] = r /\ claim'[e].pc = "check" /\ claim'[e].want = claim[e].want
        /\ claim'[e].over = claim[e].over /\ claim'[e].count = dequeueOptimisticCount
        /\ claim[e].want \in Nat /\ claim[e].want > 0
        /\ claim[e].over \in Nat /\ claim[e].over <= dequeueOvercommit
    BY <1>1, <1>2, <1>3 DEF CountersTypeOK, Locals, LocalsAgree, Agree
  <1>5. /\ tailIndex \in Nat /\ headIndex \in Nat
        /\ dequeueOptimisticCount \in Nat /\ dequeueOvercommit \in Nat
    BY <1>2 DEF CountersTypeOK
  <1>6. Pending[e] = 0 /\ Pending'[e] = claim[e].want
    BY <1>3, <1>4 DEF Pending
  <1>7. NothingLost'
    <2>1. Total(Pending') = Total(Pending) - 0 + claim[e].want /\ Total(Pending) \in Nat
      BY <1>2, <1>3, <1>6, PendingChange
    <2> QED
      BY <1>2, <1>3, <1>4, <1>5, <2>1 DEF NothingLost
  <1>8. Granted' = Granted
    <2>1. Granted[e] = 0 /\ Granted'[e] = 0
      BY <1>3, <1>4 DEF Granted
    <2>2. \A d \in Consumer : Granted'[d] = Granted[d]
      BY <1>2, <1>3, <2>1, OthersKept
    <2> QED
      BY <1>2, <2>2, SumTypes, SumTypesNext
  <1>9. GrantedIsThere'
    BY <1>2, <1>3, <1>8 DEF GrantedIsThere
  <1>10. ASSUME NEW c \in Consumer, Counted(c)'
         PROVE  \/ headIndex' + Total(Before(c)') <= claim'[c].count - claim'[c].over
                \/ headIndex' + Total(UpTo(c)') <= tailIndex'
    <2>1. CASE c = e
      <3>1. Before(e)' \in [Consumer -> Nat] /\ Pending \in [Consumer -> Nat]
        BY <1>2, SumTypes, SumTypesNext
      <3>2. ASSUME NEW d \in Consumer PROVE Before(e)'[d] <= Pending[d]
        <4>1. CASE d = e
          <5>1. Before(e)'[e] = 0
            BY <1>4, <1>5 DEF Before, Counted, Granted
          <5> QED
            BY <3>1, <4>1, <5>1
        <4>2. CASE d # e
          <5>1. claim'[d] = claim[d] /\ claim[d] \in Locals /\ Agree(claim[d])
            BY <1>2, <1>3, <4>2, OthersKept DEF CountersTypeOK, LocalsAgree
          <5>2. claim[d].want \in Nat /\ Granted[d] \in Nat /\ Granted[d] <= Pending[d]
            <6>1. claim[d].want \in Nat /\ claim[d].next \in Int
              BY <5>1 DEF Locals
            <6>2. claim[d].pc = "correct" => 0 <= claim[d].next /\ claim[d].next < claim[d].want
              BY <5>1 DEF Agree
            <6>3. claim[d].pc = "claim" => claim[d].next > 0
              BY <5>1 DEF Agree
            <6> QED
              BY <6>1, <6>2, <6>3 DEF Granted, Pending
          <5>3. Before(e)'[d] = IF Counted(d) /\ claim[d].count < claim'[e].count
                                THEN claim[d].want ELSE Granted[d]
            BY <5>1 DEF Before, Counted, Granted
          <5>4. Counted(d) => Pending[d] = claim[d].want
            BY DEF Counted, Pending
          <5> QED
            BY <5>2, <5>3, <5>4
        <4> QED
          BY <4>1, <4>2
      <3>3. Total(Before(e)') <= Total(Pending)
        BY <1>2, <3>1, <3>2, TotalMonotone
      <3>4. Total(Before(e)') \in Nat /\ Total(Pending) \in Nat
        BY <1>2, <3>1, TotalType
      <3>5. dequeueOptimisticCount - dequeueOvercommit = headIndex + Total(Pending)
        BY <1>2 DEF NothingLost
      <3> QED
        BY <1>3, <1>4, <1>5, <2>1, <3>3, <3>4, <3>5
    <2>2. CASE c # e
      <3>1. claim'[c] = claim[c] /\ Counted(c)
        BY <1>2, <1>3, <1>10, <2>2, OthersKept DEF Counted
      <3>2. claim[c].count < dequeueOptimisticCount /\ claim[c].count \in Nat
        <4>1. claim[c] \in Locals /\ Agree(claim[c])
          BY <1>2 DEF CountersTypeOK, LocalsAgree
        <4> QED
          BY <1>5, <3>1, <4>1 DEF Agree, Counted, Locals
      <3>3. /\ Before(c)[e] = 0 /\ Before(c)'[e] = 0
            /\ UpTo(c)[e] = 0 /\ UpTo(c)'[e] = 0
        BY <1>3, <1>4, <1>5, <3>1, <3>2 DEF Before, UpTo, Counted, Granted
      <3>4. \A d \in Consumer : Before(c)'[d] = Before(c)[d] /\ UpTo(c)'[d] = UpTo(c)[d]
        BY <1>2, <1>3, <2>2, <3>3, OthersBefore
      <3>5. /\ Before(c) \in [Consumer -> Nat] /\ Before(c)' \in [Consumer -> Nat]
            /\ UpTo(c) \in [Consumer -> Nat] /\ UpTo(c)' \in [Consumer -> Nat]
        BY <1>2, SumTypes, SumTypesNext
      <3>6. Before(c)' = Before(c) /\ UpTo(c)' = UpTo(c)
        BY <3>4, <3>5
      <3> QED
        BY <1>2, <1>3, <3>1, <3>6 DEF RoomBefore
    <2> QED
      BY <2>1, <2>2
  <1> QED
    BY <1>7, <1>9, <1>10 DEF RoomBefore

(* Who gets something has room for it, and for all that were granted       *)
(* something or come before it.                                            *)
LEMMA RoomForActual ==
  ASSUME CountersInv, NEW e \in Consumer, Counted(e), Actual(e) > 0
  PROVE  \E G \in [Consumer -> Nat] :
           /\ headIndex + Total(G) <= tailIndex
           /\ Actual(e) <= G[e]
           /\ \A d \in Consumer : d # e => Before(e)[d] <= G[d]
  <1>1. /\ CountersTypeOK /\ LocalsAgree /\ IsFiniteSet(Consumer) /\ RoomBefore
        /\ claim[e] \in Locals /\ headIndex \in Nat /\ tailIndex \in Nat
    BY ConsumerAssumption DEF CountersInv, CountersTypeOK
  <1>2. /\ Actual(e) \in Nat /\ Actual(e) <= claim[e].want
        /\ claim[e].count - claim[e].over + Actual(e) <= tailIndex
    BY <1>1, ActualBounds
  <1>3. Before(e) \in [Consumer -> Nat] /\ UpTo(e) \in [Consumer -> Nat]
    BY <1>1, SumTypes
  <1>4. CASE headIndex + Total(Before(e)) <= claim[e].count - claim[e].over
    <2> DEFINE G == [Before(e) EXCEPT ![e] = Actual(e)]
    <2>1. /\ G \in [Consumer -> Nat] /\ G[e] = Actual(e)
          /\ \A d \in Consumer : d # e => G[d] = Before(e)[d]
      BY <1>2, <1>3
    <2>2. Before(e)[e] = 0
      BY <1>1 DEF Before, Granted, Counted, Locals
    <2> HIDE DEF G
    <2>3. Total(G) = Total(Before(e)) - Before(e)[e] + G[e]
      BY <1>1, <1>3, <2>1, TotalChange
    <2>4. Total(Before(e)) \in Nat
      BY <1>1, <1>3, TotalType
    <2>5. claim[e].count \in Nat /\ claim[e].over \in Nat
      BY <1>1 DEF Locals
    <2>6. headIndex + Total(G) <= tailIndex
      BY <1>1, <1>2, <1>4, <2>1, <2>2, <2>3, <2>4, <2>5
    <2>7. \A d \in Consumer : d # e => Before(e)[d] <= G[d]
      BY <1>3, <2>1
    <2> QED
      BY <1>2, <2>1, <2>6, <2>7
  <1>5. CASE headIndex + Total(UpTo(e)) <= tailIndex
    <2>1. UpTo(e)[e] = claim[e].want
      BY <1>1 DEF UpTo, Counted, Locals
    <2>2. ASSUME NEW d \in Consumer PROVE Before(e)[d] <= UpTo(e)[d]
      <3>1. claim[d] \in Locals /\ Before(e)[d] \in Nat /\ UpTo(e)[d] \in Nat
        BY <1>1, <1>3 DEF CountersTypeOK
      <3>2. CASE Counted(d) /\ claim[d].count = claim[e].count
        <4>1. Before(e)[d] = 0
          BY <1>1, <3>1, <3>2 DEF Before, Granted, Counted, Locals
        <4> QED
          BY <3>1, <4>1
      <3>3. CASE ~(Counted(d) /\ claim[d].count = claim[e].count)
        <4>1. Before(e)[d] = UpTo(e)[d]
          BY <1>1, <3>1, <3>3 DEF Before, UpTo, Locals
        <4> QED
          BY <3>1, <4>1
      <3> QED
        BY <3>2, <3>3
    <2> QED
      BY <1>2, <1>3, <1>5, <2>1, <2>2
  <1> QED
    BY <1>1, <1>4, <1>5 DEF RoomBefore

(* Looking at the tail again grants what there is room for.  Who counted   *)
(* itself in earlier, and has not looked again, then has room as well.     *)
LEMMA CheckTailKeepsSums ==
  ASSUME CountersInv, CountersTypeOK', LocalsAgree', NEW e \in Consumer, CheckTail(e)
  PROVE  NothingLost' /\ GrantedIsThere' /\ RoomBefore'
  <1> DEFINE a == Actual(e)
  <1>1. PICK r : r = [claim[e] EXCEPT
                        !.pc = IF Actual(e) < claim[e].want THEN "correct" ELSE "claim",
                        !.over = 0, !.count = 0, !.next = Actual(e)]
    OBVIOUS
  <1>2. /\ CountersTypeOK /\ LocalsAgree /\ IsFiniteSet(Consumer)
        /\ NothingLost /\ GrantedIsThere /\ RoomBefore /\ PlacesDisjoint
        /\ claim[e] \in Locals
    BY ConsumerAssumption DEF CountersInv, CountersTypeOK
  <1>3. /\ claim' = [claim EXCEPT ![e] = r] /\ claim[e].pc = "check"
        /\ UNCHANGED <<tailIndex, headIndex, dequeueOptimisticCount, dequeueOvercommit>>
    BY <1>1 DEF CheckTail, ClaimStep
  <1>4. a \in Nat /\ a <= claim[e].want /\ claim[e].want \in Nat /\ claim[e].want > 0
    BY <1>2, <1>3, ActualBounds DEF LocalsAgree, Agree, Locals
  <1>5. /\ claim'[e] = r /\ r.pc = (IF a < claim[e].want THEN "correct" ELSE "claim")
        /\ r.want = claim[e].want /\ r.next = a
    BY <1>1, <1>2, <1>3, OthersKept, ZenonT(30) DEF Locals
  <1>6. headIndex \in Nat /\ tailIndex \in Nat
    BY <1>2 DEF CountersTypeOK
  <1>7. /\ Granted \in [Consumer -> Nat] /\ Granted' \in [Consumer -> Nat]
        /\ Granted[e] = 0 /\ Granted'[e] = a
    BY <1>2, <1>3, <1>5, SumTypes, SumTypesNext DEF Granted
  <1> HIDE DEF a
  <1>8. NothingLost'
    <2>1. Pending[e] = claim[e].want /\ Pending'[e] = claim[e].want
      BY <1>3, <1>4, <1>5 DEF Pending
    <2>2. Total(Pending') = Total(Pending)
      <3>1. Total(Pending') = Total(Pending) - Pending[e] + Pending'[e] /\ Total(Pending) \in Nat
        BY <1>3, PendingChange
      <3> QED
        BY <1>4, <2>1, <3>1
    <2> QED
      BY <1>2, <1>3, <2>2 DEF NothingLost
  <1>9. ASSUME a = 0 PROVE Granted' = Granted
    <2>1. \A d \in Consumer : Granted'[d] = Granted[d]
      BY <1>2, <1>3, <1>7, <1>9, OthersKept
    <2> QED
      BY <1>7, <2>1
  <1>10. ASSUME a > 0
         PROVE  \E G \in [Consumer -> Nat] :
                  /\ headIndex + Total(G) <= tailIndex
                  /\ a <= G[e]
                  /\ \A d \in Consumer : d # e => Before(e)[d] <= G[d]
    BY <1>3, <1>10, RoomForActual DEF a, Counted
  <1>11. \A d \in Consumer : Granted[d] <= Before(e)[d] /\ Before(e)[d] \in Nat
    <2> SUFFICES ASSUME NEW d \in Consumer PROVE Granted[d] <= Before(e)[d]
      BY <1>2, SumTypes
    <2>1. claim[d].want \in Nat /\ Granted[d] \in Nat
      BY <1>2, <1>7 DEF CountersTypeOK, Locals
    <2>2. Counted(d) => Granted[d] = 0
      BY DEF Counted, Granted
    <2> QED
      BY <2>1, <2>2 DEF Before
  <1>12. GrantedIsThere'
    <2>1. CASE a = 0
      BY <1>2, <1>3, <1>9, <2>1 DEF GrantedIsThere
    <2>2. CASE a > 0
      <3>1. PICK G \in [Consumer -> Nat] :
              /\ headIndex + Total(G) <= tailIndex
              /\ a <= G[e]
              /\ \A d \in Consumer : d # e => Before(e)[d] <= G[d]
        BY <1>10, <2>2
      <3>2. ASSUME NEW d \in Consumer PROVE Granted'[d] <= G[d]
        <4>1. CASE d = e
          BY <1>7, <3>1, <4>1
        <4>2. CASE d # e
          <5>1. Granted'[d] = Granted[d] /\ Before(e)[d] <= G[d]
            BY <1>2, <1>3, <3>1, <4>2, OthersKept
          <5> QED
            BY <1>7, <1>11, <5>1
        <4> QED
          BY <4>1, <4>2
      <3>3. Total(Granted') <= Total(G)
        BY <1>2, <1>7, <3>2, TotalMonotone
      <3>4. Total(Granted') \in Nat /\ Total(G) \in Nat
        BY <1>2, <1>7, TotalType
      <3> QED
        BY <1>3, <1>6, <3>1, <3>3, <3>4 DEF GrantedIsThere
    <2> QED
      BY <1>4, <2>1, <2>2
  <1>13. ASSUME NEW c \in Consumer, Counted(c)'
         PROVE  \/ headIndex' + Total(Before(c)') <= claim'[c].count - claim'[c].over
                \/ headIndex' + Total(UpTo(c)') <= tailIndex'
    <2>1. c # e
      BY <1>5, <1>13 DEF Counted
    <2>2. /\ claim'[c] = claim[c] /\ Counted(c) /\ claim[c] \in Locals /\ Agree(claim[c])
          /\ claim[c].count \in Nat /\ claim[c].over \in Nat
      BY <1>2, <1>3, <1>13, <2>1, OthersKept DEF Counted, CountersTypeOK, LocalsAgree, Locals
    <2>3. /\ Before(c) \in [Consumer -> Nat] /\ Before(c)' \in [Consumer -> Nat]
          /\ UpTo(c) \in [Consumer -> Nat] /\ UpTo(c)' \in [Consumer -> Nat]
      BY <1>2, SumTypes, SumTypesNext
    <2>4. /\ Total(Before(c)) \in Nat /\ Total(Before(c)') \in Nat
          /\ Total(UpTo(c)) \in Nat /\ Total(UpTo(c)') \in Nat
      BY <1>2, <2>3, TotalType
    <2>5. \A d \in Consumer : d # e => Before(c)'[d] = Before(c)[d] /\ UpTo(c)'[d] = UpTo(c)[d]
      BY <1>2, <1>3, <2>1, OthersBefore
    <2>6. Before(c)'[e] = a /\ UpTo(c)'[e] = a
      BY <1>5, <1>7 DEF Before, UpTo, Counted
    <2>7. \/ headIndex + Total(Before(c)) <= claim[c].count - claim[c].over
          \/ headIndex + Total(UpTo(c)) <= tailIndex
      BY <1>2, <2>2 DEF RoomBefore
    <2>8. ASSUME a <= Before(c)[e], a <= UpTo(c)[e]
          PROVE  \/ headIndex' + Total(Before(c)') <= claim'[c].count - claim'[c].over
                 \/ headIndex' + Total(UpTo(c)') <= tailIndex'
      <3>1. \A d \in Consumer : Before(c)'[d] <= Before(c)[d]
        BY <2>3, <2>5, <2>6, <2>8
      <3>2. Total(Before(c)') <= Total(Before(c))
        BY <1>2, <2>3, <3>1, TotalMonotone
      <3>3. \A d \in Consumer : UpTo(c)'[d] <= UpTo(c)[d]
        BY <2>3, <2>5, <2>6, <2>8
      <3>4. Total(UpTo(c)') <= Total(UpTo(c))
        BY <1>2, <2>3, <3>3, TotalMonotone
      <3> QED
        BY <1>3, <1>6, <2>2, <2>4, <2>7, <3>2, <3>4
    <2>9. CASE a = 0
      BY <2>3, <2>8, <2>9
    <2>10. CASE claim[e].count < claim[c].count
      <3>1. Before(c)[e] = claim[e].want /\ UpTo(c)[e] = claim[e].want
        BY <1>2, <1>3, <2>2, <2>10 DEF Before, UpTo, Counted, Locals
      <3> QED
        BY <1>4, <2>8, <3>1
    <2>11. CASE a > 0 /\ ~(claim[e].count < claim[c].count)
      <3>1. claim[c].count < claim[e].count
        <4>1. Apart(claim[c], claim[e]) /\ claim[c].want > 0 /\ claim[c].want \in Nat
              /\ claim[e].count \in Nat
          BY <1>2, <2>1, <2>2 DEF PlacesDisjoint, Agree, Counted, Locals
        <4> QED
          BY <1>3, <1>4, <2>2, <2>11, <4>1 DEF Apart, Counted
      <3>2. PICK G \in [Consumer -> Nat] :
              /\ headIndex + Total(G) <= tailIndex
              /\ a <= G[e]
              /\ \A d \in Consumer : d # e => Before(e)[d] <= G[d]
        BY <1>10, <2>11
      <3>3. ASSUME NEW d \in Consumer PROVE UpTo(c)'[d] <= G[d]
        <4>1. CASE d = e
          BY <2>6, <3>2, <4>1
        <4>2. CASE d # e
          <5>1. UpTo(c)'[d] = UpTo(c)[d] /\ Before(e)[d] <= G[d]
            BY <2>5, <3>2, <4>2
          <5>2. UpTo(c)[d] <= Before(e)[d]
            <6>1. CASE Counted(d) /\ claim[d].count <= claim[c].count
              <7>1. claim[d].count \in Nat /\ claim[e].count \in Nat /\ claim[d].want \in Nat
                BY <1>2 DEF CountersTypeOK, Locals
              <7>2. UpTo(c)[d] = claim[d].want /\ Before(e)[d] = claim[d].want
                BY <2>2, <3>1, <6>1, <7>1 DEF UpTo, Before
              <7> QED
                BY <7>1, <7>2
            <6>2. CASE ~(Counted(d) /\ claim[d].count <= claim[c].count)
              <7>1. UpTo(c)[d] = Granted[d]
                BY <6>2 DEF UpTo
              <7> QED
                BY <1>11, <7>1
            <6> QED
              BY <6>1, <6>2
          <5> QED
            BY <1>11, <2>3, <3>2, <5>1, <5>2
        <4> QED
          BY <4>1, <4>2
      <3>4. Total(UpTo(c)') <= Total(G) /\ Total(G) \in Nat
        BY <1>2, <2>3, <3>3, TotalMonotone, TotalType
      <3> QED
        BY <1>3, <1>6, <2>4, <3>2, <3>4
    <2> QED
      BY <1>4, <2>9, <2>10, <2>11
  <1> QED
    BY <1>8, <1>12, <1>13 DEF RoomBefore

(* A step of e that takes k from what is pending, counted or claimed. *)
LEMMA PendingKept ==
  ASSUME CountersInv, CountersTypeOK', LocalsAgree',
         NEW e \in Consumer, NEW r, claim' = [claim EXCEPT ![e] = r],
         dequeueOptimisticCount' - dequeueOvercommit' - headIndex' + Pending[e]
           = dequeueOptimisticCount - dequeueOvercommit - headIndex + Pending'[e]
  PROVE  NothingLost'
  <1>1. /\ Total(Pending') = Total(Pending) - Pending[e] + Pending'[e]
        /\ Total(Pending) \in Nat /\ Pending[e] \in Nat /\ Pending'[e] \in Nat
    BY PendingChange
  <1>2. dequeueOptimisticCount - dequeueOvercommit = headIndex + Total(Pending)
    BY DEF CountersInv, NothingLost
  <1>3. /\ headIndex \in Nat /\ headIndex' \in Nat
        /\ dequeueOptimisticCount \in Nat /\ dequeueOptimisticCount' \in Nat
        /\ dequeueOvercommit \in Nat /\ dequeueOvercommit' \in Nat
    BY DEF CountersInv, CountersTypeOK
  <1>4. dequeueOptimisticCount' - dequeueOvercommit' = headIndex' + Total(Pending')
    BY <1>1, <1>2, <1>3
  <1> QED
    BY <1>4 DEF NothingLost

LEMMA SumsKept ==
  ASSUME CountersInv, CountersTypeOK', LocalsAgree', CountersStep
  PROVE  NothingLost' /\ GrantedIsThere' /\ RoomBefore'
  <1> DEFINE Ok == NothingLost' /\ GrantedIsThere' /\ RoomBefore'
  <1>0. /\ CountersTypeOK /\ headIndex \in Nat /\ dequeueOptimisticCount \in Nat
        /\ dequeueOvercommit \in Nat
        /\ \A c \in Consumer : claim[c] \in Locals /\ Agree(claim[c])
    BY DEF CountersInv, CountersTypeOK, LocalsAgree
  <1> DEFINE InFlight == {"check", "correct", "claim"}
  (* Before and after its count a call takes part in no sum. *)
  <1>1. ASSUME NEW e \in Consumer, NEW r, claim' = [claim EXCEPT ![e] = r],
               claim[e].pc \notin InFlight, r.pc \notin InFlight, UNCHANGED OtherCounters
        PROVE  Ok
    <2>1. claim'[e] = r
      BY <1>0, <1>1, OthersKept
    <2>2. Pending[e] = 0 /\ Pending'[e] = 0 /\ Granted[e] = 0 /\ Granted'[e] = 0
      BY <1>1, <2>1 DEF Pending, Granted
    <2>3. NothingLost'
      BY <1>0, <1>1, <2>2, PendingKept DEF OtherCounters
    <2>4. ~Counted(e) /\ r.pc # "check" /\ tailIndex' = tailIndex
          /\ headIndex' + Granted'[e] = headIndex + Granted[e]
      BY <1>1, <2>2 DEF Counted, OtherCounters
    <2> QED
      BY <1>1, <2>3, <2>4, SettledKept
  <1>2. ASSUME NEW e \in Consumer, NEW k \in DequeueSize, LoadTail(e, k) PROVE Ok
    <2>1. PICK r : r = [Unclaimed EXCEPT !.pc = "over", !.want = k, !.tail = tailIndex]
      OBVIOUS
    <2>2. r.pc = "over"
      BY <2>1 DEF Unclaimed
    <2> QED
      BY <1>1, <1>2, <2>1, <2>2 DEF LoadTail, ClaimStep, OtherCounters
  <1>3. ASSUME NEW e \in Consumer, LoadOvercommit(e) PROVE Ok
    <2>1. PICK r : r = [claim[e] EXCEPT !.pc = "optimistic", !.over = dequeueOvercommit]
      OBVIOUS
    <2>2. r.pc = "optimistic"
      BY <1>0, <2>1 DEF Locals
    <2> QED
      BY <1>1, <1>3, <2>1, <2>2 DEF LoadOvercommit, ClaimStep, OtherCounters
  <1>4. ASSUME NEW e \in Consumer, LoadOptimistic(e) PROVE Ok
    <2> DEFINE desired == claim[e].tail - (dequeueOptimisticCount - claim[e].over)
    <2>1. PICK r : r = IF desired > 0
                       THEN [claim[e] EXCEPT !.pc = "count", !.tail = 0,
                                             !.want = IF desired < @ THEN desired ELSE @]
                       ELSE Unclaimed
      OBVIOUS
    <2>2. r.pc \in {"count", "idle"}
      BY <1>0, <2>1 DEF Locals, Unclaimed
    <2>3. claim' = [claim EXCEPT ![e] = r] /\ claim[e].pc = "optimistic" /\ UNCHANGED OtherCounters
      BY <1>4, <2>1 DEF LoadOptimistic, ClaimStep, OtherCounters
    <2> QED
      BY <1>1, <2>2, <2>3
  <1>5. ASSUME NEW e \in Consumer, AddOvercommit(e) PROVE Ok
    <2>1. PICK r : r = IF claim[e].next = 0 THEN Unclaimed ELSE [claim[e] EXCEPT !.pc = "claim"]
      OBVIOUS
    <2>2. /\ claim[e].pc = "correct" /\ claim' = [claim EXCEPT ![e] = r]
          /\ claim[e].next \in Nat /\ claim[e].want \in Nat
      BY <1>0, <1>5, <2>1 DEF AddOvercommit, ClaimStep, Agree, Locals
    <2>3. claim'[e] = r /\ Pending[e] = claim[e].want /\ Granted[e] = claim[e].next
      BY <1>0, <2>2, OthersKept, ZenonT(30) DEF Pending, Granted
    <2>4. /\ r.pc \in {"idle", "claim"}
          /\ (IF r.pc = "claim" THEN r.next ELSE 0) = claim[e].next
      BY <1>0, <2>1 DEF Locals, Unclaimed
    <2>5. Pending'[e] = claim[e].next /\ Granted'[e] = claim[e].next
      BY <2>3, <2>4 DEF Pending, Granted
    <2>6. NothingLost'
      <3>1. /\ dequeueOvercommit' = dequeueOvercommit + claim[e].want - claim[e].next
            /\ dequeueOptimisticCount' = dequeueOptimisticCount /\ headIndex' = headIndex
        BY <1>5 DEF AddOvercommit
      <3>2. dequeueOptimisticCount' - dequeueOvercommit' - headIndex' + Pending[e]
              = dequeueOptimisticCount - dequeueOvercommit - headIndex + Pending'[e]
        BY <1>0, <2>2, <2>3, <2>5, <3>1
      <3> QED
        BY <2>2, <3>2, PendingKept
    <2>7. ~Counted(e) /\ r.pc # "check" /\ tailIndex' = tailIndex
          /\ headIndex' + Granted'[e] = headIndex + Granted[e]
      BY <1>5, <2>2, <2>3, <2>4, <2>5 DEF Counted, AddOvercommit
    <2> QED
      BY <2>2, <2>6, <2>7, SettledKept
  <1>6. ASSUME NEW e \in Consumer, AddHead(e) PROVE Ok
    <2>1. PICK r : r = [claim[e] EXCEPT !.pc = "claimed", !.want = 0, !.next = headIndex,
                                         !.last = headIndex + claim[e].next]
      OBVIOUS
    <2>2. /\ claim[e].pc = "claim" /\ claim' = [claim EXCEPT ![e] = r]
          /\ claim[e].next \in Nat /\ r.pc = "claimed"
          /\ headIndex' = headIndex + claim[e].next
      BY <1>0, <1>6, <2>1 DEF AddHead, ClaimStep, Agree, Locals
    <2>3. claim'[e] = r /\ Pending[e] = claim[e].next /\ Granted[e] = claim[e].next
      BY <1>0, <2>2, OthersKept DEF Pending, Granted
    <2>4. Pending'[e] = 0 /\ Granted'[e] = 0
      BY <2>2, <2>3 DEF Pending, Granted
    <2>5. NothingLost'
      <3>1. dequeueOvercommit' = dequeueOvercommit /\ dequeueOptimisticCount' = dequeueOptimisticCount
        BY <1>6 DEF AddHead
      <3>2. dequeueOptimisticCount' - dequeueOvercommit' - headIndex' + Pending[e]
              = dequeueOptimisticCount - dequeueOvercommit - headIndex + Pending'[e]
        BY <1>0, <2>2, <2>3, <2>4, <3>1
      <3> QED
        BY <2>2, <3>2, PendingKept
    <2>6. ~Counted(e) /\ r.pc # "check" /\ tailIndex' = tailIndex
          /\ headIndex' + Granted'[e] = headIndex + Granted[e]
      BY <1>0, <1>6, <2>2, <2>3, <2>4 DEF Counted, AddHead
    <2> QED
      BY <2>2, <2>5, <2>6, SettledKept
  <1>7. ASSUME NEW e \in Consumer, Uses(e) PROVE Ok
    <2>1. PICK r : /\ claim' = [claim EXCEPT ![e] = r]
                   /\ r.pc \in {"claimed", "idle"}
      BY <1>0, <1>7 DEF Uses, TakenUpTo, Return, Locals, Unclaimed
    <2> QED
      BY <1>1, <1>7, <2>1 DEF Uses
  <1>8. CASE TailGrows \/ UNCHANGED counters
    <2>1. /\ claim' = claim /\ headIndex' = headIndex /\ dequeueOvercommit' = dequeueOvercommit
          /\ dequeueOptimisticCount' = dequeueOptimisticCount
          /\ tailIndex' \in Nat /\ tailIndex <= tailIndex' /\ tailIndex \in Nat
      BY <1>0, <1>8 DEF TailGrows, counters, CountersTypeOK
    <2>2. Pending' = Pending /\ Granted' = Granted
      BY <2>1 DEF Pending, Granted
    <2>3. \A c \in Consumer :
             Before(c)' = Before(c) /\ UpTo(c)' = UpTo(c) /\ Counted(c)' = Counted(c)
      BY <2>1, <2>2 DEF Before, UpTo, Counted
    <2>4. /\ Total(Granted) \in Nat
          /\ \A c \in Consumer : Total(UpTo(c)) \in Nat
      BY <1>0, SumTypes, TotalType, ConsumerAssumption DEF CountersInv
    <2>5. NothingLost' /\ GrantedIsThere'
      BY <1>0, <2>1, <2>2, <2>4 DEF CountersInv, NothingLost, GrantedIsThere
    <2>6. RoomBefore'
      BY <1>0, <2>1, <2>3, <2>4 DEF CountersInv, RoomBefore
    <2> QED
      BY <2>5, <2>6
  <1> QED
    BY <1>2, <1>3, <1>4, <1>5, <1>6, <1>7, <1>8, AddOptimisticKeepsSums, CheckTailKeepsSums
    DEF CountersStep, ClaimItems

LEMMA CountersKept ==
  ASSUME CountersInv, CountersStep
  PROVE  CountersInv'
  BY LocalsKept, ClaimsKept, SumsKept DEF CountersInv

(***************************************************************************)
(* The producer                                                            *)
(***************************************************************************)

(* What Publish adds to tailIndex. *)
ProdCounts == DOMAIN prod = {"pc", "count", "alloc", "slot"} /\ prod.count \in Nat

(* The end of what Take takes at once lies within the claim. *)
LEMMA TakeEnd ==
  ASSUME NEW next \in Nat, NEW last \in Nat, next <= last
  PROVE  LET end == Min({Base(next) + BLOCK_SIZE, last})
         IN end \in Int /\ next <= end /\ end <= last
  <1>1. Base(next) + BLOCK_SIZE \in Int /\ next <= Base(next) + BLOCK_SIZE
    <2>1. \A n, b \in Int : b > 0 => b * (n \div b) \in Int /\ b * (n \div b) + b > n
      BY SMTT(30)
    <2>2. BLOCK_SIZE \in Int /\ BLOCK_SIZE > 0
      BY SizeAssumption
    <2> QED
      BY <2>1, <2>2 DEF Base
  <1> DEFINE B == Base(next) + BLOCK_SIZE
             S == {B, last}
  <1> HIDE DEF B
  <1>2. \E x \in S : \A y \in S : x <= y
    <2>1. CASE B <= last
      BY <1>1, <2>1 DEF B
    <2>2. CASE last <= B
      BY <1>1, <2>2 DEF B
    <2> QED
      BY <1>1, <2>1, <2>2 DEF B
  <1>3. Min(S) \in S /\ \A y \in S : Min(S) <= y
    BY <1>2 DEF Min
  <1> QED
    BY <1>1, <1>3 DEF B

LEMMA StepOfCounters ==
  ASSUME CountersInv, ProdCounts, [Next]_vars
  PROVE  CountersStep /\ ProdCounts'
  <1> USE DEF CountersStep
  <1>1. ASSUME NEW k \in EnqueueSize, enqueue_bulk(k) PROVE CountersStep /\ ProdCounts'
    <2>1. k \in Nat
      BY EnqueueAssumption
    <2> QED
      BY <1>1, <2>1 DEF enqueue_bulk, ProdIdle, ProdCounts
  <1>2. CASE InsertKey \/ InsertTail \/ new_block_index \/ IndexAllocationFails
    BY <1>2 DEF InsertKey, InsertTail, new_block_index, IndexAllocationFails, ProdCounts
  <1>3. CASE requisition_block
    <2>1. PICK b \in Block :
            LET p == [prod EXCEPT !.alloc = Append(@, b), !.slot = 0]
            IN prod' = [p EXCEPT !.pc = Continue(p)]
      BY <1>3 DEF requisition_block
    <2>2. DOMAIN prod' = DOMAIN prod /\ prod'.count = prod.count
      BY <2>1 DEF ProdCounts
    <2> QED
      BY <1>3, <2>2 DEF requisition_block, ProdCounts
  <1>4. CASE BlockAllocationFails \/ UndoEntry \/ add_blocks_to_free_list
    <2>1. CASE BlockAllocationFails
      BY <2>1 DEF BlockAllocationFails, ProdCounts
    <2>2. CASE UndoEntry
      <3>1. prod' = [prod EXCEPT !.slot = @ + 1] /\ UNCHANGED counters
        BY <2>2 DEF UndoEntry
      <3>2. DOMAIN prod' = DOMAIN prod /\ prod'.count = prod.count
        BY <3>1 DEF ProdCounts
      <3> QED
        BY <3>1, <3>2 DEF ProdCounts
    <2>3. CASE add_blocks_to_free_list
      BY <2>3 DEF add_blocks_to_free_list, ProdIdle, ProdCounts
    <2> QED
      BY <1>4, <2>1, <2>2, <2>3
  <1>5. CASE Publish
    <2>1. TailGrows
      BY <1>5 DEF Publish, TailGrows, CountersInv, CountersTypeOK, ProdCounts
    <2> QED
      BY <1>5, <2>1 DEF Publish, ProdIdle, ProdCounts
  <1>6. CASE Destroy
    BY <1>6 DEF Destroy, ProdCounts
  <1>7. ASSUME NEW c \in Consumer, Claim(c) PROVE CountersStep /\ ProdCounts'
    BY <1>7 DEF Claim, ProdCounts
  <1>8. ASSUME NEW c \in Consumer, LoadBlockIndex(c) \/ LoadKey(c) \/ Unlink(c) \/ add_block_to_free_list(c)
        PROVE  CountersStep /\ ProdCounts'
    BY <1>8 DEF LoadBlockIndex, LoadKey, Unlink, add_block_to_free_list, Step, ProdCounts
  <1>9. ASSUME NEW c \in Consumer, Take(c) PROVE CountersStep /\ ProdCounts'
    <2> DEFINE end == Min({Base(claim[c].next) + BLOCK_SIZE, claim[c].last})
    <2>1. claim[c].pc = "claimed" /\ TakenUpTo(c, end) /\ UNCHANGED OtherCounters /\ prod' = prod
      BY <1>9 DEF Take, OtherCounters
    <2>2. claim[c].next \in Nat /\ claim[c].last \in Nat /\ claim[c].next <= claim[c].last
      BY <2>1 DEF CountersInv, CountersTypeOK, Locals, ClaimsBelowHead
    <2>3. end \in Int /\ claim[c].next <= end /\ end <= claim[c].last
      BY <2>2, TakeEnd
    <2> HIDE DEF end
    <2>4. Uses(c)
      BY <2>1, <2>3 DEF Uses
    <2> QED
      BY <2>1, <2>4 DEF ProdCounts
  <1>10. ASSUME NEW c \in Consumer, Delivered(c) PROVE CountersStep /\ ProdCounts'
    BY <1>10 DEF Delivered, Step, Uses, OtherCounters, ProdCounts
  <1>11. CASE UNCHANGED vars
    BY <1>11 DEF vars, ProdCounts
  <1> QED
    BY <1>1, <1>2, <1>3, <1>4, <1>5, <1>6, <1>7, <1>8, <1>9, <1>10, <1>11
    DEF Next, producer, consumer

(* The counters of an implicit producer keep their invariant, whatever the *)
(* number of consumers and the sizes of blocks, calls and index.           *)
THEOREM CountersInvariant == Spec => []CountersInv
  <1>1. Init => CountersInv /\ ProdCounts
    BY InitCounters DEF Init, ProdCounts, ProdIdle
  <1>2. CountersInv /\ ProdCounts /\ [Next]_vars => (CountersInv /\ ProdCounts)'
    BY StepOfCounters, CountersKept
  <1> QED
    BY <1>1, <1>2, PTL DEF Spec

(* What dequeue's comment says of headIndex ("this will never exceed        *)
(* tail"): it stays within tailIndex, with all that consumers were told    *)
(* they may take.                                                          *)
THEOREM HeadWithinTail == Spec => [](headIndex <= tailIndex)
  <1>1. CountersInv => headIndex <= tailIndex
    <2> SUFFICES ASSUME CountersInv PROVE headIndex <= tailIndex
      OBVIOUS
    <2>1. Total(Granted) \in Nat
      BY SumTypes, TotalType, ConsumerAssumption DEF CountersInv
    <2> QED
      BY <2>1 DEF CountersInv, CountersTypeOK, GrantedIsThere
  <1> QED
    BY <1>1, CountersInvariant, PTL

(* No item is claimed by two consumers. *)
THEOREM OneConsumerEach == Spec => []ClaimsDisjoint
  BY CountersInvariant, PTL DEF CountersInv

(***************************************************************************)
(* Arithmetic of rings                                                     *)
(***************************************************************************)

(* What adding zero does, for sums whose last terms depend on a case. *)
LEMMA AddZero ==
  ASSUME NEW x \in Int, NEW y \in Int, NEW z \in Int
  PROVE  x + y + 0 - z = x + y - z /\ x + y + 0 = x + y
  OBVIOUS

(* Quotient and remainder, as integers that are known. *)
LEMMA DivMod ==
  ASSUME NEW x \in Int, NEW n \in Int, n > 0
  PROVE  \E q, r \in Int : q = x \div n /\ r = x % n /\ 0 <= r /\ r < n /\ x = n * q + r
  <1>1. PICK q \in Int, r \in Int : q = x \div n /\ r = x % n
    OBVIOUS
  <1>2. 0 <= r /\ r < n
    BY <1>1, SMTT(30)
  <1>3. x = n * q + r
    BY <1>1, SMTT(30)
  <1> QED
    BY <1>1, <1>2, <1>3

(* Only one number in 0..n-1 differs from x by a multiple of n. *)
LEMMA ModUnique ==
  ASSUME NEW n \in Int, n > 0, NEW x \in Int, NEW a \in Int, NEW b \in Int, NEW r \in Int, NEW s \in Int,
         0 <= r, r < n, 0 <= s, s < n, x = n * a + r, x = n * b + s
  PROVE  a = b /\ r = s
  <1>1. PICK d \in Int : d = a - b
    OBVIOUS
  <1>2. n * d = s - r
    BY <1>1
  <1>3. (d >= 1 => n * d >= n) /\ (d <= -1 => n * d <= -n)
    BY SMTT(30)
  <1>4. d = 0
    BY <1>2, <1>3
  <1> QED
    BY <1>1, <1>2, <1>4

(* They are the only ones that fit. *)
LEMMA ModOf ==
  ASSUME NEW n \in Int, n > 0, NEW x \in Int, NEW a \in Int, NEW r \in Int, 0 <= r, r < n, x = n * a + r
  PROVE  x \div n = a /\ x % n = r
  <1>1. PICK q \in Int, s \in Int : q = x \div n /\ s = x % n /\ 0 <= s /\ s < n /\ x = n * q + s
    BY DivMod
  <1>2. a = q /\ r = s
    BY <1>1, ModUnique
  <1> QED
    BY <1>1, <1>2

(* A number below n is its own remainder. *)
LEMMA ModSmall ==
  ASSUME NEW n \in Int, n > 0, NEW x \in Int, 0 <= x, x < n
  PROVE  x % n = x
  <1>1. x = n * 0 + x
    OBVIOUS
  <1> QED
    BY <1>1, ModOf

(* Multiples of n do not change the remainder. *)
LEMMA ModShift ==
  ASSUME NEW n \in Int, n > 0, NEW x \in Int, NEW y \in Int, NEW k \in Int, y = x + n * k
  PROVE  y % n = x % n
  <1>1. PICK q \in Int, r \in Int : q = x \div n /\ r = x % n /\ 0 <= r /\ r < n /\ x = n * q + r
    BY DivMod
  <1>2. PICK e \in Int : e = q + k
    OBVIOUS
  <1>3. y = n * e + r
    BY <1>1, <1>2
  <1> QED
    BY <1>1, <1>3, ModOf

(* A remainder may be taken before or after an addition. *)
LEMMA ModPlus ==
  ASSUME NEW n \in Int, n > 0, NEW x \in Int, NEW y \in Int
  PROVE  ((x % n) + y) % n = (x + y) % n
  <1>1. PICK q \in Int, r \in Int : q = x \div n /\ r = x % n /\ 0 <= r /\ r < n /\ x = n * q + r
    BY DivMod
  <1>2. PICK u \in Int, v \in Int : u = r + y /\ v = x + y
    BY <1>1
  <1>3. v = u + n * q
    BY <1>1, <1>2
  <1>4. v % n = u % n
    BY <1>3, ModShift
  <1> QED
    BY <1>1, <1>2, <1>4

(* Numbers closer to each other than n have different remainders. *)
LEMMA ModNear ==
  ASSUME NEW n \in Int, n > 0, NEW x \in Int, NEW y \in Int, x % n = y % n, x - y < n, y - x < n
  PROVE  x = y
  <1>1. PICK q \in Int, r \in Int : q = x \div n /\ r = x % n /\ 0 <= r /\ r < n /\ x = n * q + r
    BY DivMod
  <1>2. PICK p \in Int : p = y \div n /\ y = n * p + r
    <2>1. PICK p \in Int, s \in Int : p = y \div n /\ s = y % n /\ 0 <= s /\ s < n /\ y = n * p + s
      BY DivMod
    <2> QED
      BY <1>1, <2>1
  <1>3. PICK d \in Int : d = q - p
    OBVIOUS
  <1>4. n * d = x - y
    BY <1>1, <1>2, <1>3
  <1>5. (d >= 1 => n * d >= n) /\ (d <= -1 => n * d <= -n)
    BY SMTT(30)
  <1>6. d = 0
    BY <1>4, <1>5
  <1> QED
    BY <1>4, <1>6

(* The place of any number is that of one of n consecutive numbers. *)
LEMMA ModCovers ==
  ASSUME NEW n \in Int, n > 0, NEW x \in Int, NEW low \in Int
  PROVE  \E y \in Int : low <= y /\ y < low + n /\ y % n = x % n
  <1>1. PICK z \in Int : z = x - low
    OBVIOUS
  <1>2. PICK q \in Int, r \in Int : q = z \div n /\ r = z % n /\ 0 <= r /\ r < n /\ z = n * q + r
    BY DivMod
  <1>3. PICK y \in Int : y = low + r
    BY <1>2
  <1>4. x = y + n * q
    BY <1>1, <1>2, <1>3
  <1>5. x % n = y % n
    BY <1>4, ModShift
  <1> QED
    BY <1>2, <1>3, <1>5

(***************************************************************************)
(* Arithmetic of blocks: they are numbered in the order of their items     *)
(***************************************************************************)

Num(i) == i \div BLOCK_SIZE
Start(p) == BLOCK_SIZE * p
Items(p) == Start(p)..(Start(p) + BLOCK_SIZE - 1)

(* A block has two items at least. *)
LEMMA BlockSize == BLOCK_SIZE \in Int /\ BLOCK_SIZE >= 2
  BY SizeAssumption

(* The first items of blocks.  None is the key of an entry without a block. *)
LEMMA Starts ==
  /\ \A p \in Int : Start(p) \in Int /\ Start(p) # INVALID_BLOCK_BASE
  /\ \A p, q \in Int : p < q => Start(p) + BLOCK_SIZE <= Start(q)
  /\ \A p, k \in Int : Start(p) + BLOCK_SIZE * k = Start(p + k)
  /\ \A p, q \in Int : (Start(p) - Start(q)) \div BLOCK_SIZE = p - q
  /\ Start(0) = 0
  <1>1. \A p \in Int : Start(p) \in Int
    BY BlockSize DEF Start
  <1>2. ASSUME NEW p \in Int, NEW q \in Int, p < q PROVE Start(p) + BLOCK_SIZE <= Start(q)
    <2>1. PICK d \in Int : d = q - p /\ d >= 1
      BY <1>2
    <2>2. \A b \in Int : b >= 2 => b * d >= b
      BY <2>1, SMTT(30)
    <2>3. BLOCK_SIZE * q = BLOCK_SIZE * p + BLOCK_SIZE * d
      BY BlockSize, <2>1
    <2> QED
      BY BlockSize, <2>2, <2>3 DEF Start
  <1>3. \A p, k \in Int : Start(p) + BLOCK_SIZE * k = Start(p + k)
    BY BlockSize DEF Start
  <1>4. ASSUME NEW p \in Int, NEW q \in Int PROVE (Start(p) - Start(q)) \div BLOCK_SIZE = p - q
    <2>1. PICK x \in Int, d \in Int : x = Start(p) - Start(q) /\ d = p - q
      BY <1>1
    <2>2. x = BLOCK_SIZE * d + 0
      BY BlockSize, <2>1 DEF Start
    <2> QED
      BY BlockSize, <2>1, <2>2, ModOf
  <1>5. Start(0) = 0
    BY BlockSize DEF Start
  <1>6. ASSUME NEW p \in Int PROVE Start(p) # INVALID_BLOCK_BASE
    <2>1. p <= 0 => Start(p) <= 0
      BY BlockSize, <1>1, <1>2, <1>5
    <2>2. p > 0 => Start(p) >= BLOCK_SIZE
      BY BlockSize, <1>1, <1>2, <1>5
    <2> QED
      BY BlockSize, <1>1, <2>1, <2>2 DEF INVALID_BLOCK_BASE
  <1> QED
    BY <1>1, <1>2, <1>3, <1>4, <1>5, <1>6

(* An item's block, and its place there. *)
LEMMA Nums ==
  /\ \A i \in Int : /\ Num(i) \in Int /\ Base(i) = Start(Num(i))
                    /\ Start(Num(i)) <= i /\ i < Start(Num(i)) + BLOCK_SIZE
                    /\ Offset(i) = i - Start(Num(i))
  /\ \A i, p \in Int : Start(p) <= i /\ i < Start(p) + BLOCK_SIZE => Num(i) = p
  /\ \A i, j \in Int : i <= j => Num(i) <= Num(j)
  <1>1. ASSUME NEW i \in Int
        PROVE  /\ Num(i) \in Int /\ Base(i) = Start(Num(i))
               /\ Start(Num(i)) <= i /\ i < Start(Num(i)) + BLOCK_SIZE
               /\ Offset(i) = i - Start(Num(i))
    <2>1. PICK q \in Int, r \in Int : /\ q = i \div BLOCK_SIZE /\ r = i % BLOCK_SIZE
                                     /\ 0 <= r /\ r < BLOCK_SIZE /\ i = BLOCK_SIZE * q + r
      BY BlockSize, DivMod
    <2>2. Num(i) = q /\ Base(i) = BLOCK_SIZE * q /\ Start(Num(i)) = BLOCK_SIZE * q /\ Offset(i) = r
      BY <2>1 DEF Num, Base, Offset, Start
    <2>3. PICK m \in Int : m = BLOCK_SIZE * q
      BY BlockSize, <2>1
    <2>4. i = m + r
      BY <2>1, <2>3
    <2> QED
      BY BlockSize, <2>1, <2>2, <2>3, <2>4
  <1>2. ASSUME NEW i \in Int, NEW p \in Int, Start(p) <= i, i < Start(p) + BLOCK_SIZE
        PROVE  Num(i) = p
    <2>1. PICK q \in Int, s \in Int, t \in Int :
            q = Num(i) /\ s = Start(q) /\ t = Start(p) /\ s <= i /\ i < s + BLOCK_SIZE
      BY <1>1, Starts
    <2>2. (p < q => t + BLOCK_SIZE <= s) /\ (q < p => s + BLOCK_SIZE <= t)
      BY <2>1, Starts
    <2> QED
      BY BlockSize, <1>2, <2>1, <2>2
  <1>3. ASSUME NEW i \in Int, NEW j \in Int, i <= j PROVE Num(i) <= Num(j)
    <2>1. PICK p \in Int, q \in Int, s \in Int, t \in Int :
            p = Num(i) /\ s = Start(p) /\ q = Num(j) /\ t = Start(q) /\ s <= i /\ j < t + BLOCK_SIZE
      BY <1>1, Starts
    <2>2. q < p => t + BLOCK_SIZE <= s
      BY <2>1, Starts
    <2> QED
      BY BlockSize, <1>3, <2>1, <2>2
  <1> QED
    BY <1>1, <1>2, <1>3

(* The numbers of blocks that the code computes. *)
LEMMA BlockNumbers ==
  /\ \A n \in Int : FirstBlock(n) = Start(Num(n - 1) + 1)
  /\ \A n, k \in Int : BlocksNeeded(n, k) = Num(n + k - 1) - Num(n - 1)
  /\ \A i \in Int : Num(i) >= 0 <=> i >= 0
  <1>1. ASSUME NEW n \in Int PROVE FirstBlock(n) = Start(Num(n - 1) + 1)
    <2>1. Num(n - 1) \in Int /\ Base(n - 1) = Start(Num(n - 1))
      BY Nums
    <2>2. Start(Num(n - 1)) + BLOCK_SIZE * 1 = Start(Num(n - 1) + 1)
      BY <2>1, Starts
    <2> QED
      BY BlockSize, <2>1, <2>2 DEF FirstBlock
  <1>2. ASSUME NEW n \in Int, NEW k \in Int PROVE BlocksNeeded(n, k) = Num(n + k - 1) - Num(n - 1)
    <2>1. /\ Num(n - 1) \in Int /\ Base(n - 1) = Start(Num(n - 1))
          /\ Num(n + k - 1) \in Int /\ Base(n + k - 1) = Start(Num(n + k - 1))
      BY Nums
    <2>2. PICK p \in Int, q \in Int, m \in Int : m = n + k - 1 /\ p = Num(m) /\ q = Num(n - 1)
      BY <2>1
    <2>3. (Start(p) - Start(q)) \div BLOCK_SIZE = p - q
      BY <2>2, Starts
    <2> QED
      BY <2>1, <2>2, <2>3 DEF BlocksNeeded
  <1>3. ASSUME NEW i \in Int PROVE Num(i) >= 0 <=> i >= 0
    <2>1. PICK p \in Int, s \in Int : p = Num(i) /\ s = Start(p) /\ s <= i /\ i < s + BLOCK_SIZE
      BY Nums, Starts
    <2>2. PICK z \in Int : z = 0
      OBVIOUS
    <2>3. Start(z) = 0
      BY <2>2, Starts
    <2>4. (z < p => Start(z) + BLOCK_SIZE <= s) /\ (p < z => s + BLOCK_SIZE <= Start(z))
      BY <2>1, Starts
    <2> QED
      BY BlockSize, <2>1, <2>2, <2>3, <2>4
  <1> QED
    BY <1>1, <1>2, <1>3

(* The items of a block are those with its number. *)
LEMMA ItemsFacts ==
  ASSUME NEW p \in Int
  PROVE  /\ \A i : i \in Items(p) <=> i \in Int /\ Num(i) = p
         /\ Start(p) \in Items(p)
  <1>1. PICK s \in Int : s = Start(p)
    BY Starts
  <1>2. \A i : i \in Items(p) <=> i \in Int /\ s <= i /\ i < s + BLOCK_SIZE
    BY <1>1, BlockSize DEF Items
  <1>3. \A i \in Int : s <= i /\ i < s + BLOCK_SIZE => Num(i) = p
    BY <1>1, Nums
  <1>4. \A i \in Int : Num(i) = p => s <= i /\ i < s + BLOCK_SIZE
    BY <1>1, Nums
  <1> QED
    BY <1>1, <1>2, <1>3, <1>4, BlockSize

(***************************************************************************)
(* Types of the blocks and their index                                     *)
(***************************************************************************)

Headers == UNION {[capacity : {n}, tail : 0..(n - 1), index : [0..(n - 1) -> Int]] : n \in Nat \ {0, 1}}
Entries == [key : Int, value : Block \union {Null, Wild}]
Calls == [pc : {"idle", "insert", "advance", "requisition", "undo", "write"},
          count : Nat, alloc : Seq(Block), slot : Int]
Walks == [pc : {"index", "key", "take", "unlink", "release", "return"},
          hdr : Int, at : Int, block : Block \union {Null}, out : Seq(Int)]

StorageTypeOK ==
  /\ tailBlock \in Block \union {Null}
  /\ entry \in Seq(Entries) /\ header \in Seq(Headers) /\ header # <<>>
  /\ slots \in [Block -> [0..(BLOCK_SIZE - 1) -> Int]]
  /\ completely \in [Block -> Int] /\ pool \in [Block -> Nat]
  /\ prod \in Calls /\ walk \in [Consumer -> Walks]
  /\ fails \in Nat /\ destroyed \in BOOLEAN

(* The parts of a header; its tail may move. *)
LEMMA HeaderFacts ==
  /\ \A h \in Headers : /\ h.capacity \in Int /\ h.capacity >= 2
                        /\ h.tail \in Int /\ 0 <= h.tail /\ h.tail < h.capacity
                        /\ h.index \in [0..(h.capacity - 1) -> Int]
                        /\ DOMAIN h = {"capacity", "tail", "index"}
  /\ \A h \in Headers, t \in Int : 0 <= t /\ t < h.capacity => [h EXCEPT !.tail = t] \in Headers
  <1>1. ASSUME NEW h \in Headers
        PROVE  \E n \in Int : /\ n >= 2
                              /\ h \in [capacity : {n}, tail : 0..(n - 1), index : [0..(n - 1) -> Int]]
    BY DEF Headers
  <1>2. ASSUME NEW h \in Headers
        PROVE  /\ h.capacity \in Int /\ h.capacity >= 2
               /\ h.tail \in Int /\ 0 <= h.tail /\ h.tail < h.capacity
               /\ h.index \in [0..(h.capacity - 1) -> Int]
               /\ DOMAIN h = {"capacity", "tail", "index"}
    BY <1>1
  <1>3. ASSUME NEW h \in Headers, NEW t \in Int, 0 <= t, t < h.capacity
        PROVE  [h EXCEPT !.tail = t] \in Headers
    <2>1. PICK n \in Int : /\ n >= 2
                           /\ h \in [capacity : {n}, tail : 0..(n - 1), index : [0..(n - 1) -> Int]]
      BY <1>1
    <2>2. t \in 0..(n - 1)
      BY <1>3, <2>1
    <2>3. [h EXCEPT !.tail = t] \in [capacity : {n}, tail : 0..(n - 1), index : [0..(n - 1) -> Int]]
      BY <2>1, <2>2
    <2>4. n \in Nat \ {0, 1}
      BY <2>1
    <2> QED
      BY <2>3, <2>4 DEF Headers
  <1> QED
    BY <1>2, <1>3

(***************************************************************************)
(* The inductive invariant                                                 *)
(***************************************************************************)

(* The number of the block of the last published item, of the block at the *)
(* tail of the index, and of the last block the call under way has reached.*)
Published == Num(tailIndex - 1)
LastNum == Published + Len(prod.alloc) + (IF prod.pc = "requisition" THEN 1 ELSE 0)
             - (IF prod.pc = "undo" THEN prod.slot ELSE 0)
Top == Published + Len(prod.alloc) + (IF prod.pc \in {"advance", "requisition"} THEN 1 ELSE 0)

Cap == current.capacity

(* Where the index has the p-th block. *)
EntryAt(p) == current.index[(current.tail + p - LastNum) % Cap]
BlockAt(p) == entry[EntryAt(p)].value

(* An item is gone when it is claimed and has been read. *)
Gone(i) == i < headIndex /\ \A c \in Consumer : claim[c].pc = "claimed" => i \notin Claims(c)
DoneIn(p) == {i \in Items(p) : Gone(i)}
Full(p) == \A i \in Items(p) : Gone(i)

(* Consumer c has emptied the p-th block and not unlinked it. *)
Emptier(c, p) == claim[c].pc = "claimed" /\ walk[c].pc = "unlink" /\ Num(claim[c].next - 1) = p

(* The blocks in the index: those of the call under way, and the published *)
(* ones with an item that is not gone, or not unlinked yet.                *)
InCall(p) == /\ Published < p /\ p <= Published + Len(prod.alloc)
             /\ prod.pc = "undo" => p > Published + prod.slot
Alive(p) == \/ 0 <= p /\ p <= Published /\ (~Full(p) \/ \E c \in Consumer : Emptier(c, p))
            \/ InCall(p)

(* The blocks that the call under way adds. *)
Needed == Num(tailIndex + prod.count - 1) - Published

(* How far the call under way is. *)
ProdInv ==
  /\ prod.slot >= 0
  /\ prod.pc = "idle" => prod.alloc = <<>>
  /\ prod.pc # "idle" => prod.count > 0
  /\ prod.pc \in {"insert", "advance", "requisition"} => Len(prod.alloc) < Needed
  /\ prod.pc = "write" => Len(prod.alloc) = Needed
  /\ prod.pc \in {"idle", "insert", "write"} => prod.slot = 0
  /\ prod.pc = "undo" => prod.slot <= Len(prod.alloc)
  /\ prod.pc = "advance" => prod.slot = NewTail
  /\ prod.pc = "requisition" => prod.slot = current.tail

(* The index leads to each entry once. *)
IndexShape ==
  /\ \A h \in DOMAIN header : \A i \in 0..(header[h].capacity - 1) : header[h].index[i] \in DOMAIN entry
  /\ Len(entry) = Cap
  /\ \A i, j \in 0..(Cap - 1) : current.index[i] = current.index[j] => i = j
  /\ \A e \in DOMAIN entry : \E i \in 0..(Cap - 1) : current.index[i] = e

(* What IndexShape means for EntryAt. *)
LEMMA Numbers ==
  ASSUME StorageTypeOK, CountersTypeOK, ProdInv
  PROVE  /\ Published \in Int /\ -1 <= Published /\ LastNum \in Int /\ Top \in Int
         /\ Published <= LastNum /\ LastNum <= Top /\ Len(prod.alloc) \in Nat
         /\ current \in Headers /\ blockIndex \in DOMAIN header /\ blockIndex \in Int
         /\ Cap \in Int /\ Cap >= 2 /\ current.tail \in Int /\ 0 <= current.tail /\ current.tail < Cap
         /\ NewTail \in Int /\ 0 <= NewTail /\ NewTail < Cap /\ NewTail = (current.tail + 1) % Cap
  <1>1. Published \in Int /\ -1 <= Published
    <2>1. PICK t \in Int, p \in Int : t = tailIndex - 1 /\ t >= -1 /\ p = Num(t)
      BY Nums DEF CountersTypeOK
    <2>2. PICK t2 \in Int, p2 \in Int : t2 = -1 /\ p2 = Num(t2) /\ t2 <= t
      BY <2>1, Nums
    <2>3. p2 <= p
      BY <2>1, <2>2, Nums
    <2>4. p2 = -1
      <3>1. PICK m \in Int : m = -1 /\ Start(m) = -BLOCK_SIZE
        BY BlockSize DEF Start
      <3>2. Start(m) <= t2 /\ t2 < Start(m) + BLOCK_SIZE
        BY <2>2, <3>1, BlockSize
      <3> QED
        BY <2>2, <3>1, <3>2, Nums
    <2> QED
      BY <2>1, <2>3, <2>4 DEF Published
  <1>2. prod.alloc \in Seq(Block) /\ prod.slot \in Int /\ Len(prod.alloc) \in Nat
    BY DEF StorageTypeOK, Calls
  <1>3. LastNum \in Int /\ Top \in Int /\ Published <= LastNum /\ LastNum <= Top
    <2>1. prod.slot >= 0 /\ (prod.pc = "undo" => prod.slot <= Len(prod.alloc))
      BY DEF ProdInv
    <2>6. PICK p \in Int, n \in Int, s \in Int :
            p = Published /\ n = Len(prod.alloc) /\ s = prod.slot /\ n >= 0 /\ s >= 0
      BY <1>1, <1>2, <2>1
    <2>2. CASE prod.pc = "undo"
      <3>1. LastNum = p + n - s /\ Top = p + n
        <4>1. LastNum = p + n + 0 - s /\ Top = p + n + 0
          BY <2>2, <2>6 DEF LastNum, Top
        <4>2. p + n + 0 - s = p + n - s /\ p + n + 0 = p + n
          BY AddZero, SMT
        <4> QED
          BY <4>1, <4>2, Zenon
      <3>2. s <= n
        BY <2>1, <2>2, <2>6
      <3>3. PICK m \in Int, r \in Int : m = p + n - s /\ r = p + n /\ p <= m /\ m <= r
        BY <2>6, <3>2
      <3> QED
        BY <2>6, <3>1, <3>3
    <2>3. CASE prod.pc = "requisition"
      <3>1. LastNum = p + n + 1 /\ Top = p + n + 1
        BY <2>3, <2>6 DEF LastNum, Top
      <3> QED
        BY <2>6, <3>1
    <2>4. CASE prod.pc = "advance"
      <3>1. LastNum = p + n /\ Top = p + n + 1
        BY <2>4, <2>6 DEF LastNum, Top
      <3> QED
        BY <2>6, <3>1
    <2>5. CASE prod.pc # "undo" /\ prod.pc # "requisition" /\ prod.pc # "advance"
      <3>1. LastNum = p + n + 0 - 0 /\ Top = p + n + 0
        BY <2>5, <2>6 DEF LastNum, Top
      <3> QED
        BY <2>6, <3>1
    <2> QED
      BY <2>2, <2>3, <2>4, <2>5
  <1>4. current \in Headers /\ blockIndex \in DOMAIN header /\ blockIndex \in Int
    BY DEF StorageTypeOK, current, blockIndex
  <1>5. Cap \in Int /\ Cap >= 2 /\ current.tail \in Int /\ 0 <= current.tail /\ current.tail < Cap
    BY <1>4, HeaderFacts DEF Cap
  <1>6. NewTail \in Int /\ 0 <= NewTail /\ NewTail < Cap /\ NewTail = (current.tail + 1) % Cap
    <2>1. PICK n \in Int, x \in Int : n = Cap /\ x = current.tail + 1 /\ n > 0
      BY <1>5
    <2>2. x % n \in Int /\ 0 <= x % n /\ x % n < n
      BY <2>1, DivMod
    <2> QED
      BY <2>1, <2>2 DEF NewTail, Cap
  <1> QED
    BY <1>1, <1>2, <1>3, <1>4, <1>5, <1>6

(* Cap consecutive blocks have different places, and all the places. *)
LEMMA PlaceFacts ==
  ASSUME StorageTypeOK, CountersTypeOK, ProdInv, IndexShape
  PROVE  /\ \A p \in Int : EntryAt(p) \in DOMAIN entry
         /\ \A p, q \in Int : EntryAt(p) = EntryAt(q) /\ p - q < Cap /\ q - p < Cap => p = q
         /\ \A e \in DOMAIN entry, low \in Int : \E p \in Int : low <= p /\ p < low + Cap /\ e = EntryAt(p)
         /\ EntryAt(LastNum) = current.index[current.tail]
         /\ EntryAt(LastNum + 1) = current.index[NewTail]
         /\ \A p, q \in Int : p = q + Cap => EntryAt(p) = EntryAt(q)
  <1>1. PICK n \in Int, t \in Int, l \in Int :
          n = Cap /\ t = current.tail /\ l = LastNum /\ n > 0 /\ 0 <= t /\ t < n
    BY Numbers
  <1>2. PICK f : f = current.index
    OBVIOUS
  <1>3. \A p : EntryAt(p) = f[(t + p - l) % n]
    BY <1>1, <1>2 DEF EntryAt
  <1>4. \A i, j \in Int : 0 <= i /\ i < n /\ 0 <= j /\ j < n /\ f[i] = f[j] => i = j
    BY <1>1, <1>2 DEF IndexShape
  <1>5. \A i \in Int : 0 <= i /\ i < n => f[i] \in DOMAIN entry
    <2>1. \A i \in 0..(header[blockIndex].capacity - 1) : header[blockIndex].index[i] \in DOMAIN entry
      BY Numbers DEF IndexShape
    <2>2. header[blockIndex].capacity = n /\ header[blockIndex].index = f
      BY <1>1, <1>2 DEF Cap, current
    <2> QED
      BY <1>1, <2>1, <2>2
  <1>6. \A p \in Int : t + p - l \in Int /\ (t + p - l) % n \in Int /\ 0 <= (t + p - l) % n /\ (t + p - l) % n < n
    <2>1. TAKE p \in Int
    <2>2. PICK x \in Int : x = t + p - l
      OBVIOUS
    <2> QED
      BY <1>1, <2>2, DivMod
  <1>7. \A p \in Int : EntryAt(p) \in DOMAIN entry
    BY <1>3, <1>5, <1>6
  <1>8. ASSUME NEW p \in Int, NEW q \in Int, EntryAt(p) = EntryAt(q), p - q < n, q - p < n
        PROVE  p = q
    <2>1. PICK x \in Int, y \in Int : x = t + p - l /\ y = t + q - l
      OBVIOUS
    <2>2. x % n = y % n
      BY <1>3, <1>4, <1>6, <1>8, <2>1
    <2>3. x = y
      BY <1>1, <1>8, <2>1, <2>2, ModNear
    <2> QED
      BY <2>1, <2>3
  <1>9. ASSUME NEW e \in DOMAIN entry, NEW low \in Int
        PROVE  \E p \in Int : low <= p /\ p < low + n /\ e = EntryAt(p)
    <2>1. PICK i \in Int : 0 <= i /\ i < n /\ f[i] = e
      <3>1. PICK i \in 0..(Cap - 1) : current.index[i] = e
        BY Zenon DEF IndexShape
      <3>2. n = Cap /\ f = current.index
        BY <1>1, <1>2
      <3> QED
        BY <3>1, <3>2
    <2>2. PICK s \in Int : s = low + t - l
      OBVIOUS
    <2>3. PICK y \in Int : s <= y /\ y < s + n /\ y % n = i % n
      <3>1. n > 0
        BY <1>1
      <3> QED
        BY <3>1, ModCovers
    <2>4. i % n = i
      BY <1>1, <2>1, ModSmall
    <2>5. PICK p \in Int : p = y - t + l
      OBVIOUS
    <2>6. t + p - l = y
      BY <2>5
    <2>7. EntryAt(p) = e
      BY <1>3, <2>1, <2>3, <2>4, <2>6
    <2> QED
      BY <2>2, <2>3, <2>5, <2>7
  <1>10. EntryAt(l) = f[t] /\ EntryAt(l + 1) = f[(t + 1) % n]
    <2>1. t + l - l = t /\ t + (l + 1) - l = t + 1
      OBVIOUS
    <2>2. t % n = t
      BY <1>1, ModSmall
    <2> QED
      BY <1>3, <2>1, <2>2
  <1>11. ASSUME NEW p \in Int, NEW q \in Int, p = q + n PROVE EntryAt(p) = EntryAt(q)
    <2>1. PICK x \in Int, y \in Int : x = t + p - l /\ y = t + q - l
      OBVIOUS
    <2>2. PICK k \in Int : k = 1 /\ x = y + n * k
      BY <1>11, <2>1
    <2>3. x % n = y % n
      BY <1>1, <2>2, ModShift
    <2> QED
      BY <1>3, <2>1, <2>3
  <1> QED
    BY <1>1, <1>2, <1>7, <1>8, <1>9, <1>10, <1>11, Numbers

(* The index and its keys: H is the highest number a key was set for.  The *)
(* places of the H-th block and those before it hold their own keys.       *)
Window(H) ==
  /\ Top <= H /\ H <= Published + Cap
  /\ \A p \in Int : Alive(p) => H - Cap < p
  /\ \A p \in Int : H - Cap < p /\ p <= H => entry[EntryAt(p)].key \in {INVALID_BLOCK_BASE, Start(p)}
  /\ \A p \in Int : Published < p /\ p <= H => entry[EntryAt(p)].key = Start(p)
  /\ \A p, q \in Int : Alive(q) /\ q <= p /\ p <= H => entry[EntryAt(p)].key = Start(p)

(* The block whose entry has its key and no value yet. *)
Unset(p) ==
  \/ prod.pc = "advance" /\ p = LastNum + 1
  \/ prod.pc = "requisition" /\ p = LastNum

(* The entries with a block are those of the blocks in the index. *)
Values ==
  /\ \A p \in Int : Alive(p) => BlockAt(p) \in Block
  /\ \A e \in DOMAIN entry : entry[e].value \in Block => \E p \in Int : Alive(p) /\ e = EntryAt(p)
  /\ \A p \in Int : InCall(p) => BlockAt(p) = prod.alloc[p - Published]
  /\ \A e \in DOMAIN entry :
       entry[e].key # INVALID_BLOCK_BASE /\ entry[e].value \notin Block /\ entry[e].value # Null =>
         \E p \in Int : Unset(p) /\ e = EntryAt(p)

(* The items that are not gone are in their blocks, at their offsets. *)
Content ==
  \A i \in Int : 0 <= i /\ i < tailIndex /\ ~Gone(i) => slots[BlockAt(Num(i))][Offset(i)] = i

(* The count of a block is that of its items that are gone. *)
Counts == \A p \in Int : Alive(p) => completely[BlockAt(p)] = Cardinality(DoneIn(p))

(* The block of the last item, unless it is full. *)
TailBlock == 0 <= Published /\ ~Full(Published) => tailBlock = BlockAt(Published)

(* Only a full block is emptied, and by one consumer. *)
Emptiers ==
  \A c \in Consumer, p \in Int : Emptier(c, p) =>
    Full(p) /\ \A d \in Consumer : Emptier(d, p) => d = c

(* How far a consumer is, from its claim r and its way w. *)
WalkOk(r, w) ==
  /\ r.pc # "claimed" => w = WalkIdle
  /\ r.pc = "claimed" =>
       /\ w.pc \in {"index", "key", "take"} => r.next < r.last
       /\ w.pc = "return" => r.next = r.last
       /\ w.pc \in {"unlink", "release"} => r.next > 0 /\ w.block \in Block
       /\ w.pc \in {"unlink", "release"} /\ r.next < r.last => Num(r.next) = Num(r.next - 1) + 1
       /\ Len(w.out) + r.last - r.next > 0

LocalsOk == \A c \in Consumer : WalkOk(claim[c], walk[c])

(* The first block that consumer c still needs the index for. *)
First(c) == IF walk[c].pc \in {"unlink", "release"} THEN Num(claim[c].next - 1) ELSE Num(claim[c].next)
Last(c) == Num(claim[c].last - 1)

(* The slot of the index a consumer has found leads to its blocks: in "key" *)
(* it is that of some block r at the tail of the index.                    *)
Leads(c, r, low) ==
  LET h == header[walk[c].hdr]
  IN \A p \in Int : low <= p /\ p <= Last(c) =>
       h.index[(walk[c].at + p - r) % h.capacity] = EntryAt(p)

(* A consumer with claimed items is on the way to their blocks. *)
Way(c, H) ==
  /\ walk[c].pc \in {"key", "take", "unlink", "release"} =>
       /\ walk[c].hdr \in DOMAIN header
       /\ 0 <= walk[c].at /\ walk[c].at < header[walk[c].hdr].capacity
  /\ walk[c].pc = "key" =>
       \E r \in Int : /\ Last(c) <= r /\ r <= H
                      /\ header[walk[c].hdr].index[walk[c].at] = EntryAt(r)
                      /\ Leads(c, r, First(c))
  /\ walk[c].pc \in {"take", "unlink"} => Leads(c, First(c), First(c))
  /\ walk[c].pc = "release" => Leads(c, First(c), First(c) + 1)
  /\ walk[c].pc = "unlink" => walk[c].block = BlockAt(First(c))

Ways(H) == \A c \in Consumer : Way(c, H)

(* The places where a block may be, apart from the pool. *)
InEntry(b) == \E e \in DOMAIN entry : entry[e].value = b
Freeing(c, b) == walk[c].pc = "release" /\ walk[c].block = b
Undone(b) == prod.pc = "undo" /\ \E k \in DOMAIN prod.alloc : k <= prod.slot /\ prod.alloc[k] = b

(* A block is in one place, and once. *)
Places ==
  /\ \A e, f \in DOMAIN entry : entry[e].value \in Block /\ entry[e].value = entry[f].value => e = f
  /\ \A c, d \in Consumer, b \in Block : Freeing(c, b) /\ Freeing(d, b) => c = d
  /\ prod.pc = "undo" => \A k, l \in DOMAIN prod.alloc :
       k <= prod.slot /\ l <= prod.slot /\ prod.alloc[k] = prod.alloc[l] => k = l
  /\ \A b \in Block :
     /\ pool[b] = 1 \/ (pool[b] = 0 /\ (InEntry(b) \/ (\E c \in Consumer : Freeing(c, b)) \/ Undone(b)))
     /\ pool[b] = 1 => ~InEntry(b) /\ (\A c \in Consumer : ~Freeing(c, b)) /\ ~Undone(b)
     /\ InEntry(b) => (\A c \in Consumer : ~Freeing(c, b)) /\ ~Undone(b)
     /\ \A c \in Consumer : Freeing(c, b) => ~Undone(b)

(* After the destructor. *)
Ended == prod.pc = "idle" /\ (\A c \in Consumer : claim[c].pc = "idle") /\ \A b \in Block : pool[b] = 1

(* Before it. *)
Running(H) ==
  /\ ProdInv /\ IndexShape
  /\ Window(H) /\ Values /\ Content /\ Counts /\ TailBlock /\ Emptiers
  /\ Ways(H) /\ Places

(* The inductive invariant. *)
BlocksInv ==
  /\ CountersInv /\ StorageTypeOK /\ LocalsOk
  /\ destroyed => Ended
  /\ ~destroyed => \E H \in Int : Running(H)

(***************************************************************************)
(* What the invariant says of blocks in the index                          *)
(***************************************************************************)

(* headIndex has not passed tailIndex. *)
LEMMA HeadTail ==
  ASSUME CountersInv
  PROVE  headIndex \in Nat /\ tailIndex \in Nat /\ headIndex <= tailIndex
  <1>1. Total(Granted) \in Nat
    BY SumTypes, TotalType, ConsumerAssumption DEF CountersInv
  <1> QED
    BY <1>1 DEF CountersInv, CountersTypeOK, GrantedIsThere

(* What a consumer has claimed is below both counters, not gone, and its    *)
(* own.                                                                     *)
LEMMA ClaimFacts ==
  ASSUME CountersInv, NEW c \in Consumer, claim[c].pc = "claimed"
  PROVE  /\ claim[c].next \in Int /\ claim[c].last \in Int /\ 0 <= claim[c].next
         /\ claim[c].next <= claim[c].last /\ claim[c].last <= headIndex /\ claim[c].last <= tailIndex
         /\ \A i \in Int : claim[c].next <= i /\ i < claim[c].last => ~Gone(i)
         /\ \A i \in Int : claim[c].next <= i /\ i < claim[c].last =>
              \A d \in Consumer : claim[d].pc = "claimed" /\ d # c => ~(claim[d].next <= i /\ i < claim[d].last)
  <1>1. /\ claim[c].next \in Int /\ claim[c].last \in Int /\ 0 <= claim[c].next
        /\ claim[c].next <= claim[c].last /\ claim[c].last <= headIndex
    BY DEF CountersInv, CountersTypeOK, Locals, ClaimsBelowHead
  <1>2. \A i \in Int : claim[c].next <= i /\ i < claim[c].last => i \in Claims(c)
    BY <1>1 DEF Claims
  <1>3. ASSUME NEW i \in Int, i \in Claims(c), NEW d \in Consumer, claim[d].pc = "claimed", d # c
        PROVE  ~(claim[d].next <= i /\ i < claim[d].last)
    <2>1. i \notin Claims(d)
      BY <1>3 DEF CountersInv, ClaimsDisjoint
    <2>2. claim[d].next \in Int /\ claim[d].last \in Int
      BY DEF CountersInv, CountersTypeOK, Locals
    <2> QED
      BY <2>1, <2>2 DEF Claims
  <1> QED
    BY <1>1, <1>2, <1>3, HeadTail DEF Gone

(* A published item that is not gone has its block in the index. *)
LEMMA AliveFacts ==
  ASSUME CountersInv, StorageTypeOK, ProdInv
  PROVE  /\ \A p \in Int : Alive(p) => 0 <= p /\ p <= Published + Len(prod.alloc) /\ p <= Top
         /\ \A i \in Int : 0 <= i /\ i < tailIndex /\ ~Gone(i) =>
              0 <= Num(i) /\ Num(i) <= Published /\ ~Full(Num(i)) /\ Alive(Num(i))
         /\ \A p \in Int : Published < p => DoneIn(p) = {} /\ ~Full(p)
         /\ \A i \in Int : i < tailIndex => Num(i) <= Published
         /\ \A i \in Int : Num(i) <= Published => i < Start(Published) + BLOCK_SIZE
  <1>1. Published \in Int /\ -1 <= Published /\ Len(prod.alloc) \in Nat /\ Top \in Int
    BY Numbers DEF CountersInv
  <1>2. Published + Len(prod.alloc) <= Top
    <2>1. CASE prod.pc \in {"advance", "requisition"}
      <3>1. Top = Published + Len(prod.alloc) + 1
        BY <2>1 DEF Top
      <3> QED
        BY <1>1, <3>1
    <2>2. CASE prod.pc \notin {"advance", "requisition"}
      <3>1. Top = Published + Len(prod.alloc) + 0
        BY <2>2 DEF Top
      <3> QED
        BY <1>1, <3>1
    <2> QED
      BY <2>1, <2>2
  <1>3. ASSUME NEW p \in Int, Alive(p)
        PROVE  0 <= p /\ p <= Published + Len(prod.alloc) /\ p <= Top
    BY <1>1, <1>2, <1>3 DEF Alive, InCall
  <1>4. \A i \in Int : i < tailIndex => Num(i) <= Published
    <2>1. TAKE i \in Int
    <2>2. PICK t \in Int : t = tailIndex - 1
      BY HeadTail
    <2>3. i < tailIndex => i <= t
      BY <2>2, HeadTail
    <2>4. Published = Num(t)
      BY <2>2 DEF Published
    <2> QED
      BY <2>3, <2>4, Nums
  <1>5. \A i \in Int : i \in Items(Num(i))
    BY Nums, ItemsFacts
  <1>6. ASSUME NEW i \in Int, 0 <= i, i < tailIndex, ~Gone(i)
        PROVE  0 <= Num(i) /\ Num(i) <= Published /\ ~Full(Num(i)) /\ Alive(Num(i))
    <2>1. 0 <= Num(i) /\ Num(i) <= Published
      BY <1>4, <1>6, BlockNumbers, Nums
    <2>2. ~Full(Num(i))
      BY <1>5, <1>6 DEF Full
    <2> QED
      BY <2>1, <2>2 DEF Alive
  <1>7. ASSUME NEW p \in Int, Published < p PROVE DoneIn(p) = {} /\ ~Full(p)
    <2>1. \A i \in Items(p) : i \in Int /\ Num(i) = p
      BY ItemsFacts
    <2>2. \A i \in Items(p) : tailIndex <= i
      BY <1>1, <1>4, <1>7, <2>1, HeadTail
    <2>3. \A i \in Items(p) : ~Gone(i)
      BY <2>1, <2>2, HeadTail DEF Gone
    <2>4. Start(p) \in Items(p)
      BY ItemsFacts
    <2> QED
      BY <2>3, <2>4 DEF DoneIn, Full
  <1>8. ASSUME NEW i \in Int, Num(i) <= Published PROVE i < Start(Published) + BLOCK_SIZE
    <2>1. PICK a \in Int, s \in Int, t \in Int : a = Num(i) /\ s = Start(a) /\ t = Start(Published) /\ i < s + BLOCK_SIZE
      BY <1>1, Nums, Starts
    <2>2. a < Published => s + BLOCK_SIZE <= t
      BY <1>1, <2>1, Starts
    <2> QED
      BY <1>1, <1>8, <2>1, <2>2, BlockSize
  <1> QED
    BY <1>3, <1>4, <1>6, <1>7, <1>8

(* Who empties a block has it in the index. *)
LEMMA EmptierFacts ==
  ASSUME CountersInv, StorageTypeOK, ProdInv, LocalsOk, NEW c \in Consumer, claim[c].pc = "claimed"
  PROVE  /\ walk[c].pc = "unlink" => Emptier(c, First(c)) /\ Alive(First(c))
         /\ walk[c].pc \in {"unlink", "release"} => First(c) \in Int /\ 0 <= First(c) /\ First(c) <= Published
         /\ claim[c].next < claim[c].last => /\ Alive(Num(claim[c].next)) /\ ~Full(Num(claim[c].next))
                                             /\ Num(claim[c].next) \in Int /\ Num(claim[c].next) <= Last(c)
         /\ Last(c) \in Int /\ Last(c) <= Published
         /\ walk[c].pc \in {"unlink", "release"} /\ claim[c].next = claim[c].last => First(c) = Last(c)
  <1> PICK next \in Int, last \in Int : next = claim[c].next /\ last = claim[c].last
    BY ClaimFacts
  <1>1. 0 <= next /\ next <= last /\ last <= tailIndex /\ \A i \in Int : next <= i /\ i < last => ~Gone(i)
    BY ClaimFacts
  <1>2. PICK n \in Int, l \in Int : n = next - 1 /\ l = last - 1
    OBVIOUS
  <1>3. WalkOk(claim[c], walk[c])
    BY DEF LocalsOk
  <1>4. Last(c) \in Int /\ Last(c) <= Published
    <2>1. l < tailIndex
      BY <1>1, <1>2, HeadTail
    <2> QED
      BY <1>2, <2>1, AliveFacts, Nums DEF Last
  <1>5. ASSUME walk[c].pc \in {"unlink", "release"} PROVE First(c) \in Int /\ 0 <= First(c) /\ First(c) <= Published
    <2>1. First(c) = Num(n)
      BY <1>2, <1>5 DEF First
    <2>2. next > 0
      BY <1>3, <1>5 DEF WalkOk
    <2>3. n >= 0 /\ n < tailIndex
      BY <1>1, <1>2, <2>2, HeadTail
    <2> QED
      BY <2>1, <2>3, AliveFacts, Nums, BlockNumbers
  <1>6. ASSUME walk[c].pc = "unlink" PROVE Emptier(c, First(c)) /\ Alive(First(c))
    BY <1>5, <1>6 DEF Emptier, Alive, First
  <1>7. ASSUME next < last
        PROVE  Alive(Num(next)) /\ ~Full(Num(next)) /\ Num(next) \in Int /\ Num(next) <= Last(c)
    <2>1. next < tailIndex /\ next <= l
      BY <1>1, <1>2, <1>7, HeadTail
    <2> QED
      <3>1. ~Gone(next) /\ 0 <= next
        BY <1>1, <1>7
      <3>2. Alive(Num(next)) /\ ~Full(Num(next))
        BY <2>1, <3>1, AliveFacts
      <3>3. Num(next) \in Int /\ Num(next) <= Num(l) /\ Last(c) = Num(l)
        BY <1>2, <2>1, Nums DEF Last
      <3> QED
        BY <3>2, <3>3
  <1> QED
    BY <1>4, <1>5, <1>6, <1>7 DEF First, Last

(***************************************************************************)
(* What steps leave as it is                                               *)
(***************************************************************************)

(* If the same items are gone, the same blocks are full. *)
LEMMA SameGone ==
  ASSUME \A i \in Int : Gone(i)' <=> Gone(i)
  PROVE  \A p \in Int : DoneIn(p)' = DoneIn(p) /\ (Full(p)' <=> Full(p))
  <1> SUFFICES ASSUME NEW p \in Int PROVE DoneIn(p)' = DoneIn(p) /\ (Full(p)' <=> Full(p))
    OBVIOUS
  <1>1. \A i \in Items(p) : i \in Int
    BY ItemsFacts
  <1> QED
    BY <1>1 DEF DoneIn, Full

(* A step that moves no consumer makes no item go. *)
LEMMA OwnerGone ==
  ASSUME claim' = claim, headIndex' = headIndex, walk' = walk
  PROVE  /\ \A i \in Int : Gone(i)' <=> Gone(i)
         /\ \A p \in Int : DoneIn(p)' = DoneIn(p) /\ (Full(p)' <=> Full(p))
         /\ \A c \in Consumer, p \in Int : Emptier(c, p)' <=> Emptier(c, p)
         /\ LocalsOk => LocalsOk'
  <1>1. \A i \in Int : Gone(i)' <=> Gone(i)
    BY DEF Gone, Claims
  <1>2. \A c \in Consumer, p \in Int : Emptier(c, p)' <=> Emptier(c, p)
    BY DEF Emptier
  <1>3. LocalsOk => LocalsOk'
    BY DEF LocalsOk
  <1> QED
    BY <1>1, <1>2, <1>3, SameGone

(* The index keeps its blocks if none is published, filled, emptied or      *)
(* added.                                                                   *)
LEMMA AliveKept ==
  ASSUME Published' = Published,
         \A p \in Int : Full(p)' <=> Full(p),
         \A c \in Consumer, p \in Int : Emptier(c, p)' <=> Emptier(c, p),
         \A p \in Int : InCall(p)' <=> InCall(p)
  PROVE  \A p \in Int : Alive(p)' <=> Alive(p)
  BY DEF Alive

(* Content, if no slot is written and no block with unread items moves. *)
LEMMA ContentKept ==
  ASSUME CountersInv, StorageTypeOK, ProdInv, Content,
         tailIndex' = tailIndex, slots' = slots,
         \A i \in Int : Gone(i)' <=> Gone(i),
         \A p \in Int : Alive(p) /\ p <= Published /\ ~Full(p) => BlockAt(p)' = BlockAt(p)
  PROVE  Content'
  <1> SUFFICES ASSUME NEW i \in Int, 0 <= i, i < tailIndex, ~Gone(i)
               PROVE  slots[BlockAt(Num(i))'][Offset(i)] = i
    BY DEF Content
  <1>1. Num(i) \in Int /\ Alive(Num(i)) /\ Num(i) <= Published /\ ~Full(Num(i))
    BY AliveFacts, Nums
  <1>2. BlockAt(Num(i))' = BlockAt(Num(i))
    BY <1>1
  <1>3. slots[BlockAt(Num(i))][Offset(i)] = i
    BY DEF Content
  <1> QED
    BY <1>2, <1>3

(* Counts, if none is written and no block comes or moves. *)
LEMMA CountsKept ==
  ASSUME Counts, completely' = completely,
         \A p \in Int : DoneIn(p)' = DoneIn(p),
         \A p \in Int : Alive(p)' => Alive(p) /\ BlockAt(p)' = BlockAt(p)
  PROVE  Counts'
  BY DEF Counts

(* TailBlock, if the block with the last item does not change. *)
LEMMA TailBlockKept ==
  ASSUME TailBlock, tailBlock' = tailBlock, Published' = Published, Published \in Int,
         \A p \in Int : Full(p) => Full(p)',
         0 <= Published /\ ~Full(Published) => BlockAt(Published)' = BlockAt(Published)
  PROVE  TailBlock'
  BY DEF TailBlock

(* Emptiers, if no consumer empties a block. *)
LEMMA EmptiersKept ==
  ASSUME Emptiers,
         \A p \in Int : Full(p) => Full(p)',
         \A c \in Consumer, p \in Int : Emptier(c, p)' => Emptier(c, p)
  PROVE  Emptiers'
  <1> SUFFICES ASSUME NEW c \in Consumer, NEW p \in Int, Emptier(c, p)'
               PROVE  Full(p)' /\ \A d \in Consumer : Emptier(d, p)' => d = c
    BY DEF Emptiers
  <1>1. Emptier(c, p)
    OBVIOUS
  <1>2. Full(p) /\ \A d \in Consumer : Emptier(d, p) => d = c
    BY <1>1 DEF Emptiers
  <1> QED
    BY <1>2

(* No key and no place changes. *)
LEMMA WindowKept ==
  ASSUME NEW H \in Int, Window(H), Cap' = Cap,
         Published \in Int, Published' \in Int, Published <= Published', Cap \in Int,
         Top' <= H,
         \A p \in Int : EntryAt(p) \in DOMAIN entry /\ EntryAt(p)' = EntryAt(p),
         \A e \in DOMAIN entry : entry'[e].key = entry[e].key,
         \A p \in Int : Alive(p)' => Alive(p) \/ Published < p
  PROVE  Window(H)'
  <1>0. \A p \in Int : entry'[EntryAt(p)'].key = entry[EntryAt(p)].key
    OBVIOUS
  <1>9. PICK p0 \in Int, q0 \in Int, n \in Int : p0 = Published /\ q0 = Published' /\ n = Cap
    OBVIOUS
  <1>7. H <= p0 + n
    BY <1>9 DEF Window
  <1>8. p0 <= q0
    BY <1>9
  <1>1. H <= q0 + n
    BY <1>7, <1>8
  <1>2. ASSUME NEW p \in Int, Alive(p)' PROVE H - n < p
    <2>1. CASE Alive(p)
      BY <1>9, <2>1 DEF Window
    <2>2. CASE p0 < p
      BY <1>7, <2>2
    <2> QED
      BY <1>2, <1>9, <2>1, <2>2
  <1>3. \A p \in Int : H - Cap < p /\ p <= H => entry'[EntryAt(p)'].key \in {INVALID_BLOCK_BASE, Start(p)}
    BY <1>0 DEF Window
  <1>4. ASSUME NEW p \in Int, p0 < p, p <= H PROVE entry'[EntryAt(p)'].key = Start(p)
    BY <1>0, <1>4, <1>9 DEF Window
  <1>5. \A p \in Int : q0 < p /\ p <= H => entry'[EntryAt(p)'].key = Start(p)
    BY <1>8, <1>4
  <1>6. ASSUME NEW p \in Int, NEW q \in Int, Alive(q)', q <= p, p <= H PROVE entry'[EntryAt(p)'].key = Start(p)
    <2>1. CASE Alive(q)
      BY <1>0, <1>6, <2>1 DEF Window
    <2>2. CASE p0 < q
      <3>1. p0 < p
        BY <1>6, <2>2
      <3> QED
        BY <1>4, <1>6, <3>1
    <2> QED
      BY <1>6, <1>9, <2>1, <2>2
  <1> QED
    BY <1>1, <1>2, <1>3, <1>5, <1>6, <1>9 DEF Window

(* The blocks are where their entries are. *)
LEMMA BlocksKept ==
  ASSUME entry' = entry, \A p \in Int : EntryAt(p)' = EntryAt(p)
  PROVE  \A p \in Int : BlockAt(p)' = BlockAt(p)
  BY DEF BlockAt

(* Values, if no entry is written and the same blocks are in the index. *)
LEMMA ValuesKept ==
  ASSUME Values, entry' = entry,
         \A p \in Int : EntryAt(p)' = EntryAt(p),
         \A p \in Int : Alive(p)' <=> Alive(p),
         \A p \in Int : InCall(p)' => BlockAt(p) = prod'.alloc[p - Published'],
         \A p \in Int : Unset(p) => Unset(p)'
  PROVE  Values'
  <1>1. \A p \in Int : BlockAt(p)' = BlockAt(p)
    BY BlocksKept
  <1>2. \A p \in Int : Alive(p)' => BlockAt(p)' \in Block
    BY <1>1 DEF Values
  <1>3. \A e \in DOMAIN entry : entry[e].value \in Block => \E p \in Int : Alive(p)' /\ e = EntryAt(p)'
    BY DEF Values
  <1>4. \A p \in Int : InCall(p)' => BlockAt(p)' = prod'.alloc[p - Published']
    BY <1>1
  <1>5. ASSUME NEW e \in DOMAIN entry,
               entry[e].key # INVALID_BLOCK_BASE, entry[e].value \notin Block, entry[e].value # Null
        PROVE  \E p \in Int : Unset(p)' /\ e = EntryAt(p)'
    BY <1>5 DEF Values
  <1> QED
    BY <1>2, <1>3, <1>4, <1>5 DEF Values

(* Places in an index do not change under the consumers that know them. *)
HeadersKept ==
  \A h \in DOMAIN header : /\ h \in DOMAIN header'
                           /\ header'[h].index = header[h].index
                           /\ header'[h].capacity = header[h].capacity

(* No place changes while neither the index nor the number at its tail      *)
(* does.                                                                    *)
LEMMA SamePlaces ==
  ASSUME header' = header, LastNum' = LastNum
  PROVE  (\A p \in Int : EntryAt(p)' = EntryAt(p)) /\ Cap' = Cap /\ HeadersKept
         /\ (Len(entry') = Len(entry) /\ DOMAIN entry' = DOMAIN entry /\ IndexShape => IndexShape')
  BY DEF EntryAt, Cap, current, blockIndex, HeadersKept, IndexShape

(* The tail moves, and with it the number of its block. *)
LEMMA MovedTail ==
  ASSUME StorageTypeOK, CountersTypeOK, ProdInv, NEW d \in Int, NEW t \in Int,
         t = (current.tail + d) % Cap, header' = [header EXCEPT ![blockIndex].tail = t],
         LastNum' = LastNum + d
  PROVE  /\ \A p \in Int : EntryAt(p)' = EntryAt(p)
         /\ Cap' = Cap /\ HeadersKept /\ header' \in Seq(Headers) /\ header' # <<>>
         /\ current'.tail = t /\ NewTail' = (t + 1) % Cap
         /\ (Len(entry') = Len(entry) /\ DOMAIN entry' = DOMAIN entry /\ IndexShape => IndexShape')
  <1>1. PICK n \in Int, s \in Int, l \in Int : n = Cap /\ s = current.tail /\ l = LastNum /\ n >= 2
    BY Numbers
  <1>0. n > 0
    BY <1>1
  <1>2. 0 <= t /\ t < n
    <2>1. PICK x \in Int : x = s + d
      OBVIOUS
    <2>2. 0 <= x % n /\ x % n < n
      BY <1>0, DivMod
    <2>3. t = x % n
      BY <1>1, <2>1
    <2> QED
      BY <2>2, <2>3
  <1>3. PICK b \in Int : b = blockIndex /\ b \in DOMAIN header /\ header[b] = current /\ b = Len(header)
    BY Numbers DEF current, blockIndex
  <1>4. PICK h : h = [current EXCEPT !.tail = t]
    OBVIOUS
  <1>5. h \in Headers /\ h.tail = t /\ h.index = current.index /\ h.capacity = n
    <2>1. current \in Headers /\ current.capacity = n
      BY <1>1, Numbers DEF Cap
    <2>2. DOMAIN current = {"capacity", "tail", "index"}
      BY <2>1, HeaderFacts
    <2>3. h \in Headers
      BY <1>1, <1>2, <1>4, <2>1, HeaderFacts
    <2> QED
      BY <1>4, <2>1, <2>2, <2>3
  <1>6. header' = [header EXCEPT ![b] = h]
    BY <1>3, <1>4
  <1>7. header \in Seq(Headers)
    BY DEF StorageTypeOK
  <1>8. header' \in Seq(Headers) /\ Len(header') = b /\ header' # <<>>
    BY <1>3, <1>5, <1>6, <1>7
  <1>9. header'[b] = h /\ \A g \in DOMAIN header : g # b => header'[g] = header[g]
    BY <1>3, <1>6, <1>7
  <1>10. DOMAIN header' = DOMAIN header
    BY <1>6
  <1>11. current' = h /\ blockIndex' = b
    BY <1>8, <1>9 DEF current, blockIndex
  <1>12. Cap' = n /\ current'.tail = t /\ NewTail' = (t + 1) % n
    BY <1>5, <1>11 DEF Cap, NewTail
  <1>13. HeadersKept
    BY <1>3, <1>5, <1>9, <1>10, <1>1 DEF HeadersKept, Cap
  <1>14. ASSUME NEW p \in Int PROVE EntryAt(p)' = EntryAt(p)
    <2>1. EntryAt(p)' = current.index[(t + p - (l + d)) % n]
      BY <1>1, <1>5, <1>11, <1>12 DEF EntryAt
    <2>2. PICK x \in Int, y \in Int : x = s + d /\ y = p - (l + d)
      OBVIOUS
    <2>3. ((x % n) + y) % n = (x + y) % n
      BY <1>0, ModPlus
    <2>4. t + p - (l + d) = (x % n) + y /\ x + y = s + p - l
      BY <1>1, <2>2
    <2>5. (t + p - (l + d)) % n = (s + p - l) % n
      BY <2>3, <2>4, Zenon
    <2>6. EntryAt(p) = current.index[(s + p - l) % n]
      BY <1>1, Zenon DEF EntryAt
    <2> QED
      BY <2>1, <2>5, <2>6, Zenon
  <1>15. ASSUME Len(entry') = Len(entry), DOMAIN entry' = DOMAIN entry, IndexShape PROVE IndexShape'
    <2>1. current'.index = current.index
      BY <1>5, <1>11
    <2>2. \A g \in DOMAIN header : \A i \in 0..(header[g].capacity - 1) : header[g].index[i] \in DOMAIN entry
      BY <1>15 DEF IndexShape
    <2>3. \A g \in DOMAIN header' : \A i \in 0..(header'[g].capacity - 1) : header'[g].index[i] \in DOMAIN entry'
      BY <1>10, <1>13, <1>15, <2>2 DEF HeadersKept
    <2> QED
      BY <1>1, <1>12, <1>15, <2>1, <2>3 DEF IndexShape
  <1> QED
    BY <1>1, <1>8, <1>12, <1>13, <1>14, <1>15

(* The blocks on a consumer's way are within the window of keys. *)
LEMMA WayInWindow ==
  ASSUME CountersInv, StorageTypeOK, LocalsOk, NEW H \in Int, ProdInv, Window(H),
         NEW c \in Consumer, claim[c].pc = "claimed"
  PROVE  /\ Last(c) \in Int /\ Last(c) <= H /\ First(c) \in Int
         /\ walk[c].pc \in {"index", "key", "take"} => H - Cap < First(c) /\ First(c) <= Last(c) /\ Alive(First(c))
         /\ walk[c].pc = "unlink" => H - Cap < First(c) /\ First(c) <= H
         /\ \A p \in Int : walk[c].pc = "release" /\ First(c) + 1 <= p /\ p <= Last(c) => H - Cap < p
  <1>1. Published \in Int /\ Top \in Int /\ Published <= Top /\ Top <= H /\ Cap \in Int
    BY Numbers DEF Window, CountersInv
  <1>2. Last(c) \in Int /\ Last(c) <= H
    BY <1>1, EmptierFacts
  <1>3. \A p \in Int : Alive(p) => H - Cap < p
    BY DEF Window
  <1>4. WalkOk(claim[c], walk[c])
    BY DEF LocalsOk
  <1>5. ASSUME walk[c].pc \in {"index", "key", "take"}
        PROVE  First(c) \in Int /\ H - Cap < First(c) /\ First(c) <= Last(c) /\ Alive(First(c))
    <2>1. claim[c].next < claim[c].last /\ First(c) = Num(claim[c].next)
      BY <1>4, <1>5 DEF WalkOk, First
    <2> QED
      BY <1>3, <2>1, EmptierFacts
  <1>6. ASSUME walk[c].pc = "unlink" PROVE H - Cap < First(c) /\ First(c) <= H
    BY <1>1, <1>3, <1>6, EmptierFacts
  <1>7. ASSUME NEW p \in Int, walk[c].pc = "release", First(c) + 1 <= p, p <= Last(c) PROVE H - Cap < p
    <2>1. First(c) \in Int /\ First(c) # Last(c)
      BY <1>7, <1>2, EmptierFacts
    <2>2. claim[c].next < claim[c].last
      BY <1>7, <2>1, ClaimFacts, EmptierFacts
    <2>3. Num(claim[c].next) = First(c) + 1 /\ Alive(Num(claim[c].next))
      BY <1>4, <1>7, <2>2, EmptierFacts DEF WalkOk, First
    <2> QED
      BY <1>1, <1>3, <1>7, <2>1, <2>3
  <1>8. First(c) \in Int
    BY ClaimFacts, Nums DEF First
  <1> QED
    BY <1>2, <1>5, <1>6, <1>7, <1>8

(* A consumer that does not move keeps its way while its places do. *)
LEMMA WayKept ==
  ASSUME CountersInv, StorageTypeOK, LocalsOk, NEW H \in Int, ProdInv, Window(H), HeadersKept,
         NEW G \in Int, H <= G,
         NEW c \in Consumer, Way(c, H), claim'[c] = claim[c], walk'[c] = walk[c],
         \A p \in Int : H - Cap < p /\ p <= H => EntryAt(p)' = EntryAt(p),
         walk[c].pc = "unlink" => BlockAt(First(c))' = BlockAt(First(c))
  PROVE  Way(c, G)'
  <1>1. First(c)' = First(c) /\ Last(c)' = Last(c)
    BY DEF First, Last
  <1>2. CASE claim[c].pc # "claimed"
    <2>1. walk[c].pc = "index"
      BY <1>2 DEF LocalsOk, WalkOk, WalkIdle
    <2> QED
      BY <2>1 DEF Way
  <1>3. CASE claim[c].pc = "claimed"
    <2> PICK f \in Int, l \in Int : f = First(c) /\ l = Last(c) /\ l <= H
      BY <1>3, WayInWindow
    <2>1. Cap \in Int
      BY Numbers DEF CountersInv
    <2>2. ASSUME walk[c].pc \in {"key", "take", "unlink", "release"}
          PROVE  /\ walk[c].hdr \in DOMAIN header' /\ 0 <= walk[c].at
                 /\ walk[c].at < header'[walk[c].hdr].capacity
                 /\ header'[walk[c].hdr].index = header[walk[c].hdr].index
                 /\ header'[walk[c].hdr].capacity = header[walk[c].hdr].capacity
      BY <2>2 DEF Way, HeadersKept
    <2>3. ASSUME NEW r \in Int, NEW low \in Int, Leads(c, r, low),
                 walk[c].pc \in {"key", "take", "unlink", "release"},
                 \A p \in Int : low <= p /\ p <= l => H - Cap < p
          PROVE  Leads(c, r, low)'
      <3>1. \A p \in Int : low <= p /\ p <= l => EntryAt(p)' = EntryAt(p)
        BY <2>1, <2>3
      <3> QED
        BY <1>1, <2>2, <2>3, <3>1 DEF Leads
    <2>4. CASE walk[c].pc = "key"
      <3>1. PICK r \in Int : /\ l <= r /\ r <= H
                             /\ header[walk[c].hdr].index[walk[c].at] = EntryAt(r)
                             /\ Leads(c, r, f)
        BY <2>4 DEF Way
      <3>2. H - Cap < f /\ f <= l
        BY <1>3, <2>4, WayInWindow
      <3>3. Leads(c, r, f)'
        BY <2>1, <2>3, <2>4, <3>1, <3>2
      <3>4. EntryAt(r)' = EntryAt(r) /\ r <= G
        BY <2>1, <3>1, <3>2
      <3> QED
        BY <1>1, <2>2, <2>4, <3>1, <3>3, <3>4 DEF Way
    <2>5. CASE walk[c].pc \in {"take", "unlink"}
      <3>1. H - Cap < f
        BY <1>3, <2>5, WayInWindow
      <3>2. Leads(c, f, f)'
        BY <2>1, <2>3, <2>5, <3>1 DEF Way
      <3> QED
        BY <1>1, <2>2, <2>5, <3>2 DEF Way
    <2>6. CASE walk[c].pc = "release"
      <3>1. \A p \in Int : f + 1 <= p /\ p <= l => H - Cap < p
        BY <1>3, <2>6, WayInWindow
      <3>2. PICK g \in Int : g = f + 1
        OBVIOUS
      <3>3. Leads(c, f, g)'
        BY <2>3, <2>6, <3>1, <3>2 DEF Way
      <3> QED
        BY <1>1, <2>2, <2>6, <3>2, <3>3 DEF Way
    <2>7. walk[c].pc \in {"index", "key", "take", "unlink", "release", "return"}
      BY DEF StorageTypeOK, Walks
    <2>8. CASE walk[c].pc \in {"index", "return"}
      BY <2>8 DEF Way
    <2> QED
      BY <2>4, <2>5, <2>6, <2>7, <2>8
  <1> QED
    BY <1>2, <1>3

(***************************************************************************)
(* Steps of the owner                                                      *)
(***************************************************************************)

(* What a step of the owner leaves as it is when it publishes nothing. *)
LEMMA OwnerFrame ==
  ASSUME CountersInv, StorageTypeOK, ProdInv, claim' = claim, headIndex' = headIndex, tailIndex' = tailIndex,
         walk' = walk, \A p \in Int : InCall(p)' <=> InCall(p)
  PROVE  /\ Published' = Published /\ \A p \in Int : Alive(p)' <=> Alive(p)
         /\ \A i \in Int : Gone(i)' <=> Gone(i)
         /\ \A p \in Int : DoneIn(p)' = DoneIn(p) /\ (Full(p)' <=> Full(p))
         /\ \A c \in Consumer, p \in Int : Emptier(c, p)' <=> Emptier(c, p)
         /\ LocalsOk => LocalsOk'
  <1>1. Published' = Published
    BY DEF Published
  <1> QED
    BY <1>1, OwnerGone, AliveKept

(* Steps after which the index has the same blocks as before. *)
LEMMA OwnerKeeps ==
  ASSUME CountersInv, StorageTypeOK, LocalsOk, NEW H \in Int, Running(H),
         claim' = claim, headIndex' = headIndex, tailIndex' = tailIndex, walk' = walk,
         tailBlock' = tailBlock, entry' = entry, slots' = slots, completely' = completely,
         HeadersKept, Cap' = Cap, \A p \in Int : EntryAt(p)' = EntryAt(p),
         Top' <= H, \A p \in Int : InCall(p)' <=> InCall(p),
         \A p \in Int : InCall(p)' => BlockAt(p) = prod'.alloc[p - Published],
         \A p \in Int : Unset(p) => Unset(p)'
  PROVE  /\ Window(H)' /\ Values' /\ Content' /\ Counts' /\ TailBlock' /\ Emptiers' /\ Ways(H)'
         /\ LocalsOk'
  <1>1. /\ ProdInv /\ IndexShape /\ Window(H) /\ Values /\ Content /\ Counts /\ TailBlock /\ Emptiers
        /\ Ways(H)
    BY DEF Running
  <1>2. /\ Published \in Int /\ Cap \in Int /\ LastNum \in Int
    BY <1>1, Numbers DEF CountersInv
  <1>3. /\ Published' = Published /\ \A p \in Int : Alive(p)' <=> Alive(p)
    BY <1>1, OwnerFrame
  <1>4. /\ \A i \in Int : Gone(i)' <=> Gone(i)
        /\ \A p \in Int : DoneIn(p)' = DoneIn(p) /\ (Full(p)' <=> Full(p))
        /\ \A c \in Consumer, p \in Int : Emptier(c, p)' <=> Emptier(c, p)
        /\ LocalsOk'
    BY <1>1, OwnerFrame
  <1>5. \A p \in Int : BlockAt(p)' = BlockAt(p)
    BY BlocksKept
  <1>6. Window(H)'
    <2>1. \A p \in Int : EntryAt(p) \in DOMAIN entry
      BY <1>1, PlaceFacts DEF CountersInv
    <2> QED
      BY <1>1, <1>2, <1>3, <2>1, WindowKept
  <1>7. Values'
    BY <1>1, <1>2, <1>3, ValuesKept
  <1>8. Content'
    BY <1>1, <1>4, <1>5, ContentKept
  <1>9. Counts' /\ TailBlock' /\ Emptiers'
    BY <1>1, <1>2, <1>3, <1>4, <1>5, CountsKept, TailBlockKept, EmptiersKept
  <1>10. Ways(H)'
    <2>1. ASSUME NEW c \in Consumer PROVE Way(c, H)'
      <3>1. Way(c, H) /\ claim'[c] = claim[c] /\ walk'[c] = walk[c]
        BY <1>1 DEF Ways
      <3>2. walk[c].pc = "unlink" => BlockAt(First(c))' = BlockAt(First(c))
        <4>1. First(c)' = First(c)
          BY DEF First
        <4>2. claim[c].pc = "claimed" => First(c) \in Int
          BY <1>1, WayInWindow
        <4>3. claim[c].pc # "claimed" => walk[c].pc # "unlink"
          BY DEF LocalsOk, WalkOk, WalkIdle
        <4> QED
          BY <1>5, <4>1, <4>2, <4>3 DEF BlockAt
      <3> QED
        BY <1>1, <3>1, <3>2, WayKept
    <2> QED
      BY <2>1 DEF Ways
  <1> QED
    BY <1>4, <1>6, <1>7, <1>8, <1>9, <1>10

(* The number of the tail of the index and of the last block reached. *)
LEMMA ByPc ==
  ASSUME NEW l \in Int, NEW n \in Int, NEW s \in Int, l = Published, n = Len(prod.alloc), s = prod.slot
  PROVE  /\ prod.pc = "requisition" => LastNum = l + n + 1 /\ Top = l + n + 1
         /\ prod.pc = "advance" => LastNum = l + n /\ Top = l + n + 1
         /\ prod.pc = "undo" => LastNum = l + n - s /\ Top = l + n
         /\ prod.pc \in {"idle", "insert", "write"} => LastNum = l + n /\ Top = l + n
  <1>1. CASE prod.pc = "requisition"
    <2>1. LastNum = l + n + 1 - 0 /\ Top = l + n + 1
      BY <1>1 DEF LastNum, Top
    <2> QED
      BY <1>1, <2>1
  <1>2. CASE prod.pc = "advance"
    <2>1. LastNum = l + n + 0 - 0 /\ Top = l + n + 1
      BY <1>2 DEF LastNum, Top
    <2> QED
      BY <1>2, <2>1
  <1>3. CASE prod.pc = "undo"
    <2>1. LastNum = l + n + 0 - s /\ Top = l + n + 0
      BY <1>3 DEF LastNum, Top
    <2>2. LastNum = l + n - s /\ Top = l + n
      <3>1. l + n + 0 - s = l + n - s /\ l + n + 0 = l + n
        BY AddZero, SMT
      <3> QED
        BY <2>1, <3>1, Zenon
    <2> QED
      BY <1>3, <2>2
  <1>4. CASE prod.pc \in {"idle", "insert", "write"}
    <2>1. prod.pc # "requisition" /\ prod.pc # "undo" /\ prod.pc # "advance"
      BY <1>4
    <2>2. LastNum = l + n + 0 - 0 /\ Top = l + n + 0
      BY <2>1 DEF LastNum, Top
    <2>3. LastNum = l + n /\ Top = l + n
      BY <2>2
    <2> QED
      BY <2>1, <2>3
  <1> QED
    BY <1>1, <1>2, <1>3, <1>4

(* The same, after the step. *)
LEMMA ByPcNext ==
  ASSUME NEW l \in Int, NEW n \in Int, NEW s \in Int, l = Published', n = Len(prod'.alloc), s = prod'.slot
  PROVE  /\ prod'.pc = "requisition" => LastNum' = l + n + 1 /\ Top' = l + n + 1
         /\ prod'.pc = "advance" => LastNum' = l + n /\ Top' = l + n + 1
         /\ prod'.pc = "undo" => LastNum' = l + n - s /\ Top' = l + n
         /\ prod'.pc \in {"idle", "insert", "write"} => LastNum' = l + n /\ Top' = l + n
  <1>1. CASE prod'.pc = "requisition"
    <2>1. LastNum' = l + n + 1 - 0 /\ Top' = l + n + 1
      BY <1>1 DEF LastNum, Top
    <2> QED
      BY <1>1, <2>1
  <1>2. CASE prod'.pc = "advance"
    <2>1. LastNum' = l + n + 0 - 0 /\ Top' = l + n + 1
      BY <1>2 DEF LastNum, Top
    <2> QED
      BY <1>2, <2>1
  <1>3. CASE prod'.pc = "undo"
    <2>1. LastNum' = l + n + 0 - s /\ Top' = l + n + 0
      BY <1>3 DEF LastNum, Top
    <2>2. LastNum' = l + n - s /\ Top' = l + n
      <3>1. l + n + 0 - s = l + n - s /\ l + n + 0 = l + n
        BY AddZero, SMT
      <3> QED
        BY <2>1, <3>1, Zenon
    <2> QED
      BY <1>3, <2>2
  <1>4. CASE prod'.pc \in {"idle", "insert", "write"}
    <2>1. prod'.pc # "requisition" /\ prod'.pc # "undo" /\ prod'.pc # "advance"
      BY <1>4
    <2>2. LastNum' = l + n + 0 - 0 /\ Top' = l + n + 0
      BY <2>1 DEF LastNum, Top
    <2>3. LastNum' = l + n /\ Top' = l + n
      BY <2>2
    <2> QED
      BY <2>1, <2>3
  <1> QED
    BY <1>1, <1>2, <1>3, <1>4

(* The call goes on to insert until it has all the blocks it needs. *)
LEMMA Continues ==
  ASSUME CountersInv, NEW p, p.count \in Int
  PROVE  \/ Continue(p) = "insert" /\ Len(p.alloc) < Num(tailIndex + p.count - 1) - Published
         \/ Continue(p) = "write" /\ ~(Len(p.alloc) < Num(tailIndex + p.count - 1) - Published)
  <1>1. PICK n \in Int, k \in Int : n = tailIndex /\ k = p.count
    BY HeadTail
  <1>2. BlocksNeeded(n, k) = Num(n + k - 1) - Num(n - 1)
    BY BlockNumbers
  <1> QED
    BY <1>1, <1>2 DEF Continue, Published

(* Places, if no entry gets or loses a block and none is given back. *)
LEMMA PlacesKept ==
  ASSUME Places, pool' = pool, walk' = walk, DOMAIN entry' = DOMAIN entry,
         \A e \in DOMAIN entry : entry'[e].value = entry[e].value,
         \A b \in Block : Undone(b)' => Undone(b), \A b \in Block : Undone(b) => Undone(b)',
         prod'.pc = "undo" => \A k, l \in DOMAIN prod'.alloc :
           k <= prod'.slot /\ l <= prod'.slot /\ prod'.alloc[k] = prod'.alloc[l] => k = l
  PROVE  Places'
  <1>1. \A b \in Block : InEntry(b)' <=> InEntry(b)
    BY DEF InEntry
  <1>2. \A b \in Block, c \in Consumer : Freeing(c, b)' <=> Freeing(c, b)
    BY DEF Freeing
  <1>3. \A e, f \in DOMAIN entry' : entry'[e].value \in Block /\ entry'[e].value = entry'[f].value => e = f
    BY DEF Places
  <1>4. \A c, d \in Consumer, b \in Block : Freeing(c, b)' /\ Freeing(d, b)' => c = d
    BY <1>2 DEF Places
  <1>5. ASSUME NEW b \in Block
        PROVE  /\ pool'[b] = 1 \/ (pool'[b] = 0 /\ (InEntry(b)' \/ (\E c \in Consumer : Freeing(c, b)') \/ Undone(b)'))
               /\ pool'[b] = 1 => ~InEntry(b)' /\ (\A c \in Consumer : ~Freeing(c, b)') /\ ~Undone(b)'
               /\ InEntry(b)' => (\A c \in Consumer : ~Freeing(c, b)') /\ ~Undone(b)'
               /\ \A c \in Consumer : Freeing(c, b)' => ~Undone(b)'
    BY <1>1, <1>2 DEF Places
  <1> QED
    BY <1>3, <1>4, <1>5 DEF Places

(* A call begins. *)
LEMMA Keeps_enqueue_bulk ==
  ASSUME CountersInv, StorageTypeOK, LocalsOk, NEW H \in Int, Running(H),
         NEW k \in EnqueueSize, enqueue_bulk(k)
  PROVE  StorageTypeOK' /\ LocalsOk' /\ Running(H)'
  <1>1. /\ ProdInv /\ IndexShape /\ Window(H) /\ Values /\ Places
    BY DEF Running
  <1>2. PICK p : p = [ProdIdle EXCEPT !.count = k]
    OBVIOUS
  <1>3. /\ prod.pc = "idle" /\ prod' = [p EXCEPT !.pc = Continue(p)]
        /\ UNCHANGED <<counters, tailBlock, index, storage, walk, fails, destroyed>>
    BY <1>2 DEF enqueue_bulk
  <1>4. k \in Int /\ k > 0
    BY EnqueueAssumption
  <1>5. p = [pc |-> "idle", count |-> k, alloc |-> <<>>, slot |-> 0]
    BY <1>2 DEF ProdIdle
  <1>6. PICK pc : pc = Continue(p)
    OBVIOUS
  <1>7. prod' = [pc |-> pc, count |-> k, alloc |-> <<>>, slot |-> 0]
    BY <1>3, <1>5, <1>6
  <1>8. PICK n \in Int : n = Num(tailIndex + k - 1) - Published
    <2>1. PICK a \in Int : a = tailIndex + k - 1
      BY <1>4, HeadTail
    <2>2. Num(a) \in Int /\ Published \in Int
      BY <1>1, Nums, Numbers DEF CountersInv
    <2> QED
      BY <2>1, <2>2
  <1>9. (pc = "insert" /\ 0 < n) \/ (pc = "write" /\ ~(0 < n))
    <2>1. p.alloc = <<>> /\ p.count = k /\ Len(p.alloc) = 0
      BY <1>5
    <2> QED
      BY <1>4, <1>6, <1>8, <2>1, Continues
  <1>10. n >= 0
    <2>1. PICK a \in Int, b \in Int : a = tailIndex - 1 /\ b = tailIndex + k - 1 /\ a <= b
      BY <1>4, HeadTail
    <2>2. PICK x \in Int, y \in Int : x = Num(a) /\ y = Num(b) /\ x <= y
      BY <2>1, Nums
    <2>3. Published = x
      BY <2>1, <2>2 DEF Published
    <2> QED
      BY <1>8, <2>1, <2>2, <2>3
  <1>11. StorageTypeOK'
    <2>1. prod' \in Calls
      BY <1>4, <1>7, <1>9 DEF Calls
    <2> QED
      BY <1>3, <2>1 DEF StorageTypeOK, counters, index, storage
  <1>12. prod.alloc = <<>> /\ prod.slot = 0
    BY <1>1, <1>3 DEF ProdInv
  <1>13. Published \in Int /\ LastNum = Published /\ Top = Published
    <2>1. Published \in Int
      BY <1>1, Numbers DEF CountersInv
    <2>2. LastNum = Published + Len(prod.alloc) + 0 - 0 /\ Top = Published + Len(prod.alloc) + 0
      BY <1>3 DEF LastNum, Top
    <2> QED
      BY <1>12, <2>1, <2>2
  <1>14. UNCHANGED <<tailIndex, headIndex, claim, tailBlock, entry, header, slots, completely, pool, walk>>
    BY <1>3 DEF counters, index, storage
  <1>15. Published' = Published
    BY <1>14 DEF Published
  <1>16. LastNum' = Published /\ Top' = Published
    <2>1. prod'.pc # "requisition" /\ prod'.pc # "undo" /\ prod'.pc # "advance" /\ Len(prod'.alloc) = 0
      BY <1>7, <1>9
    <2>2. LastNum' = Published + 0 + 0 - 0 /\ Top' = Published + 0 + 0
      BY <1>15, <2>1 DEF LastNum, Top
    <2> QED
      BY <1>13, <2>2
  <1>17. \A q \in Int : ~InCall(q) /\ ~InCall(q)'
    <2>1. Len(prod.alloc) = 0 /\ Len(prod'.alloc) = 0
      BY <1>7, <1>12
    <2> QED
      BY <1>13, <1>15, <2>1 DEF InCall
  <1>18. HeadersKept /\ Cap' = Cap /\ (\A q \in Int : EntryAt(q)' = EntryAt(q)) /\ IndexShape'
    BY <1>1, <1>13, <1>14, <1>16, SamePlaces
  <1>19. Top' <= H
    BY <1>1, <1>13, <1>16 DEF Window
  <1>20. /\ Window(H)' /\ Values' /\ Content' /\ Counts' /\ TailBlock' /\ Emptiers' /\ Ways(H)'
         /\ LocalsOk'
    <2>1. \A q \in Int : ~Unset(q)
      BY <1>3 DEF Unset
    <2> QED
      BY <1>3, <1>14, <1>17, <1>18, <1>19, <2>1, OwnerKeeps
  <1>21. ProdInv'
    <2>1. prod'.pc = pc /\ prod'.count = k /\ prod'.alloc = <<>> /\ prod'.slot = 0 /\ Len(prod'.alloc) = 0
      BY <1>7
    <2>2. Needed' = n
      BY <1>8, <1>14, <1>15, <2>1 DEF Needed
    <2> QED
      BY <1>4, <1>9, <1>10, <2>1, <2>2 DEF ProdInv
  <1>22. Places'
    <2>1. prod'.pc # "undo"
      BY <1>7, <1>9
    <2> QED
      BY <1>1, <1>3, <1>14, <2>1, PlacesKept DEF Undone
  <1> QED
    BY <1>11, <1>18, <1>20, <1>21, <1>22 DEF Running

(* The call gives up: its blocks are to be taken out of the index. *)
LEMMA Keeps_IndexAllocationFails ==
  ASSUME CountersInv, StorageTypeOK, LocalsOk, NEW H \in Int, Running(H), IndexAllocationFails
  PROVE  StorageTypeOK' /\ LocalsOk' /\ Running(H)'
  <1>1. /\ ProdInv /\ IndexShape /\ Window(H) /\ Values /\ Places
    BY DEF Running
  <1>2. /\ prod.pc = "insert" /\ fails' = fails + 1 /\ prod' = [prod EXCEPT !.pc = "undo"]
        /\ UNCHANGED <<counters, tailBlock, index, storage, walk, destroyed>>
    BY DEF IndexAllocationFails
  <1>3. UNCHANGED <<tailIndex, headIndex, claim, tailBlock, entry, header, slots, completely, pool, walk>>
    BY <1>2 DEF counters, index, storage
  <1>4. prod.slot = 0 /\ prod.count > 0
    BY <1>1, <1>2 DEF ProdInv
  <1>5. /\ prod'.pc = "undo" /\ prod'.slot = 0 /\ prod'.alloc = prod.alloc /\ prod'.count = prod.count
        /\ prod' \in Calls
    BY <1>2, <1>4 DEF StorageTypeOK, Calls
  <1>6. StorageTypeOK'
    BY <1>2, <1>5 DEF StorageTypeOK, counters, index, storage
  <1>7. PICK l \in Int, n \in Int, s \in Int : l = Published /\ n = Len(prod.alloc) /\ s = 0 /\ n >= 0
    BY <1>1, Numbers DEF CountersInv
  <1>8. Published' = l
    BY <1>3, <1>7 DEF Published
  <1>9. LastNum = l + n /\ Top = l + n /\ LastNum' = l + n /\ Top' = l + n
    <2>1. LastNum = l + n /\ Top = l + n
      BY <1>2, <1>4, <1>7, ByPc
    <2>2. LastNum' = l + n - s /\ Top' = l + n
      <3>1. l = Published' /\ n = Len(prod'.alloc) /\ s = prod'.slot
        BY <1>5, <1>7, <1>8
      <3> QED
        BY <1>5, <3>1, ByPcNext
    <2> QED
      BY <1>7, <2>1, <2>2
  <1>10. \A q \in Int : InCall(q)' <=> InCall(q)
    BY <1>2, <1>5, <1>7, <1>8 DEF InCall
  <1>11. HeadersKept /\ Cap' = Cap /\ (\A q \in Int : EntryAt(q)' = EntryAt(q)) /\ IndexShape'
    BY <1>1, <1>3, <1>9, SamePlaces
  <1>12. Top' <= H
    BY <1>1, <1>9 DEF Window
  <1>13. \A p \in Int : InCall(p)' => BlockAt(p) = prod'.alloc[p - Published]
    BY <1>1, <1>5, <1>10 DEF Values
  <1>14. /\ Window(H)' /\ Values' /\ Content' /\ Counts' /\ TailBlock' /\ Emptiers' /\ Ways(H)'
         /\ LocalsOk'
    <2>1. \A q \in Int : ~Unset(q)
      BY <1>2 DEF Unset
    <2> QED
      BY <1>2, <1>3, <1>10, <1>11, <1>12, <1>13, <2>1, OwnerKeeps
  <1>15. ProdInv'
    BY <1>4, <1>5, <1>7 DEF ProdInv
  <1>16. Places'
    <2>1. \A b \in Block : ~Undone(b) /\ ~Undone(b)'
      <3>1. DOMAIN prod'.alloc = 1..n
        BY <1>5, <1>7 DEF Calls
      <3> QED
        BY <1>2, <1>5, <3>1 DEF Undone
    <2>2. \A k \in DOMAIN prod'.alloc : ~(k <= prod'.slot)
      BY <1>5 DEF Calls
    <2> QED
      BY <1>1, <1>3, <2>1, <2>2, PlacesKept
  <1> QED
    BY <1>6, <1>11, <1>14, <1>15, <1>16 DEF Running

(* The new entry becomes the tail of the index. *)
LEMMA Keeps_InsertTail ==
  ASSUME CountersInv, StorageTypeOK, LocalsOk, NEW H \in Int, Running(H), InsertTail
  PROVE  StorageTypeOK' /\ LocalsOk' /\ Running(H)'
  <1>1. /\ ProdInv /\ IndexShape /\ Window(H) /\ Values /\ Places
    BY DEF Running
  <1>2. /\ prod.pc = "advance" /\ prod' = [prod EXCEPT !.pc = "requisition"]
        /\ header' = [header EXCEPT ![blockIndex].tail = prod.slot]
        /\ UNCHANGED <<counters, tailBlock, entry, storage, walk, fails, destroyed>>
    BY DEF InsertTail
  <1>3. UNCHANGED <<tailIndex, headIndex, claim, tailBlock, entry, slots, completely, pool, walk>>
    BY <1>2 DEF counters, storage
  <1>4. prod.slot = NewTail /\ prod.count > 0 /\ Len(prod.alloc) < Needed
    BY <1>1, <1>2 DEF ProdInv
  <1>5. /\ prod'.pc = "requisition" /\ prod'.slot = prod.slot /\ prod'.alloc = prod.alloc
        /\ prod'.count = prod.count /\ prod' \in Calls
    BY <1>2 DEF StorageTypeOK, Calls
  <1>6. PICK l \in Int, n \in Int, s \in Int : l = Published /\ n = Len(prod.alloc) /\ s = prod.slot /\ n >= 0 /\ s >= 0
    <2>1. NewTail \in Int /\ NewTail >= 0
      BY <1>1, Numbers DEF CountersInv
    <2> QED
      BY <1>1, <1>4, <2>1, Numbers DEF CountersInv
  <1>7. Published' = l
    BY <1>3, <1>6 DEF Published
  <1>8. LastNum = l + n /\ Top = l + n + 1 /\ LastNum' = l + n + 1 /\ Top' = l + n + 1
    BY <1>2, <1>5, <1>6, <1>7, ByPc, ByPcNext
  <1>9. \A q \in Int : InCall(q)' <=> InCall(q)
    BY <1>2, <1>5, <1>6, <1>7 DEF InCall
  <1>10. PICK d \in Int : d = 1
    OBVIOUS
  <1>11. s = (current.tail + d) % Cap /\ LastNum' = LastNum + d /\ header' = [header EXCEPT ![blockIndex].tail = s]
    BY <1>2, <1>4, <1>6, <1>8, <1>10 DEF NewTail, Cap
  <1>12. /\ \A p \in Int : EntryAt(p)' = EntryAt(p)
         /\ Cap' = Cap /\ HeadersKept /\ header' \in Seq(Headers) /\ header' # <<>>
         /\ current'.tail = s /\ IndexShape'
    BY <1>1, <1>3, <1>11, MovedTail DEF CountersInv
  <1>13. StorageTypeOK'
    BY <1>2, <1>5, <1>12 DEF StorageTypeOK, counters, storage
  <1>14. Top' <= H
    BY <1>1, <1>8 DEF Window
  <1>15. \A p \in Int : InCall(p)' => BlockAt(p) = prod'.alloc[p - Published]
    BY <1>1, <1>5, <1>9 DEF Values
  <1>16. /\ Window(H)' /\ Values' /\ Content' /\ Counts' /\ TailBlock' /\ Emptiers' /\ Ways(H)'
         /\ LocalsOk'
    <2>1. \A q \in Int : Unset(q) => Unset(q)'
      BY <1>2, <1>5, <1>10, <1>11 DEF Unset
    <2> QED
      BY <1>3, <1>9, <1>12, <1>14, <1>15, <2>1, OwnerKeeps
  <1>17. ProdInv'
    <2>1. Needed' = Needed
      BY <1>3, <1>5, <1>6, <1>7 DEF Needed
    <2> QED
      BY <1>4, <1>5, <1>6, <1>12, <2>1 DEF ProdInv
  <1>18. Places'
    <2>1. \A b \in Block : ~Undone(b) /\ ~Undone(b)'
      BY <1>2, <1>5 DEF Undone
    <2> QED
      BY <1>1, <1>3, <1>5, <2>1, PlacesKept
  <1> QED
    BY <1>12, <1>13, <1>16, <1>17, <1>18 DEF Running

(* The blocks of a call that gave up return to the pool. *)
LEMMA Keeps_add_blocks_to_free_list ==
  ASSUME CountersInv, StorageTypeOK, LocalsOk, NEW H \in Int, Running(H), add_blocks_to_free_list
  PROVE  StorageTypeOK' /\ LocalsOk' /\ Running(H)'
  <1>1. /\ ProdInv /\ IndexShape /\ Window(H) /\ Values /\ Places
    BY DEF Running
  <1>2. /\ prod.pc = "undo" /\ prod.slot >= Len(prod.alloc)
        /\ pool' = [b \in Block |->
                pool[b] + Cardinality({k \in DOMAIN prod.alloc : prod.alloc[k] = b})]
        /\ prod' = ProdIdle
        /\ UNCHANGED <<counters, tailBlock, index, slots, completely, walk, fails, destroyed>>
    BY DEF add_blocks_to_free_list
  <1>3. UNCHANGED <<tailIndex, headIndex, claim, tailBlock, entry, header, slots, completely, walk>>
    BY <1>2 DEF counters, index
  <1>4. PICK l \in Int, n \in Int : l = Published /\ n = Len(prod.alloc) /\ n >= 0
    BY <1>1, Numbers DEF CountersInv
  <1>5. prod.slot = n /\ prod.alloc \in Seq(Block) /\ DOMAIN prod.alloc = 1..n
    BY <1>1, <1>2, <1>4 DEF ProdInv, StorageTypeOK, Calls
  <1>6. /\ prod'.pc = "idle" /\ prod'.slot = 0 /\ prod'.alloc = <<>> /\ Len(prod'.alloc) = 0
        /\ prod' \in Calls
    BY <1>2 DEF ProdIdle, Calls
  <1>7. Published' = l
    BY <1>3, <1>4 DEF Published
  <1>8. LastNum = l /\ Top = l + n /\ LastNum' = l /\ Top' = l
    <2>1. LastNum = l + n - n /\ Top = l + n
      BY <1>2, <1>4, <1>5, ByPc
    <2>2. PICK z \in Int : z = 0
      OBVIOUS
    <2>3. LastNum' = l + z /\ Top' = l + z
      <3>1. l = Published' /\ z = Len(prod'.alloc) /\ z = prod'.slot
        BY <1>6, <1>7, <2>2
      <3> QED
        BY <1>6, <3>1, ByPcNext
    <2> QED
      BY <2>1, <2>2, <2>3
  <1>9. \A q \in Int : ~InCall(q) /\ ~InCall(q)'
    BY <1>2, <1>4, <1>5, <1>6, <1>7 DEF InCall
  <1>10. HeadersKept /\ Cap' = Cap /\ (\A q \in Int : EntryAt(q)' = EntryAt(q)) /\ IndexShape'
    BY <1>1, <1>3, <1>8, SamePlaces
  <1>11. Top' <= H
    BY <1>1, <1>4, <1>8 DEF Window
  <1>12. /\ Window(H)' /\ Values' /\ Content' /\ Counts' /\ TailBlock' /\ Emptiers' /\ Ways(H)'
         /\ LocalsOk'
    <2>1. \A q \in Int : ~Unset(q)
      BY <1>2 DEF Unset
    <2> QED
      BY <1>3, <1>9, <1>10, <1>11, <2>1, OwnerKeeps
  <1>13. ProdInv'
    BY <1>6 DEF ProdInv
  <1>14. ASSUME NEW b \in Block
         PROVE  \/ Undone(b) /\ pool[b] = 0 /\ pool'[b] = 1 /\ ~InEntry(b) /\ \A c \in Consumer : ~Freeing(c, b)
                \/ ~Undone(b) /\ pool'[b] = pool[b]
    <2> PICK S : S = {k \in DOMAIN prod.alloc : prod.alloc[k] = b}
      OBVIOUS
    <2>1. pool'[b] = pool[b] + Cardinality(S) /\ pool[b] \in Nat
      BY <1>2 DEF StorageTypeOK
    <2>2. Undone(b) <=> S # {}
      BY <1>2, <1>5 DEF Undone
    <2>3. CASE Undone(b)
      <3>1. PICK k : k \in S
        BY <2>2, <2>3
      <3>2. \A j \in S : j = k
        BY <1>1, <1>2, <1>5, <3>1 DEF Places
      <3>3. S = {k}
        BY <3>1, <3>2
      <3>4. Cardinality(S) = 1
        BY <3>3, FS_Singleton
      <3>5. pool[b] = 0 /\ ~InEntry(b) /\ \A c \in Consumer : ~Freeing(c, b)
        BY <1>1, <2>3 DEF Places
      <3> QED
        BY <2>1, <2>3, <3>4, <3>5
    <2>4. CASE ~Undone(b)
      <3>1. Cardinality(S) = 0
        BY <2>2, <2>4, FS_EmptySet
      <3> QED
        BY <2>1, <2>4, <3>1
    <2> QED
      BY <2>3, <2>4
  <1>15. StorageTypeOK'
    <2>1. pool' \in [Block -> Nat]
      <3>1. ASSUME NEW b \in Block PROVE pool'[b] \in Nat
        <4>1. pool[b] \in Nat
          BY DEF StorageTypeOK
        <4>2. pool'[b] = 1 \/ pool'[b] = pool[b]
          BY <1>14
        <4> QED
          BY <4>1, <4>2
      <3> QED
        BY <1>2, <3>1
    <2> QED
      BY <1>2, <1>3, <1>6, <2>1 DEF StorageTypeOK
  <1>16. Places'
    <2>1. \A b \in Block : (InEntry(b)' <=> InEntry(b)) /\ ~Undone(b)' /\ \A c \in Consumer : Freeing(c, b)' <=> Freeing(c, b)
      BY <1>3, <1>6 DEF InEntry, Freeing, Undone
    <2>2. /\ \A e, f \in DOMAIN entry' : entry'[e].value \in Block /\ entry'[e].value = entry'[f].value => e = f
          /\ \A c, d \in Consumer, b \in Block : Freeing(c, b)' /\ Freeing(d, b)' => c = d
      BY <1>1, <1>3, <2>1 DEF Places
    <2>3. ASSUME NEW b \in Block
          PROVE  /\ pool'[b] = 1 \/ (pool'[b] = 0 /\ (InEntry(b)' \/ (\E c \in Consumer : Freeing(c, b)') \/ Undone(b)'))
                 /\ pool'[b] = 1 => ~InEntry(b)' /\ (\A c \in Consumer : ~Freeing(c, b)') /\ ~Undone(b)'
                 /\ InEntry(b)' => (\A c \in Consumer : ~Freeing(c, b)') /\ ~Undone(b)'
                 /\ \A c \in Consumer : Freeing(c, b)' => ~Undone(b)'
      BY <1>1, <1>14, <2>1 DEF Places
    <2> QED
      BY <1>6, <2>2, <2>3 DEF Places
  <1> QED
    BY <1>10, <1>12, <1>13, <1>15, <1>16 DEF Running

(* Steps that change an entry, but none of a published block. *)
LEMMA OwnerRest ==
  ASSUME CountersInv, StorageTypeOK, LocalsOk, NEW H \in Int, Running(H), NEW G \in Int, H <= G,
         claim' = claim, headIndex' = headIndex, tailIndex' = tailIndex, walk' = walk,
         tailBlock' = tailBlock, slots' = slots, HeadersKept,
         \A p \in Int : H - Cap < p /\ p <= H => EntryAt(p)' = EntryAt(p),
         \A p \in Int : Alive(p) /\ p <= Published => BlockAt(p)' = BlockAt(p)
  PROVE  Content' /\ TailBlock' /\ Emptiers' /\ Ways(G)' /\ LocalsOk'
  <1>1. /\ ProdInv /\ IndexShape /\ Window(H) /\ Values /\ Content /\ Counts /\ TailBlock /\ Emptiers
        /\ Ways(H)
    BY DEF Running
  <1>2. Published \in Int /\ Published' = Published
    BY <1>1, Numbers DEF CountersInv, Published
  <1>3. /\ \A i \in Int : Gone(i)' <=> Gone(i)
        /\ \A p \in Int : DoneIn(p)' = DoneIn(p) /\ (Full(p)' <=> Full(p))
        /\ \A c \in Consumer, p \in Int : Emptier(c, p)' <=> Emptier(c, p)
        /\ LocalsOk'
    BY OwnerGone
  <1>4. Content'
    BY <1>1, <1>3, ContentKept
  <1>5. TailBlock'
    <2>1. 0 <= Published /\ ~Full(Published) => Alive(Published)
      BY <1>2 DEF Alive
    <2>2. 0 <= Published /\ ~Full(Published) => BlockAt(Published)' = BlockAt(Published)
      BY <1>2, <2>1
    <2> QED
      BY <1>1, <1>2, <1>3, <2>2, TailBlockKept
  <1>6. Emptiers'
    BY <1>1, <1>3, EmptiersKept
  <1>7. ASSUME NEW c \in Consumer PROVE Way(c, G)'
    <2>1. Way(c, H) /\ claim'[c] = claim[c] /\ walk'[c] = walk[c]
      BY <1>1 DEF Ways
    <2>2. walk[c].pc = "unlink" => BlockAt(First(c))' = BlockAt(First(c))
      <3>1. First(c)' = First(c)
        BY DEF First
      <3>2. ASSUME walk[c].pc = "unlink" PROVE First(c) \in Int /\ Alive(First(c)) /\ First(c) <= Published
        <4>1. claim[c].pc = "claimed"
          BY <3>2 DEF LocalsOk, WalkOk, WalkIdle
        <4> QED
          BY <1>1, <3>2, <4>1, EmptierFacts
      <3>3. ASSUME NEW p \in Int, p = First(c), Alive(p), p <= Published PROVE BlockAt(First(c))' = BlockAt(First(c))
        <4>1. BlockAt(p)' = BlockAt(p)
          BY <3>3
        <4> QED
          BY <3>1, <3>3, <4>1 DEF BlockAt
      <3> QED
        BY <3>2, <3>3
    <2> QED
      BY <1>1, <2>1, <2>2, WayKept
  <1> QED
    BY <1>3, <1>4, <1>5, <1>6, <1>7 DEF Ways

(* The base of the block to be added next. *)
LEMMA NextBaseIs ==
  ASSUME CountersInv, StorageTypeOK, ProdInv
  PROVE  NextBase = Start(Published + 1 + Len(prod.alloc))
         /\ \A k \in Int : FirstBlock(tailIndex) + BLOCK_SIZE * k = Start(Published + 1 + k)
  <1> PICK t \in Int, l \in Int, n \in Int, m \in Int :
         t = tailIndex /\ l = Published /\ n = Len(prod.alloc) /\ m = l + 1
    BY HeadTail, Numbers DEF CountersInv
  <1>1. FirstBlock(t) = Start(m)
    <2>1. FirstBlock(t) = Start(Num(t - 1) + 1)
      BY BlockNumbers
    <2> QED
      BY <2>1 DEF Published
  <1>2. \A k \in Int : Start(m) + BLOCK_SIZE * k = Start(m + k)
    BY Starts
  <1> QED
    BY <1>1, <1>2 DEF NextBase

(* One key is written. *)
LEMMA KeyChange ==
  ASSUME StorageTypeOK, NEW e \in DOMAIN entry, NEW k \in Int, entry' = [entry EXCEPT ![e].key = k]
  PROVE  /\ entry' \in Seq(Entries) /\ DOMAIN entry' = DOMAIN entry /\ Len(entry') = Len(entry)
         /\ \A g \in DOMAIN entry : entry'[g].value = entry[g].value
         /\ entry'[e].key = k /\ \A g \in DOMAIN entry : g # e => entry'[g].key = entry[g].key
  <1>1. entry \in Seq(Entries) /\ entry[e] \in Entries
    BY DEF StorageTypeOK
  <1>2. PICK r : r = [entry[e] EXCEPT !.key = k]
    OBVIOUS
  <1>3. r \in Entries /\ r.key = k /\ r.value = entry[e].value
    BY <1>1, <1>2 DEF Entries
  <1>4. entry' = [entry EXCEPT ![e] = r]
    BY <1>2
  <1> QED
    BY <1>1, <1>3, <1>4

(* One value is written. *)
LEMMA ValueChange ==
  ASSUME StorageTypeOK, NEW e \in DOMAIN entry, NEW v \in Block \union {Null}, entry' = [entry EXCEPT ![e].value = v]
  PROVE  /\ entry' \in Seq(Entries) /\ DOMAIN entry' = DOMAIN entry /\ Len(entry') = Len(entry)
         /\ \A g \in DOMAIN entry : entry'[g].key = entry[g].key
         /\ entry'[e].value = v /\ \A g \in DOMAIN entry : g # e => entry'[g].value = entry[g].value
  <1>1. entry \in Seq(Entries) /\ entry[e] \in Entries
    BY DEF StorageTypeOK
  <1>2. PICK r : r = [entry[e] EXCEPT !.value = v]
    OBVIOUS
  <1>3. r \in Entries /\ r.value = v /\ r.key = entry[e].key
    BY <1>1, <1>2 DEF Entries
  <1>4. entry' = [entry EXCEPT ![e] = r]
    BY <1>2
  <1> QED
    BY <1>1, <1>3, <1>4

(* The place after the tail is free only if no block in the index needs it. *)
LEMMA FreePlace ==
  ASSUME CountersInv, StorageTypeOK, NEW H \in Int, Running(H), prod.pc = "insert",
         NEW n \in Int, n = LastNum + 1, EntryIsFree(EntryAt(n))
  PROVE  n <= Published + Cap /\ ~Alive(n - Cap)
  <1>1. /\ ProdInv /\ IndexShape /\ Window(H) /\ Values
    BY DEF Running
  <1>2. PICK l \in Int, a \in Int, k \in Int :
          l = Published /\ a = Len(prod.alloc) /\ k = Cap /\ k >= 2 /\ a >= 0
    <2>1. Published \in Int /\ Len(prod.alloc) \in Nat /\ Cap \in Int /\ Cap >= 2
      BY <1>1, Numbers DEF CountersInv
    <2> QED
      BY <2>1
  <1> PICK m \in Int : m = n - k
    OBVIOUS
  <1>3. n = l + a + 1 /\ l + a <= H /\ H <= l + k
    <2>1. PICK s \in Int : s = prod.slot
      BY DEF StorageTypeOK, Calls
    <2>2. LastNum = l + a /\ Top = l + a
      BY <1>2, <2>1, ByPc
    <2> QED
      BY <1>1, <1>2, <2>2 DEF Window
  <1>4. ~Alive(m)
    <2> SUFFICES ASSUME Alive(m) PROVE FALSE
      OBVIOUS
    <2>1. EntryAt(n) = EntryAt(m)
      BY <1>1, <1>2, PlaceFacts DEF CountersInv
    <2>2. entry[EntryAt(m)].key = Start(m)
      <3>1. m <= H
        BY <1>2, <1>3
      <3> QED
        BY <1>1, <3>1 DEF Window
    <2>3. entry[EntryAt(m)].value \in Block
      BY <1>1 DEF Values, BlockAt
    <2>4. entry[EntryAt(m)].key # INVALID_BLOCK_BASE
      BY <2>2, Starts
    <2>5. entry[EntryAt(m)].value # Null
      BY <2>3, BlockAssumption
    <2> QED
      BY <2>1, <2>4, <2>5 DEF EntryIsFree
  <1>5. n <= l + k
    <2> SUFFICES ASSUME n > l + k PROVE FALSE
      BY <1>2
    <2>1. m = l + 1 /\ a = k
      BY <1>2, <1>3
    <2>2. InCall(m)
      BY <1>2, <2>1 DEF InCall
    <2> QED
      BY <1>4, <2>2 DEF Alive
  <1> QED
    BY <1>2, <1>4, <1>5

(* The entry after the tail gets the key of the next block. *)
LEMMA Keeps_InsertKey ==
  ASSUME CountersInv, StorageTypeOK, LocalsOk, NEW H \in Int, Running(H), InsertKey
  PROVE  StorageTypeOK' /\ LocalsOk' /\ \E G \in Int : Running(G)'
  <1>1. /\ ProdInv /\ IndexShape /\ Window(H) /\ Values /\ Counts /\ Places
    BY DEF Running
  <1>2. PICK l \in Int, a \in Int, k \in Int, n \in Int :
          l = Published /\ a = Len(prod.alloc) /\ k = Cap /\ k >= 2 /\ a >= 0 /\ n = l + a + 1
    BY <1>1, Numbers DEF CountersInv
  <1>3. PICK e : e = EntryAt(n)
    OBVIOUS
  <1>4. prod.pc = "insert" /\ prod.slot = 0 /\ prod.count > 0 /\ a < Needed
    BY <1>1, <1>2 DEF ProdInv, InsertKey
  <1>5. LastNum = l + a /\ Top = l + a /\ n = LastNum + 1
    <2>1. LastNum = l + a /\ Top = l + a
      BY <1>2, <1>4, ByPc
    <2> QED
      BY <1>2, <2>1
  <1>6. e \in DOMAIN entry /\ current.index[NewTail] = e
    BY <1>1, <1>2, <1>3, <1>5, PlaceFacts DEF CountersInv
  <1>7. NextBase = Start(n) /\ Start(n) \in Int
    <2>1. n = l + 1 + a
      <3>1. l + a + 1 = l + 1 + a
        OBVIOUS
      <3> QED
        BY <1>2, <3>1, Zenon
    <2> QED
      BY <1>1, <1>2, <2>1, NextBaseIs, Starts
  <1>8. /\ EntryIsFree(e) /\ entry' = [entry EXCEPT ![e].key = Start(n)]
        /\ prod' = [prod EXCEPT !.pc = "advance", !.slot = NewTail]
        /\ UNCHANGED <<counters, tailBlock, header, storage, walk, fails, destroyed>>
    BY <1>6, <1>7 DEF InsertKey
  <1>9. /\ entry' \in Seq(Entries) /\ DOMAIN entry' = DOMAIN entry /\ Len(entry') = Len(entry)
        /\ \A g \in DOMAIN entry : entry'[g].value = entry[g].value
        /\ entry'[e].key = Start(n) /\ \A g \in DOMAIN entry : g # e => entry'[g].key = entry[g].key
    BY <1>6, <1>7, <1>8, KeyChange
  <1>10. UNCHANGED <<tailIndex, headIndex, claim, tailBlock, header, slots, completely, pool, walk>>
    BY <1>8 DEF counters, storage
  <1>11. NewTail \in Int /\ NewTail >= 0
    BY <1>1, Numbers DEF CountersInv
  <1>12. /\ prod'.pc = "advance" /\ prod'.slot = NewTail /\ prod'.alloc = prod.alloc
         /\ prod'.count = prod.count /\ prod' \in Calls
    BY <1>8, <1>11 DEF StorageTypeOK, Calls
  <1>13. StorageTypeOK'
    BY <1>8, <1>9, <1>12 DEF StorageTypeOK, counters, storage
  <1>14. Published' = l
    BY <1>2, <1>10 DEF Published
  <1>15. LastNum' = l + a /\ Top' = n
    <2>1. PICK s \in Int : s = prod'.slot
      BY <1>11, <1>12
    <2>2. l = Published' /\ a = Len(prod'.alloc)
      BY <1>2, <1>12, <1>14
    <2> QED
      BY <1>2, <1>12, <2>1, <2>2, ByPcNext
  <1>16. HeadersKept /\ Cap' = k /\ (\A p \in Int : EntryAt(p)' = EntryAt(p)) /\ IndexShape'
    BY <1>1, <1>2, <1>5, <1>9, <1>10, <1>15, SamePlaces
  <1>17. \A p \in Int : BlockAt(p)' = BlockAt(p)
    BY <1>1, <1>9, <1>16, PlaceFacts DEF BlockAt, CountersInv
  <1>18. \A p \in Int : InCall(p)' <=> InCall(p)
    BY <1>2, <1>4, <1>12, <1>14 DEF InCall
  <1>19. /\ \A p \in Int : Alive(p)' <=> Alive(p)
         /\ \A p \in Int : DoneIn(p)' = DoneIn(p)
    BY <1>1, <1>10, <1>18, OwnerFrame
  <1>20. PICK G \in Int : G = IF H < n THEN n ELSE H
    BY <1>2
  <1>21. /\ l + a <= H /\ H <= l + k /\ H <= G /\ n <= G /\ G <= l + k /\ n > G - k
         /\ (G = H \/ (G = n /\ H = n - 1))
    <2>1. l + a <= H /\ H <= l + k
      BY <1>1, <1>2, <1>5 DEF Window
    <2>2. n <= l + k
      BY <1>2, <1>3, <1>4, <1>5, <1>8, FreePlace
    <2> QED
      BY <1>2, <1>20, <2>1, <2>2
  <1>22. Window(G)'
    <2>1. ASSUME NEW p \in Int, Alive(p) PROVE G - k < p
      <3>1. H - k < p
        BY <1>1, <1>2, <2>1 DEF Window
      <3>2. PICK m \in Int : m = n - k
        BY <1>2
      <3>3. ~Alive(m)
        BY <1>2, <1>3, <1>4, <1>5, <1>8, <3>2, FreePlace
      <3>4. p # m
        BY <2>1, <3>3
      <3> QED
        BY <1>2, <1>21, <3>1, <3>2, <3>4
    <2>2. ASSUME NEW p \in Int, G - k < p, p <= G, p # n
          PROVE  p <= H /\ H - k < p /\ EntryAt(p) \in DOMAIN entry /\ entry'[EntryAt(p)].key = entry[EntryAt(p)].key
      <3>1. EntryAt(p) # e /\ EntryAt(p) \in DOMAIN entry
        <4>1. p - n < k /\ n - p < k
          <5>1. n <= G /\ n > G - k
            BY <1>21
          <5> QED
            BY <2>2, <5>1
        <4> QED
          BY <1>1, <1>2, <1>3, <2>2, <4>1, PlaceFacts DEF CountersInv
      <3>2. p <= H /\ H - k < p
        BY <1>2, <1>21, <2>2
      <3> QED
        BY <1>9, <3>1, <3>2
    <2>3. ASSUME NEW p \in Int, G - k < p, p <= G
          PROVE  entry'[EntryAt(p)].key \in {INVALID_BLOCK_BASE, Start(p)}
      <3>1. CASE p = n
        BY <1>3, <1>9, <3>1
      <3>2. CASE p # n
        BY <1>1, <1>2, <2>2, <2>3, <3>2 DEF Window
      <3> QED
        BY <3>1, <3>2
    <2>4. ASSUME NEW p \in Int, l < p, p <= G PROVE entry'[EntryAt(p)].key = Start(p)
      <3>1. CASE p = n
        BY <1>3, <1>9, <3>1
      <3>2. CASE p # n
        <4>1. G - k < p
          BY <1>2, <1>21, <2>4
        <4> QED
          BY <1>1, <1>2, <2>2, <2>4, <3>2, <4>1 DEF Window
      <3> QED
        BY <3>1, <3>2
    <2>5. ASSUME NEW p \in Int, NEW q \in Int, Alive(q), q <= p, p <= G PROVE entry'[EntryAt(p)].key = Start(p)
      <3>1. CASE p = n
        BY <1>3, <1>9, <3>1
      <3>2. CASE p # n
        <4>1. G - k < q
          BY <2>1, <2>5
        <4>2. G - k < p
          BY <1>2, <2>5, <4>1
        <4>3. p <= H /\ entry'[EntryAt(p)].key = entry[EntryAt(p)].key
          BY <2>2, <2>5, <3>2, <4>2
        <4>4. entry[EntryAt(p)].key = Start(p)
          BY <1>1, <2>5, <4>3 DEF Window
        <4> QED
          BY <4>3, <4>4
      <3> QED
        BY <3>1, <3>2
    <2> QED
      BY <1>14, <1>15, <1>16, <1>19, <1>21, <2>1, <2>3, <2>4, <2>5 DEF Window
  <1>23. Values'
    <2>1. \A p \in Int : Alive(p)' => BlockAt(p)' \in Block
      BY <1>1, <1>17, <1>19 DEF Values
    <2>2. \A g \in DOMAIN entry' : entry'[g].value \in Block => \E p \in Int : Alive(p)' /\ g = EntryAt(p)'
      BY <1>1, <1>9, <1>16, <1>19 DEF Values
    <2>3. \A p \in Int : InCall(p)' => BlockAt(p)' = prod'.alloc[p - Published']
      BY <1>1, <1>2, <1>12, <1>14, <1>17, <1>18 DEF Values
    <2>4. ASSUME NEW g \in DOMAIN entry', entry'[g].key # INVALID_BLOCK_BASE,
                 entry'[g].value \notin Block, entry'[g].value # Null
          PROVE  g = e
      BY <1>1, <1>4, <1>9, <2>4 DEF Values, Unset
    <2>5. e = EntryAt(n)' /\ Unset(n)'
      BY <1>2, <1>3, <1>12, <1>15, <1>16 DEF Unset
    <2> QED
      BY <2>1, <2>2, <2>3, <2>4, <2>5 DEF Values
  <1>24. Content' /\ TailBlock' /\ Emptiers' /\ Ways(G)' /\ LocalsOk'
    BY <1>10, <1>16, <1>17, <1>21, OwnerRest
  <1>25. Counts'
    BY <1>1, <1>10, <1>17, <1>19, CountsKept
  <1>26. ProdInv'
    <2>1. Needed' = Needed /\ NewTail' = NewTail
      BY <1>2, <1>10, <1>12, <1>14 DEF Needed, NewTail, current, blockIndex
    <2> QED
      BY <1>2, <1>4, <1>11, <1>12, <2>1 DEF ProdInv
  <1>27. Places'
    <2>1. \A b \in Block : ~Undone(b) /\ ~Undone(b)'
      BY <1>4, <1>12 DEF Undone
    <2> QED
      BY <1>1, <1>9, <1>10, <1>12, <2>1, PlacesKept
  <1> QED
    BY <1>13, <1>16, <1>22, <1>23, <1>24, <1>25, <1>26, <1>27 DEF Running

(* The n-th place loses its block, or the value it never got. *)
LEMMA EntryCleared ==
  ASSUME CountersInv, StorageTypeOK, NEW H \in Int, Running(H), NEW n \in Int, H - Cap < n, n <= H,
         entry' = [entry EXCEPT ![EntryAt(n)].value = Null],
         Cap' = Cap, \A p \in Int : EntryAt(p)' = EntryAt(p),
         Published' = Published, Top' <= H, prod'.alloc = prod.alloc,
         \A p \in Int : Alive(p)' <=> Alive(p) /\ p # n,
         \A p \in Int : InCall(p)' => InCall(p) /\ p # n,
         \A p \in Int : Unset(p) => p = n \/ Unset(p)'
  PROVE  /\ entry' \in Seq(Entries) /\ DOMAIN entry' = DOMAIN entry /\ Len(entry') = Len(entry)
         /\ Window(H)' /\ Values'
         /\ \A p \in Int : Alive(p) /\ p # n => BlockAt(p)' = BlockAt(p)
         /\ \A b \in Block : InEntry(b)' <=> InEntry(b) /\ b # BlockAt(n)
         /\ \A e, f \in DOMAIN entry' : entry'[e].value \in Block /\ entry'[e].value = entry'[f].value => e = f
  <1>1. /\ ProdInv /\ IndexShape /\ Window(H) /\ Values /\ Places
    BY DEF Running
  <1>2. PICK e : e = EntryAt(n) /\ e \in DOMAIN entry
    BY <1>1, PlaceFacts DEF CountersInv
  <1>3. /\ entry' \in Seq(Entries) /\ DOMAIN entry' = DOMAIN entry /\ Len(entry') = Len(entry)
        /\ \A g \in DOMAIN entry : entry'[g].key = entry[g].key
        /\ entry'[e].value = Null /\ \A g \in DOMAIN entry : g # e => entry'[g].value = entry[g].value
    <2>1. Null \in Block \union {Null} /\ entry' = [entry EXCEPT ![e].value = Null]
      BY <1>2
    <2> QED
      BY <1>2, <2>1, ValueChange
  <1>4. Published \in Int /\ Cap \in Int /\ \A p \in Int : EntryAt(p) \in DOMAIN entry
    BY <1>1, Numbers, PlaceFacts DEF CountersInv
  <1>5. Window(H)'
    <2>1. Published' \in Int /\ Published <= Published'
      BY <1>4
    <2>2. \A p \in Int : EntryAt(p) \in DOMAIN entry /\ EntryAt(p)' = EntryAt(p)
      BY <1>4
    <2>3. \A p \in Int : Alive(p)' => Alive(p) \/ Published < p
      OBVIOUS
    <2> QED
      BY <1>1, <1>3, <1>4, <2>1, <2>2, <2>3, WindowKept
  <1>6. ASSUME NEW p \in Int, Alive(p), p # n PROVE EntryAt(p) # e /\ BlockAt(p)' = BlockAt(p)
    <2>1. H - Cap < p /\ p <= H
      <3>1. p <= Top /\ Top <= H /\ Top \in Int
        BY <1>1, <1>6, AliveFacts, Numbers DEF Window, CountersInv
      <3> QED
        BY <1>1, <1>6, <3>1 DEF Window
    <2>2. p - n < Cap /\ n - p < Cap
      BY <1>4, <2>1
    <2>3. EntryAt(p) # e
      BY <1>1, <1>2, <1>6, <2>2, PlaceFacts DEF CountersInv
    <2> QED
      BY <1>3, <1>4, <2>3 DEF BlockAt
  <1>7. Values'
    <2>1. \A p \in Int : Alive(p)' => BlockAt(p)' \in Block
      BY <1>1, <1>6 DEF Values
    <2>2. ASSUME NEW g \in DOMAIN entry, entry'[g].value \in Block
          PROVE  \E p \in Int : Alive(p)' /\ g = EntryAt(p)'
      <3>1. g # e /\ entry[g].value \in Block
        BY <1>3, <2>2, BlockAssumption
      <3>2. PICK p \in Int : Alive(p) /\ g = EntryAt(p)
        BY <1>1, <3>1 DEF Values
      <3> QED
        BY <1>2, <3>1, <3>2
    <2>3. ASSUME NEW p \in Int, InCall(p)' PROVE BlockAt(p)' = prod'.alloc[p - Published']
      <3>1. InCall(p) /\ p # n
        BY <2>3
      <3>2. Alive(p) /\ BlockAt(p) = prod.alloc[p - Published]
        BY <1>1, <3>1 DEF Alive, Values
      <3>3. BlockAt(p)' = BlockAt(p)
        BY <1>6, <3>1, <3>2
      <3> QED
        BY <3>2, <3>3
    <2>4. ASSUME NEW g \in DOMAIN entry, entry'[g].key # INVALID_BLOCK_BASE,
                 entry'[g].value \notin Block, entry'[g].value # Null
          PROVE  \E p \in Int : Unset(p)' /\ g = EntryAt(p)'
      <3>1. g # e /\ entry[g].key # INVALID_BLOCK_BASE /\ entry[g].value \notin Block /\ entry[g].value # Null
        BY <1>3, <2>4
      <3>2. PICK p \in Int : Unset(p) /\ g = EntryAt(p)
        BY <1>1, <3>1 DEF Values
      <3> QED
        BY <1>2, <3>1, <3>2
    <2> QED
      BY <1>3, <2>1, <2>2, <2>3, <2>4 DEF Values
  <1>8. \A f, g \in DOMAIN entry' : entry'[f].value \in Block /\ entry'[f].value = entry'[g].value => f = g
    BY <1>1, <1>3, BlockAssumption DEF Places
  <1>9. ASSUME NEW b \in Block PROVE InEntry(b)' <=> InEntry(b) /\ b # BlockAt(n)
    <2>1. InEntry(b)' => InEntry(b) /\ b # BlockAt(n)
      <3> SUFFICES ASSUME NEW g \in DOMAIN entry, entry'[g].value = b PROVE InEntry(b) /\ b # BlockAt(n)
        BY <1>3 DEF InEntry
      <3>1. g # e /\ entry[g].value = b
        BY <1>3, BlockAssumption
      <3>2. entry[e].value # b
        BY <1>1, <1>2, <3>1 DEF Places
      <3> QED
        BY <1>2, <3>1, <3>2 DEF InEntry, BlockAt
    <2>2. InEntry(b) /\ b # BlockAt(n) => InEntry(b)'
      BY <1>2, <1>3 DEF InEntry, BlockAt
    <2> QED
      BY <2>1, <2>2
  <1> QED
    BY <1>3, <1>5, <1>6, <1>7, <1>8, <1>9

(* The tail of the index goes back. *)
LEMMA Rewound ==
  ASSUME StorageTypeOK, CountersTypeOK, ProdInv, rewind_block_index_tail, LastNum' = LastNum - 1
  PROVE  /\ \A p \in Int : EntryAt(p)' = EntryAt(p)
         /\ Cap' = Cap /\ HeadersKept /\ header' \in Seq(Headers) /\ header' # <<>>
         /\ (Len(entry') = Len(entry) /\ DOMAIN entry' = DOMAIN entry /\ IndexShape => IndexShape')
  <1>1. PICK d \in Int, x \in Int, n \in Int : d = -1 /\ x = current.tail - 1 /\ n = Cap /\ n > 0
    BY Numbers
  <1>2. PICK t \in Int : t = x % n
    BY <1>1, DivMod
  <1>3. t = (current.tail + d) % Cap
    <2>1. current.tail + d = x
      BY <1>1, Numbers
    <2> QED
      BY <1>1, <1>2, <2>1
  <1>4. header' = [header EXCEPT ![blockIndex].tail = t]
    BY <1>1, <1>2, Numbers DEF rewind_block_index_tail, current, Cap
  <1>5. LastNum' = LastNum + d
    BY <1>1, Numbers
  <1> QED
    BY <1>3, <1>4, <1>5, MovedTail

(* get_block_index_index_for_index finds the place of an item's block. *)
LEMMA Located ==
  ASSUME StorageTypeOK, CountersTypeOK, ProdInv,
         entry[current.index[current.tail]].key = Start(LastNum), NEW i \in Int
  PROVE  current.index[IndexFor(current, current.tail, i)] = EntryAt(Num(i))
  <1>1. PICK t \in Int, m \in Int, n \in Int, u \in Int :
          t = current.tail /\ m = LastNum /\ n = Cap /\ u = Num(i)
    BY Numbers, Nums
  <1>2. Base(i) = Start(u) /\ (Start(u) - Start(m)) \div BLOCK_SIZE = u - m
    BY <1>1, Nums, Starts
  <1>3. IndexFor(current, current.tail, i) = (t + (u - m)) % n
    BY <1>1, <1>2 DEF IndexFor, Cap
  <1>4. t + (u - m) = t + u - m
    OBVIOUS
  <1>5. EntryAt(u) = current.index[(t + u - m) % n]
    BY <1>1 DEF EntryAt
  <1> QED
    BY <1>1, <1>3, <1>4, <1>5

(* There is no block: the entry goes back. *)
LEMMA Keeps_BlockAllocationFails ==
  ASSUME CountersInv, StorageTypeOK, LocalsOk, NEW H \in Int, Running(H), BlockAllocationFails
  PROVE  StorageTypeOK' /\ LocalsOk' /\ Running(H)'
  <1>1. /\ ProdInv /\ IndexShape /\ Window(H) /\ Values /\ Counts /\ Places
    BY DEF Running
  <1>2. PICK l \in Int, a \in Int, k \in Int, n \in Int, z \in Int :
          l = Published /\ a = Len(prod.alloc) /\ k = Cap /\ k >= 2 /\ a >= 0 /\ n = l + a + 1 /\ z = 0
    BY <1>1, Numbers DEF CountersInv
  <1>3. /\ prod.pc = "requisition" /\ fails' = fails + 1 /\ rewind_block_index_tail
        /\ entry' = [entry EXCEPT ![current.index[prod.slot]].value = Null]
        /\ prod' = [prod EXCEPT !.pc = "undo", !.slot = 0]
        /\ UNCHANGED <<counters, tailBlock, storage, walk, destroyed>>
    BY DEF BlockAllocationFails
  <1>4. prod.slot = current.tail /\ prod.count > 0
    BY <1>1, <1>3 DEF ProdInv
  <1>5. LastNum = n /\ Top = n
    <2>1. PICK s \in Int : s = prod.slot
      BY DEF StorageTypeOK, Calls
    <2> QED
      BY <1>2, <1>3, <2>1, ByPc
  <1>6. entry' = [entry EXCEPT ![EntryAt(n)].value = Null]
    <2>1. current.index[prod.slot] = EntryAt(n)
      BY <1>1, <1>4, <1>5, PlaceFacts DEF CountersInv
    <2> QED
      BY <1>3, <2>1
  <1>7. UNCHANGED <<tailIndex, headIndex, claim, tailBlock, slots, completely, pool, walk>>
    BY <1>3 DEF counters, storage
  <1>8. /\ prod'.pc = "undo" /\ prod'.slot = 0 /\ prod'.alloc = prod.alloc /\ prod'.count = prod.count
        /\ prod' \in Calls
    <2>1. prod \in Calls
      BY DEF StorageTypeOK
    <2>2. prod' = [pc |-> "undo", count |-> prod.count, alloc |-> prod.alloc, slot |-> 0]
      BY <1>3, <2>1 DEF Calls
    <2> QED
      BY <2>1, <2>2 DEF Calls
  <1>9. Published' = l
    BY <1>2, <1>7 DEF Published
  <1>10. LastNum' = n - 1 /\ Top' = n - 1
    <2>1. l = Published' /\ a = Len(prod'.alloc) /\ z = prod'.slot
      BY <1>2, <1>8, <1>9
    <2>2. LastNum' = l + a - z /\ Top' = l + a
      BY <1>8, <2>1, ByPcNext
    <2> QED
      BY <1>2, <2>2
  <1>11. /\ \A p \in Int : EntryAt(p)' = EntryAt(p)
         /\ Cap' = Cap /\ HeadersKept /\ header' \in Seq(Headers) /\ header' # <<>>
         /\ (Len(entry') = Len(entry) /\ DOMAIN entry' = DOMAIN entry /\ IndexShape => IndexShape')
    BY <1>1, <1>3, <1>5, <1>10, Rewound DEF CountersInv
  <1>12. \A p \in Int : InCall(p)' <=> InCall(p)
    BY <1>2, <1>3, <1>8, <1>9 DEF InCall
  <1>13. /\ \A p \in Int : Alive(p)' <=> Alive(p)
         /\ \A p \in Int : DoneIn(p)' = DoneIn(p)
    BY <1>1, <1>7, <1>12, OwnerFrame
  <1>14. ~Alive(n)
    BY <1>1, <1>2, AliveFacts
  <1>15. n <= H /\ H - k < n /\ Top' <= H
    <2>1. n <= H /\ H <= l + k
      BY <1>1, <1>2, <1>5 DEF Window
    <2> QED
      BY <1>2, <1>10, <2>1
  <1>16. /\ entry' \in Seq(Entries) /\ DOMAIN entry' = DOMAIN entry /\ Len(entry') = Len(entry)
         /\ Window(H)' /\ Values'
         /\ \A p \in Int : Alive(p) /\ p # n => BlockAt(p)' = BlockAt(p)
         /\ \A b \in Block : InEntry(b)' <=> InEntry(b) /\ b # BlockAt(n)
         /\ \A e, f \in DOMAIN entry' : entry'[e].value \in Block /\ entry'[e].value = entry'[f].value => e = f
    <2>1. \A p \in Int : Alive(p)' <=> Alive(p) /\ p # n
      BY <1>13, <1>14
    <2>2. \A p \in Int : InCall(p)' => InCall(p) /\ p # n
      BY <1>12, <1>14 DEF Alive
    <2>3. \A p \in Int : Unset(p) => p = n
      BY <1>3, <1>5 DEF Unset
    <2>4. H - Cap < n /\ Published' = Published
      BY <1>2, <1>9, <1>15
    <2> QED
      BY <1>6, <1>8, <1>11, <1>15, <2>1, <2>2, <2>3, <2>4, EntryCleared
  <1>17. StorageTypeOK'
    BY <1>3, <1>8, <1>11, <1>16 DEF StorageTypeOK, counters, storage
  <1>18. \A p \in Int : Alive(p) => BlockAt(p)' = BlockAt(p)
    BY <1>14, <1>16
  <1>19. Content' /\ TailBlock' /\ Emptiers' /\ Ways(H)' /\ LocalsOk'
    BY <1>7, <1>11, <1>18, OwnerRest
  <1>20. Counts'
    BY <1>1, <1>7, <1>13, <1>18, CountsKept
  <1>21. ProdInv'
    BY <1>2, <1>4, <1>8 DEF ProdInv
  <1>22. BlockAt(n) \notin Block
    <2> SUFFICES ASSUME BlockAt(n) \in Block PROVE FALSE
      OBVIOUS
    <2>1. PICK p \in Int : Alive(p) /\ EntryAt(p) = EntryAt(n)
      BY <1>1, PlaceFacts DEF Values, BlockAt, CountersInv
    <2>2. H - k < p /\ p <= n
      <3>1. H - k < p
        BY <1>1, <1>2, <2>1 DEF Window
      <3>2. p <= n
        BY <1>1, <1>5, <2>1, AliveFacts
      <3> QED
        BY <3>1, <3>2
    <2>3. p - n < k /\ n - p < k
      <3>1. n <= H
        BY <1>15
      <3>2. k > 0
        BY <1>2
      <3> QED
        BY <2>2, <3>1, <3>2
    <2>4. p = n
      BY <1>1, <1>2, <2>1, <2>3, PlaceFacts DEF CountersInv
    <2> QED
      BY <1>14, <2>1, <2>4
  <1>23. Places'
    <2>1. \A b \in Block : (InEntry(b)' <=> InEntry(b)) /\ \A c \in Consumer : Freeing(c, b)' <=> Freeing(c, b)
      BY <1>7, <1>16, <1>22 DEF Freeing
    <2>2. \A m \in DOMAIN prod'.alloc : ~(m <= prod'.slot)
      BY <1>8 DEF Calls
    <2>3. \A b \in Block : ~Undone(b) /\ ~Undone(b)'
      BY <1>3, <2>2 DEF Undone
    <2>4. \A c, d \in Consumer, b \in Block : Freeing(c, b)' /\ Freeing(d, b)' => c = d
      BY <1>1, <2>1 DEF Places
    <2>5. ASSUME NEW b \in Block
          PROVE  /\ pool'[b] = 1 \/ (pool'[b] = 0 /\ (InEntry(b)' \/ (\E c \in Consumer : Freeing(c, b)') \/ Undone(b)'))
                 /\ pool'[b] = 1 => ~InEntry(b)' /\ (\A c \in Consumer : ~Freeing(c, b)') /\ ~Undone(b)'
                 /\ InEntry(b)' => (\A c \in Consumer : ~Freeing(c, b)') /\ ~Undone(b)'
                 /\ \A c \in Consumer : Freeing(c, b)' => ~Undone(b)'
      BY <1>1, <1>7, <2>1, <2>3 DEF Places
    <2> QED
      BY <1>16, <2>2, <2>4, <2>5 DEF Places
  <1> QED
    BY <1>1, <1>11, <1>16, <1>17, <1>19, <1>20, <1>21, <1>23 DEF Running

(* The next block of a call that gave up leaves the index. *)
LEMMA Keeps_UndoEntry ==
  ASSUME CountersInv, StorageTypeOK, LocalsOk, NEW H \in Int, Running(H), UndoEntry
  PROVE  StorageTypeOK' /\ LocalsOk' /\ Running(H)'
  <1>1. /\ ProdInv /\ IndexShape /\ Window(H) /\ Values /\ Counts /\ Places
    BY DEF Running
  <1>2. PICK l \in Int, a \in Int, k \in Int, s \in Int, m \in Int, u \in Int :
          /\ l = Published /\ a = Len(prod.alloc) /\ k = Cap /\ k >= 2 /\ a >= 0 /\ s = prod.slot
          /\ m = l + a - s /\ u = l + 1 + s
    <2>1. prod.slot \in Int
      BY DEF StorageTypeOK, Calls
    <2>4. Published \in Int /\ Len(prod.alloc) \in Nat /\ Cap \in Int /\ Cap >= 2
      BY <1>1, Numbers DEF CountersInv
    <2>2. PICK l \in Int, a \in Int, k \in Int, s \in Int :
            l = Published /\ a = Len(prod.alloc) /\ k = Cap /\ k >= 2 /\ a >= 0 /\ s = prod.slot
      BY <2>1, <2>4
    <2>3. PICK m \in Int, u \in Int : m = l + a - s /\ u = l + 1 + s
      OBVIOUS
    <2> QED
      BY <2>2, <2>3
  <1>3. /\ prod.pc = "undo" /\ s < a
        /\ entry' = [entry EXCEPT ![current.index[IndexFor(current, current.tail,
                        FirstBlock(tailIndex) + BLOCK_SIZE * s)]].value = Null]
        /\ rewind_block_index_tail
        /\ prod' = [prod EXCEPT !.slot = @ + 1]
        /\ UNCHANGED <<counters, tailBlock, storage, walk, fails, destroyed>>
    BY <1>2 DEF UndoEntry
  <1>4. s >= 0 /\ prod.count > 0
    BY <1>1, <1>2, <1>3 DEF ProdInv
  <1>5. LastNum = m /\ Top = l + a
    <2>1. l = Published /\ a = Len(prod.alloc) /\ s = prod.slot /\ m = l + a - s
      BY <1>2
    <2>2. prod.pc = "undo" => LastNum = l + a - s /\ Top = l + a
      BY <2>1, ByPc
    <2> QED
      BY <1>3, <2>1, <2>2
  <1>6. l < m /\ m <= H /\ l + a <= H /\ H <= l + k /\ l < u /\ u <= l + a
    <2>1. l + a <= H /\ H <= l + k
      BY <1>1, <1>2, <1>5 DEF Window
    <2>2. m = l + a - s /\ u = l + 1 + s
      BY <1>2
    <2> QED
      BY <1>3, <1>4, <2>1, <2>2
  <1>7. entry' = [entry EXCEPT ![EntryAt(u)].value = Null]
    <2>1. entry[EntryAt(m)].key = Start(m)
      BY <1>1, <1>2, <1>6 DEF Window
    <2>2. entry[current.index[current.tail]].key = Start(LastNum)
      BY <1>1, <1>5, <2>1, PlaceFacts DEF CountersInv
    <2>3. PICK i \in Int : i = Start(u)
      BY Starts
    <2>4. FirstBlock(tailIndex) + BLOCK_SIZE * s = i
      BY <1>1, <1>2, <2>3, NextBaseIs
    <2>5. current.index[IndexFor(current, current.tail, i)] = EntryAt(Num(i))
      BY <1>1, <2>2, Located DEF CountersInv
    <2>6. Num(i) = u
      BY <2>3, Nums, BlockSize
    <2> QED
      BY <1>3, <2>4, <2>5, <2>6
  <1>8. UNCHANGED <<tailIndex, headIndex, claim, tailBlock, slots, completely, pool, walk>>
    BY <1>3 DEF counters, storage
  <1>9. /\ prod'.pc = "undo" /\ prod'.slot = s + 1 /\ prod'.alloc = prod.alloc /\ prod'.count = prod.count
        /\ prod' \in Calls
    <2>1. prod \in Calls
      BY DEF StorageTypeOK
    <2>2. PICK r \in Int : r = s + 1
      OBVIOUS
    <2>3. prod' = [pc |-> "undo", count |-> prod.count, alloc |-> prod.alloc, slot |-> r]
      BY <1>2, <1>3, <2>1, <2>2 DEF Calls
    <2> QED
      BY <2>1, <2>2, <2>3 DEF Calls
  <1>10. Published' = l
    BY <1>2, <1>8 DEF Published
  <1>11. LastNum' = m - 1 /\ Top' = l + a
    <2>1. PICK z \in Int : z = s + 1 /\ l + a - z = m - 1
      <3>1. s + 1 \in Int /\ l + a - (s + 1) = (l + a - s) - 1
        OBVIOUS
      <3>2. l + a - (s + 1) = m - 1
        BY <1>2, <3>1, Zenon
      <3> QED
        BY <3>1, <3>2
    <2>2. l = Published' /\ a = Len(prod'.alloc) /\ z = prod'.slot
      BY <1>2, <1>9, <1>10, <2>1
    <2>3. LastNum' = l + a - z /\ Top' = l + a
      BY <1>9, <2>2, ByPcNext
    <2> QED
      BY <2>1, <2>3
  <1>12. /\ \A p \in Int : EntryAt(p)' = EntryAt(p)
         /\ Cap' = Cap /\ HeadersKept /\ header' \in Seq(Headers) /\ header' # <<>>
         /\ (Len(entry') = Len(entry) /\ DOMAIN entry' = DOMAIN entry /\ IndexShape => IndexShape')
    BY <1>1, <1>3, <1>5, <1>11, Rewound DEF CountersInv
  <1>13. \A p \in Int : InCall(p)' <=> InCall(p) /\ p # u
    <2> SUFFICES ASSUME NEW p \in Int PROVE InCall(p)' <=> InCall(p) /\ p # u
      OBVIOUS
    <2>1. InCall(p)' <=> l < p /\ p <= l + a /\ p > l + (s + 1)
      BY <1>2, <1>9, <1>10 DEF InCall
    <2>2. InCall(p) <=> l < p /\ p <= l + a /\ p > l + s
      BY <1>2, <1>3 DEF InCall
    <2>3. u = l + 1 + s
      BY <1>2
    <2> QED
      BY <2>1, <2>2, <2>3
  <1>14. \A p \in Int : Alive(p)' <=> Alive(p) /\ p # u
    <2>1. /\ \A p \in Int : Full(p)' <=> Full(p)
          /\ \A c \in Consumer, p \in Int : Emptier(c, p)' <=> Emptier(c, p)
      BY <1>8, OwnerGone
    <2>2. \A p \in Int : p <= l => p # u
      BY <1>6
    <2> QED
      BY <1>2, <1>10, <1>13, <2>1, <2>2 DEF Alive
  <1>15. \A p \in Int : DoneIn(p)' = DoneIn(p)
    BY <1>8, OwnerGone
  <1>16. InCall(u) /\ Alive(u)
    <2>1. u > l + s
      <3>1. u = l + 1 + s
        BY <1>2
      <3> QED
        BY <3>1
    <2> QED
      BY <1>2, <1>3, <1>6, <2>1 DEF InCall, Alive
  <1>17. /\ entry' \in Seq(Entries) /\ DOMAIN entry' = DOMAIN entry /\ Len(entry') = Len(entry)
         /\ Window(H)' /\ Values'
         /\ \A p \in Int : Alive(p) /\ p # u => BlockAt(p)' = BlockAt(p)
         /\ \A b \in Block : InEntry(b)' <=> InEntry(b) /\ b # BlockAt(u)
         /\ \A e, f \in DOMAIN entry' : entry'[e].value \in Block /\ entry'[e].value = entry'[f].value => e = f
    <2>1. u <= H /\ H - k < u
      BY <1>6
    <2>2. \A p \in Int : ~Unset(p)
      BY <1>3 DEF Unset
    <2>3. H - Cap < u /\ Published' = Published /\ Top' <= H
      BY <1>2, <1>6, <1>10, <1>11, <2>1
    <2> QED
      BY <1>7, <1>9, <1>12, <1>13, <1>14, <2>1, <2>2, <2>3, EntryCleared
  <1>18. StorageTypeOK'
    BY <1>3, <1>9, <1>12, <1>17 DEF StorageTypeOK, counters, storage
  <1>19. \A p \in Int : Alive(p) /\ p <= Published => BlockAt(p)' = BlockAt(p)
    BY <1>2, <1>6, <1>17
  <1>20. Content' /\ TailBlock' /\ Emptiers' /\ Ways(H)' /\ LocalsOk'
    BY <1>8, <1>12, <1>19, OwnerRest
  <1>21. Counts'
    BY <1>1, <1>8, <1>14, <1>15, <1>17, CountsKept
  <1>22. ProdInv'
    <2>1. s + 1 <= a /\ s + 1 >= 0
      BY <1>3, <1>4
    <2> QED
      BY <1>2, <1>4, <1>9, <2>1 DEF ProdInv
  <1>23. PICK x : x \in Block /\ x = BlockAt(u) /\ x = prod.alloc[s + 1] /\ InEntry(x)
    <2>1. u - l = s + 1
      <3>1. u = l + 1 + s
        BY <1>2
      <3> QED
        BY <3>1
    <2>2. BlockAt(u) = prod.alloc[s + 1] /\ BlockAt(u) \in Block
      BY <1>1, <1>2, <1>16, <2>1 DEF Values
    <2>3. InEntry(BlockAt(u))
      BY <1>1, PlaceFacts DEF InEntry, BlockAt, CountersInv
    <2> QED
      BY <2>2, <2>3
  <1>24. Places'
    <2>1. \A b \in Block : (InEntry(b)' <=> InEntry(b) /\ b # x) /\ \A c \in Consumer : Freeing(c, b)' <=> Freeing(c, b)
      BY <1>8, <1>17, <1>23 DEF Freeing
    <2>2. DOMAIN prod.alloc = 1..a
      BY <1>2 DEF StorageTypeOK, Calls
    <2>3. \A j \in DOMAIN prod.alloc : j <= s + 1 <=> j <= s \/ j = s + 1
      BY <1>3, <1>4, <2>2
    <2>4. \A b \in Block : Undone(b)' <=> Undone(b) \/ b = x
      <3>1. \A b : Undone(b)' <=> \E j \in DOMAIN prod.alloc : j <= s + 1 /\ prod.alloc[j] = b
        BY <1>9 DEF Undone
      <3>2. \A b : Undone(b) <=> \E j \in DOMAIN prod.alloc : j <= s /\ prod.alloc[j] = b
        BY <1>2, <1>3 DEF Undone
      <3>3. s + 1 \in DOMAIN prod.alloc
        BY <1>3, <1>4, <2>2
      <3> QED
        BY <1>23, <2>3, <3>1, <3>2, <3>3
    <2>5. \A i, j \in DOMAIN prod'.alloc :
             i <= prod'.slot /\ j <= prod'.slot /\ prod'.alloc[i] = prod'.alloc[j] => i = j
      <3>1. ~Undone(x)
        BY <1>1, <1>23 DEF Places
      <3>2. \A j \in DOMAIN prod.alloc : j <= s => prod.alloc[j] # x
        BY <1>2, <1>3, <3>1 DEF Undone
      <3>3. \A i, j \in DOMAIN prod.alloc : i <= s /\ j <= s /\ prod.alloc[i] = prod.alloc[j] => i = j
        BY <1>1, <1>2, <1>3 DEF Places
      <3> QED
        BY <1>9, <1>23, <2>3, <3>2, <3>3
    <2>6. \A c, d \in Consumer, b \in Block : Freeing(c, b)' /\ Freeing(d, b)' => c = d
      BY <1>1, <2>1 DEF Places
    <2>7. ASSUME NEW b \in Block
          PROVE  /\ pool'[b] = 1 \/ (pool'[b] = 0 /\ (InEntry(b)' \/ (\E c \in Consumer : Freeing(c, b)') \/ Undone(b)'))
                 /\ pool'[b] = 1 => ~InEntry(b)' /\ (\A c \in Consumer : ~Freeing(c, b)') /\ ~Undone(b)'
                 /\ InEntry(b)' => (\A c \in Consumer : ~Freeing(c, b)') /\ ~Undone(b)'
                 /\ \A c \in Consumer : Freeing(c, b)' => ~Undone(b)'
      BY <1>1, <1>8, <1>23, <2>1, <2>4 DEF Places
    <2> QED
      BY <1>17, <2>5, <2>6, <2>7 DEF Places
  <1> QED
    BY <1>1, <1>12, <1>17, <1>18, <1>20, <1>21, <1>22, <1>24 DEF Running

(* A block leaves the pool and gets into the index. *)
LEMMA Keeps_requisition_block ==
  ASSUME CountersInv, StorageTypeOK, LocalsOk, NEW H \in Int, Running(H), requisition_block
  PROVE  StorageTypeOK' /\ LocalsOk' /\ Running(H)'
  <1>1. /\ ProdInv /\ IndexShape /\ Window(H) /\ Values /\ Counts /\ Places
    BY DEF Running
  <1>2. PICK l \in Int, a \in Int, k \in Int, n \in Int :
          l = Published /\ a = Len(prod.alloc) /\ k = Cap /\ k >= 2 /\ a >= 0 /\ n = l + a + 1
    BY <1>1, Numbers DEF CountersInv
  <1>3. PICK b, p :
          /\ b \in Block /\ pool[b] > 0
          /\ pool' = [pool EXCEPT ![b] = @ - 1]
          /\ completely' = [completely EXCEPT ![b] = 0]
          /\ entry' = [entry EXCEPT ![current.index[prod.slot]].value = b]
          /\ p = [prod EXCEPT !.alloc = Append(@, b), !.slot = 0]
          /\ prod' = [p EXCEPT !.pc = Continue(p)]
    BY DEF requisition_block
  <1> b \in Block
    BY <1>3
  <1>4. /\ prod.pc = "requisition"
        /\ UNCHANGED <<counters, tailBlock, header, slots, walk, fails, destroyed>>
    BY DEF requisition_block
  <1>5. prod.slot = current.tail /\ prod.count > 0 /\ a < Needed
    BY <1>1, <1>2, <1>4 DEF ProdInv
  <1>6. LastNum = n /\ Top = n
    <2>1. PICK s \in Int : s = prod.slot
      BY DEF StorageTypeOK, Calls
    <2> QED
      BY <1>2, <1>4, <2>1, ByPc
  <1>7. PICK e : e = EntryAt(n) /\ e \in DOMAIN entry /\ entry' = [entry EXCEPT ![e].value = b]
    <2>1. current.index[prod.slot] = EntryAt(n) /\ EntryAt(n) \in DOMAIN entry
      BY <1>1, <1>5, <1>6, PlaceFacts DEF CountersInv
    <2> QED
      BY <1>3, <2>1
  <1>8. /\ entry' \in Seq(Entries) /\ DOMAIN entry' = DOMAIN entry /\ Len(entry') = Len(entry)
        /\ \A g \in DOMAIN entry : entry'[g].key = entry[g].key
        /\ entry'[e].value = b /\ \A g \in DOMAIN entry : g # e => entry'[g].value = entry[g].value
    <2>1. b \in Block \union {Null}
      OBVIOUS
    <2> QED
      BY <1>7, <2>1, ValueChange
  <1>9. UNCHANGED <<tailIndex, headIndex, claim, tailBlock, header, slots, walk>>
    BY <1>4 DEF counters
  <1>10. PICK alloc \in Seq(Block) :
           /\ alloc = Append(prod.alloc, b) /\ Len(alloc) = a + 1 /\ alloc[a + 1] = b
           /\ \A j \in Int : 1 <= j /\ j <= a => alloc[j] = prod.alloc[j]
    <2>1. PICK s \in Seq(Block) : s = prod.alloc
      BY DEF StorageTypeOK, Calls
    <2>2. PICK t : t = Append(s, b)
      OBVIOUS
    <2>3. t \in Seq(Block) /\ Len(t) = Len(s) + 1 /\ t[Len(s) + 1] = b
          /\ \A j \in Int : 1 <= j /\ j <= Len(s) => t[j] = s[j]
      BY <2>1, <2>2
    <2>4. Len(s) = a
      BY <1>2, <2>1
    <2> QED
      BY <2>1, <2>2, <2>3, <2>4
  <1>11. /\ p.count = prod.count /\ p.count \in Int /\ p.alloc = alloc
         /\ prod' = [pc |-> Continue(p), count |-> prod.count, alloc |-> alloc, slot |-> 0]
    <2>1. prod \in Calls
      BY DEF StorageTypeOK
    <2>2. p = [pc |-> "requisition", count |-> prod.count, alloc |-> alloc, slot |-> 0]
      BY <1>3, <1>4, <1>10, <2>1 DEF Calls
    <2>3. PICK x : x = Continue(p)
      OBVIOUS
    <2>4. prod' = [p EXCEPT !.pc = x]
      BY <1>3, <2>3
    <2>5. prod' = [pc |-> x, count |-> prod.count, alloc |-> alloc, slot |-> 0]
      BY <2>2, <2>4
    <2>6. prod.count \in Int
      BY <2>1 DEF Calls
    <2> QED
      BY <2>2, <2>3, <2>5, <2>6
  <1>12. \/ Continue(p) = "insert" /\ a + 1 < Needed
         \/ Continue(p) = "write" /\ ~(a + 1 < Needed)
    BY <1>10, <1>11, Continues DEF Needed
  <1>13. /\ prod'.pc \in {"insert", "write"} /\ prod'.slot = 0 /\ prod'.alloc = alloc
         /\ prod'.count = prod.count /\ prod'.pc = Continue(p)
    BY <1>11, <1>12
  <1>14. prod' \in Calls
    BY <1>11, <1>12 DEF StorageTypeOK, Calls
  <1>15. Published' = l
    BY <1>2, <1>9 DEF Published
  <1>16. LastNum' = n /\ Top' = n
    <2>1. PICK z \in Int, y \in Int : z = 0 /\ y = a + 1
      OBVIOUS
    <2>2. l = Published' /\ y = Len(prod'.alloc) /\ z = prod'.slot
      BY <1>10, <1>13, <1>15, <2>1
    <2>3. LastNum' = l + y /\ Top' = l + y
      BY <1>13, <2>2, ByPcNext
    <2> QED
      BY <1>2, <2>1, <2>3
  <1>17. HeadersKept /\ Cap' = Cap /\ (\A q \in Int : EntryAt(q)' = EntryAt(q)) /\ IndexShape'
    BY <1>1, <1>6, <1>8, <1>9, <1>16, SamePlaces
  <1>18. \A q \in Int : InCall(q)' <=> InCall(q) \/ q = n
    <2> SUFFICES ASSUME NEW q \in Int PROVE InCall(q)' <=> InCall(q) \/ q = n
      OBVIOUS
    <2>1. InCall(q)' <=> l < q /\ q <= l + (a + 1)
      BY <1>10, <1>13, <1>15 DEF InCall
    <2>2. InCall(q) <=> l < q /\ q <= l + a
      BY <1>2, <1>4 DEF InCall
    <2>3. n = l + a + 1 /\ a >= 0
      BY <1>2
    <2> QED
      BY <2>1, <2>2, <2>3
  <1>19. \A q \in Int : Alive(q)' <=> Alive(q) \/ q = n
    <2>1. /\ \A q \in Int : Full(q)' <=> Full(q)
          /\ \A c \in Consumer, q \in Int : Emptier(c, q)' <=> Emptier(c, q)
      BY <1>9, OwnerGone
    <2> QED
      BY <1>2, <1>15, <1>18, <2>1 DEF Alive
  <1>20. \A q \in Int : DoneIn(q)' = DoneIn(q)
    BY <1>9, OwnerGone
  <1>21. l < n /\ n <= H /\ H - k < n
    <2>1. n <= H /\ H <= l + k
      BY <1>1, <1>2, <1>6 DEF Window
    <2>2. l < n
      BY <1>2
    <2> QED
      BY <2>1, <2>2
  <1>22. ~Alive(n) /\ DoneIn(n) = {}
    BY <1>1, <1>2, <1>21, AliveFacts
  <1>23. ASSUME NEW q \in Int, Alive(q) PROVE EntryAt(q) # e /\ BlockAt(q)' = BlockAt(q) /\ q # n /\ q <= n
    <2>1. H - k < q /\ q <= n /\ q # n
      BY <1>1, <1>2, <1>6, <1>22, <1>23, AliveFacts DEF Window
    <2>2. q - n < k /\ n - q < k
      <3>1. n <= H /\ k > 0
        BY <1>2, <1>21
      <3> QED
        BY <2>1, <3>1
    <2>3. EntryAt(q) # e /\ EntryAt(q) \in DOMAIN entry
      BY <1>1, <1>2, <1>7, <1>23, <2>1, <2>2, PlaceFacts DEF CountersInv
    <2> QED
      BY <1>8, <1>17, <2>1, <2>3 DEF BlockAt
  <1>24. BlockAt(n)' = b
    BY <1>7, <1>8, <1>17 DEF BlockAt
  <1>25. pool[b] = 1 /\ ~InEntry(b) /\ (\A c \in Consumer : ~Freeing(c, b)) /\ ~Undone(b)
    BY <1>1, <1>3 DEF Places
  <1>26. StorageTypeOK'
    <2>1. completely' \in [Block -> Int] /\ pool' \in [Block -> Nat]
      BY <1>3, <1>25 DEF StorageTypeOK
    <2> QED
      BY <1>4, <1>8, <1>9, <1>14, <2>1 DEF StorageTypeOK
  <1>27. Window(H)'
    <2>1. Published' \in Int /\ Published <= Published' /\ Published \in Int /\ Cap \in Int
      BY <1>2, <1>15
    <2>2. \A q \in Int : EntryAt(q) \in DOMAIN entry /\ EntryAt(q)' = EntryAt(q)
      BY <1>1, <1>17, PlaceFacts DEF CountersInv
    <2>3. \A q \in Int : Alive(q)' => Alive(q) \/ Published < q
      BY <1>2, <1>19, <1>21
    <2>4. Top' <= H
      BY <1>16, <1>21
    <2> QED
      BY <1>1, <1>8, <1>17, <2>1, <2>2, <2>3, <2>4, WindowKept
  <1>28. entry[e].value \notin Block
    <2> SUFFICES ASSUME entry[e].value \in Block PROVE FALSE
      OBVIOUS
    <2>1. PICK q \in Int : Alive(q) /\ e = EntryAt(q)
      BY <1>1, <1>7 DEF Values
    <2> QED
      BY <1>23, <2>1
  <1>29. \A x \in Block : InEntry(x)' <=> InEntry(x) \/ x = b
    BY <1>7, <1>8, <1>28 DEF InEntry
  <1>30. Values'
    <2>1. \A q \in Int : Alive(q)' => BlockAt(q)' \in Block
      BY <1>1, <1>19, <1>23, <1>24 DEF Values
    <2>2. ASSUME NEW g \in DOMAIN entry, entry'[g].value \in Block
          PROVE  \E q \in Int : Alive(q)' /\ g = EntryAt(q)'
      <3>1. CASE g = e
        BY <1>7, <1>17, <1>19, <3>1
      <3>2. CASE g # e
        <4>1. PICK q \in Int : Alive(q) /\ g = EntryAt(q)
          BY <1>1, <1>8, <2>2, <3>2 DEF Values
        <4> QED
          BY <1>17, <1>19, <4>1
      <3> QED
        BY <3>1, <3>2
    <2>3. ASSUME NEW q \in Int, InCall(q)' PROVE BlockAt(q)' = prod'.alloc[q - Published']
      <3>1. CASE q = n
        <4>1. q - l = a + 1
          <5>1. q = l + a + 1
            BY <1>2, <3>1
          <5> QED
            BY <5>1
        <4> QED
          BY <1>10, <1>13, <1>15, <1>24, <3>1, <4>1
      <3>2. CASE q # n
        <4>1. InCall(q) /\ Alive(q)
          BY <1>18, <2>3, <3>2 DEF Alive
        <4>2. BlockAt(q)' = prod.alloc[q - l]
          BY <1>1, <1>2, <1>23, <4>1 DEF Values
        <4>3. l < q /\ q <= l + a
          BY <1>2, <4>1 DEF InCall
        <4>4. 1 <= q - l /\ q - l <= a /\ q - l \in Int
          BY <4>3
        <4> QED
          BY <1>10, <1>13, <1>15, <4>2, <4>4
      <3> QED
        BY <3>1, <3>2
    <2>4. ASSUME NEW g \in DOMAIN entry, entry'[g].key # INVALID_BLOCK_BASE,
                 entry'[g].value \notin Block, entry'[g].value # Null
          PROVE  FALSE
      <3>1. g # e /\ entry[g].key # INVALID_BLOCK_BASE /\ entry[g].value \notin Block /\ entry[g].value # Null
        BY <1>8, <2>4
      <3>2. PICK q \in Int : Unset(q) /\ g = EntryAt(q)
        BY <1>1, <3>1 DEF Values
      <3>3. q = n
        BY <1>4, <1>6, <3>2 DEF Unset
      <3> QED
        BY <1>7, <3>1, <3>2, <3>3
    <2> QED
      BY <1>8, <2>1, <2>2, <2>3, <2>4 DEF Values
  <1>31. Content' /\ TailBlock' /\ Emptiers' /\ Ways(H)' /\ LocalsOk'
    BY <1>9, <1>17, <1>23, OwnerRest
  <1>32. Counts'
    <2> SUFFICES ASSUME NEW q \in Int, Alive(q)' PROVE completely'[BlockAt(q)'] = Cardinality(DoneIn(q)')
      BY DEF Counts
    <2>1. CASE q = n
      <3>1. completely'[b] = 0
        BY <1>3 DEF StorageTypeOK
      <3> QED
        BY <1>20, <1>22, <1>24, <2>1, <3>1, FS_EmptySet
    <2>2. CASE q # n
      <3>1. Alive(q) /\ BlockAt(q)' = BlockAt(q) /\ BlockAt(q) \in Block
        BY <1>1, <1>19, <1>23, <2>2 DEF Values
      <3>2. BlockAt(q) # b
        BY <1>1, <1>25, PlaceFacts DEF InEntry, BlockAt, CountersInv
      <3>3. completely'[BlockAt(q)] = completely[BlockAt(q)]
        BY <1>3, <3>1, <3>2 DEF StorageTypeOK
      <3> QED
        BY <1>1, <1>20, <3>1, <3>3 DEF Counts
    <2> QED
      BY <2>1, <2>2
  <1>33. ProdInv'
    <2>1. Needed' = Needed /\ Needed \in Int
      <3>1. Needed' = Needed
        BY <1>2, <1>9, <1>13, <1>15 DEF Needed
      <3>2. PICK x \in Int : x = tailIndex + prod.count - 1
        BY HeadTail DEF StorageTypeOK, Calls
      <3>3. Num(x) \in Int
        BY Nums
      <3> QED
        BY <1>2, <3>1, <3>2, <3>3 DEF Needed
    <2>2. Len(prod'.alloc) = a + 1
      BY <1>10, <1>13
    <2> QED
      BY <1>5, <1>12, <1>13, <2>1, <2>2 DEF ProdInv
  <1>34. Places'
    <2>1. \A x \in Block : ~Undone(x) /\ ~Undone(x)' /\ \A c \in Consumer : Freeing(c, x)' <=> Freeing(c, x)
      BY <1>4, <1>9, <1>13 DEF Undone, Freeing
    <2>2. \A f, g \in DOMAIN entry' : entry'[f].value \in Block /\ entry'[f].value = entry'[g].value => f = g
      <3>1. \A g \in DOMAIN entry : g # e => entry'[g].value # b
        BY <1>8, <1>25 DEF InEntry
      <3> QED
        BY <1>1, <1>8, <3>1 DEF Places
    <2>3. \A c, d \in Consumer, x \in Block : Freeing(c, x)' /\ Freeing(d, x)' => c = d
      BY <1>1, <2>1 DEF Places
    <2>4. ASSUME NEW x \in Block
          PROVE  /\ pool'[x] = 1 \/ (pool'[x] = 0 /\ (InEntry(x)' \/ (\E c \in Consumer : Freeing(c, x)') \/ Undone(x)'))
                 /\ pool'[x] = 1 => ~InEntry(x)' /\ (\A c \in Consumer : ~Freeing(c, x)') /\ ~Undone(x)'
                 /\ InEntry(x)' => (\A c \in Consumer : ~Freeing(c, x)') /\ ~Undone(x)'
                 /\ \A c \in Consumer : Freeing(c, x)' => ~Undone(x)'
      <3>1. CASE x = b
        <4>1. pool'[x] = 0
          BY <1>3, <1>25, <3>1 DEF StorageTypeOK
        <4> QED
          BY <1>25, <1>29, <2>1, <3>1, <4>1
      <3>2. CASE x # b
        <4>1. pool'[x] = pool[x]
          BY <1>3, <3>2 DEF StorageTypeOK
        <4> QED
          BY <1>1, <1>29, <2>1, <3>2, <4>1 DEF Places
      <3> QED
        BY <3>1, <3>2
    <2> QED
      BY <1>13, <2>2, <2>3, <2>4 DEF Places
  <1> QED
    BY <1>17, <1>26, <1>27, <1>30, <1>31, <1>32, <1>33, <1>34 DEF Running

(* The larger index has the old places, the oldest first, then new ones. *)
LEMMA GrownFacts ==
  ASSUME StorageTypeOK, CountersTypeOK, ProdInv, IndexShape, new_block_index,
         NEW k \in Int, k = Cap, NEW L \in Int, L = LastNum
  PROVE  /\ entry' \in Seq(Entries) /\ DOMAIN entry = 1..k /\ DOMAIN entry' = 1..(2 * k)
         /\ \A e \in DOMAIN entry : entry'[e] = entry[e]
         /\ \A e \in DOMAIN entry' : k < e => entry'[e] = NewEntry
         /\ header' \in Seq(Headers) /\ header' # <<>> /\ HeadersKept /\ Cap' = 2 * k
         /\ \A p \in Int : L - k < p /\ p <= L => EntryAt(p)' = EntryAt(p)
         /\ \A p \in Int : L - 2 * k < p /\ p <= L - k =>
              EntryAt(p)' \in DOMAIN entry' /\ k < EntryAt(p)'
         /\ IndexShape'
  <1>1. PICK t, f : t \in Int /\ t = current.tail /\ f = current.index /\ k >= 2 /\ 0 <= t /\ t < k
    BY Numbers
  <1> t \in Int
    BY <1>1
  <1>2. k > 0 /\ 2 * k > 0
    BY <1>1
  <1>3. Len(entry) = k /\ entry \in Seq(Entries) /\ DOMAIN entry = 1..k
    BY DEF IndexShape, StorageTypeOK
  <1>4. current \in Headers /\ current.capacity = k /\ f \in [0..(k - 1) -> Int]
    BY <1>1, Numbers, HeaderFacts DEF Cap
  <1>5. PICK g : g = Grown(current, k)
    OBVIOUS
  <1>6. PICK idx : idx = [i \in 0..(2 * k - 1) |-> IF i < k THEN f[(t + 1 + i) % k] ELSE k + i - k + 1]
    OBVIOUS
  <1>7. g = [capacity |-> 2 * k, tail |-> k - 1, index |-> idx]
    BY <1>1, <1>4, <1>5, <1>6 DEF Grown
  <1>8. \A i \in Int : (t + 1 + i) % k \in Int /\ 0 <= (t + 1 + i) % k /\ (t + 1 + i) % k < k
    <2>1. TAKE i \in Int
    <2>2. PICK x \in Int : x = t + 1 + i
      OBVIOUS
    <2>3. x % k \in Int /\ 0 <= x % k /\ x % k < k
      BY <1>2, DivMod
    <2> QED
      BY <2>2, <2>3
  <1>9. \A i \in Int : 0 <= i /\ i < k => idx[i] = f[(t + 1 + i) % k]
    BY <1>2, <1>6
  <1>10. \A i \in Int : k <= i /\ i < 2 * k => idx[i] = i + 1
    BY <1>2, <1>6
  <1>11. \A i \in Int : 0 <= i /\ i < k => f[i] \in 1..k
    <2>1. \A i \in 0..(header[blockIndex].capacity - 1) : header[blockIndex].index[i] \in DOMAIN entry
      BY Numbers DEF IndexShape
    <2>2. header[blockIndex].capacity = k /\ header[blockIndex].index = f
      BY <1>1, <1>4 DEF current
    <2> QED
      BY <1>3, <2>1, <2>2
  <1>12. \A i \in Int : 0 <= i /\ i < k => idx[i] \in 1..k
    BY <1>8, <1>9, <1>11
  <1>13. \A i \in Int : 0 <= i /\ i < 2 * k => idx[i] \in 1..(2 * k)
    BY <1>2, <1>10, <1>12
  <1>14. g \in Headers
    <2>1. idx \in [0..(2 * k - 1) -> Int]
      <3>1. \A i \in 0..(2 * k - 1) : idx[i] \in Int
        BY <1>2, <1>13
      <3>2. \A i \in 0..(2 * k - 1) : (IF i < k THEN f[(t + 1 + i) % k] ELSE k + i - k + 1) \in Int
        <4> TAKE i \in 0..(2 * k - 1)
        <4>1. idx[i] = IF i < k THEN f[(t + 1 + i) % k] ELSE k + i - k + 1
          BY <1>6
        <4> QED
          BY <3>1, <4>1
      <3> QED
        BY <1>6, <3>2
    <2>2. 2 * k \in Nat \ {0, 1} /\ k - 1 \in 0..(2 * k - 1)
      BY <1>1
    <2>3. PICK n \in Nat \ {0, 1} : n = 2 * k
      BY <2>2
    <2>4. g \in [capacity : {n}, tail : 0..(n - 1), index : [0..(n - 1) -> Int]]
      BY <1>7, <2>1, <2>2, <2>3
    <2> QED
      BY <2>4 DEF Headers
  <1>15. header' = Append(header, g) /\ entry' = entry \o [i \in 1..k |-> NewEntry]
    BY <1>3, <1>4, <1>5 DEF new_block_index
  <1>16. header' \in Seq(Headers) /\ header' # <<>> /\ Len(header') = Len(header) + 1
         /\ header'[Len(header) + 1] = g /\ \A h \in DOMAIN header : h \in DOMAIN header' /\ header'[h] = header[h]
    <2>1. PICK s \in Seq(Headers) : s = header
      BY DEF StorageTypeOK
    <2>2. header' = Append(s, g)
      BY <1>15, <2>1
    <2>3. /\ Append(s, g) \in Seq(Headers) /\ Len(Append(s, g)) = Len(s) + 1
          /\ Append(s, g)[Len(s) + 1] = g
          /\ \A h \in DOMAIN s : h \in DOMAIN Append(s, g) /\ Append(s, g)[h] = s[h]
      BY <1>14
    <2>4. header' # <<>>
      BY <2>2, <2>3
    <2> QED
      BY <2>1, <2>2, <2>3, <2>4
  <1>17. HeadersKept
    BY <1>16 DEF HeadersKept
  <1>18. current' = g /\ Cap' = 2 * k
    BY <1>7, <1>16 DEF current, blockIndex, Cap
  <1>19. PICK s \in Seq(Entries) : s = [i \in 1..k |-> NewEntry] /\ Len(s) = k /\ \A i \in 1..k : s[i] = NewEntry
    <2>1. NewEntry \in Entries
      BY DEF NewEntry, Entries, INVALID_BLOCK_BASE
    <2>2. PICK s : s = [i \in 1..k |-> NewEntry]
      OBVIOUS
    <2>3. s \in Seq(Entries) /\ Len(s) = k
      BY <1>2, <2>1, <2>2
    <2> QED
      BY <2>2, <2>3
  <1>20. /\ entry' \in Seq(Entries) /\ Len(entry') = 2 * k /\ DOMAIN entry' = 1..(2 * k)
         /\ \A e \in DOMAIN entry : entry'[e] = entry[e]
         /\ \A e \in DOMAIN entry' : k < e => entry'[e] = NewEntry
    <2>1. entry' = entry \o s
      BY <1>15, <1>19
    <2>2. entry' \in Seq(Entries) /\ Len(entry') = k + k
      <3>1. entry \in Seq(Entries) /\ Len(entry) = k /\ Len(s) = k
        BY <1>3, <1>19
      <3>2. entry \o s \in Seq(Entries) /\ Len(entry \o s) = Len(entry) + Len(s)
        BY <3>1, ConcatProperties
      <3> QED
        BY <2>1, <3>1, <3>2
    <2>3. DOMAIN entry' = 1..(2 * k)
      BY <2>2
    <2>4. \A e \in DOMAIN entry : entry'[e] = entry[e]
      BY <1>3, <1>19, <2>1
    <2>5. ASSUME NEW e \in DOMAIN entry', k < e PROVE entry'[e] = NewEntry
      <3>1. entry'[e] = s[e - k] /\ e - k \in 1..k
        BY <1>3, <1>19, <2>1, <2>3, <2>5
      <3> QED
        BY <1>19, <3>1
    <2> QED
      BY <2>2, <2>3, <2>4, <2>5
  <1>21. LastNum' = L
    BY DEF new_block_index, counters, LastNum, Published
  <1>22. \A p \in Int : EntryAt(p)' = idx[(k - 1 + p - L) % (2 * k)]
    BY <1>7, <1>18, <1>21 DEF EntryAt
  <1>26. PICK c \in Int : c = 2 * k
    OBVIOUS
  <1>27. \A p \in Int : EntryAt(p)' = idx[(k - 1 + p - L) % c]
    BY <1>22, <1>26
  <1>23. ASSUME NEW p \in Int, L - k < p, p <= L PROVE EntryAt(p)' = EntryAt(p)
    <2>1. PICK x \in Int, y \in Int, z \in Int, o \in Int :
            x = k - 1 + p - L /\ y = t + 1 + x /\ z = t + p - L /\ c > 0 /\ o = 1
      <3>1. PICK x \in Int : x = k - 1 + p - L
        OBVIOUS
      <3> QED
        BY <1>2, <1>26, <3>1
    <2>2. 0 <= x /\ x < k /\ x < c
      BY <1>2, <1>23, <1>26, <2>1
    <2>3. x % c = x
      BY <1>2, <2>1, <2>2, ModSmall
    <2>4. y = z + k * o
      BY <2>1
    <2>5. y % k = z % k
      BY <1>2, <2>4, ModShift
    <2>6. EntryAt(p)' = f[y % k]
      <3>1. EntryAt(p)' = idx[x]
        BY <1>27, <2>1, <2>3
      <3>2. idx[x] = f[(t + 1 + x) % k]
        BY <1>9, <2>2
      <3> QED
        BY <2>1, <3>1, <3>2
    <2>7. EntryAt(p) = f[z % k]
      BY <1>1, <2>1 DEF EntryAt
    <2> QED
      BY <2>5, <2>6, <2>7
  <1>24. ASSUME NEW p \in Int, L - 2 * k < p, p <= L - k
         PROVE  EntryAt(p)' \in DOMAIN entry' /\ k < EntryAt(p)'
    <2>1. PICK x \in Int, y \in Int, o \in Int :
            x = k - 1 + p - L /\ y = x + c /\ o = 1
      <3>1. PICK x \in Int : x = k - 1 + p - L
        OBVIOUS
      <3> QED
        BY <3>1
    <2>2. k <= y /\ y < c /\ 0 <= y /\ c > 0
      BY <1>2, <1>24, <1>26, <2>1
    <2>3. y = x + c * o
      BY <2>1
    <2>4. y % c = y /\ y % c = x % c
      BY <1>2, <2>1, <2>2, <2>3, ModSmall, ModShift
    <2>5. EntryAt(p)' = y + 1
      <3>1. EntryAt(p)' = idx[y]
        BY <1>27, <2>1, <2>4
      <3> QED
        BY <1>10, <1>26, <2>2, <3>1
    <2> QED
      BY <1>2, <1>20, <1>26, <2>2, <2>5
  <1>25. IndexShape'
    <2>1. \A h \in DOMAIN header' : \A i \in 0..(header'[h].capacity - 1) : header'[h].index[i] \in DOMAIN entry'
      <3> SUFFICES ASSUME NEW h \in DOMAIN header', NEW i \in 0..(header'[h].capacity - 1)
                   PROVE  header'[h].index[i] \in DOMAIN entry'
        OBVIOUS
      <3>1. CASE h = Len(header) + 1
        <4>1. header'[h].capacity = 2 * k /\ header'[h].index = idx
          BY <1>7, <1>16, <3>1
        <4> QED
          BY <1>13, <1>20, <4>1
      <3>2. CASE h # Len(header) + 1
        <4>1. h \in DOMAIN header
          BY <1>16, <3>2 DEF StorageTypeOK
        <4>2. header[h].index[i] \in DOMAIN entry
          BY <1>16, <4>1 DEF IndexShape
        <4> QED
          BY <1>3, <1>16, <1>20, <4>1, <4>2
      <3> QED
        BY <3>1, <3>2
    <2>2. ASSUME NEW i \in Int, NEW j \in Int, 0 <= i, i < 2 * k, 0 <= j, j < 2 * k, idx[i] = idx[j] PROVE i = j
      <3>1. CASE i < k /\ j < k
        <4>1. PICK x \in Int, y \in Int : x = t + 1 + i /\ y = t + 1 + j
          OBVIOUS
        <4>2. f[x % k] = f[y % k]
          BY <1>9, <2>2, <3>1, <4>1
        <4>3. x % k = y % k
          <5>1. x % k \in 0..(k - 1) /\ y % k \in 0..(k - 1)
            BY <1>8, <4>1
          <5>2. \A u, v \in 0..(k - 1) : f[u] = f[v] => u = v
            BY <1>1 DEF IndexShape
          <5> QED
            BY <4>2, <5>1, <5>2
        <4>4. x - y < k /\ y - x < k
          BY <2>2, <3>1, <4>1
        <4>5. x = y
          BY <1>2, <4>3, <4>4, ModNear
        <4> QED
          BY <4>1, <4>5
      <3>2. CASE i < k /\ ~(j < k)
        BY <1>10, <1>12, <2>2, <3>2
      <3>3. CASE ~(i < k) /\ j < k
        BY <1>10, <1>12, <2>2, <3>3
      <3>4. CASE ~(i < k) /\ ~(j < k)
        BY <1>10, <2>2, <3>4
      <3> QED
        BY <3>1, <3>2, <3>3, <3>4
    <2>3. ASSUME NEW e \in Int, 1 <= e, e <= 2 * k PROVE \E i \in 0..(2 * k - 1) : idx[i] = e
      <3>1. CASE e <= k
        <4>1. PICK j \in Int : 0 <= j /\ j < k /\ f[j] = e
          <5>1. \A u \in DOMAIN entry : \E i \in 0..(k - 1) : f[i] = u
            BY <1>1 DEF IndexShape
          <5>2. e \in DOMAIN entry
            BY <1>3, <2>3, <3>1
          <5>3. PICK j \in 0..(k - 1) : f[j] = e
            BY <5>1, <5>2
          <5>4. j \in Int /\ 0 <= j /\ j < k
            OBVIOUS
          <5> QED
            BY <5>3, <5>4
        <4>2. PICK low \in Int : low = t + 1
          OBVIOUS
        <4>3. PICK y \in Int : low <= y /\ y < low + k /\ y % k = j % k
          BY <1>2, ModCovers
        <4>4. j % k = j
          BY <1>2, <4>1, ModSmall
        <4>5. PICK i \in Int : i = y - t - 1
          OBVIOUS
        <4>6. 0 <= i /\ i < k /\ t + 1 + i = y
          BY <4>2, <4>3, <4>5
        <4>7. idx[i] = e
          BY <1>9, <4>1, <4>3, <4>4, <4>6
        <4> QED
          BY <4>6, <4>7
      <3>2. CASE k < e
        <4>1. PICK i \in Int : i = e - 1
          OBVIOUS
        <4>2. k <= i /\ i < 2 * k /\ i + 1 = e
          BY <2>3, <3>2, <4>1
        <4> QED
          BY <1>2, <1>10, <4>2
      <3> QED
        BY <2>3, <3>1, <3>2
    <2>4. current'.index = idx /\ Len(entry') = Cap'
      BY <1>7, <1>18, <1>20
    <2>5. \A i, j \in 0..(Cap' - 1) : current'.index[i] = current'.index[j] => i = j
      BY <1>2, <1>18, <2>2, <2>4
    <2>6. \A e \in DOMAIN entry' : \E i \in 0..(Cap' - 1) : current'.index[i] = e
      BY <1>18, <1>20, <2>3, <2>4
    <2> QED
      BY <2>1, <2>4, <2>5, <2>6 DEF IndexShape
  <1> QED
    BY <1>3, <1>16, <1>17, <1>18, <1>20, <1>23, <1>24, <1>25

(* The index grows; consumers go on in the old one. *)
LEMMA Keeps_new_block_index ==
  ASSUME CountersInv, StorageTypeOK, LocalsOk, NEW H \in Int, Running(H), new_block_index
  PROVE  StorageTypeOK' /\ LocalsOk' /\ Running(H)'
  <1>1. /\ ProdInv /\ IndexShape /\ Window(H) /\ Values /\ Counts /\ Places
    BY DEF Running
  <1>2. PICK l \in Int, a \in Int, k \in Int, L \in Int :
          l = Published /\ a = Len(prod.alloc) /\ k = Cap /\ k >= 2 /\ a >= 0 /\ L = l + a
    BY <1>1, Numbers DEF CountersInv
  <1>3. prod.pc = "insert" /\ prod.slot = 0
    BY <1>1 DEF ProdInv, new_block_index
  <1>4. LastNum = L /\ Top = L
    BY <1>2, <1>3, ByPc
  <1>5. UNCHANGED <<tailIndex, headIndex, claim, tailBlock, slots, completely, pool, prod, walk, fails, destroyed>>
    BY DEF new_block_index, counters, storage
  <1>6. L <= H /\ H <= l + k
    BY <1>1, <1>2, <1>4 DEF Window
  (* Every place is taken, so no key was set after the tail. *)
  <1>7. H = L
    <2>1. PICK n \in Int : n = L + 1
      OBVIOUS
    <2>2. PICK e : e = EntryAt(n)
      OBVIOUS
    <2>3. e \in DOMAIN entry /\ ~EntryIsFree(e)
      BY <1>1, <1>2, <1>4, <2>1, <2>2, PlaceFacts DEF CountersInv, new_block_index
    <2>4. entry[e].value \in Block
      BY <1>1, <1>3, <2>3 DEF EntryIsFree, Values, Unset
    <2>5. PICK q \in Int : Alive(q) /\ e = EntryAt(q)
      BY <1>1, <2>3, <2>4 DEF Values
    <2>6. q <= L /\ H - k < q
      BY <1>1, <1>2, <1>4, <2>5, AliveFacts DEF Window
    <2>7. n <= H => n = q
      <3> SUFFICES ASSUME n <= H PROVE n = q
        OBVIOUS
      <3>2. k > 0
        BY <1>2
      <3>1. n - q < k /\ q - n < k
        BY <2>1, <2>6, <3>2
      <3> QED
        BY <1>1, <1>2, <2>2, <2>5, <3>1, PlaceFacts DEF CountersInv
    <2> QED
      BY <1>6, <2>1, <2>6, <2>7
  <1>8. /\ entry' \in Seq(Entries) /\ DOMAIN entry = 1..k /\ DOMAIN entry' = 1..(2 * k)
        /\ \A e \in DOMAIN entry : entry'[e] = entry[e]
        /\ \A e \in DOMAIN entry' : k < e => entry'[e] = NewEntry
        /\ header' \in Seq(Headers) /\ header' # <<>> /\ HeadersKept /\ Cap' = 2 * k
        /\ \A p \in Int : L - k < p /\ p <= L => EntryAt(p)' = EntryAt(p)
        /\ \A p \in Int : L - 2 * k < p /\ p <= L - k =>
             EntryAt(p)' \in DOMAIN entry' /\ k < EntryAt(p)'
        /\ IndexShape'
    BY <1>1, <1>2, <1>4, GrownFacts DEF CountersInv
  <1>9. StorageTypeOK'
    BY <1>5, <1>8 DEF StorageTypeOK
  <1>10. Published' = l /\ Top' = L
    BY <1>2, <1>4, <1>5 DEF Published, Top
  <1>11. \A p \in Int : InCall(p)' <=> InCall(p)
    BY <1>2, <1>5, <1>10 DEF InCall
  <1>12. /\ \A p \in Int : Alive(p)' <=> Alive(p)
         /\ \A p \in Int : DoneIn(p)' = DoneIn(p)
    BY <1>1, <1>5, <1>11, OwnerFrame
  <1>13. \A p \in Int : Alive(p) => L - k < p /\ p <= L
    BY <1>1, <1>2, <1>4, <1>7, AliveFacts DEF Window
  <1>14. \A p \in Int : L - k < p /\ p <= L =>
           /\ EntryAt(p)' = EntryAt(p) /\ EntryAt(p) \in DOMAIN entry
           /\ entry'[EntryAt(p)'] = entry[EntryAt(p)]
    BY <1>1, <1>8, PlaceFacts DEF CountersInv
  <1>15. \A p \in Int : Alive(p) => BlockAt(p)' = BlockAt(p)
    BY <1>13, <1>14 DEF BlockAt
  <1>16. Window(H)'
    <2>1. L <= l + 2 * k
      BY <1>2, <1>6, <1>7
    <2>6. k > 0
      BY <1>2
    <2>2. \A p \in Int : Alive(p) => L - 2 * k < p
      BY <1>13, <2>6
    <2>3. ASSUME NEW p \in Int, L - 2 * k < p, p <= L
          PROVE  entry'[EntryAt(p)'].key \in {INVALID_BLOCK_BASE, Start(p)}
      <3>1. CASE L - k < p
        BY <1>1, <1>2, <1>7, <1>14, <2>3, <3>1 DEF Window
      <3>2. CASE p <= L - k
        <4>1. entry'[EntryAt(p)'] = NewEntry
          BY <1>8, <2>3, <3>2
        <4> QED
          BY <4>1 DEF NewEntry
      <3> QED
        BY <1>2, <3>1, <3>2
    <2>4. ASSUME NEW p \in Int, l < p, p <= L PROVE entry'[EntryAt(p)'].key = Start(p)
      <3>1. L - k < p
        BY <1>2, <1>6, <1>7, <2>4
      <3> QED
        BY <1>1, <1>2, <1>7, <1>14, <2>4, <3>1 DEF Window
    <2>5. ASSUME NEW p \in Int, NEW q \in Int, Alive(q), q <= p, p <= L PROVE entry'[EntryAt(p)'].key = Start(p)
      <3>1. L - k < p
        BY <1>2, <1>13, <2>5
      <3> QED
        BY <1>1, <1>7, <1>14, <2>5, <3>1 DEF Window
    <2> QED
      BY <1>7, <1>8, <1>10, <1>12, <2>1, <2>2, <2>3, <2>4, <2>5 DEF Window
  <1>17. Values'
    <2>1. \A p \in Int : Alive(p)' => BlockAt(p)' \in Block
      BY <1>1, <1>12, <1>15 DEF Values
    <2>2. ASSUME NEW e \in DOMAIN entry', entry'[e].value \in Block
          PROVE  \E p \in Int : Alive(p)' /\ e = EntryAt(p)'
      <3>1. e \in DOMAIN entry
        <4> SUFFICES ASSUME e \notin DOMAIN entry PROVE FALSE
          OBVIOUS
        <4>1. k < e
          BY <1>8
        <4> QED
          BY <1>8, <2>2, <4>1, BlockAssumption DEF NewEntry
      <3>2. PICK p \in Int : Alive(p) /\ e = EntryAt(p)
        BY <1>1, <1>8, <2>2, <3>1 DEF Values
      <3> QED
        BY <1>12, <1>13, <1>14, <3>2
    <2>3. \A p \in Int : InCall(p)' => BlockAt(p)' = prod'.alloc[p - Published']
      BY <1>1, <1>2, <1>5, <1>10, <1>11, <1>15 DEF Values, Alive
    <2>4. \A e \in DOMAIN entry' :
            entry'[e].key # INVALID_BLOCK_BASE /\ entry'[e].value \notin Block => entry'[e].value = Null
      <3>1. TAKE e \in DOMAIN entry'
      <3>2. CASE e \in DOMAIN entry
        BY <1>1, <1>3, <1>8, <3>2 DEF Values, Unset
      <3>3. CASE e \notin DOMAIN entry
        <4>1. k < e
          BY <1>8, <3>3
        <4> QED
          BY <1>8, <4>1 DEF NewEntry
      <3> QED
        BY <3>2, <3>3
    <2> QED
      BY <2>1, <2>2, <2>3, <2>4 DEF Values
  <1>18. Content' /\ TailBlock' /\ Emptiers' /\ Ways(H)' /\ LocalsOk'
    <2>1. H <= H
      OBVIOUS
    <2>2. \A p \in Int : H - Cap < p /\ p <= H => EntryAt(p)' = EntryAt(p)
      BY <1>2, <1>7, <1>8
    <2> QED
      BY <1>5, <1>8, <1>15, <2>1, <2>2, OwnerRest
  <1>19. Counts'
    BY <1>1, <1>5, <1>12, <1>15, CountsKept
  <1>20. ProdInv'
    BY <1>1, <1>2, <1>3, <1>5, <1>10 DEF ProdInv, Needed
  <1>21. Places'
    <2>1. \A e \in DOMAIN entry' : entry'[e].value \in Block => e \in DOMAIN entry /\ entry'[e] = entry[e]
      <3>1. TAKE e \in DOMAIN entry'
      <3>2. CASE k < e
        BY <1>8, <3>2, BlockAssumption DEF NewEntry
      <3>3. CASE ~(k < e)
        BY <1>8, <3>3
      <3> QED
        BY <3>2, <3>3
    <2>2. DOMAIN entry \subseteq DOMAIN entry'
      BY <1>2, <1>8
    <2>3. \A b \in Block : InEntry(b)' <=> InEntry(b)
      BY <1>8, <2>1, <2>2 DEF InEntry
    <2>4. \A b \in Block : (Undone(b)' <=> Undone(b)) /\ \A c \in Consumer : Freeing(c, b)' <=> Freeing(c, b)
      BY <1>5 DEF Undone, Freeing
    <2>5. \A e, f \in DOMAIN entry' : entry'[e].value \in Block /\ entry'[e].value = entry'[f].value => e = f
      BY <1>1, <1>8, <2>1 DEF Places
    <2> QED
      BY <1>1, <1>3, <1>5, <2>3, <2>4, <2>5 DEF Places
  <1> QED
    BY <1>8, <1>9, <1>16, <1>17, <1>18, <1>19, <1>20, <1>21 DEF Running

(* No two blocks of the index are the same, and no two items in one slot. *)
LEMMA OneBlock ==
  ASSUME CountersInv, StorageTypeOK, NEW H \in Int, Running(H),
         NEW p \in Int, NEW q \in Int, Alive(p), Alive(q), BlockAt(p) = BlockAt(q)
  PROVE  p = q
  <1>1. /\ ProdInv /\ IndexShape /\ Window(H) /\ Values /\ Places
    BY DEF Running
  <1>2. PICK k \in Int : k = Cap
    BY <1>1, Numbers DEF CountersInv
  <1>3. EntryAt(p) = EntryAt(q)
    <2>1. entry[EntryAt(p)].value \in Block /\ entry[EntryAt(p)].value = entry[EntryAt(q)].value
      BY <1>1 DEF Values, BlockAt
    <2>2. EntryAt(p) \in DOMAIN entry /\ EntryAt(q) \in DOMAIN entry
      BY <1>1, PlaceFacts DEF CountersInv
    <2> QED
      BY <1>1, <2>1, <2>2 DEF Places
  <1>4. H - k < p /\ H - k < q /\ p <= H /\ q <= H
    <2>1. p <= Top /\ q <= Top /\ Top <= H /\ Top \in Int
      BY <1>1, AliveFacts, Numbers DEF Window, CountersInv
    <2>2. H - k < p /\ H - k < q
      BY <1>1, <1>2 DEF Window
    <2> QED
      BY <2>1, <2>2
  <1>5. p - q < k /\ q - p < k
    BY <1>4
  <1> QED
    BY <1>1, <1>2, <1>3, <1>5, PlaceFacts DEF CountersInv

(* Two unread items are not in one slot. *)
LEMMA OneSlot ==
  ASSUME CountersInv, StorageTypeOK, NEW H \in Int, Running(H),
         NEW i \in Int, NEW j \in Int, Alive(Num(i)), Alive(Num(j)),
         BlockAt(Num(i)) = BlockAt(Num(j)), Offset(i) = Offset(j)
  PROVE  i = j
  <1>1. PICK p \in Int, q \in Int : p = Num(i) /\ q = Num(j)
    BY Nums
  <1>2. p = q
    BY <1>1, OneBlock
  <1>3. PICK s \in Int : s = Start(p)
    BY Starts
  <1>4. Offset(i) = i - s /\ Offset(j) = j - s
    BY <1>1, <1>2, <1>3, Nums
  <1>5. i - s = j - s
    BY <1>4, Zenon
  <1> QED
    BY <1>3, <1>5

(* The items of a call go to the tail block and to those the call added. *)
LEMMA PublishedItems ==
  ASSUME CountersInv, StorageTypeOK, NEW H \in Int, Running(H), prod.pc = "write",
         NEW j \in Int, tailIndex <= j, j <= tailIndex + prod.count - 1
  PROVE  Alive(Num(j)) /\ BlockFor(j) = BlockAt(Num(j))
  <1>1. /\ ProdInv /\ Values /\ TailBlock
    BY DEF Running
  <1>2. PICK l \in Int, a \in Int, m \in Int, t \in Int, n \in Int :
          /\ l = Published /\ a = Len(prod.alloc) /\ m = Num(j) /\ t = tailIndex /\ n = prod.count
          /\ l >= -1 /\ a >= 0
    <2>1. Published \in Int /\ Published >= -1 /\ Len(prod.alloc) \in Int /\ Len(prod.alloc) >= 0
      BY <1>1, Numbers DEF CountersInv
    <2>2. tailIndex \in Int /\ prod.count \in Int /\ Num(j) \in Int
      BY HeadTail, Nums DEF StorageTypeOK, Calls
    <2> QED
      BY <2>1, <2>2
  <1>9. headIndex \in Int /\ headIndex >= 0 /\ headIndex <= t
    BY <1>2, HeadTail
  <1>3. PICK u \in Int, v \in Int : u = t - 1 /\ v = t + n - 1 /\ u <= j /\ j <= v
    BY <1>2
  <1>4. l = Num(u) /\ l + a = Num(v)
    <2>1. l = Num(u)
      BY <1>2, <1>3 DEF Published
    <2>2. a = Num(v) - l
      BY <1>1, <1>2, <1>3 DEF ProdInv, Needed
    <2> QED
      BY <2>1, <2>2, <1>3, Nums
  <1>5. l <= m /\ m <= l + a
    <2>1. Num(u) <= Num(j) /\ Num(j) <= Num(v)
      BY <1>3, Nums
    <2> QED
      BY <1>2, <1>4, <2>1
  <1>6. 0 <= j /\ headIndex <= j /\ 0 <= m
    <2>1. t <= j
      BY <1>2
    <2>2. 0 <= j /\ headIndex <= j
      BY <1>9, <2>1
    <2>3. Num(j) >= 0
      BY <2>2, BlockNumbers
    <2> QED
      BY <1>2, <2>2, <2>3
  <1>7. CASE m = l
    <2>1. ~Full(l)
      <3>1. j \in Items(l) /\ ~Gone(j)
        <4>1. Num(j) = l
          BY <1>2, <1>7
        <4>2. ~Gone(j)
          BY <1>6, <1>9 DEF Gone
        <4> QED
          BY <4>1, <4>2, ItemsFacts
      <3> QED
        BY <3>1 DEF Full
    <2>2. Alive(l)
      BY <1>2, <1>6, <1>7, <2>1 DEF Alive
    <2>3. BlockAt(l) = tailBlock
      BY <1>1, <1>2, <1>6, <1>7, <2>1 DEF TailBlock
    <2>4. j < FirstBlock(tailIndex)
      <3>1. FirstBlock(t) = Start(l + 1)
        BY <1>2, <1>3, <1>4, BlockNumbers
      <3>3. PICK b \in Int : b = l + 1 /\ l < b
        OBVIOUS
      <3>4. PICK s \in Int, r \in Int : s = Start(l) /\ r = Start(b)
        BY Starts
      <3>5. s + BLOCK_SIZE <= r
        BY <3>3, <3>4, Starts
      <3>6. Num(j) = l
        BY <1>2, <1>7
      <3>7. j < s + BLOCK_SIZE
        BY <3>4, <3>6, Nums
      <3>2. r = Start(l + 1) /\ j < r
        BY <3>3, <3>4, <3>5, <3>7, BlockSize
      <3> QED
        BY <1>2, <3>1, <3>2
    <2> QED
      BY <1>2, <1>7, <2>2, <2>3, <2>4 DEF BlockFor
  <1>8. CASE m # l
    <2>1. l < m
      BY <1>5, <1>8
    <2>2. InCall(m)
      <3>1. prod.pc # "undo"
        OBVIOUS
      <3> QED
        BY <1>2, <1>5, <2>1, <3>1 DEF InCall
    <2>3. Alive(m) /\ BlockAt(m) = prod.alloc[m - l]
      BY <1>1, <1>2, <2>2 DEF Alive, Values
    <2>4. PICK b \in Int, d \in Int : b = l + 1 /\ d = m - b
      OBVIOUS
    <2>5. PICK s \in Int, f \in Int, x \in Int, y \in Int :
            /\ s = Start(b) /\ f = Start(m) /\ x = j - s /\ y = Start(d) /\ f <= j /\ j < f + BLOCK_SIZE
      <3>1. Start(b) \in Int /\ Start(m) \in Int /\ Start(d) \in Int
        BY <2>4, Starts
      <3>2. PICK s \in Int : s = Start(b)
        BY <3>1
      <3>3. PICK x \in Int : x = j - s
        OBVIOUS
      <3> QED
        BY <1>2, <3>1, <3>2, <3>3, Nums
    <2>6. f = s + y
      <3>1. Start(b) + BLOCK_SIZE * d = Start(b + d) /\ b + d = m
        BY <2>4, Starts
      <3> QED
        BY <2>5, <3>1 DEF Start
    <2>7. y <= x /\ x < y + BLOCK_SIZE
      BY <2>5, <2>6, BlockSize
    <2>8. Num(x) = d
      BY <2>4, <2>5, <2>7, Nums
    <2>9. FirstBlock(tailIndex) = s
      BY <1>2, <1>3, <1>4, <2>4, <2>5, BlockNumbers
    <2>10. s <= j
      <3>1. b <= m
        BY <2>1, <2>4
      <3>2. s <= f
        <4>1. b < m => s + BLOCK_SIZE <= f
          BY <2>4, <2>5, Starts
        <4> QED
          BY <2>5, <3>1, <4>1, BlockSize
      <3> QED
        BY <2>5, <3>2
    <2>11. BlockFor(j) = prod.alloc[1 + (j - s) \div BLOCK_SIZE]
      BY <2>5, <2>9, <2>10 DEF BlockFor
    <2>12. (j - s) \div BLOCK_SIZE = d /\ 1 + d = m - l
      BY <2>4, <2>5, <2>8 DEF Num
    <2> QED
      BY <1>2, <2>3, <2>11, <2>12
  <1> QED
    BY <1>7, <1>8

(* The items of a call are put where no unread item is. *)
LEMMA PublishedSlots ==
  ASSUME CountersInv, StorageTypeOK, NEW H \in Int, Running(H), Publish
  PROVE  /\ slots' \in [Block -> [0..(BLOCK_SIZE - 1) -> Int]]
         /\ \A i \in Int : 0 <= i /\ i < tailIndex + prod.count /\ ~Gone(i) =>
              Alive(Num(i)) /\ slots'[BlockAt(Num(i))][Offset(i)] = i
  <1>1. /\ ProdInv /\ Values /\ Content
    BY DEF Running
  <1>2. PICK t \in Int, n \in Int : t = tailIndex /\ n = prod.count
    BY HeadTail DEF StorageTypeOK, Calls
  <1>3. PICK new : new = t..(t + n - 1)
    OBVIOUS
  <1> DEFINE At(b, o) == {i \in new : BlockFor(i) = b /\ Offset(i) = o}
  <1>4. slots' = [b \in Block |-> [o \in 0..(BLOCK_SIZE - 1) |->
                    IF At(b, o) = {} THEN slots[b][o] ELSE Max(At(b, o))]]
    BY <1>2, <1>3 DEF Publish
  <1>5. ASSUME NEW j \in new PROVE j \in Int /\ t <= j /\ j <= t + n - 1 /\ Alive(Num(j)) /\ BlockFor(j) = BlockAt(Num(j))
    <2>1. j \in Int /\ t <= j /\ j <= t + n - 1
      BY <1>3, <1>5
    <2>2. prod.pc = "write"
      BY DEF Publish
    <2> QED
      BY <1>2, <2>1, <2>2, PublishedItems
  <1>6. ASSUME NEW b, NEW o, NEW j \in At(b, o) PROVE Max(At(b, o)) = j /\ j \in Int
    <2>1. \A i \in At(b, o) : i = j
      <3>1. TAKE i \in At(b, o)
      <3>2. i \in new /\ j \in new /\ BlockFor(i) = BlockFor(j) /\ Offset(i) = Offset(j)
        OBVIOUS
      <3> HIDE DEF At
      <3> QED
        BY <1>5, <3>2, OneSlot
    <2> HIDE DEF At
    <2>2. At(b, o) = {j}
      BY <1>6, <2>1
    <2>3. j \in Int
      <3>1. j \in new
        BY <1>6 DEF At
      <3> QED
        BY <1>5, <3>1
    <2>4. Max({j}) = j
      BY <2>3 DEF Max
    <2> QED
      BY <2>2, <2>3, <2>4
  <1>7. slots' \in [Block -> [0..(BLOCK_SIZE - 1) -> Int]]
    <2>1. ASSUME NEW b \in Block, NEW o \in 0..(BLOCK_SIZE - 1)
          PROVE  (IF At(b, o) = {} THEN slots[b][o] ELSE Max(At(b, o))) \in Int
      <3> HIDE DEF At
      <3>1. slots[b][o] \in Int
        BY DEF StorageTypeOK
      <3>2. At(b, o) # {} => Max(At(b, o)) \in Int
        BY <1>6
      <3> QED
        BY <3>1, <3>2
    <2> HIDE DEF At
    <2> QED
      BY <1>4, <2>1
  <1>8. ASSUME NEW i \in Int, 0 <= i, i < t + n, ~Gone(i)
        PROVE  Alive(Num(i)) /\ slots'[BlockAt(Num(i))][Offset(i)] = i
    <2>1. Alive(Num(i))
      <3>1. CASE i < t
        BY <1>1, <1>2, <1>8, <3>1, AliveFacts
      <3>2. CASE ~(i < t)
        BY <1>3, <1>5, <1>8, <3>2
      <3> QED
        BY <3>1, <3>2
    <2>2. PICK b \in Block, o \in 0..(BLOCK_SIZE - 1) : b = BlockAt(Num(i)) /\ o = Offset(i)
      <3>1. BlockAt(Num(i)) \in Block
        BY <1>1, <2>1, Nums DEF Values
      <3>2. Offset(i) \in 0..(BLOCK_SIZE - 1)
        <4>1. PICK s \in Int : s = Start(Num(i)) /\ s <= i /\ i < s + BLOCK_SIZE /\ Offset(i) = i - s
          BY Nums, Starts
        <4> QED
          BY <4>1, BlockSize
      <3> QED
        BY <3>1, <3>2
    <2>3. slots'[b][o] = IF At(b, o) = {} THEN slots[b][o] ELSE Max(At(b, o))
      BY <1>4
    <2>4. \A j \in At(b, o) : j = i
      <3>1. TAKE j \in At(b, o)
      <3>2. j \in new /\ BlockFor(j) = b /\ Offset(j) = o
        OBVIOUS
      <3> HIDE DEF At
      <3> QED
        BY <1>5, <2>1, <2>2, <3>2, OneSlot
    <2>5. CASE i < t
      <3>1. i \notin new
        BY <1>3, <2>5
      <3>2. At(b, o) = {}
        BY <2>4, <3>1
      <3>3. slots[b][o] = i
        BY <1>1, <1>2, <1>8, <2>2, <2>5 DEF Content
      <3> HIDE DEF At
      <3> QED
        BY <2>1, <2>2, <2>3, <3>2, <3>3
    <2>6. CASE ~(i < t)
      <3>1. i \in new
        BY <1>3, <1>8, <2>6
      <3>2. i \in At(b, o)
        BY <1>5, <2>2, <3>1
      <3> HIDE DEF At
      <3>3. At(b, o) # {} /\ Max(At(b, o)) = i
        BY <1>6, <3>2
      <3> QED
        BY <2>1, <2>2, <2>3, <3>3
    <2> QED
      BY <2>5, <2>6
  <1> QED
    BY <1>2, <1>7, <1>8

(* The items of the call are there. *)
LEMMA Keeps_Publish ==
  ASSUME CountersInv, StorageTypeOK, LocalsOk, NEW H \in Int, Running(H), Publish
  PROVE  StorageTypeOK' /\ LocalsOk' /\ Running(H)'
  <1>1. /\ ProdInv /\ IndexShape /\ Window(H) /\ Values /\ Content /\ Counts /\ TailBlock /\ Emptiers
        /\ Ways(H) /\ Places
    BY DEF Running
  <1>2. PICK l \in Int, a \in Int, t \in Int, n \in Int, g \in Int :
          /\ l = Published /\ a = Len(prod.alloc) /\ t = tailIndex /\ n = prod.count /\ g = l + a
          /\ l >= -1 /\ a >= 0
    <2>1. Published \in Int /\ Published >= -1 /\ Len(prod.alloc) \in Int /\ Len(prod.alloc) >= 0
      BY <1>1, Numbers DEF CountersInv
    <2>2. tailIndex \in Int /\ prod.count \in Int
      BY HeadTail DEF StorageTypeOK, Calls
    <2>3. PICK l \in Int, a \in Int : l = Published /\ a = Len(prod.alloc)
      BY <2>1
    <2> QED
      BY <2>1, <2>2, <2>3
  <1>3. /\ prod.pc = "write" /\ prod.slot = 0 /\ n > 0 /\ Needed = a
        /\ tailBlock' = BlockFor(t + n - 1) /\ tailIndex' = t + n /\ prod' = ProdIdle
        /\ UNCHANGED <<headIndex, claim, entry, header, completely, pool, walk, fails, destroyed>>
    BY <1>1, <1>2 DEF ProdInv, Publish, index
  <1>4. PICK v \in Int : v = t + n - 1 /\ t <= v /\ v <= t + n - 1
    BY <1>2, <1>3
  <1>5. g = Num(v) /\ Published' = g
    <2>1. a = Num(v) - l
      BY <1>2, <1>3, <1>4 DEF Needed
    <2>2. g = Num(v)
      BY <1>2, <1>4, <2>1, Nums
    <2>3. tailIndex' - 1 = v
      BY <1>2, <1>3, <1>4
    <2> QED
      BY <2>2, <2>3 DEF Published
  <1>6. prod'.pc = "idle" /\ prod'.slot = 0 /\ prod'.alloc = <<>> /\ prod' \in Calls
    BY <1>3 DEF ProdIdle, Calls
  <1>7. LastNum = g /\ Top = g /\ LastNum' = g /\ Top' = g
    <2>1. LastNum = l + a /\ Top = l + a
      <3>1. PICK s \in Int : s = prod.slot
        BY <1>3
      <3> QED
        BY <1>2, <1>3, <3>1, ByPc
    <2>2. PICK z \in Int : z = 0
      OBVIOUS
    <2>3. g = Published' /\ z = Len(prod'.alloc) /\ z = prod'.slot
      BY <1>5, <1>6, <2>2
    <2>4. LastNum' = g + z /\ Top' = g + z
      BY <1>6, <2>3, ByPcNext
    <2>5. g + z = g
      BY <2>2
    <2> QED
      BY <1>2, <2>1, <2>4, <2>5
  <1>8. HeadersKept /\ Cap' = Cap /\ (\A p \in Int : EntryAt(p)' = EntryAt(p)) /\ IndexShape'
    BY <1>1, <1>3, <1>7, SamePlaces
  <1>9. \A p \in Int : BlockAt(p)' = BlockAt(p)
    BY <1>3, <1>8, BlocksKept
  <1>10. /\ \A i \in Int : Gone(i)' <=> Gone(i)
         /\ \A p \in Int : DoneIn(p)' = DoneIn(p) /\ (Full(p)' <=> Full(p))
         /\ \A c \in Consumer, p \in Int : Emptier(c, p)' <=> Emptier(c, p)
         /\ LocalsOk'
    BY <1>3, OwnerGone
  <1>11. \A p \in Int : ~InCall(p)'
    <2> SUFFICES ASSUME NEW p \in Int, InCall(p)' PROVE FALSE
      OBVIOUS
    <2>1. g < p /\ p <= g + Len(prod'.alloc)
      BY <1>5 DEF InCall
    <2>2. Len(prod'.alloc) = 0
      BY <1>6
    <2> QED
      BY <2>1, <2>2
  <1>12. ASSUME NEW p \in Int PROVE Alive(p)' <=> Alive(p)
    <2>1. Alive(p)' <=> 0 <= p /\ p <= g /\ (~Full(p) \/ \E c \in Consumer : Emptier(c, p))
      BY <1>5, <1>10, <1>11 DEF Alive
    <2>2. InCall(p) <=> l < p /\ p <= g
      <3>1. prod.pc # "undo"
        BY <1>3
      <3> QED
        BY <1>2, <3>1 DEF InCall
    <2>3. l < p => ~Full(p)
      BY <1>1, <1>2, AliveFacts
    <2>4. Alive(p) <=> (0 <= p /\ p <= l /\ (~Full(p) \/ \E c \in Consumer : Emptier(c, p))) \/ (l < p /\ p <= g)
      BY <1>2, <2>2 DEF Alive
    <2>5. l <= g /\ (l < p => 0 <= p) /\ (l < p \/ p <= l)
      BY <1>2
    <2>6. p <= l => p <= g
      BY <1>2
    <2> QED
      BY <2>1, <2>3, <2>4, <2>5, <2>6, Zenon
  <1>13. Window(H)'
    <2>1. \A p \in Int : EntryAt(p) \in DOMAIN entry /\ EntryAt(p)' = EntryAt(p)
      BY <1>1, <1>8, PlaceFacts DEF CountersInv
    <2>2. Top' <= H
      BY <1>1, <1>7 DEF Window
    <2>3. Published \in Int /\ Published' \in Int /\ Published <= Published' /\ Cap \in Int
      <3>1. Published \in Int /\ Cap \in Int
        BY <1>1, Numbers DEF CountersInv
      <3>2. l = Published /\ Published' = g /\ l <= g
        BY <1>2, <1>5
      <3> QED
        BY <3>1, <3>2
    <2> QED
      BY <1>1, <1>3, <1>8, <1>12, <2>1, <2>2, <2>3, WindowKept
  <1>14. Values'
    <2>1. \A p \in Int : ~Unset(p)
      BY <1>3 DEF Unset
    <2> QED
      BY <1>1, <1>3, <1>8, <1>11, <1>12, <2>1, ValuesKept
  <1>15. /\ slots' \in [Block -> [0..(BLOCK_SIZE - 1) -> Int]]
         /\ \A i \in Int : 0 <= i /\ i < t + n /\ ~Gone(i) =>
              Alive(Num(i)) /\ slots'[BlockAt(Num(i))][Offset(i)] = i
    BY <1>2, PublishedSlots
  <1>16. Content'
    <2> SUFFICES ASSUME NEW i \in Int, 0 <= i, i < t + n, ~Gone(i)
                 PROVE  slots'[BlockAt(Num(i))'][Offset(i)] = i
      BY <1>3, <1>10 DEF Content
    <2>1. PICK p \in Int : p = Num(i)
      BY Nums
    <2>2. BlockAt(p)' = BlockAt(p) /\ slots'[BlockAt(p)][Offset(i)] = i
      BY <1>9, <1>15, <2>1
    <2> QED
      BY <2>1, <2>2
  <1>17. Counts'
    BY <1>1, <1>3, <1>9, <1>10, <1>12, CountsKept
  <1>18. Alive(g) /\ tailBlock' = BlockAt(g)
    BY <1>2, <1>3, <1>4, <1>5, PublishedItems
  <1>19. TailBlock'
    BY <1>2, <1>5, <1>9, <1>18 DEF TailBlock
  <1>20. Emptiers'
    BY <1>1, <1>10, EmptiersKept
  <1>21. Ways(H)'
    <2>1. ASSUME NEW c \in Consumer PROVE Way(c, H)'
      <3>1. Way(c, H) /\ claim'[c] = claim[c] /\ walk'[c] = walk[c]
        BY <1>1, <1>3 DEF Ways
      <3>2. walk[c].pc = "unlink" => BlockAt(First(c))' = BlockAt(First(c))
        <4>1. First(c)' = First(c)
          BY <1>3 DEF First
        <4>2. claim[c].pc = "claimed" => First(c) \in Int
          BY <1>1, WayInWindow
        <4>3. claim[c].pc # "claimed" => walk[c].pc # "unlink"
          BY DEF LocalsOk, WalkOk, WalkIdle
        <4> QED
          BY <1>9, <4>1, <4>2, <4>3 DEF BlockAt
      <3>3. H <= H
        OBVIOUS
      <3> QED
        BY <1>1, <1>8, <3>1, <3>2, <3>3, WayKept
    <2> QED
      BY <2>1 DEF Ways
  <1>22. ProdInv'
    BY <1>6 DEF ProdInv
  <1>23. Places'
    <2>1. \A b \in Block : ~Undone(b) /\ ~Undone(b)'
      BY <1>3, <1>6 DEF Undone
    <2> QED
      BY <1>1, <1>3, <1>6, <2>1, PlacesKept
  <1>24. StorageTypeOK'
    <2>1. tailBlock' \in Block
      BY <1>1, <1>18 DEF Values
    <2> QED
      BY <1>3, <1>6, <1>15, <2>1 DEF StorageTypeOK
  <1> QED
    BY <1>8, <1>10, <1>13, <1>14, <1>16, <1>17, <1>19, <1>20, <1>21, <1>22, <1>23, <1>24 DEF Running

(***************************************************************************)
(* Steps of a consumer                                                     *)
(***************************************************************************)

(* The index and what it holds stay as they are. *)
LEMMA IndexStays ==
  ASSUME CountersInv, StorageTypeOK, LocalsOk, NEW H \in Int, Running(H),
         tailIndex' = tailIndex, entry' = entry, header' = header, prod' = prod, NEW c \in Consumer,
         \A d \in Consumer : d # c => claim'[d] = claim[d] /\ walk'[d] = walk[d],
         \A p \in Int : Alive(p)' <=> Alive(p)
  PROVE  /\ ProdInv' /\ IndexShape' /\ Window(H)' /\ Values'
         /\ HeadersKept /\ Cap' = Cap /\ Published' = Published
         /\ \A p \in Int : EntryAt(p)' = EntryAt(p) /\ BlockAt(p)' = BlockAt(p)
         /\ \A d \in Consumer : d # c => Way(d, H)'
  <1>1. /\ ProdInv /\ IndexShape /\ Window(H) /\ Values /\ Ways(H)
    BY DEF Running
  <1>2. Published' = Published /\ LastNum' = LastNum /\ Top' = Top
    BY DEF Published, LastNum, Top
  <1>3. HeadersKept /\ Cap' = Cap /\ (\A p \in Int : EntryAt(p)' = EntryAt(p)) /\ IndexShape'
    BY <1>1, <1>2, SamePlaces
  <1>4. \A p \in Int : BlockAt(p)' = BlockAt(p)
    BY <1>3, BlocksKept
  <1>5. ProdInv'
    BY <1>1, <1>2 DEF ProdInv, Needed, NewTail, current, blockIndex
  <1>6. \A p \in Int : InCall(p)' <=> InCall(p)
    BY <1>2 DEF InCall
  <1>7. Window(H)'
    <2>1. \A p \in Int : EntryAt(p) \in DOMAIN entry /\ EntryAt(p)' = EntryAt(p)
      BY <1>1, <1>3, PlaceFacts DEF CountersInv
    <2>2. Published \in Int /\ Cap \in Int /\ Top' <= H
      BY <1>1, <1>2, Numbers DEF Window, CountersInv
    <2> QED
      BY <1>1, <1>2, <1>3, <2>1, <2>2, WindowKept
  <1>8. Values'
    <2>1. \A p \in Int : Unset(p) => Unset(p)'
      BY <1>2 DEF Unset
    <2>2. \A p \in Int : InCall(p)' => BlockAt(p) = prod'.alloc[p - Published']
      BY <1>1, <1>2, <1>6 DEF Values
    <2> QED
      BY <1>1, <1>3, <2>1, <2>2, ValuesKept
  <1>9. ASSUME NEW d \in Consumer, d # c PROVE Way(d, H)'
    <2>1. Way(d, H) /\ claim'[d] = claim[d] /\ walk'[d] = walk[d]
      BY <1>1, <1>9 DEF Ways
    <2>2. walk[d].pc = "unlink" => BlockAt(First(d))' = BlockAt(First(d))
      <3>1. First(d)' = First(d)
        BY <2>1 DEF First
      <3>2. claim[d].pc = "claimed" => First(d) \in Int
        BY <1>1, WayInWindow
      <3>3. claim[d].pc # "claimed" => walk[d].pc # "unlink"
        BY DEF LocalsOk, WalkOk, WalkIdle
      <3> QED
        BY <1>4, <3>1, <3>2, <3>3 DEF BlockAt
    <2>3. H <= H
      OBVIOUS
    <2> QED
      BY <1>1, <1>3, <2>1, <2>2, <2>3, WayKept
  <1> QED
    BY <1>2, <1>3, <1>4, <1>5, <1>7, <1>8, <1>9

(* No item goes, and no block is emptied. *)
LEMMA ConsumerKeeps ==
  ASSUME CountersInv, StorageTypeOK, LocalsOk, NEW H \in Int, Running(H),
         tailIndex' = tailIndex, entry' = entry, header' = header, prod' = prod,
         tailBlock' = tailBlock, slots' = slots, completely' = completely, NEW c \in Consumer,
         \A d \in Consumer : d # c => claim'[d] = claim[d] /\ walk'[d] = walk[d],
         \A i \in Int : Gone(i)' <=> Gone(i),
         walk[c].pc # "unlink", walk'[c].pc # "unlink"
  PROVE  /\ ProdInv' /\ IndexShape' /\ Window(H)' /\ Values' /\ Content' /\ Counts' /\ TailBlock' /\ Emptiers'
         /\ Cap' = Cap /\ \A p \in Int : EntryAt(p)' = EntryAt(p)
         /\ Way(c, H)' => Ways(H)'
  <1>1. /\ ProdInv /\ IndexShape /\ Content /\ Counts /\ TailBlock /\ Emptiers
    BY DEF Running
  <1>2. Published \in Int /\ Published' = Published
    BY <1>1, Numbers DEF CountersInv, Published
  <1>3. \A p \in Int : DoneIn(p)' = DoneIn(p) /\ (Full(p)' <=> Full(p))
    BY SameGone
  <1>4. \A d \in Consumer, p \in Int : Emptier(d, p)' <=> Emptier(d, p)
    BY DEF Emptier
  <1>5. \A p \in Int : InCall(p)' <=> InCall(p)
    BY <1>2 DEF InCall
  <1>6. \A p \in Int : Alive(p)' <=> Alive(p)
    BY <1>2, <1>3, <1>4, <1>5, AliveKept
  <1>7. /\ ProdInv' /\ IndexShape' /\ Window(H)' /\ Values'
        /\ HeadersKept /\ Cap' = Cap /\ Published' = Published
        /\ \A p \in Int : EntryAt(p)' = EntryAt(p) /\ BlockAt(p)' = BlockAt(p)
        /\ \A d \in Consumer : d # c => Way(d, H)'
    BY <1>6, IndexStays
  <1>8. Content'
    BY <1>1, <1>7, ContentKept
  <1>9. Counts'
    BY <1>1, <1>3, <1>6, <1>7, CountsKept
  <1>10. TailBlock'
    BY <1>1, <1>2, <1>3, <1>7, TailBlockKept
  <1>11. Emptiers'
    BY <1>1, <1>3, <1>4, EmptiersKept
  <1>12. Way(c, H)' => Ways(H)'
    <2> SUFFICES ASSUME Way(c, H)', NEW d \in Consumer PROVE Way(d, H)'
      BY DEF Ways
    <2> QED
      BY <1>7
  <1> QED
    BY <1>7, <1>8, <1>9, <1>10, <1>11, <1>12

(* What the steps up to a claim have in common. *)
LEMMA ClaimSteps ==
  ASSUME CountersInv, NEW c \in Consumer, ClaimItems(c)
  PROVE  /\ claim[c].pc # "claimed" /\ tailIndex' = tailIndex
         /\ \A d \in Consumer : d # c => claim'[d] = claim[d]
         /\ \/ claim'[c].pc # "claimed" /\ headIndex' = headIndex
            \/ /\ claim'[c].pc = "claimed" /\ claim'[c].next = headIndex /\ claim'[c].last = headIndex'
               /\ headIndex < headIndex'
  <1> USE DEF ClaimStep
  <1>0. claim \in [Consumer -> Locals] /\ claim[c] \in Locals /\ Agree(claim[c]) /\ headIndex \in Int
    BY DEF CountersInv, CountersTypeOK, LocalsAgree
  <1>1. ASSUME NEW k \in DequeueSize, LoadTail(c, k)
        PROVE  /\ claim[c].pc # "claimed" /\ tailIndex' = tailIndex
               /\ \A d \in Consumer : d # c => claim'[d] = claim[d]
               /\ claim'[c].pc # "claimed" /\ headIndex' = headIndex
    BY <1>0, <1>1 DEF LoadTail, Unclaimed, Locals
  <1>2. CASE LoadOvercommit(c) \/ AddOptimistic(c)
    BY <1>0, <1>2 DEF LoadOvercommit, AddOptimistic, Locals
  <1>3. CASE LoadOptimistic(c)
    <2> DEFINE desired == claim[c].tail - (dequeueOptimisticCount - claim[c].over)
    <2>1. PICK r : r = IF desired > 0
                       THEN [claim[c] EXCEPT !.pc = "count", !.tail = 0,
                                             !.want = IF desired < @ THEN desired ELSE @]
                       ELSE Unclaimed
      OBVIOUS
    <2>2. r.pc \in {"count", "idle"}
      BY <1>0, <2>1 DEF Locals, Unclaimed
    <2>3. claim' = [claim EXCEPT ![c] = r] /\ claim[c].pc = "optimistic"
          /\ tailIndex' = tailIndex /\ headIndex' = headIndex
      BY <1>3, <2>1 DEF LoadOptimistic
    <2> QED
      BY <1>0, <2>2, <2>3
  <1>4. CASE CheckTail(c)
    <2>1. PICK r : r = [claim[c] EXCEPT
                          !.pc = IF Actual(c) < claim[c].want THEN "correct" ELSE "claim",
                          !.over = 0, !.count = 0, !.next = Actual(c)]
      OBVIOUS
    <2>2. r.pc \in {"correct", "claim"}
      BY <1>0, <2>1 DEF Locals
    <2>3. claim' = [claim EXCEPT ![c] = r] /\ claim[c].pc = "check"
          /\ tailIndex' = tailIndex /\ headIndex' = headIndex
      BY <1>4, <2>1 DEF CheckTail
    <2> QED
      BY <1>0, <2>2, <2>3
  <1>5. CASE AddOvercommit(c)
    <2>1. PICK r : r = IF claim[c].next = 0 THEN Unclaimed ELSE [claim[c] EXCEPT !.pc = "claim"]
      OBVIOUS
    <2>2. r.pc \in {"idle", "claim"}
      BY <1>0, <2>1 DEF Locals, Unclaimed
    <2>3. claim' = [claim EXCEPT ![c] = r] /\ claim[c].pc = "correct"
          /\ tailIndex' = tailIndex /\ headIndex' = headIndex
      BY <1>5, <2>1 DEF AddOvercommit
    <2> QED
      BY <1>0, <2>2, <2>3
  <1>6. CASE AddHead(c)
    <2>1. PICK n \in Int : n = claim[c].next
      BY <1>0 DEF Locals
    <2>2. claim[c].pc = "claim" /\ n > 0 /\ headIndex' = headIndex + n /\ tailIndex' = tailIndex
      BY <1>0, <1>6, <2>1 DEF AddHead, Agree
    <2>3. PICK r : r = [claim[c] EXCEPT !.pc = "claimed", !.want = 0, !.next = headIndex,
                                        !.last = headIndex + claim[c].next]
      OBVIOUS
    <2>4. claim' = [claim EXCEPT ![c] = r]
      BY <1>6, <2>3 DEF AddHead
    <2>5. claim'[c] = r /\ \A d \in Consumer : d # c => claim'[d] = claim[d]
      BY <1>0, <2>4
    <2>6. r.pc = "claimed" /\ r.next = headIndex /\ r.last = headIndex + n
      BY <1>0, <2>1, <2>3 DEF Locals
    <2> QED
      BY <1>0, <2>2, <2>5, <2>6
  <1> QED
    BY <1>1, <1>2, <1>3, <1>4, <1>5, <1>6 DEF ClaimItems

(* A consumer claims items, or none. *)
LEMMA Keeps_Claim ==
  ASSUME CountersInv, CountersInv', StorageTypeOK, LocalsOk, NEW H \in Int, Running(H),
         NEW c \in Consumer, Claim(c)
  PROVE  StorageTypeOK' /\ LocalsOk' /\ Running(H)'
  <1>1. ClaimItems(c) /\ UNCHANGED <<tailBlock, entry, header, slots, completely, pool, prod, walk, fails, destroyed>>
    BY DEF Claim, index, storage
  <1>2. /\ claim[c].pc # "claimed" /\ tailIndex' = tailIndex
        /\ \A d \in Consumer : d # c => claim'[d] = claim[d]
        /\ \/ claim'[c].pc # "claimed" /\ headIndex' = headIndex
           \/ /\ claim'[c].pc = "claimed" /\ claim'[c].next = headIndex /\ claim'[c].last = headIndex'
              /\ headIndex < headIndex'
    BY <1>1, ClaimSteps
  <1>3. walk[c] = WalkIdle /\ walk'[c] = WalkIdle
    BY <1>1, <1>2 DEF LocalsOk, WalkOk
  <1>4. headIndex \in Int /\ headIndex' \in Int
    BY DEF CountersInv, CountersTypeOK
  <1>5. ASSUME NEW i \in Int PROVE Gone(i)' <=> Gone(i)
    <2>1. \A d \in Consumer : d # c =>
            ((claim'[d].pc = "claimed" => i \notin Claims(d)') <=> (claim[d].pc = "claimed" => i \notin Claims(d)))
      BY <1>2 DEF Claims
    <2>2. CASE claim'[c].pc # "claimed" /\ headIndex' = headIndex
      <3>1. (claim'[c].pc = "claimed" => i \notin Claims(c)') <=> (claim[c].pc = "claimed" => i \notin Claims(c))
        BY <1>2, <2>2
      <3> QED
        BY <2>1, <2>2, <3>1 DEF Gone
    <2>3. CASE /\ claim'[c].pc = "claimed" /\ claim'[c].next = headIndex /\ claim'[c].last = headIndex'
               /\ headIndex < headIndex'
      <3>4. PICK h \in Int, g \in Int : h = headIndex /\ g = headIndex' /\ h < g
        BY <1>4, <2>3
      <3>1. \A x \in Int : x \in Claims(c)' <=> h <= x /\ x < g
        <4>1. Claims(c)' = h..(g - 1)
          BY <2>3, <3>4 DEF Claims
        <4> QED
          BY <4>1
      <3>2. CASE i < headIndex
        <4>1. (claim'[c].pc = "claimed" => i \notin Claims(c)') /\ (claim[c].pc = "claimed" => i \notin Claims(c))
          BY <1>2, <3>1, <3>2, <3>4
        <4>2. i < headIndex'
          BY <3>2, <3>4
        <4> QED
          BY <2>1, <3>2, <4>1, <4>2 DEF Gone
      <3>3. CASE ~(i < headIndex)
        <4>1. i < headIndex' => i \in Claims(c)'
          BY <3>1, <3>3, <3>4
        <4> QED
          BY <2>3, <3>3, <4>1 DEF Gone
      <3> QED
        BY <3>2, <3>3
    <2> QED
      BY <1>2, <2>2, <2>3
  <1>6. walk[c].pc = "index" /\ walk'[c].pc = "index"
    BY <1>3 DEF WalkIdle
  <1>7. /\ ProdInv' /\ IndexShape' /\ Window(H)' /\ Values' /\ Content' /\ Counts' /\ TailBlock' /\ Emptiers'
        /\ Way(c, H)' => Ways(H)'
    BY <1>1, <1>2, <1>5, <1>6, ConsumerKeeps
  <1>8. Ways(H)'
    BY <1>6, <1>7 DEF Way
  <1>9. LocalsOk'
    <2>1. ASSUME NEW d \in Consumer, d # c PROVE WalkOk(claim'[d], walk'[d])
      BY <1>1, <1>2, <2>1 DEF LocalsOk
    <2>2. WalkOk(claim'[c], walk'[c])
      <3>1. CASE claim'[c].pc # "claimed"
        BY <1>3, <3>1 DEF WalkOk
      <3>2. CASE claim'[c].pc = "claimed"
        <4>1. Len(walk'[c].out) = 0
          BY <1>3 DEF WalkIdle
        <4>2. PICK n \in Int, l \in Int : n = claim'[c].next /\ l = claim'[c].last /\ n < l
          BY <1>2, <1>4, <3>2
        <4>3. 0 + l - n > 0
          BY <4>2
        <4> QED
          BY <1>6, <3>2, <4>1, <4>2, <4>3 DEF WalkOk
      <3> QED
        BY <3>1, <3>2
    <2> QED
      BY <2>1, <2>2 DEF LocalsOk
  <1>10. Places'
    BY <1>1 DEF Running, Places, InEntry, Freeing, Undone
  <1>11. StorageTypeOK'
    BY <1>1 DEF StorageTypeOK
  <1> QED
    BY <1>7, <1>8, <1>9, <1>10, <1>11 DEF Running

(* A consumer goes one step further on its way; no item goes. *)
LEMMA WalkMoves ==
  ASSUME CountersInv, StorageTypeOK, LocalsOk, NEW H \in Int, Running(H), NEW c \in Consumer,
         UNCHANGED <<counters, tailBlock, entry, header, slots, completely, prod, fails, destroyed>>,
         NEW w \in Walks, walk' = [walk EXCEPT ![c] = w], WalkOk(claim[c], w),
         walk[c].pc # "unlink", w.pc # "unlink", pool' \in [Block -> Nat]
  PROVE  /\ StorageTypeOK' /\ LocalsOk' /\ walk'[c] = w
         /\ \A d \in Consumer : d # c => walk'[d] = walk[d]
         /\ Cap' = Cap /\ \A p \in Int : EntryAt(p)' = EntryAt(p)
         /\ Way(c, H)' /\ Places' => Running(H)'
  <1>1. claim' = claim /\ tailIndex' = tailIndex /\ headIndex' = headIndex
    BY DEF counters
  <1>2. walk'[c] = w /\ \A d \in Consumer : d # c => walk'[d] = walk[d]
    BY DEF StorageTypeOK
  <1>3. \A i \in Int : Gone(i)' <=> Gone(i)
    BY <1>1 DEF Gone, Claims
  <1>4. /\ ProdInv' /\ IndexShape' /\ Window(H)' /\ Values' /\ Content' /\ Counts' /\ TailBlock' /\ Emptiers'
        /\ Cap' = Cap /\ \A p \in Int : EntryAt(p)' = EntryAt(p)
        /\ Way(c, H)' => Ways(H)'
    BY <1>1, <1>2, <1>3, ConsumerKeeps
  <1>5. StorageTypeOK'
    BY DEF StorageTypeOK
  <1>6. LocalsOk'
    BY <1>1, <1>2 DEF LocalsOk
  <1> QED
    BY <1>2, <1>4, <1>5, <1>6 DEF Running

(* A consumer returns what it has taken. *)
LEMMA Keeps_Delivered ==
  ASSUME CountersInv, StorageTypeOK, LocalsOk, NEW H \in Int, Running(H), NEW c \in Consumer, Delivered(c)
  PROVE  StorageTypeOK' /\ LocalsOk' /\ Running(H)'
  <1>1. /\ claim[c].pc = "claimed" /\ walk[c].pc = "return" /\ walk' = [walk EXCEPT ![c] = WalkIdle]
        /\ claim' = [claim EXCEPT ![c] = Unclaimed]
        /\ UNCHANGED <<tailIndex, headIndex, tailBlock, entry, header, slots, completely, pool, prod, fails, destroyed>>
    BY DEF Delivered, Step, Return, index, storage
  <1>2. /\ claim'[c] = Unclaimed /\ walk'[c] = WalkIdle
        /\ \A d \in Consumer : d # c => claim'[d] = claim[d] /\ walk'[d] = walk[d]
    BY <1>1 DEF StorageTypeOK, CountersInv, CountersTypeOK
  <1>3. walk'[c].pc = "index" /\ claim'[c].pc = "idle"
    BY <1>2 DEF WalkIdle, Unclaimed
  <1>4. \A i \in Int : Gone(i)' <=> Gone(i)
    <2>1. TAKE i \in Int
    <2>2. i \notin Claims(c)
      <3>1. WalkOk(claim[c], walk[c])
        BY DEF LocalsOk
      <3>2. PICK n \in Int : claim[c].next = n /\ claim[c].last = n
        BY <1>1, <3>1, ClaimFacts DEF WalkOk
      <3> QED
        BY <3>2 DEF Claims
    <2>3. \A d \in Consumer : d # c =>
            ((claim'[d].pc = "claimed" => i \notin Claims(d)') <=> (claim[d].pc = "claimed" => i \notin Claims(d)))
      BY <1>2 DEF Claims
    <2> QED
      BY <1>1, <1>3, <2>2, <2>3 DEF Gone
  <1>5. /\ ProdInv' /\ IndexShape' /\ Window(H)' /\ Values' /\ Content' /\ Counts' /\ TailBlock' /\ Emptiers'
        /\ Way(c, H)' => Ways(H)'
    <2>1. walk[c].pc # "unlink" /\ walk'[c].pc # "unlink"
      BY <1>1, <1>3
    <2> QED
      BY <1>1, <1>2, <1>4, <2>1, ConsumerKeeps
  <1>6. Way(c, H)'
    BY <1>3 DEF Way
  <1>7. LocalsOk'
    <2>1. \A d \in Consumer : d # c => WalkOk(claim'[d], walk'[d])
      BY <1>2 DEF LocalsOk
    <2>2. WalkOk(claim'[c], walk'[c])
      BY <1>2, <1>3 DEF WalkOk
    <2> QED
      BY <2>1, <2>2 DEF LocalsOk
  <1>8. Places'
    <2>1. \A b \in Block, d \in Consumer : Freeing(d, b)' <=> Freeing(d, b)
      BY <1>1, <1>2, <1>3 DEF Freeing
    <2>2. \A b \in Block : (InEntry(b)' <=> InEntry(b)) /\ (Undone(b)' <=> Undone(b))
      BY <1>1 DEF InEntry, Undone
    <2>3. Places
      BY DEF Running
    <2> QED
      BY <1>1, <2>1, <2>2, <2>3 DEF Places
  <1>9. StorageTypeOK'
    <2>1. WalkIdle \in Walks
      BY DEF WalkIdle, Walks
    <2> QED
      BY <1>1, <2>1 DEF StorageTypeOK
  <1> QED
    BY <1>5, <1>6, <1>7, <1>8, <1>9 DEF Running

(* A consumer looks at the tail of the index. *)
LEMMA Keeps_LoadBlockIndex ==
  ASSUME CountersInv, StorageTypeOK, LocalsOk, NEW H \in Int, Running(H), NEW c \in Consumer, LoadBlockIndex(c)
  PROVE  StorageTypeOK' /\ LocalsOk' /\ Running(H)'
  <1>1. ProdInv /\ IndexShape /\ Window(H) /\ Places
    BY DEF Running
  <1>2. PICK w : w = [walk[c] EXCEPT !.pc = "key", !.hdr = blockIndex, !.at = current.tail]
    OBVIOUS
  <1>3. /\ claim[c].pc = "claimed" /\ walk[c].pc = "index" /\ walk' = [walk EXCEPT ![c] = w]
        /\ UNCHANGED <<counters, tailBlock, entry, header, slots, completely, pool, prod, fails, destroyed>>
    BY <1>2 DEF LoadBlockIndex, Step, index, storage
  <1>4. PICK b \in Int, t \in Int, l \in Int, k \in Int :
          /\ b = blockIndex /\ t = current.tail /\ l = LastNum /\ k = Cap
          /\ b \in DOMAIN header /\ 0 <= t /\ t < k
    BY <1>1, Numbers DEF CountersInv
  <1>5. /\ w \in Walks /\ w.pc = "key" /\ w.hdr = b /\ w.at = t /\ w.block = walk[c].block /\ w.out = walk[c].out
    <2>1. walk[c] \in Walks
      BY DEF StorageTypeOK
    <2> QED
      BY <1>2, <1>4, <2>1 DEF Walks
  <1>6. WalkOk(claim[c], w)
    <2>1. WalkOk(claim[c], walk[c])
      BY DEF LocalsOk
    <2> QED
      BY <1>3, <1>5, <2>1 DEF WalkOk
  <1>7. /\ StorageTypeOK' /\ LocalsOk' /\ walk'[c] = w
        /\ \A d \in Consumer : d # c => walk'[d] = walk[d]
        /\ Cap' = Cap /\ \A p \in Int : EntryAt(p)' = EntryAt(p)
        /\ Way(c, H)' /\ Places' => Running(H)'
    <2>1. pool' \in [Block -> Nat]
      BY <1>3 DEF StorageTypeOK
    <2> QED
      BY <1>3, <1>5, <1>6, <2>1, WalkMoves
  <1>8. Places'
    <2>1. \A x \in Block, d \in Consumer : Freeing(d, x)' <=> Freeing(d, x)
      BY <1>3, <1>5, <1>7 DEF Freeing
    <2>2. \A x \in Block : (InEntry(x)' <=> InEntry(x)) /\ (Undone(x)' <=> Undone(x))
      BY <1>3 DEF InEntry, Undone
    <2> QED
      BY <1>1, <1>3, <2>1, <2>2 DEF Places
  <1>9. Way(c, H)'
    <2>1. First(c)' = First(c) /\ Last(c)' = Last(c)
      BY <1>3, <1>5, <1>7 DEF First, Last, counters
    <2>2. Last(c) \in Int /\ Last(c) <= l /\ l <= H
      <3>1. Last(c) \in Int /\ Last(c) <= Published
        BY <1>1, <1>3, EmptierFacts
      <3>2. Published \in Int /\ Published <= l /\ l <= Top /\ Top <= H /\ Top \in Int
        BY <1>1, <1>4, Numbers DEF Window, CountersInv
      <3> QED
        BY <3>1, <3>2
    <2>3. PICK h : h = header[b]
      OBVIOUS
    <2>4. header'[b] = h /\ h.capacity = k /\ \A p \in Int : h.index[(t + p - l) % k] = EntryAt(p)
      BY <1>3, <1>4, <2>3 DEF EntryAt, Cap, current
    <2>5. h.index[t] = EntryAt(l)
      BY <1>1, <1>4, <2>3, PlaceFacts DEF CountersInv, current
    <2>6. Leads(c, l, First(c))'
      BY <1>5, <1>7, <2>4 DEF Leads
    <2>7. \E r \in Int : /\ Last(c)' <= r /\ r <= H
                         /\ header'[walk'[c].hdr].index[walk'[c].at] = EntryAt(r)'
                         /\ Leads(c, r, First(c))'
      <3>1. EntryAt(l)' = EntryAt(l)
        BY <1>7
      <3> QED
        BY <1>5, <1>7, <2>1, <2>2, <2>4, <2>5, <2>6, <3>1
    <2>8. walk'[c].hdr \in DOMAIN header' /\ 0 <= walk'[c].at /\ walk'[c].at < header'[walk'[c].hdr].capacity
      BY <1>3, <1>4, <1>5, <1>7, <2>4
    <2>9. walk'[c].pc = "key"
      BY <1>5, <1>7
    <2> QED
      BY <2>7, <2>8, <2>9 DEF Way
  <1> QED
    BY <1>7, <1>8, <1>9

(* It computes the place of its first item's block. *)
LEMMA Keeps_LoadKey ==
  ASSUME CountersInv, StorageTypeOK, LocalsOk, NEW H \in Int, Running(H), NEW c \in Consumer, LoadKey(c)
  PROVE  StorageTypeOK' /\ LocalsOk' /\ Running(H)'
  <1>1. ProdInv /\ IndexShape /\ Window(H) /\ Places /\ Ways(H)
    BY DEF Running
  <1> PICK h : h = header[walk[c].hdr]
    OBVIOUS
  <1>2. PICK a \in Int, n \in Int : h = header[walk[c].hdr] /\ a = walk[c].at /\ n = claim[c].next
    <2>1. walk[c] \in Walks /\ claim[c] \in Locals
      BY DEF StorageTypeOK, CountersInv, CountersTypeOK
    <2>2. walk[c].at \in Int /\ claim[c].next \in Int
      BY <2>1 DEF Walks, Locals
    <2> QED
      BY <2>2
  <1>3. /\ claim[c].pc = "claimed" /\ walk[c].pc = "key"
        /\ walk' = [walk EXCEPT ![c] = [walk[c] EXCEPT !.pc = "take", !.at = IndexFor(h, a, n)]]
        /\ UNCHANGED <<counters, tailBlock, entry, header, slots, completely, pool, prod, fails, destroyed>>
    BY <1>2 DEF LoadKey, Step, index, storage
  <1>4. PICK q \in Int, l \in Int :
          q = First(c) /\ l = Last(c) /\ q = Num(n) /\ q <= l /\ Alive(q)
    <2>1. First(c) = Num(n)
      BY <1>2, <1>3 DEF First
    <2> QED
      BY <1>1, <1>3, <2>1, WayInWindow
  <1>5. PICK r \in Int : /\ l <= r /\ r <= H /\ h.index[a] = EntryAt(r)
                         /\ \A p \in Int : q <= p /\ p <= l => h.index[(a + p - r) % h.capacity] = EntryAt(p)
    <2>1. PICK r \in Int : /\ Last(c) <= r /\ r <= H
                           /\ header[walk[c].hdr].index[walk[c].at] = EntryAt(r)
                           /\ Leads(c, r, First(c))
      BY <1>1, <1>3 DEF Ways, Way
    <2>2. Leads(c, r, q)
      BY <1>4, <2>1
    <2>3. \A p \in Int : q <= p /\ p <= l => h.index[(a + p - r) % h.capacity] = EntryAt(p)
      BY <1>2, <1>4, <2>2 DEF Leads
    <2> QED
      BY <1>2, <1>4, <2>1, <2>3
  <1>6. PICK k \in Int : k = h.capacity /\ k > 0 /\ walk[c].hdr \in DOMAIN header
    <2>1. walk[c].hdr \in DOMAIN header
      BY <1>1, <1>3 DEF Ways, Way
    <2>2. h \in Headers
      BY <1>2, <2>1 DEF StorageTypeOK
    <2> QED
      BY <2>1, <2>2, HeaderFacts
  <1>7. entry[h.index[a]].key = Start(r)
    <2>1. q <= r
      BY <1>4, <1>5
    <2> QED
      BY <1>1, <1>4, <1>5, <2>1 DEF Window
  <1>8. PICK y \in Int, x \in Int : y = q - r /\ x = a + y
    OBVIOUS
  <1>9. IndexFor(h, a, n) = x % k
    <2>1. Base(n) = Start(q)
      BY <1>2, <1>4, Nums
    <2>2. (Start(q) - Start(r)) \div BLOCK_SIZE = y
      BY <1>8, Starts
    <2> QED
      BY <1>6, <1>7, <1>8, <2>1, <2>2 DEF IndexFor
  <1>10. x % k \in Int /\ 0 <= x % k /\ x % k < k
    BY <1>6, DivMod
  <1>11. PICK w : w = [walk[c] EXCEPT !.pc = "take", !.at = x % k]
    OBVIOUS
  <1>12. /\ w \in Walks /\ w.pc = "take" /\ w.hdr = walk[c].hdr /\ w.at = x % k /\ w.out = walk[c].out
    <2>1. walk[c] \in Walks
      BY DEF StorageTypeOK
    <2> QED
      BY <1>10, <1>11, <2>1 DEF Walks
  <1>13. walk' = [walk EXCEPT ![c] = w]
    BY <1>3, <1>9, <1>11
  <1>14. WalkOk(claim[c], w)
    <2>1. WalkOk(claim[c], walk[c])
      BY DEF LocalsOk
    <2> QED
      BY <1>3, <1>12, <2>1 DEF WalkOk
  <1>15. /\ StorageTypeOK' /\ LocalsOk' /\ walk'[c] = w
         /\ \A d \in Consumer : d # c => walk'[d] = walk[d]
         /\ Cap' = Cap /\ \A p \in Int : EntryAt(p)' = EntryAt(p)
         /\ Way(c, H)' /\ Places' => Running(H)'
    <2>1. pool' \in [Block -> Nat] /\ walk[c].pc # "unlink" /\ w.pc # "unlink"
      BY <1>3, <1>12 DEF StorageTypeOK
    <2> QED
      BY <1>3, <1>12, <1>13, <1>14, <2>1, WalkMoves
  <1>16. Places'
    <2>1. \A b \in Block, d \in Consumer : Freeing(d, b)' <=> Freeing(d, b)
      BY <1>3, <1>12, <1>15 DEF Freeing
    <2>2. \A b \in Block : (InEntry(b)' <=> InEntry(b)) /\ (Undone(b)' <=> Undone(b))
      BY <1>3 DEF InEntry, Undone
    <2> QED
      BY <1>1, <1>3, <2>1, <2>2 DEF Places
  <1>17. Way(c, H)'
    <2>1. First(c)' = q /\ Last(c)' = l
      <3>1. claim' = claim
        BY <1>3 DEF counters
      <3> QED
        BY <1>2, <1>4, <1>12, <1>15, <3>1 DEF First, Last
    <2>2. header'[walk'[c].hdr] = h /\ walk'[c].at = x % k /\ walk'[c].hdr \in DOMAIN header'
      BY <1>2, <1>3, <1>6, <1>12, <1>15
    <2>3. ASSUME NEW p \in Int, q <= p, p <= l PROVE h.index[((x % k) + p - q) % k] = EntryAt(p)
      <3>1. PICK z \in Int : z = p - q
        OBVIOUS
      <3>2. ((x % k) + z) % k = (x + z) % k
        <4>1. k > 0
          BY <1>6
        <4> QED
          BY <4>1, ModPlus
      <3>3. (x % k) + p - q = (x % k) + z /\ x + z = a + p - r
        BY <1>8, <1>10, <3>1
      <3>4. h.index[(a + p - r) % k] = EntryAt(p)
        BY <1>5, <1>6, <2>3
      <3> QED
        BY <3>2, <3>3, <3>4
    <2>4. Leads(c, q, q)'
      BY <1>6, <1>15, <2>1, <2>2, <2>3 DEF Leads
    <2> QED
      BY <1>6, <1>10, <1>12, <1>15, <2>1, <2>2, <2>4 DEF Way
  <1> QED
    BY <1>15, <1>16, <1>17

(* It returns a block and goes on to the next, or to the end. *)
LEMMA Keeps_add_block_to_free_list ==
  ASSUME CountersInv, StorageTypeOK, LocalsOk, NEW H \in Int, Running(H),
         NEW c \in Consumer, add_block_to_free_list(c)
  PROVE  StorageTypeOK' /\ LocalsOk' /\ Running(H)'
  <1>1. ProdInv /\ IndexShape /\ Window(H) /\ Places /\ Ways(H)
    BY DEF Running
  <1> PICK h : h = header[walk[c].hdr]
    OBVIOUS
  <1>2. PICK n \in Int, l \in Int : n = claim[c].next /\ l = claim[c].last
    BY DEF CountersInv, CountersTypeOK, Locals
  <1>3. PICK w : w = Further(walk[c], n, l)
    OBVIOUS
  <1>4. /\ claim[c].pc = "claimed" /\ walk[c].pc = "release" /\ walk' = [walk EXCEPT ![c] = w]
        /\ pool' = [pool EXCEPT ![walk[c].block] = @ + 1]
        /\ UNCHANGED <<counters, tailBlock, entry, header, slots, completely, prod, fails, destroyed>>
    BY <1>2, <1>3 DEF add_block_to_free_list, Step, index
  <1>5. walk[c] \in Walks /\ WalkOk(claim[c], walk[c])
    BY DEF StorageTypeOK, LocalsOk
  <1>6. n > 0 /\ n <= l /\ walk[c].block \in Block /\ (n < l => Num(n) = Num(n - 1) + 1) /\ Len(walk[c].out) + l - n > 0
    BY <1>2, <1>4, <1>5, ClaimFacts DEF WalkOk
  <1>7. PICK a \in Int, k \in Int, f \in Int :
          /\ a = walk[c].at /\ k = h.capacity /\ k > 0 /\ f = First(c)
          /\ walk[c].hdr \in DOMAIN header
    <2>1. walk[c].hdr \in DOMAIN header
      BY <1>1, <1>4 DEF Ways, Way
    <2>2. h \in Headers
      BY <2>1 DEF StorageTypeOK
    <2>3. walk[c].at \in Int
      BY <1>5 DEF Walks
    <2>4. First(c) \in Int
      BY <1>1, <1>4, EmptierFacts
    <2>5. h.capacity \in Int /\ h.capacity > 0
      BY <2>2, HeaderFacts
    <2> QED
      BY <2>1, <2>3, <2>4, <2>5
  <1>8. PICK x \in Int : x = a + 1
    OBVIOUS
  <1>9. x % k \in Int /\ 0 <= x % k /\ x % k < k
    <2>1. k > 0
      BY <1>7
    <2> QED
      BY <2>1, DivMod
  <1>10. /\ n = l => w.pc = "return" /\ w.out = walk[c].out /\ w \in Walks
         /\ n # l => /\ w \in Walks /\ w.pc = "take" /\ w.hdr = walk[c].hdr /\ w.at = x % k
                     /\ w.out = walk[c].out
    <2>1. CASE n = l
      <3>1. w = [pc |-> "return", hdr |-> 0, at |-> 0, block |-> Null, out |-> walk[c].out]
        BY <1>3, <2>1 DEF Further, WalkIdle
      <3> QED
        BY <1>5, <2>1, <3>1 DEF Walks
    <2>2. CASE n # l
      <3>1. w = [walk[c] EXCEPT !.pc = "take", !.block = Null, !.at = x % k]
        BY <1>3, <1>7, <1>8, <2>2 DEF Further
      <3> QED
        BY <1>5, <1>9, <2>2, <3>1 DEF Walks
    <2> QED
      BY <2>1, <2>2
  <1>11. WalkOk(claim[c], w)
    <2>1. CASE n = l
      BY <1>2, <1>4, <1>6, <1>10, <2>1 DEF WalkOk
    <2>2. CASE n # l
      <3>1. n < l
        BY <1>6, <2>2
      <3> QED
        BY <1>2, <1>4, <1>6, <1>10, <2>2, <3>1 DEF WalkOk
    <2> QED
      BY <2>1, <2>2
  <1>12. w \in Walks /\ w.pc \in {"return", "take"}
    BY <1>10
  <1>13. PICK b \in Block : b = walk[c].block
    BY <1>6
  <1>14. /\ pool' \in [Block -> Nat] /\ pool'[b] = pool[b] + 1
         /\ \A y \in Block : y # b => pool'[y] = pool[y]
    BY <1>4, <1>13 DEF StorageTypeOK
  <1>15. /\ StorageTypeOK' /\ LocalsOk' /\ walk'[c] = w
         /\ \A d \in Consumer : d # c => walk'[d] = walk[d]
         /\ Cap' = Cap /\ \A p \in Int : EntryAt(p)' = EntryAt(p)
         /\ Way(c, H)' /\ Places' => Running(H)'
    <2>1. walk[c].pc # "unlink" /\ w.pc # "unlink"
      BY <1>4, <1>12
    <2> QED
      BY <1>4, <1>11, <1>12, <1>14, <2>1, WalkMoves
  <1>16. Places'
    <2>1. Freeing(c, b) /\ \A y \in Block : Freeing(c, y) => y = b
      BY <1>4, <1>13 DEF Freeing
    <2>2. \A y \in Block, d \in Consumer : Freeing(d, y)' <=> Freeing(d, y) /\ d # c
      BY <1>12, <1>15 DEF Freeing
    <2>3. \A y \in Block : (InEntry(y)' <=> InEntry(y)) /\ (Undone(y)' <=> Undone(y))
      BY <1>4 DEF InEntry, Undone
    <2>4. pool[b] = 0 /\ ~InEntry(b) /\ ~Undone(b) /\ \A d \in Consumer : Freeing(d, b) => d = c
      BY <1>1, <2>1 DEF Places
    <2>5. pool'[b] = 1
      BY <1>14, <2>4
    <2>6. ASSUME NEW y \in Block
          PROVE  /\ pool'[y] = 1 \/ (pool'[y] = 0 /\ (InEntry(y)' \/ (\E d \in Consumer : Freeing(d, y)') \/ Undone(y)'))
                 /\ pool'[y] = 1 => ~InEntry(y)' /\ (\A d \in Consumer : ~Freeing(d, y)') /\ ~Undone(y)'
                 /\ InEntry(y)' => (\A d \in Consumer : ~Freeing(d, y)') /\ ~Undone(y)'
                 /\ \A d \in Consumer : Freeing(d, y)' => ~Undone(y)'
      <3>1. CASE y = b
        BY <2>2, <2>3, <2>4, <2>5, <3>1
      <3>2. CASE y # b
        <4>1. pool'[y] = pool[y] /\ \A d \in Consumer : Freeing(d, y)' <=> Freeing(d, y)
          BY <1>14, <2>1, <2>2, <3>2
        <4> QED
          BY <1>1, <2>3, <4>1 DEF Places
      <3> QED
        BY <3>1, <3>2
    <2>7. \A e, g \in DOMAIN entry' : entry'[e].value \in Block /\ entry'[e].value = entry'[g].value => e = g
      BY <1>1, <1>4 DEF Places
    <2>8. \A d, g \in Consumer, y \in Block : Freeing(d, y)' /\ Freeing(g, y)' => d = g
      BY <1>1, <2>2 DEF Places
    <2>9. prod'.pc = "undo" => \A i, j \in DOMAIN prod'.alloc :
            i <= prod'.slot /\ j <= prod'.slot /\ prod'.alloc[i] = prod'.alloc[j] => i = j
      BY <1>1, <1>4 DEF Places
    <2> QED
      BY <2>6, <2>7, <2>8, <2>9 DEF Places
  <1>17. Way(c, H)'
    <2>1. CASE n = l
      <3>1. walk'[c].pc = "return"
        BY <1>10, <1>15, <2>1
      <3> QED
        BY <3>1 DEF Way
    <2>2. CASE n # l
      <3>1. claim' = claim /\ n < l
        BY <1>4, <1>6, <2>2 DEF counters
      <3>2. First(c) = Num(n - 1) /\ First(c)' = Num(n) /\ Last(c)' = Last(c)
        BY <1>2, <1>4, <1>10, <1>15, <2>2, <3>1 DEF First, Last
      <3>3. PICK g \in Int, m \in Int : g = f + 1 /\ m = Last(c) /\ First(c)' = g
        <4>1. Last(c) \in Int
          BY <1>1, <1>4, WayInWindow
        <4>2. First(c)' = f + 1
          BY <1>6, <1>7, <3>1, <3>2
        <4> QED
          BY <4>1, <4>2
      <3>4. \A p \in Int : f + 1 <= p /\ p <= m => h.index[(a + p - f) % k] = EntryAt(p)
        <4>1. Leads(c, f, g)
          BY <1>1, <1>4, <1>7, <3>3 DEF Ways, Way
        <4> QED
          BY <1>7, <3>3, <4>1 DEF Leads
      <3>5. \A p \in Int : g <= p /\ p <= m => h.index[((x % k) + p - g) % k] = EntryAt(p)
        <4> SUFFICES ASSUME NEW p \in Int, g <= p, p <= m
                     PROVE  h.index[((x % k) + p - g) % k] = EntryAt(p)
          OBVIOUS
        <4>1. PICK z \in Int : z = p - g
          OBVIOUS
        <4>2. ((x % k) + z) % k = (x + z) % k
          <5>1. k > 0
            BY <1>7
          <5> QED
            BY <5>1, ModPlus
        <4>3. (x % k) + p - g = (x % k) + z /\ x + z = a + p - f
          BY <1>8, <1>9, <3>3, <4>1
        <4>4. f + 1 <= p
          BY <3>3
        <4> QED
          BY <3>4, <4>2, <4>3, <4>4
      <3>6. header'[walk'[c].hdr] = h /\ walk'[c].at = x % k /\ walk'[c].hdr \in DOMAIN header' /\ walk'[c].pc = "take"
        BY <1>4, <1>7, <1>10, <1>15, <2>2
      <3>7. Leads(c, g, g)'
        BY <1>7, <1>15, <3>2, <3>3, <3>5, <3>6 DEF Leads
      <3> QED
        BY <1>7, <1>9, <3>3, <3>6, <3>7 DEF Way
    <2> QED
      BY <2>1, <2>2
  <1> QED
    BY <1>15, <1>16, <1>17

(* The entry that a consumer clears is that of the block it has emptied. *)
LEMMA EntryOfEmptied ==
  ASSUME CountersInv, StorageTypeOK, LocalsOk, NEW H \in Int, Running(H),
         NEW c \in Consumer, claim[c].pc = "claimed", walk[c].pc \in {"take", "unlink"}
  PROVE  EntryOf(c) = EntryAt(First(c)) /\ First(c) \in Int /\ First(c) <= Last(c)
  <1>1. /\ ProdInv /\ Window(H) /\ Ways(H)
    BY DEF Running
  <1>2. First(c) \in Int /\ Last(c) \in Int
    BY <1>1, WayInWindow
  <1>3. First(c) <= Last(c)
    <2>1. CASE walk[c].pc = "take"
      BY <1>1, <2>1, WayInWindow
    <2>2. CASE walk[c].pc = "unlink"
      <3>1. PICK n \in Int, l \in Int : n = claim[c].next - 1 /\ l = claim[c].last - 1 /\ n <= l
        <4>1. PICK x \in Int, y \in Int : x = claim[c].next /\ y = claim[c].last /\ x <= y
          BY ClaimFacts
        <4> QED
          BY <4>1
      <3>2. First(c) = Num(n) /\ Last(c) = Num(l)
        BY <2>2, <3>1 DEF First, Last
      <3> QED
        BY <3>1, <3>2, Nums
    <2> QED
      BY <2>1, <2>2
  <1>4. PICK f \in Int, l \in Int : f = First(c) /\ l = Last(c) /\ f <= l
    BY <1>2, <1>3
  <1>5. PICK h : h = header[walk[c].hdr]
    OBVIOUS
  <1>6. PICK a \in Int, k \in Int : a = walk[c].at /\ k = h.capacity /\ 0 <= a /\ a < k
    <2>1. /\ walk[c].hdr \in DOMAIN header
          /\ 0 <= walk[c].at /\ walk[c].at < header[walk[c].hdr].capacity
      BY <1>1 DEF Ways, Way
    <2>2. h \in Headers
      BY <1>5, <2>1 DEF StorageTypeOK
    <2>3. walk[c].at \in Int
      BY DEF StorageTypeOK, Walks
    <2> QED
      BY <1>5, <2>1, <2>2, <2>3, HeaderFacts
  <1>7. Leads(c, f, f)
    BY <1>1, <1>4 DEF Ways, Way
  <1>8. h.index[(a + f - f) % k] = EntryAt(f)
    BY <1>4, <1>5, <1>6, <1>7 DEF Leads
  <1>9. a + f - f = a /\ a % k = a
    <2>1. k > 0 /\ 0 <= a /\ a < k
      BY <1>6
    <2>2. a % k = a
      BY <2>1, ModSmall
    <2> QED
      BY <2>2
  <1> QED
    BY <1>4, <1>5, <1>6, <1>8, <1>9 DEF EntryOf

(* It takes the block it has emptied out of the index. *)
LEMMA Keeps_Unlink ==
  ASSUME CountersInv, StorageTypeOK, LocalsOk, NEW H \in Int, Running(H), NEW c \in Consumer, Unlink(c)
  PROVE  StorageTypeOK' /\ LocalsOk' /\ Running(H)'
  <1>1. /\ ProdInv /\ IndexShape /\ Window(H) /\ Values /\ Content /\ Counts /\ TailBlock /\ Emptiers
        /\ Ways(H) /\ Places
    BY DEF Running
  <1>2. PICK w : w = [walk[c] EXCEPT !.pc = "release"]
    OBVIOUS
  <1>3. /\ claim[c].pc = "claimed" /\ walk[c].pc = "unlink" /\ walk' = [walk EXCEPT ![c] = w]
        /\ entry' = [entry EXCEPT ![EntryOf(c)].value = Null]
        /\ UNCHANGED <<counters, tailBlock, header, slots, completely, pool, prod, fails, destroyed>>
    BY <1>2 DEF Unlink, Step, storage
  <1>4. UNCHANGED <<tailIndex, headIndex, claim>>
    BY <1>3 DEF counters
  <1>5. /\ w \in Walks /\ w.pc = "release" /\ w.hdr = walk[c].hdr /\ w.at = walk[c].at
        /\ w.block = walk[c].block /\ w.out = walk[c].out
    <2>1. walk[c] \in Walks
      BY DEF StorageTypeOK
    <2> QED
      BY <1>2, <2>1 DEF Walks
  <1>6. walk'[c] = w /\ \A d \in Consumer : d # c => walk'[d] = walk[d]
    BY <1>3 DEF StorageTypeOK
  <1>7. PICK n \in Int : n = First(c) /\ EntryOf(c) = EntryAt(n)
    BY <1>3, EntryOfEmptied
  <1>8. Emptier(c, n) /\ Alive(n) /\ Full(n) /\ n <= Published /\ H - Cap < n /\ n <= H
    <2>1. Emptier(c, n) /\ Alive(n) /\ n <= Published
      BY <1>1, <1>3, <1>7, EmptierFacts
    <2>2. H - Cap < n /\ n <= H
      BY <1>1, <1>3, <1>7, WayInWindow
    <2> QED
      BY <1>1, <2>1, <2>2 DEF Emptiers
  <1>9. Published \in Int /\ Published' = Published /\ LastNum' = LastNum /\ Top' = Top
    BY <1>1, <1>3, <1>4, Numbers DEF Published, LastNum, Top, CountersInv
  <1>10. HeadersKept /\ Cap' = Cap /\ (\A p \in Int : EntryAt(p)' = EntryAt(p))
    BY <1>3, <1>9, SamePlaces
  <1>11. \A i \in Int : Gone(i)' <=> Gone(i)
    BY <1>4 DEF Gone, Claims
  <1>12. \A p \in Int : DoneIn(p)' = DoneIn(p) /\ (Full(p)' <=> Full(p))
    BY <1>11, SameGone
  <1>13. \A d \in Consumer, p \in Int : Emptier(d, p)' <=> Emptier(d, p) /\ d # c
    BY <1>3, <1>4, <1>5, <1>6 DEF Emptier
  <1>14. \A p \in Int : InCall(p)' <=> InCall(p)
    BY <1>3, <1>9 DEF InCall
  <1>15. ~InCall(n)
    BY <1>8, <1>9 DEF InCall
  <1>16. \A d \in Consumer : Emptier(d, n) => d = c
    BY <1>1, <1>8 DEF Emptiers
  <1>17. \A p \in Int : Emptier(c, p) => p = n
    BY <1>8 DEF Emptier
  <1>18. \A p \in Int : Alive(p)' <=> Alive(p) /\ p # n
    <2>1. TAKE p \in Int
    <2>2. CASE p = n
      BY <1>8, <1>12, <1>13, <1>14, <1>15, <1>16, <2>2 DEF Alive
    <2>3. CASE p # n
      <3>1. (\E d \in Consumer : Emptier(d, p)') <=> (\E d \in Consumer : Emptier(d, p))
        BY <1>13, <1>17, <2>3
      <3> QED
        BY <1>9, <1>12, <1>14, <2>3, <3>1 DEF Alive
    <2> QED
      BY <2>2, <2>3
  <1>19. /\ entry' \in Seq(Entries) /\ DOMAIN entry' = DOMAIN entry /\ Len(entry') = Len(entry)
         /\ Window(H)' /\ Values'
         /\ \A p \in Int : Alive(p) /\ p # n => BlockAt(p)' = BlockAt(p)
         /\ \A b \in Block : InEntry(b)' <=> InEntry(b) /\ b # BlockAt(n)
         /\ \A e, f \in DOMAIN entry' : entry'[e].value \in Block /\ entry'[e].value = entry'[f].value => e = f
    <2>1. Top' <= H
      BY <1>1, <1>9 DEF Window
    <2>2. \A p \in Int : Unset(p) => p = n \/ Unset(p)'
      BY <1>3, <1>9 DEF Unset
    <2>3. \A p \in Int : InCall(p)' => InCall(p) /\ p # n
      BY <1>14, <1>15
    <2>4. entry' = [entry EXCEPT ![EntryAt(n)].value = Null] /\ prod'.alloc = prod.alloc
      BY <1>3, <1>7
    <2> QED
      BY <1>8, <1>9, <1>10, <1>18, <2>1, <2>2, <2>3, <2>4, EntryCleared
  <1>20. IndexShape'
    BY <1>1, <1>3, <1>9, <1>19, SamePlaces
  <1>21. ProdInv'
    BY <1>1, <1>3, <1>4, <1>9 DEF ProdInv, Needed, NewTail, current, blockIndex
  <1>22. \A p \in Int : Alive(p) /\ p <= Published /\ ~Full(p) => BlockAt(p)' = BlockAt(p)
    BY <1>8, <1>19
  <1>23. Content'
    BY <1>1, <1>3, <1>4, <1>11, <1>22, ContentKept
  <1>24. Counts'
    BY <1>1, <1>3, <1>12, <1>18, <1>19, CountsKept
  <1>25. TailBlock'
    <2>1. 0 <= Published /\ ~Full(Published) => BlockAt(Published)' = BlockAt(Published)
      <3>1. 0 <= Published /\ ~Full(Published) => Alive(Published) /\ Published <= Published
        BY <1>9 DEF Alive
      <3> QED
        BY <1>9, <1>22, <3>1
    <2> QED
      BY <1>1, <1>3, <1>9, <1>12, <2>1, TailBlockKept
  <1>26. Emptiers'
    BY <1>1, <1>12, <1>13, EmptiersKept
  <1>27. Ways(H)'
    <2>1. ASSUME NEW d \in Consumer, d # c PROVE Way(d, H)'
      <3>1. Way(d, H) /\ claim'[d] = claim[d] /\ walk'[d] = walk[d]
        BY <1>1, <1>4, <1>6, <2>1 DEF Ways
      <3>2. walk[d].pc = "unlink" => BlockAt(First(d))' = BlockAt(First(d))
        <4> SUFFICES ASSUME walk[d].pc = "unlink" PROVE BlockAt(First(d))' = BlockAt(First(d))
          OBVIOUS
        <4>1. First(d)' = First(d)
          BY <3>1 DEF First
        <4>2. claim[d].pc = "claimed"
          BY DEF LocalsOk, WalkOk, WalkIdle
        <4>3. PICK p \in Int : p = First(d) /\ Emptier(d, p) /\ Alive(p)
          BY <1>1, <4>2, EmptierFacts
        <4>4. p # n
          BY <1>16, <2>1, <4>3
        <4>5. BlockAt(p)' = BlockAt(p)
          BY <1>19, <4>3, <4>4
        <4> QED
          BY <4>1, <4>3, <4>5 DEF BlockAt
      <3>3. H <= H
        OBVIOUS
      <3> QED
        BY <1>1, <1>10, <3>1, <3>2, <3>3, WayKept
    <2>2. Way(c, H)'
      <3>1. First(c)' = n /\ Last(c)' = Last(c)
        BY <1>3, <1>4, <1>5, <1>6, <1>7 DEF First, Last
      <3>2. PICK g \in Int : g = n + 1
        OBVIOUS
      <3>3. Leads(c, n, n)
        BY <1>1, <1>3, <1>7 DEF Ways, Way
      <3>4. Last(c) \in Int
        BY <1>1, <1>3, WayInWindow
      <3>5. Leads(c, n, g)
        <4>1. \A p \in Int : g <= p => n <= p
          BY <3>2
        <4> QED
          BY <3>3, <3>4, <4>1 DEF Leads
      <3>6. Leads(c, n, g)'
        BY <1>3, <1>5, <1>6, <1>10, <3>1, <3>5 DEF Leads
      <3>7. /\ walk'[c].hdr \in DOMAIN header' /\ 0 <= walk'[c].at
            /\ walk'[c].at < header'[walk'[c].hdr].capacity
        BY <1>1, <1>3, <1>5, <1>6 DEF Ways, Way
      <3> QED
        BY <1>5, <1>6, <3>1, <3>2, <3>6, <3>7 DEF Way
    <2> QED
      BY <2>1, <2>2 DEF Ways
  <1>28. Places'
    <2>1. PICK b \in Block : b = BlockAt(n) /\ b = walk[c].block
      BY <1>1, <1>3, <1>7, <1>8 DEF Values, Ways, Way
    <2>2. InEntry(b)
      BY <1>1, <2>1, PlaceFacts DEF InEntry, BlockAt, CountersInv
    <2>3. pool[b] = 0 /\ (\A d \in Consumer : ~Freeing(d, b)) /\ ~Undone(b)
      BY <1>1, <2>2 DEF Places
    <2>4. \A y \in Block, d \in Consumer : Freeing(d, y)' <=> Freeing(d, y) \/ (d = c /\ y = b)
      BY <1>3, <1>5, <1>6, <2>1 DEF Freeing
    <2>5. \A y \in Block : Undone(y)' <=> Undone(y)
      BY <1>3 DEF Undone
    <2>6. \A y \in Block : InEntry(y)' <=> InEntry(y) /\ y # b
      BY <1>19, <2>1
    <2>7. ASSUME NEW y \in Block
          PROVE  /\ pool'[y] = 1 \/ (pool'[y] = 0 /\ (InEntry(y)' \/ (\E d \in Consumer : Freeing(d, y)') \/ Undone(y)'))
                 /\ pool'[y] = 1 => ~InEntry(y)' /\ (\A d \in Consumer : ~Freeing(d, y)') /\ ~Undone(y)'
                 /\ InEntry(y)' => (\A d \in Consumer : ~Freeing(d, y)') /\ ~Undone(y)'
                 /\ \A d \in Consumer : Freeing(d, y)' => ~Undone(y)'
      <3>1. CASE y = b
        BY <1>3, <2>3, <2>4, <2>5, <2>6, <3>1
      <3>2. CASE y # b
        BY <1>1, <1>3, <2>4, <2>5, <2>6, <3>2 DEF Places
      <3> QED
        BY <3>1, <3>2
    <2>8. \A d, g \in Consumer, y \in Block : Freeing(d, y)' /\ Freeing(g, y)' => d = g
      BY <1>1, <2>3, <2>4 DEF Places
    <2>9. prod'.pc = "undo" => \A i, j \in DOMAIN prod'.alloc :
            i <= prod'.slot /\ j <= prod'.slot /\ prod'.alloc[i] = prod'.alloc[j] => i = j
      BY <1>1, <1>3 DEF Places
    <2> QED
      BY <1>19, <2>7, <2>8, <2>9 DEF Places
  <1>29. LocalsOk'
    <2>1. WalkOk(claim[c], w)
      <3>1. WalkOk(claim[c], walk[c])
        BY DEF LocalsOk
      <3> QED
        BY <1>3, <1>5, <3>1 DEF WalkOk
    <2> QED
      BY <1>4, <1>6, <2>1 DEF LocalsOk
  <1>30. StorageTypeOK'
    BY <1>3, <1>5, <1>19 DEF StorageTypeOK
  <1> QED
    BY <1>19, <1>20, <1>21, <1>23, <1>24, <1>25, <1>26, <1>27, <1>28, <1>29, <1>30 DEF Running

(* What a consumer takes at once: the claimed items of one block. *)
Taking(c, p, x, y, end) ==
  /\ claim[c].pc = "claimed" /\ walk[c].pc = "take"
  /\ p = First(c) /\ x = claim[c].next /\ y = claim[c].last
  /\ end = Min({Base(x) + BLOCK_SIZE, y})

(* They are unread, in that block, at their offsets. *)
LEMMA TakeFacts ==
  ASSUME CountersInv, StorageTypeOK, LocalsOk, NEW H \in Int, Running(H), NEW c \in Consumer,
         NEW p \in Int, NEW x \in Int, NEW y \in Int, NEW end \in Int, Taking(c, p, x, y, end),
         NEW s \in Int, s = Start(p)
  PROVE  /\ 0 <= x /\ x < end /\ end <= y /\ y <= headIndex /\ y <= tailIndex
         /\ s <= x /\ end <= s + BLOCK_SIZE /\ (end < y => end = s + BLOCK_SIZE)
         /\ \A i \in Int : x <= i /\ i < end => Num(i) = p /\ Offset(i) = i - s /\ ~Gone(i)
         /\ p = Num(x) /\ (end < y => Num(end) = p + 1)
         /\ entry[EntryOf(c)].value = BlockAt(p) /\ BlockAt(p) \in Block
         /\ Alive(p) /\ ~Full(p) /\ 0 <= p /\ p <= Published
         /\ \A i \in Int : x <= i /\ i < end => slots[BlockAt(p)][i - s] = i
  <1> /\ claim[c].pc = "claimed" /\ walk[c].pc = "take"
      /\ p = First(c) /\ x = claim[c].next /\ y = claim[c].last
      /\ end = Min({Base(x) + BLOCK_SIZE, y})
    BY DEF Taking
  <1>1. /\ ProdInv /\ IndexShape /\ Window(H) /\ Values /\ Content
    BY DEF Running
  <1>2. /\ 0 <= x /\ y <= headIndex /\ y <= tailIndex /\ \A i \in Int : x <= i /\ i < y => ~Gone(i)
    BY ClaimFacts
  <1>3. x < y
    BY DEF LocalsOk, WalkOk
  <1>4. p = Num(x) /\ Alive(p) /\ ~Full(p)
    <2>1. p = Num(x)
      BY DEF First
    <2>2. claim[c].next < claim[c].last
      BY <1>3
    <2>3. Alive(Num(claim[c].next)) /\ ~Full(Num(claim[c].next))
      BY <1>1, <2>2, EmptierFacts
    <2> QED
      BY <2>1, <2>3
  <1>5. 0 <= p /\ p <= Published
    <2>1. x < tailIndex
      BY <1>2, <1>3, HeadTail
    <2> QED
      BY <1>1, <1>2, <1>3, <1>4, <2>1, AliveFacts
  <1>6. Base(x) = s /\ s <= x /\ x < s + BLOCK_SIZE
    BY <1>4, Nums
  <1>7. /\ x < end /\ end <= y /\ end <= s + BLOCK_SIZE /\ (end < y => end = s + BLOCK_SIZE)
    <2>1. PICK z \in Int : z = s + BLOCK_SIZE
      BY BlockSize
    <2>2. end = Min({z, y})
      BY <1>6, <2>1
    <2>3. end \in {z, y} /\ end <= z /\ end <= y
      <3>1. \E v \in {z, y} : \A u \in {z, y} : v <= u
        <4>1. CASE z <= y
          BY <4>1
        <4>2. CASE y <= z
          BY <4>2
        <4> QED
          BY <4>1, <4>2
      <3>2. Min({z, y}) \in {z, y} /\ \A u \in {z, y} : Min({z, y}) <= u
        BY <3>1 DEF Min
      <3> QED
        BY <2>2, <3>2
    <2> QED
      BY <1>3, <1>6, <2>1, <2>3
  <1>8. ASSUME NEW i \in Int, x <= i, i < end
        PROVE  Num(i) = p /\ Offset(i) = i - s /\ ~Gone(i) /\ slots[BlockAt(p)][i - s] = i
    <2>1. s <= i /\ i < s + BLOCK_SIZE
      BY <1>6, <1>7, <1>8, BlockSize
    <2>2. Num(i) = p
      BY <2>1, Nums
    <2>3. Offset(i) = i - s
      BY <2>2, Nums
    <2>4. i < y /\ 0 <= i
      BY <1>2, <1>7, <1>8
    <2>5. ~Gone(i)
      BY <1>2, <1>8, <2>4
    <2>6. i < tailIndex
      BY <1>2, <2>4, HeadTail
    <2>7. slots[BlockAt(Num(i))][Offset(i)] = i
      BY <1>1, <2>4, <2>5, <2>6 DEF Content
    <2> QED
      BY <2>2, <2>3, <2>5, <2>7
  <1>9. end < y => Num(end) = p + 1
    <2> SUFFICES ASSUME end < y PROVE Num(end) = p + 1
      OBVIOUS
    <2>1. end = s + BLOCK_SIZE
      BY <1>7
    <2>2. PICK q \in Int, k \in Int : q = p + 1 /\ k = 1
      OBVIOUS
    <2>3. s + BLOCK_SIZE * k = Start(q)
      BY <2>2, Starts
    <2>4. Start(q) <= end /\ end < Start(q) + BLOCK_SIZE
      BY <2>1, <2>2, <2>3, BlockSize
    <2> QED
      BY <2>2, <2>4, Nums
  <1>10. entry[EntryOf(c)].value = BlockAt(p) /\ BlockAt(p) \in Block
    BY <1>1, <1>4, EntryOfEmptied DEF Values, BlockAt
  <1> QED
    BY <1>2, <1>4, <1>5, <1>6, <1>7, <1>8, <1>9, <1>10

(* The items taken, and no other, are gone then; the block is full when    *)
(* they and those that were gone are as many as it has slots.              *)
LEMMA TakeGone ==
  ASSUME CountersInv, StorageTypeOK, LocalsOk, NEW H \in Int, Running(H), NEW c \in Consumer,
         NEW p \in Int, NEW x \in Int, NEW y \in Int, NEW end \in Int, Taking(c, p, x, y, end),
         TakenUpTo(c, end), headIndex' = headIndex
  PROVE  /\ claim'[c].next = end /\ claim'[c].last = y /\ claim'[c].pc = "claimed"
         /\ \A d \in Consumer : d # c => claim'[d] = claim[d]
         /\ \A i \in Int : Gone(i)' <=> Gone(i) \/ (x <= i /\ i < end)
         /\ \A q \in Int : q # p => DoneIn(q)' = DoneIn(q) /\ (Full(q)' <=> Full(q))
         /\ Cardinality(DoneIn(p)') = Cardinality(DoneIn(p)) + (end - x)
         /\ Cardinality(DoneIn(p)) \in Nat
         /\ Full(p)' <=> Cardinality(DoneIn(p)') = BLOCK_SIZE
  <1>0. PICK s \in Int : s = Start(p)
    BY Starts
  <1>1. /\ 0 <= x /\ x < end /\ end <= y /\ y <= headIndex /\ y <= tailIndex
        /\ s <= x /\ end <= s + BLOCK_SIZE
        /\ \A i \in Int : x <= i /\ i < end => Num(i) = p /\ Offset(i) = i - s /\ ~Gone(i)
    <2>1. s \in Int /\ s = Start(p)
      BY <1>0
    <2>2. /\ 0 <= x /\ x < end /\ end <= y /\ y <= headIndex /\ y <= tailIndex
          /\ s <= x /\ end <= s + BLOCK_SIZE /\ (end < y => end = s + BLOCK_SIZE)
          /\ \A i \in Int : x <= i /\ i < end => Num(i) = p /\ Offset(i) = i - s /\ ~Gone(i)
          /\ p = Num(x) /\ (end < y => Num(end) = p + 1)
          /\ entry[EntryOf(c)].value = BlockAt(p) /\ BlockAt(p) \in Block
          /\ Alive(p) /\ ~Full(p) /\ 0 <= p /\ p <= Published
          /\ \A i \in Int : x <= i /\ i < end => slots[BlockAt(p)][i - s] = i
      BY <2>1, TakeFacts
    <2> QED
      BY <2>2
  <1>2. claim \in [Consumer -> Locals] /\ claim[c] \in Locals /\ headIndex \in Int
    BY DEF CountersInv, CountersTypeOK
  <1>3. /\ claim'[c] = [claim[c] EXCEPT !.next = end]
        /\ \A d \in Consumer : d # c => claim'[d] = claim[d]
    BY <1>2 DEF TakenUpTo
  <1>4. claim'[c].next = end /\ claim'[c].last = y /\ claim'[c].pc = "claimed"
    BY <1>2, <1>3 DEF Locals, Taking
  <1>5. ASSUME NEW i \in Int PROVE Gone(i)' <=> Gone(i) \/ (x <= i /\ i < end)
    <2>1. \A d \in Consumer : d # c =>
            ((claim'[d].pc = "claimed" => i \notin Claims(d)') <=> (claim[d].pc = "claimed" => i \notin Claims(d)))
      BY <1>3 DEF Claims
    <2>2. i \in Claims(c) <=> x <= i /\ i < y
      BY DEF Claims, Taking
    <2>3. i \in Claims(c)' <=> end <= i /\ i < y
      <3>1. Claims(c)' = end..(y - 1)
        BY <1>4 DEF Claims
      <3> QED
        BY <3>1
    <2>4. CASE x <= i /\ i < end
      <3>1. i \notin Claims(c)' /\ i < headIndex
        BY <1>1, <1>2, <2>3, <2>4
      <3>2. \A d \in Consumer : d # c /\ claim[d].pc = "claimed" => i \notin Claims(d)
        <4>1. i \in Claims(c)
          BY <1>1, <2>2, <2>4
        <4>2. claim[c].pc = "claimed"
          BY DEF Taking
        <4> QED
          BY <4>1, <4>2 DEF CountersInv, ClaimsDisjoint
      <3>3. Gone(i)'
        BY <2>1, <3>1, <3>2 DEF Gone
      <3> QED
        BY <2>4, <3>3
    <2>5. CASE ~(x <= i /\ i < end)
      <3>1. i \in Claims(c)' <=> i \in Claims(c)
        BY <1>1, <2>2, <2>3, <2>5
      <3>2. \A d \in Consumer :
              ((claim'[d].pc = "claimed" => i \notin Claims(d)') <=> (claim[d].pc = "claimed" => i \notin Claims(d)))
        <4>1. claim[c].pc = "claimed"
          BY DEF Taking
        <4> QED
          BY <1>4, <2>1, <3>1, <4>1
      <3> QED
        BY <2>5, <3>2 DEF Gone
    <2> QED
      BY <2>4, <2>5
  <1>6. ASSUME NEW q \in Int, q # p PROVE DoneIn(q)' = DoneIn(q) /\ (Full(q)' <=> Full(q))
    <2>1. \A i \in Items(q) : i \in Int /\ Num(i) = q
      BY ItemsFacts
    <2>2. \A i \in Items(q) : Gone(i)' <=> Gone(i)
      <3>1. TAKE i \in Items(q)
      <3>2. ~(x <= i /\ i < end)
        BY <1>1, <1>6, <2>1
      <3> QED
        BY <1>5, <2>1, <3>2
    <2> QED
      BY <2>2 DEF DoneIn, Full
  <1>7. \A i \in Items(p) : i \in Int
    BY ItemsFacts
  <1>8. DoneIn(p)' = DoneIn(p) \cup x..(end - 1)
    <2>1. x..(end - 1) \subseteq Items(p)
      <3>1. \A i \in x..(end - 1) : i \in Int /\ Num(i) = p
        <4>1. TAKE i \in x..(end - 1)
        <4>2. i \in Int /\ x <= i /\ i < end
          OBVIOUS
        <4> QED
          BY <1>1, <4>2
      <3> QED
        BY <3>1, ItemsFacts
    <2>2. \A i \in Items(p) : Gone(i)' <=> Gone(i) \/ i \in x..(end - 1)
      BY <1>5, <1>7
    <2> QED
      BY <2>1, <2>2 DEF DoneIn
  <1>9. DoneIn(p) \cap x..(end - 1) = {}
    <2>1. \A i \in x..(end - 1) : ~Gone(i)
      BY <1>1
    <2> QED
      BY <2>1 DEF DoneIn
  <1>10. IsFiniteSet(Items(p)) /\ Cardinality(Items(p)) = BLOCK_SIZE
    <2>1. PICK u \in Int, v \in Int : u = s /\ v = s + BLOCK_SIZE - 1 /\ u <= v /\ v - u + 1 = BLOCK_SIZE
      BY BlockSize
    <2>2. Items(p) = u..v
      BY <1>0, <2>1 DEF Items
    <2>3. IsFiniteSet(u..v) /\ Cardinality(u..v) = v - u + 1
      BY <2>1, FS_Interval
    <2> QED
      BY <2>1, <2>2, <2>3
  <1>11. /\ DoneIn(p) \subseteq Items(p) /\ DoneIn(p)' \subseteq Items(p)
         /\ IsFiniteSet(DoneIn(p)) /\ IsFiniteSet(DoneIn(p)') /\ Cardinality(DoneIn(p)) \in Nat
    <2>1. DoneIn(p) \subseteq Items(p) /\ DoneIn(p)' \subseteq Items(p)
      BY DEF DoneIn
    <2> QED
      BY <1>10, <2>1, FS_Subset, FS_CardinalityType
  <1>12. Cardinality(DoneIn(p)') = Cardinality(DoneIn(p)) + (end - x)
    <2>1. PICK v \in Int : v = end - 1 /\ x <= v /\ v - x + 1 = end - x
      BY <1>1
    <2>5. IsFiniteSet(x..v) /\ Cardinality(x..v) = v - x + 1
      <3>1. x <= v
        BY <2>1
      <3> QED
        BY <3>1, FS_Interval
    <2>2. IsFiniteSet(x..v) /\ Cardinality(x..v) = end - x
      BY <2>1, <2>5
    <2>3. Cardinality(DoneIn(p) \cup x..v)
            = Cardinality(DoneIn(p)) + Cardinality(x..v) - Cardinality(DoneIn(p) \cap x..v)
      BY <1>11, <2>2, FS_Union
    <2>4. Cardinality(DoneIn(p) \cap x..v) = 0
      BY <1>9, <2>1, FS_EmptySet
    <2> QED
      BY <1>8, <1>11, <2>1, <2>2, <2>3, <2>4
  <1>13. Full(p)' <=> Cardinality(DoneIn(p)') = BLOCK_SIZE
    <2>1. Full(p)' <=> DoneIn(p)' = Items(p)
      BY DEF Full, DoneIn
    <2>2. Cardinality(DoneIn(p)') = Cardinality(Items(p)) => DoneIn(p)' = Items(p)
      BY <1>10, <1>11, FS_Subset
    <2> QED
      BY <1>10, <2>1, <2>2
  <1> QED
    BY <1>3, <1>4, <1>5, <1>6, <1>11, <1>12, <1>13

(* Take, in terms of the block of the items and of how much it holds. *)
TakenFrom(c, p, x, y, end) ==
  LET b == BlockAt(p)
      emptied == completely[b] + (end - x) = BLOCK_SIZE
      w == walk'[c]
  IN /\ Taking(c, p, x, y, end) /\ TakenUpTo(c, end)
     /\ UNCHANGED <<tailIndex, headIndex, tailBlock, entry, header, pool, prod, fails, destroyed>>
     /\ slots' \in [Block -> [0..(BLOCK_SIZE - 1) -> Int]]
     /\ \A d \in Block, o \in 0..(BLOCK_SIZE - 1) :
          (d = b /\ x - Start(p) <= o /\ o < end - Start(p)) \/ slots'[d][o] = slots[d][o]
     /\ completely' \in [Block -> Int] /\ completely'[b] = completely[b] + (end - x)
     /\ \A d \in Block : d # b => completely'[d] = completely[d]
     /\ walk' \in [Consumer -> Walks] /\ \A d \in Consumer : d # c => walk'[d] = walk[d]
     /\ w.out = walk[c].out \o [k \in 1..(end - x) |-> x + k - 1]
     /\ emptied => w.pc = "unlink" /\ w.hdr = walk[c].hdr /\ w.at = walk[c].at /\ w.block = b
     /\ ~emptied /\ end = y => w.pc = "return"
     /\ ~emptied /\ end # y => /\ w.pc = "take" /\ w.hdr = walk[c].hdr
                               /\ w.at = (walk[c].at + 1) % header[walk[c].hdr].capacity

(* Every Take is one of these. *)
LEMMA TakeStep ==
  ASSUME CountersInv, StorageTypeOK, LocalsOk, NEW H \in Int, Running(H), NEW c \in Consumer, Take(c)
  PROVE  \E p, x, y, end \in Int : TakenFrom(c, p, x, y, end)
  <1>1. claim[c].pc = "claimed" /\ walk[c].pc = "take" /\ walk[c] \in Walks
    BY DEF Take, StorageTypeOK
  <1>2. ProdInv /\ IndexShape /\ Window(H) /\ Ways(H)
    BY DEF Running
  <1>3. PICK x \in Int, y \in Int : x = claim[c].next /\ y = claim[c].last
    BY <1>1, ClaimFacts
  <1>4. PICK p \in Int : p = First(c)
    BY <1>1, <1>2, WayInWindow
  <1>5. PICK end : end = Min({Base(x) + BLOCK_SIZE, y})
    OBVIOUS
  <1>6. end \in Int
    <2>1. PICK u \in Int : u = Base(x) + BLOCK_SIZE
      <3>1. PICK m \in Int : m = Num(x) /\ Base(x) = Start(m)
        BY Nums
      <3>2. Start(m) \in Int
        BY Starts
      <3> QED
        BY <3>1, <3>2, BlockSize
    <2>2. \E v \in {u, y} : \A z \in {u, y} : v <= z
      <3>1. CASE u <= y
        BY <3>1
      <3>2. CASE y <= u
        BY <3>2
      <3> QED
        BY <3>1, <3>2
    <2>3. Min({u, y}) \in {u, y}
      BY <2>2 DEF Min
    <2> QED
      BY <1>5, <2>1, <2>3
  <1>7. Taking(c, p, x, y, end)
    BY <1>1, <1>3, <1>4, <1>5 DEF Taking
  <1>8. PICK s \in Int : s = Start(p)
    BY Starts
  <1>9. PICK b : b = BlockAt(p)
    OBVIOUS
  <1>10. /\ 0 <= x /\ x < end /\ end <= y /\ y <= headIndex /\ y <= tailIndex
         /\ s <= x /\ end <= s + BLOCK_SIZE /\ (end < y => end = s + BLOCK_SIZE)
         /\ \A i \in Int : x <= i /\ i < end => Num(i) = p /\ Offset(i) = i - s /\ ~Gone(i)
         /\ p = Num(x) /\ (end < y => Num(end) = p + 1)
         /\ entry[EntryOf(c)].value = BlockAt(p) /\ BlockAt(p) \in Block
         /\ Alive(p) /\ ~Full(p) /\ 0 <= p /\ p <= Published
         /\ \A i \in Int : x <= i /\ i < end => slots[BlockAt(p)][i - s] = i
    <2>1. s \in Int /\ s = Start(p)
      BY <1>8
    <2>2. end \in Int
      BY <1>6
    <2> QED
      BY <1>7, <2>1, <2>2, TakeFacts
  <1>11. PICK n \in Int, at \in Int : n = end - x /\ at = x - s /\ n > 0 /\ at >= 0 /\ at + n <= BLOCK_SIZE
    BY <1>6, <1>10, BlockSize
  <1>12. Offset(x) = at
    <2>1. x <= x /\ x < end
      BY <1>10
    <2>2. Offset(x) = x - s
      BY <1>10, <2>1
    <2> QED
      BY <1>11, <2>2
  <1>13. PICK w : w = [walk[c] EXCEPT !.block = b,
                                      !.out = @ \o [k \in 1..n |-> slots[b][at + k - 1]]]
    OBVIOUS
  <1>14. PICK r : r = IF Emptied(b, n) THEN [w EXCEPT !.pc = "unlink"] ELSE Further(w, end, y)
    OBVIOUS
  <1>15. /\ walk' = [walk EXCEPT ![c] = r] /\ TakenUpTo(c, end)
         /\ slots' = [slots EXCEPT ![b] = [o \in 0..(BLOCK_SIZE - 1) |-> IF at <= o /\ o < at + n THEN Raw ELSE @[o]]]
         /\ completely' = [completely EXCEPT ![b] = @ + n]
         /\ UNCHANGED <<tailIndex, headIndex, tailBlock, entry, header, pool, prod, fails, destroyed>>
    <2>1. /\ entry[EntryOf(c)].value = b /\ Min({Base(claim[c].next) + BLOCK_SIZE, claim[c].last}) = end
          /\ end - claim[c].next = n /\ Offset(claim[c].next) = at
      BY <1>3, <1>5, <1>9, <1>10, <1>11, <1>12
    <2> QED
      BY <1>3, <1>13, <1>14, <2>1 DEF Take, index
  <1>16. b \in Block
    BY <1>9, <1>10
  <1>17. PICK out : out = [k \in 1..n |-> x + k - 1]
    OBVIOUS
  <1>18. out \in Seq(Int) /\ out = [k \in 1..n |-> slots[b][at + k - 1]]
    <2>1. ASSUME NEW k \in 1..n PROVE slots[b][at + k - 1] = x + k - 1
      <3>1. PICK i \in Int : i = x + k - 1 /\ x <= i /\ i < end
        BY <1>6, <1>11
      <3>2. slots[b][i - s] = i
        BY <1>9, <1>10, <3>1
      <3>3. i - s = at + k - 1
        BY <1>11, <3>1
      <3> QED
        BY <3>1, <3>2, <3>3
    <2>2. out \in [1..n -> Int] /\ n \in Nat
      BY <1>11, <1>17
    <2>3. out \in Seq(Int)
      BY <2>2
    <2> QED
      BY <1>17, <2>1, <2>3
  <1>19. /\ w \in Walks /\ w.pc = "take" /\ w.hdr = walk[c].hdr /\ w.at = walk[c].at
         /\ w.block = b /\ w.out = walk[c].out \o out
    <2>1. walk[c].out \in Seq(Int)
      BY <1>1 DEF Walks
    <2>2. PICK o \in Seq(Int) : o = walk[c].out \o out
      <3>1. PICK o1 \in Seq(Int) : o1 = walk[c].out
        BY <2>1
      <3>2. PICK o2 \in Seq(Int) : o2 = out
        BY <1>18
      <3>3. o1 \o o2 \in Seq(Int)
        OBVIOUS
      <3> QED
        BY <3>1, <3>2, <3>3
    <2>3. w = [walk[c] EXCEPT !.block = b, !.out = o]
      BY <1>13, <1>18, <2>2
    <2> QED
      BY <1>1, <1>16, <2>2, <2>3 DEF Walks
  <1>20. PICK k \in Int, a \in Int : k = header[walk[c].hdr].capacity /\ k > 0 /\ a = walk[c].at
    <2>1. walk[c].hdr \in DOMAIN header
      BY <1>1, <1>2 DEF Ways, Way
    <2>2. header[walk[c].hdr] \in Headers
      BY <2>1 DEF StorageTypeOK
    <2>3. header[walk[c].hdr].capacity \in Int /\ header[walk[c].hdr].capacity >= 2
      BY <2>2, HeaderFacts
    <2>4. walk[c].at \in Int
      BY <1>1 DEF Walks
    <2> QED
      BY <2>3, <2>4
  <1>21. PICK a1 \in Int : a1 = a + 1
    OBVIOUS
  <1>22. a1 % k \in Int
    <2>1. k > 0
      BY <1>20
    <2> QED
      BY <2>1, DivMod
  <1>23. /\ r \in Walks /\ r.out = walk[c].out \o out
         /\ Emptied(b, n) => r.pc = "unlink" /\ r.hdr = walk[c].hdr /\ r.at = walk[c].at /\ r.block = b
         /\ ~Emptied(b, n) /\ end = y => r.pc = "return"
         /\ ~Emptied(b, n) /\ end # y => r.pc = "take" /\ r.hdr = walk[c].hdr /\ r.at = a1 % k
    <2>1. CASE Emptied(b, n)
      <3>1. r = [w EXCEPT !.pc = "unlink"]
        BY <1>14, <2>1
      <3> QED
        BY <1>19, <2>1, <3>1 DEF Walks
    <2>2. CASE ~Emptied(b, n) /\ end = y
      <3>1. r = [pc |-> "return", hdr |-> 0, at |-> 0, block |-> Null, out |-> w.out]
        BY <1>14, <2>2 DEF Further, WalkIdle
      <3>2. PICK o \in Seq(Int) : o = w.out
        BY <1>19 DEF Walks
      <3>3. r = [pc |-> "return", hdr |-> 0, at |-> 0, block |-> Null, out |-> o]
        BY <3>1, <3>2
      <3>4. r \in Walks /\ r.pc = "return" /\ r.out = o
        BY <3>3 DEF Walks
      <3> QED
        BY <1>19, <2>2, <3>2, <3>4
    <2>3. CASE ~Emptied(b, n) /\ end # y
      <3>1. r = [w EXCEPT !.pc = "take", !.block = Null, !.at = a1 % k]
        BY <1>14, <1>19, <1>20, <1>21, <2>3 DEF Further
      <3> QED
        <4>1. PICK m \in Int : m = a1 % k
          BY <1>22
        <4>2. r = [w EXCEPT !.pc = "take", !.block = Null, !.at = m]
          BY <3>1, <4>1
        <4>3. /\ r \in Walks /\ r.pc = "take" /\ r.hdr = w.hdr /\ r.at = m /\ r.out = w.out
          BY <1>19, <4>2 DEF Walks
        <4> QED
          BY <1>19, <2>3, <4>1, <4>3
    <2> QED
      BY <2>1, <2>2, <2>3
  <1>24. /\ slots' \in [Block -> [0..(BLOCK_SIZE - 1) -> Int]]
         /\ \A d \in Block, o \in 0..(BLOCK_SIZE - 1) : (d = b /\ at <= o /\ o < at + n) \/ slots'[d][o] = slots[d][o]
    <2>1. slots \in [Block -> [0..(BLOCK_SIZE - 1) -> Int]]
      BY DEF StorageTypeOK
    <2>2. PICK f : f = [o \in 0..(BLOCK_SIZE - 1) |-> IF at <= o /\ o < at + n THEN Raw ELSE slots[b][o]]
      OBVIOUS
    <2>3. f \in [0..(BLOCK_SIZE - 1) -> Int]
          /\ \A o \in 0..(BLOCK_SIZE - 1) : (at <= o /\ o < at + n) \/ f[o] = slots[b][o]
      <3>1. PICK g \in [0..(BLOCK_SIZE - 1) -> Int] : g = slots[b]
        BY <1>16, <2>1
      <3>2. f = [o \in 0..(BLOCK_SIZE - 1) |-> IF at <= o /\ o < at + n THEN -1 ELSE g[o]]
        BY <2>2, <3>1 DEF Raw
      <3>3. \A o \in 0..(BLOCK_SIZE - 1) : g[o] \in Int
        OBVIOUS
      <3>4. f \in [0..(BLOCK_SIZE - 1) -> Int]
        BY <3>2, <3>3
      <3>5. \A o \in 0..(BLOCK_SIZE - 1) : (at <= o /\ o < at + n) \/ f[o] = g[o]
        BY <3>2
      <3> QED
        BY <3>1, <3>4, <3>5
    <2>4. slots' = [slots EXCEPT ![b] = f]
      BY <1>15, <2>2
    <2>5. slots'[b] = f /\ \A d \in Block : d # b => slots'[d] = slots[d]
      BY <1>16, <2>1, <2>4
    <2>6. slots' \in [Block -> [0..(BLOCK_SIZE - 1) -> Int]]
      BY <1>16, <2>1, <2>3, <2>4
    <2> QED
      BY <2>3, <2>5, <2>6
  <1>25. at + n = end - s
    BY <1>6, <1>11
  <1>26. /\ completely' \in [Block -> Int] /\ completely'[b] = completely[b] + n
         /\ \A d \in Block : d # b => completely'[d] = completely[d]
    BY <1>15, <1>16 DEF StorageTypeOK
  <1>27. /\ walk' \in [Consumer -> Walks] /\ walk'[c] = r
         /\ \A d \in Consumer : d # c => walk'[d] = walk[d]
    BY <1>15, <1>23 DEF StorageTypeOK
  <1>28. Emptied(b, n) <=> completely[b] + n = BLOCK_SIZE
    BY DEF Emptied
  <1>29. end - x = n /\ x - Start(p) = at /\ end - Start(p) = at + n /\ (walk[c].at + 1) % header[walk[c].hdr].capacity = a1 % k
    BY <1>8, <1>11, <1>20, <1>21, <1>25
  <1>30. TakenFrom(c, p, x, y, end)
    BY <1>7, <1>9, <1>15, <1>17, <1>23, <1>24, <1>26, <1>27, <1>28, <1>29 DEF TakenFrom
  <1> QED
    BY <1>6, <1>30

(* What Take does to the index, to the items and to who empties a block. *)
LEMMA TakenBlocks ==
  ASSUME CountersInv, StorageTypeOK, LocalsOk, NEW H \in Int, Running(H), NEW c \in Consumer,
         NEW p \in Int, NEW x \in Int, NEW y \in Int, NEW end \in Int, TakenFrom(c, p, x, y, end)
  PROVE  /\ ProdInv' /\ IndexShape' /\ Window(H)' /\ Values' /\ Content' /\ Counts' /\ TailBlock' /\ Emptiers'
         /\ Cap' = Cap /\ \A q \in Int : EntryAt(q)' = EntryAt(q) /\ BlockAt(q)' = BlockAt(q)
         /\ \A d \in Consumer : d # c => Way(d, H)'
         /\ Full(p)' <=> completely[BlockAt(p)] + (end - x) = BLOCK_SIZE
  <1>1. /\ ProdInv /\ IndexShape /\ Window(H) /\ Values /\ Content /\ Counts /\ TailBlock /\ Emptiers
    BY DEF Running
  <1>2. /\ Taking(c, p, x, y, end) /\ TakenUpTo(c, end)
        /\ UNCHANGED <<tailIndex, headIndex, tailBlock, entry, header, pool, prod, fails, destroyed>>
        /\ \A d \in Consumer : d # c => walk'[d] = walk[d]
    BY DEF TakenFrom
  <1>3. PICK s \in Int : s = Start(p)
    BY Starts
  <1>4. /\ 0 <= x /\ x < end /\ end <= y /\ y <= headIndex /\ y <= tailIndex
        /\ s <= x /\ end <= s + BLOCK_SIZE /\ (end < y => end = s + BLOCK_SIZE)
        /\ \A i \in Int : x <= i /\ i < end => Num(i) = p /\ Offset(i) = i - s /\ ~Gone(i)
        /\ p = Num(x) /\ (end < y => Num(end) = p + 1)
        /\ entry[EntryOf(c)].value = BlockAt(p) /\ BlockAt(p) \in Block
        /\ Alive(p) /\ ~Full(p) /\ 0 <= p /\ p <= Published
        /\ \A i \in Int : x <= i /\ i < end => slots[BlockAt(p)][i - s] = i
    <2>1. s \in Int /\ s = Start(p)
      BY <1>3
    <2>2. Taking(c, p, x, y, end)
      BY <1>2
    <2> QED
      BY <2>1, <2>2, TakeFacts
  <1>5. headIndex' = headIndex
    BY <1>2
  <1>6. /\ claim'[c].next = end /\ claim'[c].last = y /\ claim'[c].pc = "claimed"
        /\ \A d \in Consumer : d # c => claim'[d] = claim[d]
        /\ \A i \in Int : Gone(i)' <=> Gone(i) \/ (x <= i /\ i < end)
        /\ \A q \in Int : q # p => DoneIn(q)' = DoneIn(q) /\ (Full(q)' <=> Full(q))
        /\ Cardinality(DoneIn(p)') = Cardinality(DoneIn(p)) + (end - x)
        /\ Cardinality(DoneIn(p)) \in Nat
        /\ Full(p)' <=> Cardinality(DoneIn(p)') = BLOCK_SIZE
    BY <1>2, <1>5, TakeGone
  <1>7. completely[BlockAt(p)] = Cardinality(DoneIn(p))
    BY <1>1, <1>4 DEF Counts
  <1>8. Full(p)' <=> completely[BlockAt(p)] + (end - x) = BLOCK_SIZE
    BY <1>6, <1>7
  <1>9. walk'[c].pc = "unlink" <=> Full(p)'
    BY <1>8 DEF TakenFrom
  <1>10. Num(claim'[c].next - 1) = p
    <2>1. PICK e \in Int : e = end - 1 /\ x <= e /\ e < end
      BY <1>4
    <2>2. Num(e) = p
      BY <1>4, <2>1
    <2> QED
      BY <1>6, <2>1, <2>2
  <1>11. \A d \in Consumer, q \in Int : Emptier(d, q)' <=> Emptier(d, q) \/ (d = c /\ q = p /\ Full(p)')
    <2>1. TAKE d \in Consumer, q \in Int
    <2>2. CASE d # c
      <3>1. claim'[d] = claim[d] /\ walk'[d] = walk[d]
        BY <1>2, <1>6, <2>2
      <3> QED
        BY <2>2, <3>1 DEF Emptier
    <2>3. CASE d = c
      <3>1. walk[c].pc = "take"
        BY <1>2 DEF Taking
      <3>2. Emptier(c, q)' <=> q = p /\ Full(p)'
        BY <1>6, <1>9, <1>10 DEF Emptier
      <3> QED
        BY <2>3, <3>1, <3>2 DEF Emptier
    <2> QED
      BY <2>2, <2>3
  <1>12. Published' = Published /\ Published \in Int
    BY <1>1, <1>2, Numbers DEF Published, CountersInv
  <1>13. \A q \in Int : Alive(q)' <=> Alive(q)
    <2>1. TAKE q \in Int
    <2>2. InCall(q)' <=> InCall(q)
      BY <1>2, <1>12 DEF InCall
    <2>3. CASE q = p
      <3>1. ~Full(p)' \/ Emptier(c, p)'
        BY <1>11
      <3>2. Alive(p)'
        BY <1>4, <1>12, <3>1 DEF Alive
      <3> QED
        BY <1>4, <2>3, <3>2
    <2>4. CASE q # p
      <3>1. (\E d \in Consumer : Emptier(d, q)') <=> (\E d \in Consumer : Emptier(d, q))
        BY <1>11, <2>4
      <3>2. Full(q)' <=> Full(q)
        BY <1>6, <2>4
      <3> QED
        BY <1>12, <2>2, <3>1, <3>2 DEF Alive
    <2> QED
      BY <2>3, <2>4
  <1>14. /\ ProdInv' /\ IndexShape' /\ Window(H)' /\ Values'
         /\ HeadersKept /\ Cap' = Cap /\ Published' = Published
         /\ \A q \in Int : EntryAt(q)' = EntryAt(q) /\ BlockAt(q)' = BlockAt(q)
         /\ \A d \in Consumer : d # c => Way(d, H)'
    <2>1. \A d \in Consumer : d # c => claim'[d] = claim[d] /\ walk'[d] = walk[d]
      BY <1>2, <1>6
    <2>2. tailIndex' = tailIndex /\ entry' = entry /\ header' = header /\ prod' = prod
      BY <1>2
    <2> QED
      BY <1>13, <2>1, <2>2, IndexStays
  <1>15. Content'
    <2> SUFFICES ASSUME NEW i \in Int, 0 <= i, i < tailIndex, ~Gone(i)'
                 PROVE  slots'[BlockAt(Num(i))'][Offset(i)] = i
      BY <1>2 DEF Content, BlockAt, Num, Offset
    <2>1. ~Gone(i) /\ ~(x <= i /\ i < end)
      BY <1>6
    <2>10. Num(i) \in Int /\ Offset(i) = i - Start(Num(i))
      BY Nums
    <2>11. Start(Num(i)) \in Int
      BY <2>10, Starts
    <2>9. PICK m \in Int, r \in Int : m = Num(i) /\ r = Start(m) /\ Offset(i) = i - r
      BY <2>10, <2>11
    <2>2. PICK o \in Int : m = Num(i) /\ o = Offset(i)
      BY <2>9
    <2>3. Alive(m)
      BY <1>1, <2>1, <2>2, AliveFacts
    <2>4. BlockAt(m) \in Block /\ BlockAt(m)' = BlockAt(m) /\ slots[BlockAt(m)][o] = i
      BY <1>1, <1>14, <2>1, <2>2, <2>3 DEF Values, Content
    <2>5. o \in 0..(BLOCK_SIZE - 1)
      <3>1. PICK f \in Int : f = Start(m) /\ o = i - f /\ f <= i /\ i < f + BLOCK_SIZE
        BY <2>2, Nums, Starts
      <3> QED
        BY <3>1, BlockSize
    <2>6. ~(BlockAt(m) = BlockAt(p) /\ x - s <= o /\ o < end - s)
      <3> SUFFICES ASSUME BlockAt(m) = BlockAt(p), x - s <= o, o < end - s
                   PROVE  FALSE
        OBVIOUS
      <3>1. m = p
        BY <1>4, <2>3, OneBlock
      <3>2. o = i - s
        BY <1>3, <2>2, <3>1, Nums
      <3> QED
        BY <1>4, <2>1, <3>2
    <2>7. slots'[BlockAt(m)][o] = slots[BlockAt(m)][o]
      BY <1>3, <2>4, <2>5, <2>6 DEF TakenFrom
    <2>8. BlockAt(Num(i))' = BlockAt(m)'
      BY <2>2 DEF BlockAt
    <2> QED
      BY <2>2, <2>4, <2>7, <2>8
  <1>16. Counts'
    <2> SUFFICES ASSUME NEW q \in Int, Alive(q)'
                 PROVE  completely'[BlockAt(q)'] = Cardinality(DoneIn(q)')
      BY DEF Counts
    <2>1. Alive(q) /\ BlockAt(q)' = BlockAt(q) /\ BlockAt(q) \in Block
      BY <1>1, <1>13, <1>14 DEF Values
    <2>2. CASE q = p
      <3>1. completely'[BlockAt(p)] = completely[BlockAt(p)] + (end - x)
        BY DEF TakenFrom
      <3> QED
        BY <1>6, <1>7, <2>1, <2>2, <3>1
    <2>3. CASE q # p
      <3>1. BlockAt(q) # BlockAt(p)
        BY <1>4, <2>1, <2>3, OneBlock
      <3>2. completely'[BlockAt(q)] = completely[BlockAt(q)]
        BY <2>1, <3>1 DEF TakenFrom
      <3> QED
        BY <1>1, <1>6, <2>1, <2>3, <3>2 DEF Counts
    <2> QED
      BY <2>2, <2>3
  <1>17. \A q \in Int : Full(q) => Full(q)'
    BY <1>4, <1>6
  <1>18. TailBlock'
    BY <1>1, <1>2, <1>12, <1>14, <1>17, TailBlockKept
  <1>19. Emptiers'
    <2> SUFFICES ASSUME NEW d \in Consumer, NEW q \in Int, Emptier(d, q)'
                 PROVE  Full(q)' /\ \A e \in Consumer : Emptier(e, q)' => e = d
      BY DEF Emptiers
    <2>1. \A e \in Consumer : ~Emptier(e, p)
      BY <1>1, <1>4 DEF Emptiers
    <2>2. CASE q = p
      BY <1>11, <2>1, <2>2
    <2>3. CASE q # p
      <3>1. \A e \in Consumer : Emptier(e, q)' <=> Emptier(e, q)
        BY <1>11, <2>3
      <3> QED
        BY <1>1, <1>17, <3>1 DEF Emptiers
    <2> QED
      BY <2>2, <2>3
  <1> QED
    BY <1>8, <1>14, <1>15, <1>16, <1>18, <1>19

(* Where Take leaves its consumer. *)
LEMMA TakenWay ==
  ASSUME CountersInv, StorageTypeOK, LocalsOk, NEW H \in Int, Running(H), NEW c \in Consumer,
         NEW p \in Int, NEW x \in Int, NEW y \in Int, NEW end \in Int, TakenFrom(c, p, x, y, end)
  PROVE  /\ WalkOk(claim'[c], walk'[c]) /\ Way(c, H)' /\ walk'[c].pc \in {"unlink", "return", "take"}
         /\ \A d \in Consumer : d # c => claim'[d] = claim[d]
  <1>1. /\ ProdInv /\ IndexShape /\ Window(H) /\ Ways(H)
    BY DEF Running
  <1>2. /\ Taking(c, p, x, y, end) /\ TakenUpTo(c, end) /\ headIndex' = headIndex /\ header' = header
    BY DEF TakenFrom
  <1>3. claim[c].pc = "claimed" /\ walk[c].pc = "take" /\ p = First(c) /\ x = claim[c].next /\ y = claim[c].last
    BY <1>2 DEF Taking
  <1>4. /\ 0 <= x /\ x < end /\ end <= y
        /\ \A i \in Int : x <= i /\ i < end => Num(i) = p
        /\ (end < y => Num(end) = p + 1) /\ BlockAt(p) \in Block
    <2>1. PICK s \in Int : s = Start(p)
      BY Starts
    <2>2. /\ 0 <= x /\ x < end /\ end <= y /\ y <= headIndex /\ y <= tailIndex
          /\ s <= x /\ end <= s + BLOCK_SIZE /\ (end < y => end = s + BLOCK_SIZE)
          /\ \A i \in Int : x <= i /\ i < end => Num(i) = p /\ Offset(i) = i - s /\ ~Gone(i)
          /\ p = Num(x) /\ (end < y => Num(end) = p + 1)
          /\ entry[EntryOf(c)].value = BlockAt(p) /\ BlockAt(p) \in Block
          /\ Alive(p) /\ ~Full(p) /\ 0 <= p /\ p <= Published
          /\ \A i \in Int : x <= i /\ i < end => slots[BlockAt(p)][i - s] = i
      <3>1. s \in Int /\ s = Start(p)
        BY <2>1
      <3>2. Taking(c, p, x, y, end)
        BY <1>2
      <3> QED
        BY <3>1, <3>2, TakeFacts
    <2> QED
      BY <2>2
  <1>5. /\ claim'[c].next = end /\ claim'[c].last = y /\ claim'[c].pc = "claimed"
        /\ \A d \in Consumer : d # c => claim'[d] = claim[d]
    <2>1. Taking(c, p, x, y, end)
      BY <1>2
    <2>2. TakenUpTo(c, end)
      BY <1>2
    <2>3. headIndex' = headIndex
      BY <1>2
    <2>4. /\ claim'[c].next = end /\ claim'[c].last = y /\ claim'[c].pc = "claimed"
          /\ \A d \in Consumer : d # c => claim'[d] = claim[d]
          /\ \A i \in Int : Gone(i)' <=> Gone(i) \/ (x <= i /\ i < end)
          /\ \A q \in Int : q # p => DoneIn(q)' = DoneIn(q) /\ (Full(q)' <=> Full(q))
          /\ Cardinality(DoneIn(p)') = Cardinality(DoneIn(p)) + (end - x)
          /\ Cardinality(DoneIn(p)) \in Nat
          /\ Full(p)' <=> Cardinality(DoneIn(p)') = BLOCK_SIZE
      BY <2>1, <2>2, <2>3, TakeGone
    <2> QED
      BY <2>4
  <1>6. PICK e \in Int : e = end - 1 /\ Num(e) = p
    <2>1. PICK e \in Int : e = end - 1 /\ x <= e /\ e < end
      BY <1>4
    <2> QED
      BY <1>4, <2>1
  <1>7. PICK h : h = header[walk[c].hdr]
    OBVIOUS
  <1>8. PICK a \in Int, k \in Int :
          /\ a = walk[c].at /\ k = h.capacity /\ k > 0 /\ 0 <= a /\ a < k /\ walk[c].hdr \in DOMAIN header
    <2>1. walk[c].hdr \in DOMAIN header /\ 0 <= walk[c].at /\ walk[c].at < header[walk[c].hdr].capacity
      BY <1>1, <1>3 DEF Ways, Way
    <2>2. h \in Headers
      BY <1>7, <2>1 DEF StorageTypeOK
    <2>3. walk[c].at \in Int
      BY DEF StorageTypeOK, Walks
    <2>4. h.capacity \in Int /\ h.capacity > 0
      BY <2>2, HeaderFacts
    <2> QED
      BY <1>7, <2>1, <2>3, <2>4
  <1>9. PICK m \in Int : m = Last(c)
    BY <1>1, <1>3, WayInWindow
  <1>10. \A q \in Int : p <= q /\ q <= m => h.index[(a + q - p) % k] = EntryAt(q)
    <2>1. Leads(c, p, p)
      BY <1>1, <1>3 DEF Ways, Way
    <2> QED
      BY <1>7, <1>8, <1>9, <2>1 DEF Leads
  <1>11. Last(c)' = m
    <2>1. Last(c)' = Num(y - 1)
      BY <1>5 DEF Last
    <2>2. Last(c) = Num(y - 1)
      BY <1>3 DEF Last
    <2> QED
      BY <1>9, <2>1, <2>2
  <1>12. (\A q \in Int : EntryAt(q)' = EntryAt(q) /\ BlockAt(q)' = BlockAt(q))
         /\ (Full(p)' <=> completely[BlockAt(p)] + (end - x) = BLOCK_SIZE)
    BY TakenBlocks
  <1>13. /\ Full(p)' => /\ walk'[c].pc = "unlink" /\ walk'[c].hdr = walk[c].hdr /\ walk'[c].at = a
                        /\ walk'[c].block = BlockAt(p)
         /\ ~Full(p)' /\ end = y => walk'[c].pc = "return"
         /\ ~Full(p)' /\ end # y => /\ walk'[c].pc = "take" /\ walk'[c].hdr = walk[c].hdr
                                    /\ walk'[c].at = (a + 1) % k
    BY <1>7, <1>8, <1>12 DEF TakenFrom
  <1>14. walk[c] \in Walks /\ WalkOk(claim[c], walk[c])
    BY DEF StorageTypeOK, LocalsOk
  <1>15. PICK o1 \in Seq(Int), o2 \in Seq(Int) : o1 = walk[c].out /\ o2 = [i \in 1..(end - x) |-> x + i - 1]
    <2>1. walk[c].out \in Seq(Int)
      BY <1>14 DEF Walks
    <2>2. PICK n \in Nat : n = end - x
      BY <1>4
    <2>3. PICK f : f = [i \in 1..n |-> x + i - 1]
      OBVIOUS
    <2>4. f \in Seq(Int)
      <3>1. f \in [1..n -> Int]
        BY <2>3
      <3> QED
        BY <3>1
    <2> QED
      BY <2>1, <2>2, <2>3, <2>4
  <1>16. Len(walk'[c].out) = Len(o1) + (end - x) /\ Len(o1) \in Nat /\ Len(o1) + y - x > 0
    <2>1. walk'[c].out = o1 \o o2
      BY <1>15 DEF TakenFrom
    <2>2. Len(o1 \o o2) = Len(o1) + Len(o2) /\ Len(o1) \in Nat
      OBVIOUS
    <2>3. PICK n \in Nat : n = end - x
      BY <1>4
    <2>4. Len(o2) = n
      BY <1>15, <2>3
    <2>5. Len(o1) + y - x > 0
      BY <1>3, <1>14, <1>15 DEF WalkOk
    <2> QED
      BY <2>1, <2>2, <2>3, <2>4, <2>5
  <1>17. WalkOk(claim'[c], walk'[c])
    <2>1. PICK u \in Int : u = Len(walk'[c].out) /\ u + y - end > 0
      <3>1. PICK v \in Int : v = Len(o1)
        BY <1>16
      <3>2. PICK u \in Int : u = v + (end - x)
        OBVIOUS
      <3>3. u = Len(walk'[c].out)
        BY <1>16, <3>1, <3>2
      <3>4. v + y - x > 0
        BY <1>16, <3>1
      <3>5. u + y - end > 0
        BY <3>2, <3>4
      <3> QED
        BY <3>3, <3>5
    <2>2. end > 0
      BY <1>4
    <2>3. CASE Full(p)'
      <3>1. end < y => Num(end) = Num(end - 1) + 1
        BY <1>4, <1>6
      <3> QED
        BY <1>4, <1>5, <1>13, <2>1, <2>2, <2>3, <3>1 DEF WalkOk
    <2>4. CASE ~Full(p)' /\ end = y
      BY <1>5, <1>13, <2>1, <2>4 DEF WalkOk
    <2>5. CASE ~Full(p)' /\ end # y
      BY <1>4, <1>5, <1>13, <2>1, <2>5 DEF WalkOk
    <2> QED
      BY <2>3, <2>4, <2>5
  <1>18. Way(c, H)'
    <2>1. CASE Full(p)'
      <3>1. walk'[c].pc = "unlink" /\ walk'[c].hdr = walk[c].hdr /\ walk'[c].at = a /\ walk'[c].block = BlockAt(p)
        BY <1>13, <2>1
      <3>2. First(c)' = p
        BY <1>5, <1>6, <3>1 DEF First
      <3>3. header'[walk'[c].hdr] = h
        BY <1>2, <1>7, <3>1
      <3>4. Leads(c, p, p)'
        BY <1>8, <1>10, <1>11, <1>12, <3>1, <3>3 DEF Leads
      <3>5. BlockAt(p)' = BlockAt(p)
        BY <1>12
      <3>6. walk'[c].hdr \in DOMAIN header' /\ 0 <= walk'[c].at /\ walk'[c].at < header'[walk'[c].hdr].capacity
        BY <1>2, <1>8, <3>1, <3>3
      <3>7. Leads(c, First(c), First(c))' /\ walk'[c].block = BlockAt(First(c))'
        <4>1. BlockAt(First(c))' = BlockAt(p)'
          BY <3>2 DEF BlockAt
        <4>2. Leads(c, First(c), First(c))'
          BY <3>2, <3>4 DEF Leads
        <4> QED
          BY <3>1, <3>5, <4>1, <4>2
      <3> QED
        BY <3>1, <3>6, <3>7 DEF Way
    <2>2. CASE ~Full(p)' /\ end = y
      <3>1. walk'[c].pc = "return"
        BY <1>13, <2>2
      <3> QED
        BY <3>1 DEF Way
    <2>3. CASE ~Full(p)' /\ end # y
      <3>1. PICK g \in Int, u \in Int : g = p + 1 /\ u = a + 1
        OBVIOUS
      <3>2. u % k \in Int /\ 0 <= u % k /\ u % k < k
        <4>1. k > 0
          BY <1>8
        <4> QED
          BY <4>1, DivMod
      <3>3. walk'[c].pc = "take" /\ walk'[c].hdr = walk[c].hdr /\ walk'[c].at = u % k
        BY <1>13, <2>3, <3>1
      <3>4. First(c)' = g
        <4>1. Num(end) = p + 1
          BY <1>4, <2>3
        <4> QED
          BY <1>5, <3>1, <3>3, <4>1 DEF First
      <3>5. header'[walk'[c].hdr] = h /\ walk'[c].hdr \in DOMAIN header'
        BY <1>2, <1>7, <1>8, <3>3
      <3>6. \A q \in Int : g <= q /\ q <= m => h.index[((u % k) + q - g) % k] = EntryAt(q)
        <4> SUFFICES ASSUME NEW q \in Int, g <= q, q <= m
                     PROVE  h.index[((u % k) + q - g) % k] = EntryAt(q)
          OBVIOUS
        <4>1. PICK z \in Int : z = q - g
          OBVIOUS
        <4>2. ((u % k) + z) % k = (u + z) % k
          <5>1. k > 0
            BY <1>8
          <5> QED
            BY <5>1, ModPlus
        <4>3. (u % k) + q - g = (u % k) + z /\ u + z = a + q - p
          BY <3>1, <3>2, <4>1
        <4>4. p <= q
          BY <3>1
        <4> QED
          BY <1>10, <4>2, <4>3, <4>4
      <3>7. Leads(c, g, g)'
        BY <1>8, <1>11, <1>12, <3>3, <3>5, <3>6 DEF Leads
      <3> QED
        BY <1>8, <3>2, <3>3, <3>4, <3>5, <3>7 DEF Way
    <2> QED
      BY <2>1, <2>2, <2>3
  <1>19. walk'[c].pc \in {"unlink", "return", "take"}
    BY <1>13
  <1> QED
    BY <1>5, <1>17, <1>18, <1>19

(* A consumer takes items from a block. *)
LEMMA Keeps_Take ==
  ASSUME CountersInv, StorageTypeOK, LocalsOk, NEW H \in Int, Running(H), NEW c \in Consumer, Take(c)
  PROVE  StorageTypeOK' /\ LocalsOk' /\ Running(H)'
  <1>1. PICK p \in Int, x \in Int, y \in Int, end \in Int : TakenFrom(c, p, x, y, end)
    BY TakeStep
  <1>2. /\ ProdInv' /\ IndexShape' /\ Window(H)' /\ Values' /\ Content' /\ Counts' /\ TailBlock' /\ Emptiers'
        /\ \A d \in Consumer : d # c => Way(d, H)'
    BY <1>1, TakenBlocks
  <1>3. /\ WalkOk(claim'[c], walk'[c]) /\ Way(c, H)' /\ walk'[c].pc \in {"unlink", "return", "take"}
        /\ \A d \in Consumer : d # c => claim'[d] = claim[d]
    BY <1>1, TakenWay
  <1>4. /\ UNCHANGED <<tailBlock, entry, header, pool, prod, fails, destroyed>>
        /\ slots' \in [Block -> [0..(BLOCK_SIZE - 1) -> Int]] /\ completely' \in [Block -> Int]
        /\ walk' \in [Consumer -> Walks] /\ \A d \in Consumer : d # c => walk'[d] = walk[d]
    BY <1>1 DEF TakenFrom
  <1>5. StorageTypeOK'
    BY <1>4 DEF StorageTypeOK
  <1>6. LocalsOk'
    BY <1>3, <1>4 DEF LocalsOk
  <1>7. Ways(H)'
    BY <1>2, <1>3 DEF Ways
  <1>8. Places'
    <2>1. Places
      BY DEF Running
    <2>2. walk[c].pc = "take"
      BY DEF Take
    <2>3. \A d \in Consumer, b \in Block : Freeing(d, b)' <=> Freeing(d, b)
      BY <1>3, <1>4, <2>2 DEF Freeing
    <2>4. \A b \in Block : (InEntry(b)' <=> InEntry(b)) /\ (Undone(b)' <=> Undone(b))
      BY <1>4 DEF InEntry, Undone
    <2> QED
      BY <1>4, <2>1, <2>3, <2>4 DEF Places
  <1> QED
    BY <1>2, <1>5, <1>6, <1>7, <1>8 DEF Running

(*****************************************************************************)
(* The destructor                                                          *)
(*****************************************************************************)

(* The items that were never dequeued, and the blocks that the destructor *)
(* frees on its way over them.                                            *)
Left == headIndex..(tailIndex - 1)
FreedOnTheWay == {Locate(i) : i \in Left} \ (IF Left = {} THEN {} ELSE {Locate(tailIndex - 1)})

(* No call is under way. *)
AllIdle == prod.pc = "idle" /\ \A c \in Consumer : claim[c].pc = "idle"

(* What the invariant says when no call is under way. *)
LEMMA IdleFacts ==
  ASSUME CountersInv, StorageTypeOK, LocalsOk, NEW H \in Int, Running(H), AllIdle
  PROVE  /\ \A i \in Int : Gone(i) <=> i < headIndex
         /\ \A p \in Int : Alive(p) <=> 0 <= p /\ p <= Published /\ \E i \in Items(p) : headIndex <= i
         /\ LastNum = Published /\ Published \in Int
         /\ \A b \in Block : InEntry(b) <=> \E p \in Int : Alive(p) /\ b = BlockAt(p)
         /\ \A b \in Block : IF InEntry(b) THEN pool[b] = 0 ELSE pool[b] = 1
  <1>1. /\ ProdInv /\ IndexShape /\ Window(H) /\ Values /\ Places
    BY DEF Running
  <1>2. prod.pc = "idle" /\ (\A c \in Consumer : claim[c].pc = "idle") /\ prod.alloc = <<>>
    BY <1>1 DEF AllIdle, ProdInv
  <1>3. Published \in Int /\ LastNum = Published
    <2>1. PICK l \in Int, n \in Int, s \in Int : l = Published /\ n = Len(prod.alloc) /\ s = prod.slot /\ n = 0
      BY <1>1, <1>2, Numbers DEF CountersInv, StorageTypeOK, Calls
    <2>2. LastNum = l + n
      BY <1>2, <2>1, ByPc
    <2> QED
      BY <2>1, <2>2
  <1>4. ASSUME NEW i \in Int PROVE Gone(i) <=> i < headIndex
    BY <1>2 DEF Gone
  <1>5. ASSUME NEW p \in Int
        PROVE  Alive(p) <=> 0 <= p /\ p <= Published /\ \E i \in Items(p) : headIndex <= i
    <2>1. ~InCall(p)
      <3>1. Len(prod.alloc) = 0
        BY <1>2
      <3> QED
        BY <1>3, <3>1 DEF InCall
    <2>2. \A c \in Consumer : ~Emptier(c, p)
      BY <1>2 DEF Emptier
    <2>3. ~Full(p) <=> \E i \in Items(p) : headIndex <= i
      <3>1. \A i \in Items(p) : i \in Int
        BY ItemsFacts
      <3>2. headIndex \in Int
        BY HeadTail
      <3>3. \A i \in Items(p) : ~Gone(i) <=> headIndex <= i
        BY <1>4, <3>1, <3>2
      <3> QED
        BY <3>3 DEF Full
    <2> QED
      BY <2>1, <2>2, <2>3 DEF Alive
  <1>6. ASSUME NEW b \in Block PROVE InEntry(b) <=> \E p \in Int : Alive(p) /\ b = BlockAt(p)
    <2>1. ASSUME InEntry(b) PROVE \E p \in Int : Alive(p) /\ b = BlockAt(p)
      <3>1. PICK e \in DOMAIN entry : entry[e].value = b
        BY <2>1 DEF InEntry
      <3> QED
        BY <1>1, <3>1 DEF Values, BlockAt
    <2>2. ASSUME NEW p \in Int, Alive(p), b = BlockAt(p) PROVE InEntry(b)
      <3>1. EntryAt(p) \in DOMAIN entry
        BY <1>1, PlaceFacts DEF CountersInv
      <3> QED
        BY <2>2, <3>1 DEF InEntry, BlockAt
    <2> QED
      BY <2>1, <2>2
  <1>7. ASSUME NEW b \in Block PROVE IF InEntry(b) THEN pool[b] = 0 ELSE pool[b] = 1
    <2>1. \A c \in Consumer : ~Freeing(c, b)
      BY <1>2 DEF LocalsOk, WalkOk, WalkIdle, Freeing
    <2>2. ~Undone(b)
      BY <1>2 DEF Undone
    <2> QED
      BY <1>1, <2>1, <2>2 DEF Places
  <1> QED
    BY <1>3, <1>4, <1>5, <1>6, <1>7

(* Each block of the index is freed once: on the way or as the last. *)
LEMMA DestroyedBlocks ==
  ASSUME CountersInv, StorageTypeOK, LocalsOk, NEW H \in Int, Running(H), AllIdle, NEW b \in Block
  PROVE  /\ InEntry(b) <=> b \in FreedOnTheWay \/ b \in LastBlock
         /\ ~(b \in FreedOnTheWay /\ b \in LastBlock)
  <1>1. /\ ProdInv /\ IndexShape /\ Window(H) /\ Values /\ TailBlock
    BY DEF Running
  <1>2. PICK h \in Int, t \in Int, u \in Int, g \in Int :
          h = headIndex /\ t = tailIndex /\ u = t - 1 /\ g = Published /\ 0 <= h /\ h <= t /\ g = Num(u)
    <2>1. headIndex \in Int /\ tailIndex \in Int /\ 0 <= headIndex /\ headIndex <= tailIndex
      BY HeadTail
    <2>2. Published \in Int
      BY IdleFacts
    <2> QED
      BY <2>1, <2>2 DEF Published
  <1>3. /\ \A i \in Int : Gone(i) <=> i < h
        /\ \A p \in Int : Alive(p) <=> 0 <= p /\ p <= g /\ \E i \in Items(p) : h <= i
        /\ LastNum = g
        /\ InEntry(b) <=> \E p \in Int : Alive(p) /\ b = BlockAt(p)
    BY <1>2, IdleFacts
  <1>4. \A i \in Int, p \in Int : i \in Items(p) <=> Num(i) = p
    BY ItemsFacts
  <1>5. Left = h..u
    BY <1>2 DEF Left
  <1>6. ASSUME Alive(g) PROVE tailBlock = BlockAt(g) /\ BlockAt(g) \in Block /\ tailBlock # Null
    <2>1. ~Full(Published) /\ 0 <= Published
      <3>1. PICK i \in Items(g) : h <= i
        BY <1>2, <1>3, <1>6
      <3>2. i \in Int /\ ~Gone(i)
        BY <1>2, <1>3, <3>1, ItemsFacts
      <3> QED
        BY <1>2, <1>3, <1>6, <3>1, <3>2 DEF Full
    <2> QED
      BY <1>1, <1>2, <1>6, <2>1, BlockAssumption DEF TailBlock, Values
  <1>7. CASE h = t
    <2>1. Left = {} /\ FreedOnTheWay = {}
      <3>1. h..u = {}
        BY <1>2, <1>7
      <3> QED
        BY <1>5, <3>1 DEF FreedOnTheWay
    <2>2. ASSUME NEW p \in Int, Alive(p) PROVE p = g /\ Num(t) = g
      <3>1. PICK i \in Int : h <= i /\ Num(i) = p /\ p <= g
        BY <1>3, <1>4, <2>2, ItemsFacts
      <3>2. u <= t /\ t <= i
        BY <1>2, <1>7, <3>1
      <3>3. Num(u) <= Num(t) /\ Num(t) <= Num(i) /\ Num(t) \in Int
        BY <3>2, Nums
      <3> QED
        BY <1>2, <3>1, <3>3
    <2>3. Offset(t) # 0 <=> Num(t) = g
      <3>1. PICK m \in Int, s \in Int : m = Num(t) /\ s = Start(m) /\ s <= t /\ t < s + BLOCK_SIZE /\ Offset(t) = t - s
        <4>1. Num(t) \in Int /\ Start(Num(t)) <= t /\ t < Start(Num(t)) + BLOCK_SIZE /\ Offset(t) = t - Start(Num(t))
          BY Nums
        <4>2. Start(Num(t)) \in Int
          BY <4>1, Starts
        <4> QED
          BY <4>1, <4>2
      <3>2. ASSUME Offset(t) # 0 PROVE Num(t) = g
        <4>1. s <= u /\ u < s + BLOCK_SIZE
          BY <1>2, <3>1, <3>2, BlockSize
        <4>2. Num(u) = m
          BY <3>1, <4>1, Nums
        <4> QED
          BY <1>2, <3>1, <4>2
      <3>3. ASSUME Num(t) = g PROVE Offset(t) # 0
        <4>1. Num(u) = m
          BY <1>2, <3>1, <3>3
        <4>2. s <= u
          BY <3>1, <4>1, Nums
        <4> QED
          BY <1>2, <3>1, <4>2
      <3> QED
        BY <3>2, <3>3
    <2>4. CASE Offset(t) # 0
      <3>1. Alive(g)
        <4>1. Num(t) = g
          BY <2>3, <2>4
        <4>2. 0 <= g
          <5>1. Num(t) >= 0
            BY <1>2, BlockNumbers
          <5> QED
            BY <4>1, <5>1
        <4>3. t \in Items(g) /\ h <= t /\ g <= g
          BY <1>4, <1>7, <4>1
        <4> QED
          BY <1>3, <4>2, <4>3
      <3>2. LastBlock = {BlockAt(g)}
        BY <1>2, <1>6, <2>4, <3>1 DEF LastBlock
      <3>3. InEntry(b) <=> b = BlockAt(g)
        BY <1>3, <2>2, <3>1
      <3> QED
        BY <2>1, <3>2, <3>3
    <2>5. CASE ~(Offset(t) # 0)
      <3>1. LastBlock = {}
        BY <1>2, <1>7, <2>5 DEF LastBlock
      <3>2. \A p \in Int : ~Alive(p)
        BY <2>2, <2>3, <2>5
      <3> QED
        BY <1>3, <2>1, <3>1, <3>2
    <2> QED
      BY <2>4, <2>5
  <1>8. CASE h # t
    <2>1. h <= u /\ u < t
      BY <1>2, <1>8
    <2>2. \A i \in Int : h <= i /\ i <= u => Alive(Num(i))
      <3>1. TAKE i \in Int
      <3>2. HAVE h <= i /\ i <= u
      <3>3. 0 <= i /\ i < tailIndex /\ ~Gone(i)
        BY <1>2, <1>3, <2>1, <3>2
      <3> QED
        BY <1>1, <3>3, AliveFacts
    <2>3. Alive(g)
      BY <1>2, <2>1, <2>2
    <2>4. entry[current.index[current.tail]].key = Start(LastNum)
      <3>1. g <= H
        <4>1. g <= Top /\ Top <= H /\ Top \in Int
          BY <1>1, <2>3, AliveFacts, Numbers DEF Window, CountersInv
        <4> QED
          BY <4>1
      <3>2. entry[EntryAt(g)].key = Start(g)
        <4>1. g <= g
          OBVIOUS
        <4> QED
          BY <1>1, <2>3, <3>1, <4>1 DEF Window
      <3>3. EntryAt(LastNum) = current.index[current.tail]
        BY <1>1, PlaceFacts DEF CountersInv
      <3> QED
        BY <1>3, <3>2, <3>3
    <2>5. \A i \in Int : Locate(i) = BlockAt(Num(i))
      BY <1>1, <2>4, Located DEF Locate, BlockAt, CountersInv
    <2>6. LastBlock = {BlockAt(g)}
      BY <1>2, <1>6, <1>8, <2>3 DEF LastBlock
    <2>7. b \in FreedOnTheWay <=> (\E i \in Int : h <= i /\ i <= u /\ b = BlockAt(Num(i))) /\ b # BlockAt(g)
      <3>1. u \in Left /\ Left # {}
        BY <1>5, <2>1
      <3>2. FreedOnTheWay = {Locate(i) : i \in Left} \ {Locate(u)}
        BY <1>2, <3>1 DEF FreedOnTheWay
      <3>3. Locate(u) = BlockAt(g)
        BY <1>2, <2>5 DEF BlockAt
      <3>4. b \in {Locate(i) : i \in Left} <=> \E i \in Int : h <= i /\ i <= u /\ b = BlockAt(Num(i))
        <4>1. \A i : i \in Left <=> i \in Int /\ h <= i /\ i <= u
          BY <1>5
        <4> QED
          BY <2>5, <4>1
      <3> QED
        BY <3>2, <3>3, <3>4
    <2>8. ASSUME NEW p \in Int, Alive(p) PROVE \E i \in Int : h <= i /\ i <= u /\ Num(i) = p
      <3>1. PICK i \in Int : h <= i /\ Num(i) = p /\ p <= g
        BY <1>3, <1>4, <2>8, ItemsFacts
      <3>2. CASE i <= u
        BY <3>1, <3>2
      <3>3. CASE ~(i <= u)
        <4>1. u <= i
          BY <3>3
        <4>2. Num(u) <= Num(i)
          BY <4>1, Nums
        <4>3. p = g
          BY <1>2, <3>1, <4>2
        <4> QED
          BY <1>2, <2>1, <4>3
      <3> QED
        BY <3>2, <3>3
    <2>9. InEntry(b) <=> \E i \in Int : h <= i /\ i <= u /\ b = BlockAt(Num(i))
      <3>1. \A i \in Int : Num(i) \in Int
        BY Nums
      <3>2. ASSUME InEntry(b) PROVE \E i \in Int : h <= i /\ i <= u /\ b = BlockAt(Num(i))
        <4>1. PICK p \in Int : Alive(p) /\ b = BlockAt(p)
          BY <1>3, <3>2
        <4>2. PICK i \in Int : h <= i /\ i <= u /\ Num(i) = p
          BY <2>8, <4>1
        <4>3. b = BlockAt(Num(i))
          BY <4>1, <4>2
        <4> QED
          BY <4>2, <4>3
      <3>3. ASSUME NEW i \in Int, h <= i, i <= u, b = BlockAt(Num(i)) PROVE InEntry(b)
        BY <1>3, <2>2, <3>1, <3>3
      <3> QED
        BY <3>2, <3>3
    <2>10. b = BlockAt(g) => InEntry(b)
      BY <1>3, <2>3
    <2> QED
      BY <2>6, <2>7, <2>9, <2>10
  <1> QED
    BY <1>7, <1>8

(* All blocks return to the pool. *)
LEMMA Keeps_Destroy ==
  ASSUME CountersInv, StorageTypeOK, LocalsOk, NEW H \in Int, Running(H), Destroy
  PROVE  StorageTypeOK' /\ LocalsOk' /\ destroyed' /\ Ended'
  <1>1. /\ AllIdle /\ destroyed' = TRUE
        /\ pool' = [b \in Block |-> pool[b] + (IF b \in FreedOnTheWay THEN 1 ELSE 0)
                                            + (IF b \in LastBlock THEN 1 ELSE 0)]
        /\ slots' = [b \in Block |-> [o \in 0..(BLOCK_SIZE - 1) |->
                      IF \E i \in Left : Locate(i) = b /\ Offset(i) = o THEN Raw ELSE slots[b][o]]]
        /\ UNCHANGED <<counters, tailBlock, entry, header, completely, prod, walk, fails>>
    BY DEF Destroy, AllIdle, FreedOnTheWay, Left, index
  <1>2. ASSUME NEW b \in Block PROVE pool'[b] = 1
    <2>1. pool'[b] = pool[b] + (IF b \in FreedOnTheWay THEN 1 ELSE 0) + (IF b \in LastBlock THEN 1 ELSE 0)
      BY <1>1
    <2>2. IF InEntry(b) THEN pool[b] = 0 ELSE pool[b] = 1
      BY <1>1, IdleFacts
    <2>3. /\ InEntry(b) <=> b \in FreedOnTheWay \/ b \in LastBlock
          /\ ~(b \in FreedOnTheWay /\ b \in LastBlock)
      BY <1>1, DestroyedBlocks
    <2> QED
      BY <2>1, <2>2, <2>3
  <1>3. pool' \in [Block -> Nat]
    <2>1. pool' = [b \in Block |-> pool'[b]]
      BY <1>1
    <2> QED
      BY <1>2, <2>1
  <1>4. slots' \in [Block -> [0..(BLOCK_SIZE - 1) -> Int]]
    <2>1. \A b \in Block, o \in 0..(BLOCK_SIZE - 1) :
            (IF \E i \in Left : Locate(i) = b /\ Offset(i) = o THEN Raw ELSE slots[b][o]) \in Int
      <3>1. TAKE b \in Block, o \in 0..(BLOCK_SIZE - 1)
      <3>2. PICK f \in [0..(BLOCK_SIZE - 1) -> Int] : f = slots[b]
        BY DEF StorageTypeOK
      <3>3. slots[b][o] \in Int
        BY <3>2
      <3>4. CASE \E i \in Left : Locate(i) = b /\ Offset(i) = o
        BY <3>4 DEF Raw
      <3>5. CASE ~\E i \in Left : Locate(i) = b /\ Offset(i) = o
        BY <3>3, <3>5
      <3> QED
        BY <3>4, <3>5
    <2> QED
      BY <1>1, <2>1
  <1>5. StorageTypeOK'
    BY <1>1, <1>3, <1>4 DEF StorageTypeOK
  <1>6. LocalsOk'
    BY <1>1 DEF LocalsOk, counters
  <1>7. Ended'
    BY <1>1, <1>2 DEF Ended, AllIdle, counters
  <1> QED
    BY <1>1, <1>5, <1>6, <1>7

(*****************************************************************************)
(* The invariant holds                                                     *)
(*****************************************************************************)

(* The invariant holds in the beginning. *)
LEMMA InitBlocks ==
  ASSUME Init
  PROVE  BlocksInv
  <1>1. CountersInv
    BY InitCounters DEF Init
  <1>2. PICK n \in Int : n = INITIAL_INDEX_SIZE /\ n >= 2
    BY SizeAssumption
  <1>3. PICK h : h = [capacity |-> n, tail |-> n - 1, index |-> [i \in 0..(n - 1) |-> i + 1]]
    OBVIOUS
  <1>4. /\ tailIndex = 0 /\ headIndex = 0 /\ claim = [c \in Consumer |-> Unclaimed]
        /\ tailBlock = Null /\ entry = [e \in 1..n |-> NewEntry] /\ header = <<h>>
        /\ slots = [b \in Block |-> [i \in 0..(BLOCK_SIZE - 1) |-> Raw]]
        /\ completely = [b \in Block |-> 0] /\ pool = [b \in Block |-> 1]
        /\ prod = ProdIdle /\ walk = [c \in Consumer |-> WalkIdle] /\ fails = 0 /\ destroyed = FALSE
    BY <1>2, <1>3 DEF Init, CountersInit
  <1>5. h \in Headers /\ h.capacity = n /\ h.tail = n - 1 /\ h.index = [i \in 0..(n - 1) |-> i + 1]
    <2>1. h \in [capacity : {n}, tail : 0..(n - 1), index : [0..(n - 1) -> Int]]
      BY <1>2, <1>3
    <2> QED
      BY <1>2, <1>3, <2>1 DEF Headers
  <1>6. header \in Seq(Headers) /\ header # <<>> /\ Len(header) = 1 /\ current = h
    BY <1>4, <1>5 DEF current, blockIndex
  <1>7. /\ entry \in Seq(Entries) /\ DOMAIN entry = 1..n /\ Len(entry) = n
        /\ \A e \in DOMAIN entry : entry[e].key = INVALID_BLOCK_BASE /\ entry[e].value = Wild
    <2>1. NewEntry \in Entries /\ NewEntry.key = INVALID_BLOCK_BASE /\ NewEntry.value = Wild
      BY DEF NewEntry, Entries, INVALID_BLOCK_BASE
    <2>2. PICK m \in Nat : m = n
      BY <1>2
    <2>3. entry \in [1..m -> Entries]
      BY <1>4, <2>1, <2>2
    <2>4. entry \in Seq(Entries) /\ Len(entry) = m
      BY <2>3
    <2> QED
      BY <1>4, <2>1, <2>2, <2>3, <2>4
  <1>8. prod \in Calls /\ prod.pc = "idle" /\ prod.alloc = <<>> /\ prod.slot = 0 /\ Len(prod.alloc) = 0
    <2>1. prod = [pc |-> "idle", count |-> 0, alloc |-> <<>>, slot |-> 0]
      BY <1>4 DEF ProdIdle
    <2> QED
      BY <2>1 DEF Calls
  <1>9. WalkIdle \in Walks /\ WalkIdle.pc = "index"
    BY DEF WalkIdle, Walks
  <1>10. StorageTypeOK
    <2>1. slots \in [Block -> [0..(BLOCK_SIZE - 1) -> Int]]
      BY <1>4 DEF Raw
    <2>2. completely \in [Block -> Int] /\ pool \in [Block -> Nat] /\ fails \in Nat /\ destroyed \in BOOLEAN
      <3>1. completely \in [Block -> Int]
        BY <1>4
      <3>2. pool \in [Block -> Nat]
        BY <1>4
      <3>3. fails \in Nat
        BY <1>4
      <3>4. destroyed \in BOOLEAN
        BY <1>4, Zenon
      <3> QED
        BY <3>1, <3>2, <3>3, <3>4
    <2>3. walk \in [Consumer -> Walks]
      BY <1>4, <1>9
    <2>4. tailBlock \in Block \union {Null}
      BY <1>4
    <2> QED
      BY <1>6, <1>7, <1>8, <2>1, <2>2, <2>3, <2>4 DEF StorageTypeOK
  <1>11. \A c \in Consumer : claim[c].pc = "idle" /\ walk[c] = WalkIdle /\ walk[c].pc = "index"
    BY <1>4, <1>9 DEF Unclaimed
  <1>12. LocalsOk
    BY <1>11 DEF LocalsOk, WalkOk
  <1>13. PICK l \in Int : l = -1 /\ Published = l
    <2>1. PICK m \in Int : m = -1 /\ Start(m) = -BLOCK_SIZE
      BY BlockSize DEF Start
    <2>2. Start(m) <= m /\ m < Start(m) + BLOCK_SIZE
      BY <2>1, BlockSize
    <2>3. Num(m) = m
      BY <2>2, Nums
    <2>4. tailIndex - 1 = m
      BY <1>4, <2>1
    <2> QED
      BY <2>1, <2>3, <2>4 DEF Published
  <1>14. LastNum = l /\ Top = l
    <2>1. PICK k \in Int, s \in Int : k = Len(prod.alloc) /\ s = prod.slot /\ k = 0
      BY <1>8
    <2>2. LastNum = l + k /\ Top = l + k
      BY <1>8, <1>13, <2>1, ByPc
    <2> QED
      BY <2>1, <2>2
  <1>15. ProdInv
    BY <1>8 DEF ProdInv
  <1>16. IndexShape /\ Cap = n
    <2>1. Cap = n /\ current.index = [i \in 0..(n - 1) |-> i + 1] /\ current.capacity = n
      BY <1>5, <1>6 DEF Cap
    <2>2. \A g \in DOMAIN header : header[g] = h
      BY <1>4
    <2>3. \A g \in DOMAIN header : \A i \in 0..(header[g].capacity - 1) : header[g].index[i] \in DOMAIN entry
      BY <1>2, <1>5, <1>7, <2>2
    <2>4. \A i, j \in 0..(Cap - 1) : current.index[i] = current.index[j] => i = j
      BY <1>2, <2>1
    <2>5. \A e \in DOMAIN entry : \E i \in 0..(Cap - 1) : current.index[i] = e
      <3>1. TAKE e \in DOMAIN entry
      <3>2. PICK i \in Int : i = e - 1 /\ i \in 0..(n - 1) /\ i + 1 = e
        BY <1>2, <1>7
      <3> QED
        BY <2>1, <3>2
    <2> QED
      BY <1>7, <2>1, <2>3, <2>4, <2>5 DEF IndexShape
  <1>17. \A p \in Int : ~Alive(p) /\ ~InCall(p)
    <2>1. TAKE p \in Int
    <2>2. ~InCall(p)
      BY <1>8, <1>13 DEF InCall
    <2> QED
      BY <1>13, <2>2 DEF Alive
  <1>18. Window(l)
    <2>1. \A p \in Int : EntryAt(p) \in DOMAIN entry
      BY <1>1, <1>10, <1>15, <1>16, PlaceFacts DEF CountersInv
    <2> QED
      BY <1>2, <1>7, <1>13, <1>14, <1>16, <1>17, <2>1 DEF Window
  <1>19. Values
    BY <1>7, <1>17, BlockAssumption DEF Values
  <1>20. Content
    BY <1>4 DEF Content
  <1>21. Counts
    BY <1>17 DEF Counts
  <1>22. TailBlock
    BY <1>13 DEF TailBlock
  <1>23. Emptiers
    BY <1>11 DEF Emptiers, Emptier
  <1>24. Ways(l)
    BY <1>11 DEF Ways, Way
  <1>25. Places
    <2>1. \A b \in Block : ~InEntry(b) /\ ~Undone(b) /\ pool[b] = 1
      BY <1>4, <1>7, <1>8, BlockAssumption DEF InEntry, Undone
    <2>2. \A c \in Consumer, b \in Block : ~Freeing(c, b)
      BY <1>11 DEF Freeing
    <2>3. prod.pc # "undo" /\ \A e \in DOMAIN entry : entry[e].value \notin Block
      BY <1>7, <1>8, BlockAssumption
    <2> QED
      BY <2>1, <2>2, <2>3 DEF Places
  <1> QED
    BY <1>1, <1>4, <1>10, <1>12, <1>15, <1>16, <1>18, <1>19, <1>20, <1>21, <1>22, <1>23, <1>24, <1>25
    DEF BlocksInv, Running

(* A step that changes nothing. *)
LEMMA Keeps_nothing ==
  ASSUME CountersInv, StorageTypeOK, LocalsOk, NEW H \in Int, Running(H), UNCHANGED vars
  PROVE  Running(H)'
  <1>1. UNCHANGED <<tailIndex, headIndex, claim, tailBlock, entry, header, slots, completely, pool, prod, walk>>
    BY DEF vars, counters, index, storage
  <1>2. ProdInv /\ IndexShape /\ Window(H) /\ Values /\ Places
    BY DEF Running
  <1>3. Published' = Published /\ LastNum' = LastNum /\ Top' = Top
    BY <1>1 DEF Published, LastNum, Top
  <1>4. ProdInv'
    BY <1>1, <1>2, <1>3 DEF ProdInv, Needed, NewTail, current, blockIndex
  <1>5. HeadersKept /\ Cap' = Cap /\ (\A p \in Int : EntryAt(p)' = EntryAt(p)) /\ IndexShape'
    BY <1>1, <1>2, <1>3, SamePlaces
  <1>6. \A p \in Int : InCall(p)' <=> InCall(p)
    BY <1>1, <1>3 DEF InCall
  <1>7. \A p \in Int : InCall(p)' => BlockAt(p) = prod'.alloc[p - Published]
    BY <1>1, <1>2, <1>6 DEF Values
  <1>8. \A p \in Int : Unset(p) => Unset(p)'
    BY <1>1, <1>3 DEF Unset
  <1>9. Top' <= H
    BY <1>2, <1>3 DEF Window
  <1>10. /\ Window(H)' /\ Values' /\ Content' /\ Counts' /\ TailBlock' /\ Emptiers' /\ Ways(H)'
    BY <1>1, <1>5, <1>6, <1>7, <1>8, <1>9, OwnerKeeps
  <1>11. Places'
    BY <1>1, <1>2 DEF Places, InEntry, Freeing, Undone
  <1> QED
    BY <1>4, <1>5, <1>10, <1>11 DEF Running

(* Every step keeps it. *)
LEMMA StepBlocks ==
  ASSUME BlocksInv, CountersInv', [Next]_vars
  PROVE  BlocksInv'
  <1>1. CountersInv /\ StorageTypeOK /\ LocalsOk
    BY DEF BlocksInv
  <1>2. CASE UNCHANGED vars
    <2>1. StorageTypeOK' /\ LocalsOk' /\ destroyed' = destroyed
      BY <1>1, <1>2 DEF StorageTypeOK, LocalsOk, vars, counters, index, storage
    <2>2. Ended => Ended'
      BY <1>2 DEF Ended, vars, counters, storage
    <2>3. \A H \in Int : Running(H) => Running(H)'
      BY <1>1, <1>2, Keeps_nothing
    <2> QED
      BY <2>1, <2>2, <2>3 DEF BlocksInv
  <1>3. CASE destroyed /\ Next
    <2>1. Ended
      BY <1>3 DEF BlocksInv
    <2>2. ~producer /\ ~Destroy
      BY <1>3, <2>1 DEF Ended, producer, enqueue_bulk, InsertKey, InsertTail, new_block_index,
         IndexAllocationFails, requisition_block, BlockAllocationFails, UndoEntry,
         add_blocks_to_free_list, Publish, Destroy
    <2>3. \A c \in Consumer : ~consumer(c)
      BY <1>3, <2>1 DEF Ended, consumer, Claim, LoadBlockIndex, LoadKey, Take, Unlink,
         add_block_to_free_list, Delivered, Step
    <2> QED
      BY <1>3, <2>2, <2>3 DEF Next
  <1>4. CASE ~destroyed /\ Next
    <2>1. PICK H \in Int : Running(H)
      BY <1>4 DEF BlocksInv
    <2>2. CASE Destroy
      <3>1. StorageTypeOK' /\ LocalsOk' /\ destroyed' /\ Ended'
        BY <1>1, <2>1, <2>2, Keeps_Destroy
      <3> QED
        BY <3>1 DEF BlocksInv
    <2>3. CASE producer
      <3>1. StorageTypeOK' /\ LocalsOk' /\ \E G \in Int : Running(G)'
        <4>1. CASE \E k \in EnqueueSize : enqueue_bulk(k)
          BY <1>1, <2>1, <4>1, Keeps_enqueue_bulk
        <4>2. CASE InsertKey
          BY <1>1, <2>1, <4>2, Keeps_InsertKey
        <4>3. CASE InsertTail
          BY <1>1, <2>1, <4>3, Keeps_InsertTail
        <4>4. CASE new_block_index
          BY <1>1, <2>1, <4>4, Keeps_new_block_index
        <4>5. CASE IndexAllocationFails
          BY <1>1, <2>1, <4>5, Keeps_IndexAllocationFails
        <4>6. CASE requisition_block
          BY <1>1, <2>1, <4>6, Keeps_requisition_block
        <4>7. CASE BlockAllocationFails
          BY <1>1, <2>1, <4>7, Keeps_BlockAllocationFails
        <4>8. CASE UndoEntry
          BY <1>1, <2>1, <4>8, Keeps_UndoEntry
        <4>9. CASE add_blocks_to_free_list
          BY <1>1, <2>1, <4>9, Keeps_add_blocks_to_free_list
        <4>10. CASE Publish
          BY <1>1, <2>1, <4>10, Keeps_Publish
        <4> QED
          BY <2>3, <4>1, <4>2, <4>3, <4>4, <4>5, <4>6, <4>7, <4>8, <4>9, <4>10 DEF producer
      <3>2. destroyed' = destroyed
        BY <2>3 DEF producer, enqueue_bulk, InsertKey, InsertTail, new_block_index,
           IndexAllocationFails, requisition_block, BlockAllocationFails, UndoEntry,
           add_blocks_to_free_list, Publish
      <3> QED
        BY <1>4, <3>1, <3>2 DEF BlocksInv
    <2>4. ASSUME NEW c \in Consumer, consumer(c) PROVE BlocksInv'
      <3>1. StorageTypeOK' /\ LocalsOk' /\ Running(H)'
        <4>1. CASE Claim(c)
          BY <1>1, <2>1, <4>1, Keeps_Claim
        <4>2. CASE LoadBlockIndex(c)
          BY <1>1, <2>1, <4>2, Keeps_LoadBlockIndex
        <4>3. CASE LoadKey(c)
          BY <1>1, <2>1, <4>3, Keeps_LoadKey
        <4>4. CASE Take(c)
          BY <1>1, <2>1, <4>4, Keeps_Take
        <4>5. CASE Unlink(c)
          BY <1>1, <2>1, <4>5, Keeps_Unlink
        <4>6. CASE add_block_to_free_list(c)
          BY <1>1, <2>1, <4>6, Keeps_add_block_to_free_list
        <4>7. CASE Delivered(c)
          BY <1>1, <2>1, <4>7, Keeps_Delivered
        <4> QED
          BY <2>4, <4>1, <4>2, <4>3, <4>4, <4>5, <4>6, <4>7 DEF consumer
      <3>2. destroyed' = destroyed
        BY <2>4 DEF consumer, Claim, LoadBlockIndex, LoadKey, Take, Unlink,
           add_block_to_free_list, Delivered, Step
      <3> QED
        BY <1>4, <3>1, <3>2 DEF BlocksInv
    <2> QED
      BY <1>4, <2>2, <2>3, <2>4 DEF Next
  <1> QED
    BY <1>2, <1>3, <1>4

(* The index, the blocks and the consumers' ways through them keep their   *)
(* invariant.                                                              *)
THEOREM BlocksInvariant == Spec => []BlocksInv
  <1>1. Init => BlocksInv /\ ProdCounts
    <2>1. Init => ProdCounts
      BY DEF Init, ProdCounts, ProdIdle
    <2> QED
      BY <2>1, InitBlocks
  <1>2. BlocksInv /\ ProdCounts /\ [Next]_vars => (BlocksInv /\ ProdCounts)'
    <2> SUFFICES ASSUME BlocksInv, ProdCounts, [Next]_vars PROVE (BlocksInv /\ ProdCounts)'
      OBVIOUS
    <2>1. CountersInv
      BY DEF BlocksInv
    <2>2. CountersInv' /\ ProdCounts'
      BY <2>1, StepOfCounters, CountersKept
    <2> QED
      BY <2>2, StepBlocks
  <1> QED
    BY <1>1, <1>2, PTL DEF Spec

(* The assertions of get_block_index_index_for_index: whatever the index    *)
(* grows to and however blocks are reused, the entry that a consumer has   *)
(* found stays that of its item's block until the item has been read.      *)
THEOREM FindsBlocks == Spec => []FindsItsBlock
  <1>1. BlocksInv => FindsItsBlock
    <2> SUFFICES ASSUME BlocksInv, NEW c \in Consumer, walk[c].pc = "take"
                 PROVE  entry[EntryOf(c)].key = Base(claim[c].next) /\ entry[EntryOf(c)].value \in Block
      BY DEF FindsItsBlock
    <2>1. CountersInv /\ StorageTypeOK /\ LocalsOk
      BY DEF BlocksInv
    <2>2. claim[c].pc = "claimed" /\ claim[c].next < claim[c].last
      <3>1. WalkOk(claim[c], walk[c])
        BY <2>1 DEF LocalsOk
      <3> QED
        BY <3>1 DEF WalkOk, WalkIdle
    <2>3. PICK H \in Int : Running(H)
      BY <2>2 DEF BlocksInv, Ended
    <2>4. ProdInv /\ IndexShape /\ Window(H) /\ Values
      BY <2>3 DEF Running
    <2>5. PICK p \in Int : p = First(c) /\ EntryOf(c) = EntryAt(p)
      BY <2>1, <2>2, <2>3, EntryOfEmptied
    <2>6. p = Num(claim[c].next) /\ Base(claim[c].next) = Start(p)
      <3>1. claim[c].next \in Int
        BY <2>1, <2>2, ClaimFacts
      <3> QED
        BY <2>5, <3>1, Nums DEF First
    <2>7. Alive(p)
      BY <2>1, <2>2, <2>4, <2>6, EmptierFacts
    <2>8. p <= p /\ p <= H
      <3>1. p <= Top /\ Top <= H /\ Top \in Int
        BY <2>1, <2>4, <2>7, AliveFacts, Numbers DEF Window, CountersInv
      <3> QED
        BY <3>1
    <2>9. entry[EntryAt(p)].key = Start(p)
      BY <2>4, <2>7, <2>8 DEF Window
    <2>10. entry[EntryAt(p)].value \in Block
      BY <2>4, <2>7 DEF Values, BlockAt
    <2> QED
      BY <2>5, <2>6, <2>9, <2>10
  <1> QED
    BY <1>1, BlocksInvariant, PTL

(* The size of a set without two elements. *)
LEMMA AtMostOne ==
  ASSUME NEW S, \A x, y \in S : x = y
  PROVE  Cardinality(S) = IF S = {} THEN 0 ELSE 1
  <1>1. CASE S = {}
    BY <1>1, FS_EmptySet
  <1>2. CASE S # {}
    <2>1. PICK x : S = {x}
      BY <1>2
    <2> QED
      BY <1>2, <2>1, FS_Singleton
  <1> QED
    BY <1>1, <1>2

(* Blocks are neither lost nor in two places at once: in the pool, in the  *)
(* index, or with the thread that frees or gives them back; the destructor *)
(* leaves all of them in the pool.                                         *)
THEOREM BlocksHaveOnePlace == Spec => []BlocksInOnePlace
  <1>1. BlocksInv => BlocksInOnePlace
    <2> SUFFICES ASSUME BlocksInv, NEW b \in Block
                 PROVE  pool[b] + (IF destroyed THEN 0 ELSE
                          Cardinality({e \in DOMAIN entry : entry[e].value = b})
                            + (IF prod.pc = "undo"
                               THEN Cardinality({k \in 1..prod.slot : k <= Len(prod.alloc) /\ prod.alloc[k] = b})
                               ELSE 0)
                            + Cardinality({c \in Consumer : walk[c].pc = "release" /\ walk[c].block = b})) = 1
      BY DEF BlocksInOnePlace
    <2>1. CASE destroyed
      BY <2>1 DEF BlocksInv, Ended
    <2>2. CASE ~destroyed
      <3>1. StorageTypeOK /\ Places
        BY <2>2 DEF BlocksInv, Running
      <3>2. PICK E, F, U :
              /\ E = {e \in DOMAIN entry : entry[e].value = b}
              /\ F = {c \in Consumer : walk[c].pc = "release" /\ walk[c].block = b}
              /\ U = {k \in 1..prod.slot : k <= Len(prod.alloc) /\ prod.alloc[k] = b}
        OBVIOUS
      <3>7. PICK u \in Int : u = IF Undone(b) THEN 1 ELSE 0
        OBVIOUS
      <3>3. Cardinality(E) = IF InEntry(b) THEN 1 ELSE 0
        <4>1. \A e, f \in E : e = f
          BY <3>1, <3>2 DEF Places
        <4>2. E = {} <=> ~InEntry(b)
          BY <3>2 DEF InEntry
        <4> QED
          BY <4>1, <4>2, AtMostOne
      <3>4. Cardinality(F) = IF \E c \in Consumer : Freeing(c, b) THEN 1 ELSE 0
        <4>1. \A c \in Consumer : c \in F <=> Freeing(c, b)
          BY <3>2 DEF Freeing
        <4>2. \A c, d \in F : c = d
          BY <3>1, <3>2, <4>1 DEF Places
        <4>3. F = {} <=> ~\E c \in Consumer : Freeing(c, b)
          BY <3>2, <4>1
        <4> QED
          BY <4>2, <4>3, AtMostOne
      <3>5. (IF prod.pc = "undo" THEN Cardinality(U) ELSE 0) = u
        <4>1. CASE prod.pc = "undo"
          <5>1. PICK n \in Nat, s \in Int : n = Len(prod.alloc) /\ s = prod.slot /\ DOMAIN prod.alloc = 1..n
            BY <3>1 DEF StorageTypeOK, Calls
          <5>2. \A k : k \in U <=> k \in DOMAIN prod.alloc /\ k <= s /\ prod.alloc[k] = b
            BY <3>2, <5>1
          <5>3. \A k, l \in U : k = l
            BY <3>1, <4>1, <5>1, <5>2 DEF Places
          <5>4. U = {} <=> ~Undone(b)
            BY <4>1, <5>1, <5>2 DEF Undone
          <5> QED
            BY <3>7, <4>1, <5>3, <5>4, AtMostOne
        <4>2. CASE prod.pc # "undo"
          BY <3>7, <4>2 DEF Undone
        <4> QED
          BY <4>1, <4>2
      <3>6. pool[b] + (Cardinality(E) + u + Cardinality(F)) = 1
        <4>1. pool[b] \in Nat
          BY <3>1 DEF StorageTypeOK
        <4>2. /\ pool[b] = 1 \/ (pool[b] = 0 /\ (InEntry(b) \/ (\E c \in Consumer : Freeing(c, b)) \/ Undone(b)))
              /\ pool[b] = 1 => ~InEntry(b) /\ (\A c \in Consumer : ~Freeing(c, b)) /\ ~Undone(b)
              /\ InEntry(b) => (\A c \in Consumer : ~Freeing(c, b)) /\ ~Undone(b)
              /\ \A c \in Consumer : Freeing(c, b) => ~Undone(b)
          BY <3>1 DEF Places
        <4>3. u = IF Undone(b) THEN 1 ELSE 0
          BY <3>7
        <4>4. PICK i \in Int, f \in Int : /\ i = IF InEntry(b) THEN 1 ELSE 0
                                         /\ f = IF \E c \in Consumer : Freeing(c, b) THEN 1 ELSE 0
          OBVIOUS
        <4>5. pool[b] + (i + u + f) = 1
          BY <4>1, <4>2, <4>3, <4>4
        <4>6. Cardinality(E) = i /\ Cardinality(F) = f
          BY <3>3, <3>4, <4>4
        <4> QED
          BY <4>5, <4>6
      <3> QED
        BY <2>2, <3>2, <3>5, <3>6
    <2> QED
      BY <2>1, <2>2
  <1> QED
    BY <1>1, BlocksInvariant, PTL

(***************************************************************************)
(* The abstract queue                                                      *)
(***************************************************************************)

(* The numbers of the items from a up to b, and what they are in sequences. *)
From(a, b) == [k \in 1..(b - a) |-> a + k - 1]

(* Their values. *)
LEMMA FromFacts ==
  ASSUME NEW a \in Int, NEW b \in Int, a <= b
  PROVE  From(a, b) \in Seq(Int) /\ Len(From(a, b)) = b - a
         /\ \A k \in Int : 1 <= k /\ k <= b - a => From(a, b)[k] = a + k - 1
  <1>1. PICK n \in Nat : n = b - a
    OBVIOUS
  <1>2. From(a, b) = [k \in 1..n |-> a + k - 1]
    BY <1>1 DEF From
  <1>3. PICK f : f = [k \in 1..n |-> a + k - 1]
    OBVIOUS
  <1>4. f \in [1..n -> Int]
    BY <1>3
  <1>5. f \in Seq(Int) /\ Len(f) = n
    BY <1>4
  <1> QED
    BY <1>1, <1>2, <1>3, <1>5

(* Adjacent stretches of items join. *)
LEMMA FromJoined ==
  ASSUME NEW a \in Int, NEW b \in Int, NEW d \in Int, a <= b, b <= d
  PROVE  From(a, b) \o From(b, d) = From(a, d)
  <1>1. PICK s \in Seq(Int), t \in Seq(Int), u \in Seq(Int) : s = From(a, b) /\ t = From(b, d) /\ u = From(a, d)
    <2>1. a <= d
      OBVIOUS
    <2> QED
      BY <2>1, FromFacts
  <1>2. Len(s) = b - a /\ \A k \in Int : 1 <= k /\ k <= b - a => s[k] = a + k - 1
    BY <1>1, FromFacts
  <1>3. Len(t) = d - b /\ \A k \in Int : 1 <= k /\ k <= d - b => t[k] = b + k - 1
    BY <1>1, FromFacts
  <1>4. Len(u) = d - a /\ \A k \in Int : 1 <= k /\ k <= d - a => u[k] = a + k - 1
    <2>1. a <= d
      OBVIOUS
    <2> QED
      BY <1>1, <2>1, FromFacts
  <1>5. PICK v : v = s \o t
    OBVIOUS
  <1>6. /\ v \in Seq(Int) /\ Len(v) = Len(s) + Len(t)
        /\ \A k \in 1..(Len(s) + Len(t)) : v[k] = IF k <= Len(s) THEN s[k] ELSE t[k - Len(s)]
    BY <1>5, ConcatProperties
  <1>7. Len(v) = Len(u)
    BY <1>2, <1>3, <1>4, <1>6
  <1>8. ASSUME NEW k \in 1..Len(v) PROVE v[k] = u[k]
    <2>1. k \in Int /\ 1 <= k /\ k <= d - a
      BY <1>2, <1>3, <1>6
    <2>2. u[k] = a + k - 1
      BY <1>4, <2>1
    <2>3. CASE k <= b - a
      <3>1. v[k] = s[k]
        BY <1>2, <1>6, <2>3
      <3>2. s[k] = a + k - 1
        BY <1>2, <2>1, <2>3
      <3> QED
        BY <2>2, <3>1, <3>2
    <2>4. CASE ~(k <= b - a)
      <3>1. PICK j \in Int : j = k - (b - a) /\ 1 <= j /\ j <= d - b
        BY <2>1, <2>4
      <3>2. v[k] = t[j]
        BY <1>2, <1>6, <2>4, <3>1
      <3>3. t[j] = b + j - 1
        BY <1>3, <3>1
      <3> QED
        BY <2>2, <3>1, <3>2, <3>3
    <2> QED
      BY <2>3, <2>4
  <1>9. v = u
    BY <1>6, <1>7, <1>8, SeqEqual
  <1> QED
    BY <1>1, <1>5, <1>9

(* The two parts of a concatenation. *)
LEMMA ConcatSplit ==
  ASSUME NEW s \in Seq(Int), NEW t \in Seq(Int)
  PROVE  /\ SubSeq(s \o t, 1, Len(s)) = s
         /\ SubSeq(s \o t, Len(s) + 1, Len(s \o t)) = t
  <1>1. PICK v : v = s \o t
    OBVIOUS
  <1>2. PICK m \in Nat, n \in Nat : m = Len(s) /\ n = Len(t)
    OBVIOUS
  <1>3. /\ v \in Seq(Int) /\ Len(v) = m + n
        /\ \A k \in 1..(m + n) : v[k] = IF k <= m THEN s[k] ELSE t[k - m]
    BY <1>1, <1>2, ConcatProperties
  <1>4. \A k \in 1..(m + n) : v[k] \in Int
    BY <1>3, ElementOfSeq
  <1>5. SubSeq(v, 1, m) = s
    <2>1. PICK l \in Int : l = 1
      OBVIOUS
    <2>6. PICK w : w = SubSeq(v, l, m)
      OBVIOUS
    <2>2. \A k \in l..m : v[k] \in Int
      BY <1>4, <2>1
    <2>3. /\ w \in Seq(Int) /\ Len(w) = IF l <= m THEN m - l + 1 ELSE 0
          /\ \A k \in 1..(m - l + 1) : w[k] = v[l + k - 1]
      BY <2>6, <2>2, SubSeqProperties
    <2>4. Len(w) = Len(s)
      BY <1>2, <2>1, <2>3
    <2>5. ASSUME NEW k \in 1..Len(w) PROVE w[k] = s[k]
      <3>1. k \in Int /\ 1 <= k /\ k <= m
        BY <1>2, <2>4
      <3>2. w[k] = v[k] /\ v[k] = s[k]
        BY <1>3, <2>1, <2>3, <3>1
      <3> QED
        BY <3>2
    <2> QED
      BY <2>1, <2>3, <2>4, <2>5, <2>6, SeqEqual
  <1>6. SubSeq(v, m + 1, m + n) = t
    <2>1. PICK l \in Int, h \in Int : l = m + 1 /\ h = m + n
      OBVIOUS
    <2>6. PICK w : w = SubSeq(v, l, h)
      OBVIOUS
    <2>2. \A k \in l..h : v[k] \in Int
      BY <1>4, <2>1
    <2>3. /\ w \in Seq(Int) /\ Len(w) = IF l <= h THEN h - l + 1 ELSE 0
          /\ \A k \in 1..(h - l + 1) : w[k] = v[l + k - 1]
      BY <2>6, <2>2, SubSeqProperties
    <2>4. Len(w) = Len(t)
      BY <1>2, <2>1, <2>3
    <2>5. ASSUME NEW k \in 1..Len(w) PROVE w[k] = t[k]
      <3>1. PICK i \in Int : i = l + k - 1 /\ m < i /\ i <= m + n /\ i - m = k
        <4>1. k \in 1..n
          BY <1>2, <2>4
        <4> QED
          BY <2>1, <4>1
      <3>2. w[k] = v[i]
        <4>1. k \in 1..(h - l + 1)
          BY <1>2, <2>1, <2>4
        <4>2. w[k] = v[l + k - 1]
          BY <2>3, <4>1
        <4> QED
          BY <3>1, <4>2
      <3>3. v[i] = t[k]
        BY <1>3, <3>1
      <3> QED
        BY <3>2, <3>3
    <2> QED
      BY <2>1, <2>3, <2>4, <2>5, <2>6, SeqEqual
  <1>7. SubSeq(v, 1, Len(s)) = s /\ SubSeq(v, Len(s) + 1, Len(v)) = t
    BY <1>2, <1>3, <1>5, <1>6
  <1> QED
    BY <1>1, <1>7

(* Concatenations need no parentheses. *)
LEMMA ConcatTwice ==
  ASSUME NEW s \in Seq(Int), NEW t \in Seq(Int), NEW u \in Seq(Int)
  PROVE  (s \o t) \o u = s \o (t \o u)
  BY ConcatAssociative

(* The items from a up to d are split at b. *)
LEMMA FromSplit ==
  ASSUME NEW a \in Int, NEW b \in Int, NEW d \in Int, a <= b, b <= d
  PROVE  /\ SubSeq(From(a, d), 1, b - a) = From(a, b)
         /\ SubSeq(From(a, d), b - a + 1, d - a) = From(b, d)
  <1>1. PICK s \in Seq(Int), t \in Seq(Int) : s = From(a, b) /\ t = From(b, d)
    BY FromFacts
  <1>2. Len(s) = b - a /\ Len(t) = d - b
    BY <1>1, FromFacts
  <1>3. From(a, d) = s \o t
    BY <1>1, FromJoined
  <1>4. /\ SubSeq(s \o t, 1, Len(s)) = s
        /\ SubSeq(s \o t, Len(s) + 1, Len(s \o t)) = t
    BY ConcatSplit
  <1>5. Len(s \o t) = Len(s) + Len(t)
    BY ConcatProperties
  <1>6. Len(s \o t) = d - a
    BY <1>2, <1>5
  <1> QED
    BY <1>1, <1>2, <1>3, <1>4, <1>6

(* The items of the largest call. *)
Largest == Max(EnqueueSize \union DequeueSize)

(* Max is the largest call, as there is one. *)
LEMMA LargestFacts ==
  Largest \in Int /\ \A k \in EnqueueSize \union DequeueSize : k \in Int /\ k > 0 /\ k <= Largest
  <1>1. PICK S : S = EnqueueSize \union DequeueSize
    OBVIOUS
  <1>2. \A k \in S : k \in Int /\ k > 0
    BY <1>1, EnqueueAssumption, DequeueAssumption
  <1>3. \E m \in S : \A k \in S : m >= k
    BY <1>1, <1>2, LargestCall
  <1>4. Max(S) \in S /\ \A k \in S : Max(S) >= k
    BY <1>3 DEF Max
  <1>5. Max(S) \in Int /\ \A k \in S : k <= Max(S)
    BY <1>2, <1>4
  <1> QED
    BY <1>1, <1>2, <1>5 DEF Largest

(* No call gets more than the largest one asks for. *)
CallsBounded ==
  /\ \A c \in Consumer : claim[c].want <= Largest
                         /\ (claim[c].pc = "correct" \/ claim[c].pc = "claim" => claim[c].next <= Largest)
  /\ prod.pc # "idle" => prod.count \in EnqueueSize

(* The claims keep that. *)
LEMMA ClaimBounded ==
  ASSUME CountersInv, NEW c \in Consumer, ClaimItems(c),
         \A d \in Consumer : claim[d].want <= Largest
                         /\ (claim[d].pc = "correct" \/ claim[d].pc = "claim" => claim[d].next <= Largest)
  PROVE  \A d \in Consumer : claim'[d].want <= Largest
                         /\ (claim'[d].pc = "correct" \/ claim'[d].pc = "claim" => claim'[d].next <= Largest)
  <1> USE DEF ClaimStep
  <1>0. claim \in [Consumer -> Locals] /\ claim[c] \in Locals
    BY DEF CountersInv, CountersTypeOK
  <1>1. \A r : claim' = [claim EXCEPT ![c] = r] =>
          claim'[c] = r /\ \A d \in Consumer : d # c => claim'[d] = claim[d]
    BY <1>0
  <1>2. PICK l \in Int : l = Largest /\ l >= 0
    BY LargestFacts, LargestCall
  <1>3. SUFFICES \E r : /\ claim' = [claim EXCEPT ![c] = r] /\ r.want <= l
                        /\ (r.pc = "correct" \/ r.pc = "claim" => r.next <= l)
    BY <1>1, <1>2
  <1>4. claim[c].want \in Int /\ claim[c].want <= l
        /\ (claim[c].pc = "correct" \/ claim[c].pc = "claim" => claim[c].next <= l)
    BY <1>0, <1>2 DEF Locals
  <1>5. ASSUME NEW k \in DequeueSize, LoadTail(c, k)
        PROVE  \E r : /\ claim' = [claim EXCEPT ![c] = r] /\ r.want <= l
                      /\ (r.pc = "correct" \/ r.pc = "claim" => r.next <= l)
    <2>1. PICK r : r = [Unclaimed EXCEPT !.pc = "over", !.want = k, !.tail = tailIndex]
      OBVIOUS
    <2>2. r.pc = "over" /\ r.want = k
      BY <2>1 DEF Unclaimed
    <2>3. k <= l
      BY <1>2, LargestFacts
    <2> QED
      BY <1>5, <2>1, <2>2, <2>3 DEF LoadTail
  <1>6. CASE LoadOvercommit(c)
    <2>1. PICK r : r = [claim[c] EXCEPT !.pc = "optimistic", !.over = dequeueOvercommit]
      OBVIOUS
    <2>2. r.pc = "optimistic" /\ r.want = claim[c].want
      BY <1>0, <2>1 DEF Locals
    <2> QED
      BY <1>4, <1>6, <2>1, <2>2 DEF LoadOvercommit
  <1>7. CASE LoadOptimistic(c)
    <2> PICK desired : desired = claim[c].tail - (dequeueOptimisticCount - claim[c].over)
      OBVIOUS
    <2>0. desired \in Int
      BY <1>0 DEF Locals, CountersInv, CountersTypeOK
    <2>1. PICK r : r = IF desired > 0
                       THEN [claim[c] EXCEPT !.pc = "count", !.tail = 0,
                                             !.want = IF desired < @ THEN desired ELSE @]
                       ELSE Unclaimed
      OBVIOUS
    <2>2. r.pc \in {"count", "idle"} /\ r.want <= l
      <3>1. CASE desired > 0
        <4>1. PICK w \in Int : w = (IF desired < claim[c].want THEN desired ELSE claim[c].want) /\ w <= l
          BY <1>4, <2>0
        <4>2. r = [claim[c] EXCEPT !.pc = "count", !.tail = 0, !.want = w]
          BY <2>1, <3>1, <4>1
        <4>3. r.pc = "count" /\ r.want = w
          BY <1>0, <4>2 DEF Locals
        <4> QED
          BY <4>1, <4>3
      <3>2. CASE ~(desired > 0)
        BY <1>2, <2>1, <3>2 DEF Unclaimed
      <3> QED
        BY <3>1, <3>2
    <2>3. claim' = [claim EXCEPT ![c] = r]
      BY <1>7, <2>1 DEF LoadOptimistic
    <2> QED
      BY <2>2, <2>3
  <1>8. CASE AddOptimistic(c)
    <2>1. PICK r : r = [claim[c] EXCEPT !.pc = "check", !.count = dequeueOptimisticCount]
      OBVIOUS
    <2>2. r.pc = "check" /\ r.want = claim[c].want
      BY <1>0, <2>1 DEF Locals
    <2> QED
      BY <1>4, <1>8, <2>1, <2>2 DEF AddOptimistic
  <1>9. CASE CheckTail(c)
    <2>1. PICK r : r = [claim[c] EXCEPT
                          !.pc = IF Actual(c) < claim[c].want THEN "correct" ELSE "claim",
                          !.over = 0, !.count = 0, !.next = Actual(c)]
      OBVIOUS
    <2>2. r.next = Actual(c) /\ r.want = claim[c].want
      BY <1>0, <2>1 DEF Locals
    <2>3. Actual(c) \in Int /\ Actual(c) <= claim[c].want
      BY ActualBounds DEF CountersInv
    <2>4. claim' = [claim EXCEPT ![c] = r]
      BY <1>9, <2>1 DEF CheckTail
    <2>5. r.next <= l
      BY <1>4, <2>2, <2>3
    <2> QED
      BY <1>4, <2>2, <2>4, <2>5
  <1>10. CASE AddOvercommit(c)
    <2>1. PICK r : r = IF claim[c].next = 0 THEN Unclaimed ELSE [claim[c] EXCEPT !.pc = "claim"]
      OBVIOUS
    <2>2. claim[c].pc = "correct" /\ claim' = [claim EXCEPT ![c] = r]
      BY <1>10, <2>1 DEF AddOvercommit
    <2>3. CASE claim[c].next = 0
      <3>1. r.pc = "idle" /\ r.want = 0
        BY <2>1, <2>3 DEF Unclaimed
      <3> QED
        BY <1>2, <2>2, <3>1
    <2>4. CASE claim[c].next # 0
      <3>1. r.next = claim[c].next /\ r.want = claim[c].want
        BY <1>0, <2>1, <2>4 DEF Locals
      <3> QED
        BY <1>4, <2>2, <3>1
    <2> QED
      BY <2>3, <2>4
  <1>11. CASE AddHead(c)
    <2>1. PICK r : r = [claim[c] EXCEPT !.pc = "claimed", !.want = 0, !.next = headIndex,
                                        !.last = headIndex + claim[c].next]
      OBVIOUS
    <2>2. r.pc = "claimed" /\ r.want = 0
      BY <1>0, <2>1 DEF Locals
    <2> QED
      BY <1>2, <1>11, <2>1, <2>2 DEF AddHead
  <1> QED
    BY <1>5, <1>6, <1>7, <1>8, <1>9, <1>10, <1>11 DEF ClaimItems

(* So does every step. *)
LEMMA CallsStayBounded ==
  ASSUME CountersInv, StorageTypeOK, CallsBounded, [Next]_vars
  PROVE  CallsBounded'
  <1>0. claim \in [Consumer -> Locals] /\ prod \in Calls
    BY DEF CountersInv, CountersTypeOK, StorageTypeOK
  <1>1. CASE UNCHANGED <<claim, prod>>
    BY <1>1 DEF CallsBounded
  <1>2. ASSUME UNCHANGED claim, prod'.pc = "idle" \/ (prod.pc # "idle" /\ prod'.count = prod.count)
        PROVE  CallsBounded'
    BY <1>2 DEF CallsBounded
  <1>3. CASE producer
    <2>1. ASSUME NEW k \in EnqueueSize, enqueue_bulk(k) PROVE CallsBounded'
      <3>1. PICK p : p = [ProdIdle EXCEPT !.count = k]
        OBVIOUS
      <3>2. prod' = [p EXCEPT !.pc = Continue(p)] /\ UNCHANGED claim
        BY <2>1, <3>1 DEF enqueue_bulk, counters
      <3>3. prod'.count = k
        BY <3>1, <3>2 DEF ProdIdle
      <3> QED
        BY <3>2, <3>3 DEF CallsBounded
    <2>2. CASE InsertKey \/ InsertTail \/ IndexAllocationFails
      <3>1. prod.pc # "idle" /\ prod'.count = prod.count /\ UNCHANGED claim
        BY <1>0, <2>2 DEF InsertKey, InsertTail, IndexAllocationFails, counters, Calls
      <3> QED
        BY <1>2, <3>1
    <2>3. CASE BlockAllocationFails \/ UndoEntry
      <3>1. prod.pc # "idle" /\ prod'.count = prod.count /\ UNCHANGED claim
        BY <1>0, <2>3 DEF BlockAllocationFails, UndoEntry, counters, Calls
      <3> QED
        BY <1>2, <3>1
    <2>4. CASE new_block_index
      BY <1>1, <2>4 DEF new_block_index, counters
    <2>5. CASE requisition_block
      <3>1. PICK b, p : b \in Block /\ p = [prod EXCEPT !.alloc = Append(@, b), !.slot = 0]
                                   /\ prod' = [p EXCEPT !.pc = Continue(p)]
        BY <2>5 DEF requisition_block
      <3>2. prod'.count = prod.count
        BY <1>0, <3>1 DEF Calls
      <3>3. prod.pc # "idle" /\ UNCHANGED claim
        BY <2>5 DEF requisition_block, counters
      <3> QED
        BY <1>2, <3>2, <3>3
    <2>6. CASE add_blocks_to_free_list \/ Publish
      <3>1. prod'.pc = "idle" /\ UNCHANGED claim
        BY <2>6 DEF add_blocks_to_free_list, Publish, counters, ProdIdle
      <3> QED
        BY <1>2, <3>1
    <2> QED
      BY <1>3, <2>1, <2>2, <2>3, <2>4, <2>5, <2>6 DEF producer
  <1>4. CASE Destroy
    BY <1>1, <1>4 DEF Destroy, counters
  <1>5. ASSUME NEW c \in Consumer, consumer(c) PROVE CallsBounded'
    <2>1. prod' = prod
      BY <1>5 DEF consumer, Claim, LoadBlockIndex, LoadKey, Take, Unlink, add_block_to_free_list, Delivered
    <2>2. CASE Claim(c)
      <3>1. ClaimItems(c)
        BY <2>2 DEF Claim
      <3> QED
        BY <2>1, <3>1, ClaimBounded DEF CallsBounded
    <2>3. CASE LoadBlockIndex(c) \/ LoadKey(c) \/ Unlink(c) \/ add_block_to_free_list(c)
      BY <1>1, <2>1, <2>3 DEF LoadBlockIndex, LoadKey, Unlink, add_block_to_free_list, counters
    <2>4. ASSUME NEW r, claim' = [claim EXCEPT ![c] = r], r.pc \notin {"correct", "claim"}, r.want <= Largest
          PROVE  CallsBounded'
      <3>1. claim'[c] = r /\ \A d \in Consumer : d # c => claim'[d] = claim[d]
        BY <1>0, <2>4
      <3> QED
        BY <2>1, <2>4, <3>1 DEF CallsBounded
    <2>5. CASE Take(c)
      <3>1. PICK end : TakenUpTo(c, end) /\ claim[c].pc = "claimed"
        BY <2>5 DEF Take
      <3>2. PICK r : r = [claim[c] EXCEPT !.next = end]
        OBVIOUS
      <3>3. r.pc = "claimed" /\ r.want = claim[c].want
        BY <1>0, <3>1, <3>2 DEF Locals
      <3>4. claim' = [claim EXCEPT ![c] = r]
        BY <3>1, <3>2 DEF TakenUpTo
      <3>5. r.want <= Largest
        BY <3>3 DEF CallsBounded
      <3> QED
        BY <2>4, <3>3, <3>4, <3>5
    <2>6. CASE Delivered(c)
      <3>1. claim' = [claim EXCEPT ![c] = Unclaimed]
        BY <2>6 DEF Delivered, Return
      <3>2. Unclaimed.pc = "idle" /\ Unclaimed.want = 0
        BY DEF Unclaimed
      <3>3. 0 <= Largest
        BY LargestFacts, LargestCall
      <3>4. Unclaimed.want <= Largest
        BY <3>2, <3>3
      <3> QED
        BY <2>4, <3>1, <3>2, <3>4
    <2> QED
      BY <1>5, <2>2, <2>3, <2>5, <2>6 DEF consumer
  <1>6. CASE UNCHANGED vars
    BY <1>1, <1>6 DEF vars, counters
  <1> QED
    BY <1>3, <1>4, <1>5, <1>6 DEF Next

(* Of the steps that lead to a claim only AddHead makes one. *)
LEMMA ClaimItemsSteps ==
  ASSUME CountersInv, NEW c \in Consumer, ClaimItems(c)
  PROVE  /\ claim[c].pc # "claimed" /\ \A d \in Consumer : d # c => claim'[d] = claim[d]
         /\ AddHead(c) \/ (claim'[c].pc # "claimed" /\ UNCHANGED <<tailIndex, headIndex>>)
  <1>0. claim \in [Consumer -> Locals] /\ claim[c] \in Locals
    BY DEF CountersInv, CountersTypeOK
  <1>1. \A r : claim' = [claim EXCEPT ![c] = r] =>
          claim'[c] = r /\ \A d \in Consumer : d # c => claim'[d] = claim[d]
    BY <1>0
  <1>2. CASE \E k \in DequeueSize : LoadTail(c, k)
    <2>1. PICK k \in DequeueSize : LoadTail(c, k)
      BY <1>2
    <2>2. PICK r : r = [Unclaimed EXCEPT !.pc = "over", !.want = k, !.tail = tailIndex]
      OBVIOUS
    <2>3. r.pc = "over"
      BY <2>2 DEF Unclaimed
    <2>4. claim[c].pc = "idle" /\ claim' = [claim EXCEPT ![c] = r] /\ UNCHANGED <<tailIndex, headIndex>>
      BY <2>1, <2>2 DEF LoadTail, ClaimStep
    <2> QED
      BY <1>1, <2>3, <2>4
  <1>3. CASE LoadOvercommit(c)
    <2>1. PICK r : r = [claim[c] EXCEPT !.pc = "optimistic", !.over = dequeueOvercommit]
      OBVIOUS
    <2>2. r.pc = "optimistic"
      BY <1>0, <2>1 DEF Locals
    <2>3. claim[c].pc = "over" /\ claim' = [claim EXCEPT ![c] = r] /\ UNCHANGED <<tailIndex, headIndex>>
      BY <1>3, <2>1 DEF LoadOvercommit, ClaimStep
    <2> QED
      BY <1>1, <2>2, <2>3
  <1>4. CASE LoadOptimistic(c)
    <2>1. PICK r, t : /\ t = [claim[c] EXCEPT !.pc = "count", !.tail = 0,
                                !.want = IF claim[c].tail - (dequeueOptimisticCount - claim[c].over) < @
                                         THEN claim[c].tail - (dequeueOptimisticCount - claim[c].over) ELSE @]
                      /\ r = IF claim[c].tail - (dequeueOptimisticCount - claim[c].over) > 0 THEN t ELSE Unclaimed
      OBVIOUS
    <2>2. t.pc = "count" /\ Unclaimed.pc = "idle"
      BY <1>0, <2>1 DEF Locals, Unclaimed
    <2>3. r.pc # "claimed"
      BY <2>1, <2>2
    <2>4. claim[c].pc = "optimistic" /\ claim' = [claim EXCEPT ![c] = r] /\ UNCHANGED <<tailIndex, headIndex>>
      BY <1>4, <2>1 DEF LoadOptimistic, ClaimStep
    <2> QED
      BY <1>1, <2>3, <2>4
  <1>5. CASE AddOptimistic(c)
    <2>1. PICK r : r = [claim[c] EXCEPT !.pc = "check", !.count = dequeueOptimisticCount]
      OBVIOUS
    <2>2. r.pc = "check"
      BY <1>0, <2>1 DEF Locals
    <2>3. claim[c].pc = "count" /\ claim' = [claim EXCEPT ![c] = r] /\ UNCHANGED <<tailIndex, headIndex>>
      BY <1>5, <2>1 DEF AddOptimistic, ClaimStep
    <2> QED
      BY <1>1, <2>2, <2>3
  <1>6. CASE CheckTail(c)
    <2>1. PICK r : r = [claim[c] EXCEPT
                          !.pc = IF Actual(c) < claim[c].want THEN "correct" ELSE "claim",
                          !.over = 0, !.count = 0, !.next = Actual(c)]
      OBVIOUS
    <2>2. r.pc # "claimed"
      BY <1>0, <2>1 DEF Locals
    <2>3. claim[c].pc = "check" /\ claim' = [claim EXCEPT ![c] = r] /\ UNCHANGED <<tailIndex, headIndex>>
      BY <1>6, <2>1 DEF CheckTail, ClaimStep
    <2> QED
      BY <1>1, <2>2, <2>3
  <1>7. CASE AddOvercommit(c)
    <2>1. PICK r : r = IF claim[c].next = 0 THEN Unclaimed ELSE [claim[c] EXCEPT !.pc = "claim"]
      OBVIOUS
    <2>2. r.pc # "claimed"
      BY <1>0, <2>1 DEF Locals, Unclaimed
    <2>3. claim[c].pc = "correct" /\ claim' = [claim EXCEPT ![c] = r] /\ UNCHANGED <<tailIndex, headIndex>>
      BY <1>7, <2>1 DEF AddOvercommit, ClaimStep
    <2> QED
      BY <1>1, <2>2, <2>3
  <1>8. CASE AddHead(c)
    BY <1>1, <1>8 DEF AddHead, ClaimStep
  <1> QED
    BY <1>2, <1>3, <1>4, <1>5, <1>6, <1>7, <1>8 DEF ClaimItems

(* AddHead claims the oldest items. *)
LEMMA AddHeadStep ==
  ASSUME CountersInv, NEW c \in Consumer, AddHead(c)
  PROVE  /\ claim[c].pc = "claim" /\ claim[c].next \in Int /\ claim[c].next > 0
         /\ headIndex' = headIndex + claim[c].next /\ tailIndex' = tailIndex
         /\ claim'[c].pc = "claimed" /\ claim'[c].next = headIndex /\ claim'[c].last = headIndex'
  <1>0. claim \in [Consumer -> Locals] /\ claim[c] \in Locals
    BY DEF CountersInv, CountersTypeOK
  <1>1. PICK r : r = [claim[c] EXCEPT !.pc = "claimed", !.want = 0, !.next = headIndex,
                                      !.last = headIndex + claim[c].next]
    OBVIOUS
  <1>2. r.pc = "claimed" /\ r.next = headIndex /\ r.last = headIndex + claim[c].next
    BY <1>0, <1>1 DEF Locals
  <1>3. /\ claim[c].pc = "claim" /\ claim' = [claim EXCEPT ![c] = r]
        /\ headIndex' = headIndex + claim[c].next /\ tailIndex' = tailIndex
    BY <1>1 DEF AddHead, ClaimStep
  <1>4. claim[c].next \in Int /\ claim[c].next > 0
    BY <1>0, <1>3 DEF Locals, CountersInv, LocalsAgree, Agree
  <1>5. claim'[c] = r
    BY <1>0, <1>3
  <1> QED
    BY <1>2, <1>3, <1>4, <1>5

(* A claim is never empty, so its end is above 0. *)
ClaimsFilled == \A c \in Consumer : claim[c].pc = "claimed" => claim[c].last > 0

(* Every step keeps that. *)
LEMMA ClaimsStayFilled ==
  ASSUME CountersInv, ClaimsFilled, [Next]_vars
  PROVE  ClaimsFilled'
  <1>0. claim \in [Consumer -> Locals]
    BY DEF CountersInv, CountersTypeOK
  <1>1. CASE UNCHANGED claim
    BY <1>1 DEF ClaimsFilled
  <1>2. CASE producer
    <2>1. UNCHANGED claim
      BY <1>2 DEF producer, counters, enqueue_bulk, InsertKey, InsertTail, new_block_index,
         IndexAllocationFails, requisition_block, BlockAllocationFails, UndoEntry,
         add_blocks_to_free_list, Publish
    <2> QED
      BY <1>1, <2>1
  <1>3. CASE Destroy
    BY <1>1, <1>3 DEF Destroy, counters
  <1>4. ASSUME NEW c \in Consumer, consumer(c) PROVE ClaimsFilled'
    <2>1. CASE Claim(c)
      <3>1. ClaimItems(c)
        BY <2>1 DEF Claim
      <3>2. claim'[c].pc = "claimed" => claim'[c].last > 0
        <4>1. CASE AddHead(c)
          <5>1. headIndex \in Nat
            BY DEF CountersInv, CountersTypeOK
          <5> QED
            BY <4>1, <5>1, AddHeadStep
        <4> QED
          BY <3>1, <4>1, ClaimItemsSteps
      <3> QED
        BY <3>1, <3>2, ClaimItemsSteps DEF ClaimsFilled
    <2>2. CASE LoadBlockIndex(c) \/ LoadKey(c) \/ Unlink(c) \/ add_block_to_free_list(c)
      BY <1>1, <2>2 DEF LoadBlockIndex, LoadKey, Unlink, add_block_to_free_list, counters
    <2>3. CASE Take(c)
      <3>1. PICK end : TakenUpTo(c, end)
        BY <2>3 DEF Take
      <3>2. PICK r : r = [claim[c] EXCEPT !.next = end]
        OBVIOUS
      <3>3. r.pc = claim[c].pc /\ r.last = claim[c].last
        BY <1>0, <3>2 DEF Locals
      <3>4. claim' = [claim EXCEPT ![c] = r]
        BY <3>1, <3>2 DEF TakenUpTo
      <3> QED
        BY <1>0, <3>3, <3>4 DEF ClaimsFilled
    <2>4. CASE Delivered(c)
      <3>1. claim' = [claim EXCEPT ![c] = Unclaimed]
        BY <2>4 DEF Delivered, Return
      <3>2. Unclaimed.pc = "idle"
        BY DEF Unclaimed
      <3> QED
        BY <1>0, <3>1, <3>2 DEF ClaimsFilled
    <2> QED
      BY <1>4, <2>1, <2>2, <2>3, <2>4 DEF consumer
  <1>5. CASE UNCHANGED vars
    BY <1>1, <1>5 DEF vars, counters
  <1> QED
    BY <1>2, <1>3, <1>4, <1>5 DEF Next

(*****************************************************************************)
(* The refinement                                                          *)
(*****************************************************************************)

(* What the refinement mapping makes of the state. *)
Waiting == From(headIndex, tailIndex)
ItemsOf(c) == IF claim[c].last = 0 THEN <<>> ELSE walk[c].out \o From(claim[c].next, claim[c].last)
InHand == [c \in Consumer |-> ItemsOf(c)]

(* They are the expressions of the refinement mapping. *)
LEMMA Mapped ==
  /\ Waiting = [k \in 1..(tailIndex - headIndex) |-> headIndex + k - 1]
  /\ InHand = [c \in Consumer |-> IF claim[c].last = 0 THEN <<>> ELSE Claimed(c)]
  /\ Largest = Max(EnqueueSize \union DequeueSize)
  <1>1. \A c \in Consumer : ItemsOf(c) = IF claim[c].last = 0 THEN <<>> ELSE Claimed(c)
    BY DEF ItemsOf, Claimed, From
  <1> QED
    BY <1>1 DEF Waiting, InHand, From, Largest

(* The same for the next state. *)
LEMMA MappedNext ==
  /\ Waiting' = [k \in 1..(tailIndex - headIndex) |-> headIndex + k - 1]'
  /\ InHand' = [c \in Consumer |-> IF claim[c].last = 0 THEN <<>> ELSE Claimed(c)]'
  BY DEF Waiting, InHand, From, ItemsOf, Claimed

(* What a stuttering step of the abstract queue is, ... *)
LEMMA MappedStutter ==
  ASSUME UNCHANGED <<tailIndex, Waiting, InHand>>
  PROVE  UNCHANGED Queue!vars
  BY Mapped, MappedNext DEF Queue!vars

(* ... its initial state, ... *)
LEMMA MappedInit ==
  ASSUME tailIndex = 0, Waiting = <<>>, \A c \in Consumer : ItemsOf(c) = <<>>
  PROVE  Queue!Init
  <1>1. InHand = [c \in Consumer |-> <<>>]
    BY DEF InHand
  <1> QED
    BY <1>1, Mapped DEF Queue!Init

(* ... an Enqueue, ... *)
LEMMA MappedEnqueue ==
  ASSUME NEW k \in Int, 1 <= k, k <= Largest, tailIndex \in Int, tailIndex' = tailIndex + k,
         Waiting' = Waiting \o From(tailIndex, tailIndex + k), InHand' = InHand
  PROVE  Queue!Next
  <1>1. From(tailIndex, tailIndex + k) = Queue!Numbers(tailIndex, k)
    <2>1. (tailIndex + k) - tailIndex = k
      OBVIOUS
    <2> QED
      BY <2>1 DEF From, Queue!Numbers
  <1>2. Queue!Enqueue(k)
    BY <1>1, Mapped, MappedNext DEF Queue!Enqueue
  <1>3. k \in 1..Max(EnqueueSize \union DequeueSize)
    BY Mapped, LargestFacts
  <1> QED
    BY <1>2, <1>3 DEF Queue!Next

(* ... a Claim ... *)
LEMMA MappedClaim ==
  ASSUME NEW c \in Consumer, NEW k \in Int, 1 <= k, k <= Largest, k <= Len(Waiting),
         ItemsOf(c) = <<>>, tailIndex' = tailIndex,
         InHand' = [InHand EXCEPT ![c] = SubSeq(Waiting, 1, k)],
         Waiting' = SubSeq(Waiting, k + 1, Len(Waiting))
  PROVE  Queue!Next
  <1>1. InHand[c] = <<>>
    BY DEF InHand
  <1>2. Queue!Claim(c, k)
    BY <1>1, Mapped, MappedNext DEF Queue!Claim
  <1>3. k \in 1..Max(EnqueueSize \union DequeueSize)
    BY Mapped, LargestFacts
  <1> QED
    BY <1>2, <1>3 DEF Queue!Next

(* ... and a Deliver, in terms of them. *)
LEMMA MappedDeliver ==
  ASSUME NEW c \in Consumer, ItemsOf(c) # <<>>, tailIndex' = tailIndex, Waiting' = Waiting,
         InHand' = [InHand EXCEPT ![c] = <<>>]
  PROVE  Queue!Next
  <1>1. InHand[c] # <<>>
    BY DEF InHand
  <1>2. Queue!Deliver(c)
    BY <1>1, Mapped, MappedNext DEF Queue!Deliver
  <1> QED
    BY <1>2 DEF Queue!Next

(* What the steps need of the invariants. *)
QueueInv ==
  /\ BlocksInv /\ CallsBounded /\ ClaimsFilled
  /\ headIndex \in Nat /\ tailIndex \in Nat /\ headIndex <= tailIndex
  /\ \A c \in Consumer :
       /\ claim[c].pc # "claimed" => ItemsOf(c) = <<>>
       /\ claim[c].pc = "claimed" => ItemsOf(c) = walk[c].out \o From(claim[c].next, claim[c].last)

(* It follows from the three invariants. *)
LEMMA QueueInvHolds ==
  ASSUME BlocksInv, CallsBounded, ClaimsFilled
  PROVE  QueueInv
  <1>1. CountersInv
    BY DEF BlocksInv
  <1>2. \A c \in Consumer : claim[c].pc # "claimed" => claim[c].last = 0
    BY <1>1 DEF CountersInv, LocalsAgree, Agree
  <1>3. \A c \in Consumer : claim[c].pc = "claimed" => claim[c].last # 0
    BY DEF ClaimsFilled
  <1> QED
    BY <1>1, <1>2, <1>3, HeadTail DEF QueueInv, ItemsOf

(* A consumer that stays where it is has the same items in hand. *)
LEMMA SameItems ==
  ASSUME NEW d \in Consumer, claim'[d] = claim[d], walk'[d].out = walk[d].out
  PROVE  ItemsOf(d)' = ItemsOf(d)
  BY DEF ItemsOf, From

(* A step that moves no counter and no item in hand is a stutter. *)
LEMMA QueueStutters ==
  ASSUME UNCHANGED <<tailIndex, headIndex>>, \A d \in Consumer : ItemsOf(d)' = ItemsOf(d)
  PROVE  UNCHANGED Queue!vars
  <1>1. UNCHANGED Waiting
    BY DEF Waiting, From
  <1>2. UNCHANGED InHand
    BY DEF InHand
  <1> QED
    BY <1>1, <1>2, MappedStutter

(* Publish is Enqueue. *)
LEMMA PublishEnqueues ==
  ASSUME QueueInv, Publish
  PROVE  Queue!Next
  <1>1. prod.count \in EnqueueSize
    BY DEF QueueInv, CallsBounded, Publish
  <1>2. PICK k \in Int : k = prod.count /\ 1 <= k /\ k <= Largest
    BY <1>1, LargestFacts
  <1>3. PICK h \in Int, t \in Int : h = headIndex /\ t = tailIndex /\ h <= t
    BY DEF QueueInv
  <1>4. UNCHANGED <<headIndex, claim, walk>> /\ tailIndex' = t + k
    BY <1>2, <1>3 DEF Publish
  <1>5. From(h, t) \o From(t, t + k) = From(h, t + k)
    <2>1. t <= t + k /\ t + k \in Int
      BY <1>2
    <2> QED
      BY <1>3, <2>1, FromJoined
  <1>6. Waiting = From(h, t) /\ Waiting' = From(h, t + k)
    BY <1>3, <1>4 DEF Waiting, From
  <1>7. InHand' = InHand
    <2>1. \A d \in Consumer : ItemsOf(d)' = ItemsOf(d)
      BY <1>4, SameItems
    <2> QED
      BY <2>1 DEF InHand
  <1>8. tailIndex \in Int /\ tailIndex' = tailIndex + k /\ Waiting' = Waiting \o From(tailIndex, tailIndex + k)
    BY <1>3, <1>4, <1>5, <1>6
  <1> QED
    BY <1>2, <1>7, <1>8, MappedEnqueue

(* AddHead is Claim. *)
LEMMA AddHeadClaims ==
  ASSUME QueueInv, QueueInv', NEW c \in Consumer, AddHead(c), UNCHANGED walk
  PROVE  Queue!Next
  <1>1. CountersInv /\ LocalsOk
    BY DEF QueueInv, BlocksInv
  <1>2. /\ claim[c].pc = "claim" /\ claim[c].next \in Int /\ claim[c].next > 0
        /\ headIndex' = headIndex + claim[c].next /\ tailIndex' = tailIndex
        /\ claim'[c].pc = "claimed" /\ claim'[c].next = headIndex /\ claim'[c].last = headIndex'
    BY <1>1, AddHeadStep
  <1>3. \A d \in Consumer : d # c => claim'[d] = claim[d]
    BY <1>1, ClaimItemsSteps DEF ClaimItems
  <1>4. PICK k \in Int : k = claim[c].next /\ 1 <= k /\ k <= Largest
    BY <1>2 DEF QueueInv, CallsBounded
  <1>5. PICK h \in Int, t \in Int : h = headIndex /\ t = tailIndex /\ h <= t
    BY DEF QueueInv
  <1>6. PICK g \in Int : g = h + k /\ headIndex' = g /\ g - h = k /\ h <= g
    <2>1. PICK g \in Int : g = h + k /\ g - h = k /\ h <= g
      BY <1>4
    <2>2. headIndex' = h + k
      BY <1>2, <1>4, <1>5
    <2> QED
      BY <2>1, <2>2
  <1>7. g <= t
    BY <1>2, <1>5, <1>6 DEF QueueInv
  <1>8. Waiting = From(h, t) /\ Waiting' = From(g, t)
    <2>1. tailIndex' = t /\ headIndex' = g /\ tailIndex = t /\ headIndex = h
      BY <1>2, <1>5, <1>6
    <2> QED
      BY <2>1 DEF Waiting, From
  <1>9. Len(Waiting) = t - h /\ k <= t - h
    <2>1. Len(From(h, t)) = t - h
      BY <1>5, FromFacts
    <2> QED
      BY <1>6, <1>7, <1>8, <2>1
  <1>10. /\ SubSeq(From(h, t), 1, g - h) = From(h, g)
         /\ SubSeq(From(h, t), g - h + 1, t - h) = From(g, t)
    <2>1. h <= g /\ g <= t
      BY <1>6, <1>7
    <2> QED
      BY <2>1, FromSplit
  <1>11. SubSeq(Waiting, 1, k) = From(h, g) /\ Waiting' = SubSeq(Waiting, k + 1, Len(Waiting))
    <2>1. /\ Len(Waiting) = t - h /\ g - h = k
          /\ Waiting = From(h, t) /\ Waiting' = From(g, t)
      BY <1>6, <1>8, <1>9
    <2>2. /\ SubSeq(Waiting, 1, k) = From(h, g)
          /\ SubSeq(Waiting, k + 1, Len(Waiting)) = From(g, t)
      BY <1>10, <2>1, Zenon
    <2> QED
      BY <2>1, <2>2
  <1>12. ItemsOf(c)' = From(h, g)
    <2>1. ItemsOf(c)' = walk'[c].out \o From(claim'[c].next, claim'[c].last)
      BY <1>2 DEF QueueInv
    <2>2. walk[c] = WalkIdle
      BY <1>1, <1>2 DEF LocalsOk, WalkOk
    <2>3. walk'[c].out = <<>>
      BY <2>2 DEF WalkIdle
    <2>4. PICK s \in Seq(Int) : s = From(h, g)
      BY <1>6, FromFacts
    <2>5. <<>> \o s = s
      OBVIOUS
    <2> QED
      BY <1>2, <1>5, <1>6, <2>1, <2>3, <2>4, <2>5
  <1>13. InHand' = [InHand EXCEPT ![c] = SubSeq(Waiting, 1, k)]
    <2>1. \A d \in Consumer : d # c => ItemsOf(d)' = ItemsOf(d)
      BY <1>3, SameItems
    <2> QED
      BY <1>11, <1>12, <2>1 DEF InHand
  <1>14. ItemsOf(c) = <<>>
    BY <1>2 DEF QueueInv
  <1> QED
    BY <1>2, <1>4, <1>9, <1>11, <1>13, <1>14, MappedClaim

(* Delivered is Deliver. *)
LEMMA DeliveredDelivers ==
  ASSUME QueueInv, QueueInv', NEW c \in Consumer, Delivered(c)
  PROVE  Queue!Next
  <1>1. CountersInv /\ StorageTypeOK /\ LocalsOk
    BY DEF QueueInv, BlocksInv
  <1>2. claim \in [Consumer -> Locals] /\ walk \in [Consumer -> Walks]
    BY <1>1 DEF CountersInv, CountersTypeOK, StorageTypeOK
  <1>3. /\ claim[c].pc = "claimed" /\ walk[c].pc = "return" /\ walk' = [walk EXCEPT ![c] = WalkIdle]
        /\ claim' = [claim EXCEPT ![c] = Unclaimed] /\ UNCHANGED <<tailIndex, headIndex>>
    BY DEF Delivered, Step, Return
  <1>4. ItemsOf(c)' = <<>>
    <2>1. claim'[c].pc = "idle"
      BY <1>2, <1>3 DEF Unclaimed
    <2> QED
      BY <2>1 DEF QueueInv
  <1>5. \A d \in Consumer : d # c => ItemsOf(d)' = ItemsOf(d)
    <2>1. \A d \in Consumer : d # c => claim'[d] = claim[d] /\ walk'[d] = walk[d]
      BY <1>2, <1>3
    <2> QED
      BY <2>1, SameItems
  <1>6. ItemsOf(c) # <<>>
    <2>1. PICK x \in Int, y \in Int, s \in Seq(Int) : x = claim[c].next /\ y = claim[c].last /\ s = walk[c].out
      BY <1>1, <1>2, <1>3, ClaimFacts DEF Walks
    <2>2. x = y /\ Len(s) > 0
      BY <1>1, <1>3, <2>1 DEF LocalsOk, WalkOk
    <2>3. PICK t \in Seq(Int) : t = From(x, y)
      BY <2>2, FromFacts
    <2>4. PICK v : v = s \o t
      OBVIOUS
    <2>5. v \in Seq(Int) /\ Len(v) = Len(s) + Len(t)
      BY <2>4, ConcatProperties
    <2>6. v # <<>>
      BY <2>2, <2>5
    <2> QED
      BY <1>3, <2>1, <2>3, <2>4, <2>6 DEF QueueInv
  <1>7. Waiting' = Waiting
    BY <1>3 DEF Waiting, From
  <1>8. InHand' = [InHand EXCEPT ![c] = <<>>]
    BY <1>4, <1>5 DEF InHand
  <1> QED
    BY <1>3, <1>6, <1>7, <1>8, MappedDeliver

(* Take moves items from the claim to what was read: they are the same      *)
(* items.                                                                   *)
LEMMA TakeMovesOn ==
  ASSUME QueueInv, QueueInv', NEW c \in Consumer, Take(c)
  PROVE  UNCHANGED Queue!vars
  <1>1. CountersInv /\ StorageTypeOK /\ LocalsOk
    BY DEF QueueInv, BlocksInv
  <1>2. claim[c].pc = "claimed"
    BY DEF Take
  <1>3. PICK H \in Int : Running(H)
    BY <1>2 DEF QueueInv, BlocksInv, Ended
  <1>4. PICK p \in Int, x \in Int, y \in Int, end \in Int : TakenFrom(c, p, x, y, end)
    BY <1>1, <1>3, TakeStep
  <1>5. /\ Taking(c, p, x, y, end) /\ TakenUpTo(c, end) /\ UNCHANGED <<tailIndex, headIndex>>
        /\ \A d \in Consumer : d # c => walk'[d] = walk[d]
        /\ walk'[c].out = walk[c].out \o [k \in 1..(end - x) |-> x + k - 1]
    BY <1>4 DEF TakenFrom
  <1>6. 0 <= x /\ x < end /\ end <= y
    <2>1. PICK s \in Int : s = Start(p)
      BY Starts
    <2>2. /\ 0 <= x /\ x < end /\ end <= y /\ y <= headIndex /\ y <= tailIndex
          /\ s <= x /\ end <= s + BLOCK_SIZE /\ (end < y => end = s + BLOCK_SIZE)
          /\ \A i \in Int : x <= i /\ i < end => Num(i) = p /\ Offset(i) = i - s /\ ~Gone(i)
          /\ p = Num(x) /\ (end < y => Num(end) = p + 1)
          /\ entry[EntryOf(c)].value = BlockAt(p) /\ BlockAt(p) \in Block
          /\ Alive(p) /\ ~Full(p) /\ 0 <= p /\ p <= Published
          /\ \A i \in Int : x <= i /\ i < end => slots[BlockAt(p)][i - s] = i
      <3>1. Taking(c, p, x, y, end)
        BY <1>5
      <3> QED
        BY <1>1, <1>3, <2>1, <3>1, TakeFacts
    <2> QED
      BY <2>2
  <1>7. /\ claim'[c].next = end /\ claim'[c].last = y /\ claim'[c].pc = "claimed"
        /\ \A d \in Consumer : d # c => claim'[d] = claim[d]
    BY <1>1, <1>3, <1>5, TakeGone
  <1>8. claim[c].next = x /\ claim[c].last = y
    BY <1>5 DEF Taking
  <1>9. ItemsOf(c)' = ItemsOf(c)
    <2>1. PICK s \in Seq(Int), t \in Seq(Int), u \in Seq(Int), v \in Seq(Int) :
            s = walk[c].out /\ t = From(x, end) /\ u = From(end, y) /\ v = From(x, y)
      <3>1. walk[c].out \in Seq(Int)
        BY <1>1 DEF StorageTypeOK, Walks
      <3>2. x <= end /\ x <= y
        BY <1>6
      <3> QED
        BY <1>6, <3>1, <3>2, FromFacts
    <2>2. t \o u = v
      <3>1. x <= end
        BY <1>6
      <3> QED
        BY <1>6, <2>1, <3>1, FromJoined
    <2>3. (s \o t) \o u = s \o v
      <3>1. (s \o t) \o u = s \o (t \o u)
        BY ConcatTwice
      <3> QED
        BY <2>2, <3>1, Zenon
    <2>4. walk'[c].out = s \o t
      BY <1>5, <2>1 DEF From
    <2>5. ItemsOf(c)' = (s \o t) \o u
      BY <1>7, <2>1, <2>4 DEF QueueInv
    <2>6. ItemsOf(c) = s \o v
      BY <1>2, <1>8, <2>1 DEF QueueInv
    <2> QED
      BY <2>3, <2>5, <2>6
  <1>10. \A d \in Consumer : ItemsOf(d)' = ItemsOf(d)
    <2>1. \A d \in Consumer : d # c => ItemsOf(d)' = ItemsOf(d)
      BY <1>5, <1>7, SameItems
    <2> QED
      BY <1>9, <2>1
  <1> QED
    BY <1>5, <1>10, QueueStutters

(* Of the steps up to a claim AddHead is Claim, the others stutter. *)
LEMMA ClaimClaims ==
  ASSUME QueueInv, QueueInv', NEW c \in Consumer, Claim(c)
  PROVE  Queue!Next \/ UNCHANGED Queue!vars
  <1>1. CountersInv /\ ClaimItems(c) /\ UNCHANGED walk
    BY DEF QueueInv, BlocksInv, Claim
  <1>2. CASE AddHead(c)
    BY <1>1, <1>2, AddHeadClaims
  <1>3. CASE ~AddHead(c)
    <2>1. /\ claim[c].pc # "claimed" /\ claim'[c].pc # "claimed" /\ UNCHANGED <<tailIndex, headIndex>>
          /\ \A d \in Consumer : d # c => claim'[d] = claim[d]
      BY <1>1, <1>3, ClaimItemsSteps
    <2>2. ItemsOf(c) = <<>> /\ ItemsOf(c)' = <<>>
      BY <2>1 DEF QueueInv
    <2>3. \A d \in Consumer : d # c => ItemsOf(d)' = ItemsOf(d)
      BY <1>1, <2>1, SameItems
    <2> QED
      BY <2>1, <2>2, <2>3, QueueStutters
  <1> QED
    BY <1>2, <1>3

(* The way through the index is invisible. *)
LEMMA WalkStutters ==
  ASSUME QueueInv, NEW c \in Consumer,
         LoadBlockIndex(c) \/ LoadKey(c) \/ Unlink(c) \/ add_block_to_free_list(c)
  PROVE  UNCHANGED Queue!vars
  <1>1. walk \in [Consumer -> Walks] /\ walk[c] \in Walks
    BY DEF QueueInv, BlocksInv, StorageTypeOK
  <1>2. UNCHANGED <<tailIndex, headIndex, claim>>
    BY DEF LoadBlockIndex, LoadKey, Unlink, add_block_to_free_list, counters
  <1>3. PICK w : walk' = [walk EXCEPT ![c] = w] /\ w.out = walk[c].out
    <2>1. CASE LoadBlockIndex(c)
      <3>1. PICK w : w = [walk[c] EXCEPT !.pc = "key", !.hdr = blockIndex, !.at = current.tail]
        OBVIOUS
      <3>2. w.out = walk[c].out
        BY <1>1, <3>1 DEF Walks
      <3> QED
        BY <2>1, <3>1, <3>2 DEF LoadBlockIndex, Step
    <2>2. CASE LoadKey(c)
      <3>1. PICK w : w = [walk[c] EXCEPT !.pc = "take",
                            !.at = IndexFor(header[walk[c].hdr], walk[c].at, claim[c].next)]
        OBVIOUS
      <3>2. w.out = walk[c].out
        BY <1>1, <3>1 DEF Walks
      <3> QED
        BY <2>2, <3>1, <3>2 DEF LoadKey, Step
    <2>3. CASE Unlink(c)
      <3>1. PICK w : w = [walk[c] EXCEPT !.pc = "release"]
        OBVIOUS
      <3>2. w.out = walk[c].out
        BY <1>1, <3>1 DEF Walks
      <3> QED
        BY <2>3, <3>1, <3>2 DEF Unlink, Step
    <2>4. CASE add_block_to_free_list(c)
      <3>1. PICK w : w = Further(walk[c], claim[c].next, claim[c].last)
        OBVIOUS
      <3>2. w.out = walk[c].out
        <4>1. CASE claim[c].next = claim[c].last
          <5>1. w = [WalkIdle EXCEPT !.pc = "return", !.out = walk[c].out]
            BY <3>1, <4>1 DEF Further
          <5> QED
            BY <5>1 DEF WalkIdle
        <4>2. CASE claim[c].next # claim[c].last
          <5>1. w = [walk[c] EXCEPT !.pc = "take", !.block = Null,
                                    !.at = (@ + 1) % header[walk[c].hdr].capacity]
            BY <3>1, <4>2 DEF Further
          <5> QED
            BY <1>1, <5>1 DEF Walks
        <4> QED
          BY <4>1, <4>2
      <3> QED
        BY <2>4, <3>1, <3>2 DEF add_block_to_free_list, Step
    <2> QED
      BY <2>1, <2>2, <2>3, <2>4
  <1>4. \A d \in Consumer : walk'[d].out = walk[d].out
    <2>1. walk'[c] = w /\ \A d \in Consumer : d # c => walk'[d] = walk[d]
      BY <1>1, <1>3
    <2> QED
      BY <1>3, <2>1
  <1>5. \A d \in Consumer : ItemsOf(d)' = ItemsOf(d)
    BY <1>2, <1>4, SameItems
  <1> QED
    BY <1>2, <1>5, QueueStutters

(* Every step is one of the abstract queue or a stutter. *)
LEMMA StepOfQueue ==
  ASSUME QueueInv, QueueInv', [Next]_vars
  PROVE  [Queue!Next]_(Queue!vars)
  <1>1. ASSUME UNCHANGED <<counters, walk>> PROVE UNCHANGED Queue!vars
    <2>1. UNCHANGED <<tailIndex, headIndex, claim, walk>>
      BY <1>1 DEF counters
    <2>2. \A d \in Consumer : ItemsOf(d)' = ItemsOf(d)
      BY <2>1, SameItems
    <2> QED
      BY <2>1, <2>2, QueueStutters
  <1>2. CASE producer
    <2>1. CASE Publish
      BY <2>1, PublishEnqueues
    <2>2. CASE ~Publish
      <3>1. UNCHANGED <<counters, walk>>
        BY <1>2, <2>2 DEF producer, enqueue_bulk, InsertKey, InsertTail, new_block_index,
           IndexAllocationFails, requisition_block, BlockAllocationFails, UndoEntry,
           add_blocks_to_free_list
      <3> QED
        BY <1>1, <3>1
    <2> QED
      BY <2>1, <2>2
  <1>3. CASE Destroy
    BY <1>1, <1>3 DEF Destroy
  <1>4. ASSUME NEW c \in Consumer, consumer(c) PROVE Queue!Next \/ UNCHANGED Queue!vars
    <2>1. CASE Claim(c)
      BY <2>1, ClaimClaims
    <2>2. CASE LoadBlockIndex(c) \/ LoadKey(c) \/ Unlink(c) \/ add_block_to_free_list(c)
      BY <2>2, WalkStutters
    <2>3. CASE Take(c)
      BY <2>3, TakeMovesOn
    <2>4. CASE Delivered(c)
      BY <2>4, DeliveredDelivers
    <2> QED
      BY <1>4, <2>1, <2>2, <2>3, <2>4 DEF consumer
  <1>5. CASE UNCHANGED vars
    BY <1>1, <1>5 DEF vars
  <1> QED
    BY <1>2, <1>3, <1>4, <1>5 DEF Next

(* One producer's sub-queue is a FIFO whose items go to one consumer each:  *)
(* whatever the order in which consumers claim, walk the index and free    *)
(* blocks, the items of a call leave in the order they came and are read   *)
(* from the slots they were written to.                                    *)
THEOREM SubQueueIsAQueue == Spec => ImplementsQueue
  <1>1. Init => Queue!Init /\ CallsBounded /\ ClaimsFilled /\ ProdCounts
    <2> SUFFICES ASSUME Init PROVE Queue!Init /\ CallsBounded /\ ClaimsFilled /\ ProdCounts
      OBVIOUS
    <2>1. tailIndex = 0 /\ headIndex = 0 /\ claim = [c \in Consumer |-> Unclaimed] /\ prod = ProdIdle
      BY DEF Init, CountersInit
    <2>2. \A c \in Consumer : claim[c].last = 0 /\ claim[c].pc = "idle" /\ claim[c].want = 0
      BY <2>1 DEF Unclaimed
    <2>3. 0 <= Largest
      BY LargestFacts, LargestCall
    <2>4. prod.pc = "idle" /\ prod.count = 0 /\ DOMAIN prod = {"pc", "count", "alloc", "slot"}
      BY <2>1 DEF ProdIdle
    <2>5. Waiting = <<>>
      <3>1. Waiting = From(0, 0)
        BY <2>1 DEF Waiting
      <3>2. From(0, 0) \in Seq(Int) /\ Len(From(0, 0)) = 0
        BY FromFacts
      <3> QED
        BY <3>1, <3>2
    <2>6. Queue!Init
      BY <2>1, <2>2, <2>5, MappedInit DEF ItemsOf
    <2>7. CallsBounded
      BY <2>2, <2>3, <2>4 DEF CallsBounded
    <2>8. ClaimsFilled /\ ProdCounts
      BY <2>2, <2>4 DEF ClaimsFilled, ProdCounts
    <2> QED
      BY <2>6, <2>7, <2>8
  <1>2. BlocksInv /\ CallsBounded /\ ClaimsFilled /\ [Next]_vars => (CallsBounded /\ ClaimsFilled)'
    BY CallsStayBounded, ClaimsStayFilled DEF BlocksInv
  <1>3. BlocksInv /\ CallsBounded /\ ClaimsFilled => QueueInv
    BY QueueInvHolds
  <1>4. QueueInv /\ QueueInv' /\ [Next]_vars => [Queue!Next]_(Queue!vars)
    BY StepOfQueue
  <1> QED
    BY <1>1, <1>2, <1>3, <1>4, BlocksInvariant, PTL DEF Spec, ImplementsQueue, Queue!Spec
=============================================================================
