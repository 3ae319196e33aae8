------------------------- MODULE BlockingQueueProofs -------------------------
(***************************************************************************)
(* Theorems about the semaphore over which consumers get their items: what *)
(* is granted is there, and nobody sleeps beside an item.  Both follow     *)
(* from two equations that every step keeps: one for m_count, one for the  *)
(* releases under way.                                                     *)
(***************************************************************************)
EXTENDS BlockingQueue, TotalsProofs

(***************************************************************************)
(* The inductive invariant                                                 *)
(***************************************************************************)

Waits == {"asleep", "adjust", "try_wait"}

Calls == [pc : {"idle", "trying", "spinning", "more", "dequeue"} \union Waits,
          kind : Kinds, max : Nat, granted : Nat]

(* Who has counted itself out in m_count and not been granted an item yet. *)
WaitsOf == [c \in Consumer |-> IF call[c].pc \in Waits THEN 1 ELSE 0]
GrantedOf == [c \in Consumer |-> call[c].granted]
Waiting == Total(WaitsOf)

QueueTypeOK ==
  /\ inner \in Nat /\ m_count \in Int /\ m_sema \in Nat
  /\ signals \in [Producer -> Nat] /\ posts \in [Producer -> Nat]
  /\ call \in [Consumer -> Calls]

(* What a call has been granted agrees with how far it is. *)
Fits(r) ==
  /\ r.pc = "more" => r.granted = 1
  /\ r.pc \notin {"more", "dequeue"} => r.granted = 0
  /\ r.pc # "idle" => r.max > 0

CallsFit == \A c \in Consumer : Fits(call[c])

(* m_count: signalled items that are not granted, less those who wait. *)
CountsItems == m_count = inner - Unsignalled - Granted - Waiting

(* Releases under way: one for each who waits, but for those whom m_count  *)
(* says there is no item yet.                                              *)
CountsReleases == m_sema + Unposted = Waiting + Smaller(m_count, 0)

(* A producer releases for one call before it begins the next. *)
OneCallEach == \A p \in Producer : signals[p] = 0 \/ posts[p] = 0

QueueInv == QueueTypeOK /\ CallsFit /\ OneCallEach /\ CountsItems /\ CountsReleases

LEMMA SumTypes ==
  ASSUME QueueTypeOK
  PROVE  /\ Unsignalled \in Nat /\ Unposted \in Nat
         /\ GrantedOf \in [Consumer -> Nat] /\ WaitsOf \in [Consumer -> Nat]
         /\ Granted \in Nat /\ Waiting \in Nat
  <1>1. /\ IsFiniteSet(Producer) /\ IsFiniteSet(Consumer)
        /\ signals \in [Producer -> Nat] /\ posts \in [Producer -> Nat]
    BY ThreadAssumption DEF QueueTypeOK
  <1>2. GrantedOf \in [Consumer -> Nat] /\ WaitsOf \in [Consumer -> Nat]
    BY DEF QueueTypeOK, Calls, GrantedOf, WaitsOf
  <1>3. Granted = Total(GrantedOf)
    BY DEF Granted, GrantedOf
  <1> QED
    BY <1>1, <1>2, <1>3, TotalType DEF Unsignalled, Unposted, Waiting

(* One call goes on to locals r. *)
WaitOf(r) == IF r.pc \in Waits THEN 1 ELSE 0

LEMMA CallChange ==
  ASSUME QueueTypeOK, CallsFit, NEW c \in Consumer, NEW r \in Calls, Fits(r),
         call' = [call EXCEPT ![c] = r]
  PROVE  /\ call' \in [Consumer -> Calls] /\ CallsFit'
         /\ Granted' = Granted - call[c].granted + r.granted
         /\ Waiting' = Waiting - WaitOf(call[c]) + WaitOf(r)
  <1>1. /\ call' \in [Consumer -> Calls] /\ call'[c] = r
        /\ \A d \in Consumer : d # c => call'[d] = call[d]
    BY DEF QueueTypeOK
  <1>2. CallsFit'
    BY <1>1 DEF CallsFit, Fits
  <1>3. /\ GrantedOf \in [Consumer -> Nat] /\ GrantedOf' \in [Consumer -> Nat]
        /\ WaitsOf \in [Consumer -> Nat] /\ WaitsOf' \in [Consumer -> Nat]
    BY <1>1, SumTypes DEF Calls, GrantedOf, WaitsOf
  <1>4. /\ GrantedOf[c] = call[c].granted /\ GrantedOf'[c] = r.granted
        /\ \A d \in Consumer : d # c => GrantedOf'[d] = GrantedOf[d]
    BY <1>1 DEF GrantedOf
  <1>5. /\ WaitsOf[c] = WaitOf(call[c]) /\ WaitsOf'[c] = WaitOf(r)
        /\ \A d \in Consumer : d # c => WaitsOf'[d] = WaitsOf[d]
    BY <1>1 DEF WaitsOf, WaitOf
  <1>6. Total(GrantedOf') = Total(GrantedOf) - GrantedOf[c] + GrantedOf'[c]
    BY <1>3, <1>4, ThreadAssumption, TotalChange
  <1>7. Total(WaitsOf') = Total(WaitsOf) - WaitsOf[c] + WaitsOf'[c]
    BY <1>3, <1>5, ThreadAssumption, TotalChange
  <1>8. Granted = Total(GrantedOf) /\ Granted' = Total(GrantedOf')
    BY DEF Granted, GrantedOf
  <1>9. Waiting = Total(WaitsOf) /\ Waiting' = Total(WaitsOf')
    BY DEF Waiting
  <1> QED
    BY <1>1, <1>2, <1>4, <1>5, <1>6, <1>7, <1>8, <1>9

(* A consumer's step, with what it has to add to the counts. *)
LEMMA ConsumerKeeps ==
  ASSUME QueueInv, NEW c \in Consumer, NEW r \in Calls, Fits(r),
         call' = [call EXCEPT ![c] = r], UNCHANGED <<signals, posts>>,
         inner' \in Nat, m_sema' \in Nat, m_count' \in Int,
         m_count' - m_count = (inner' - inner) - (r.granted - call[c].granted)
                                - (WaitOf(r) - WaitOf(call[c])),
         m_sema' - m_sema = (WaitOf(r) - WaitOf(call[c]))
                                + (Smaller(m_count', 0) - Smaller(m_count, 0))
  PROVE  QueueInv'
  <1>1. /\ QueueTypeOK /\ CallsFit /\ CountsItems /\ CountsReleases
        /\ inner \in Nat /\ m_sema \in Nat /\ m_count \in Int
        /\ call[c].granted \in Nat /\ r.granted \in Nat
    BY DEF QueueInv, QueueTypeOK, Calls
  <1>2. /\ call' \in [Consumer -> Calls] /\ CallsFit'
        /\ Granted' = Granted - call[c].granted + r.granted
        /\ Waiting' = Waiting - WaitOf(call[c]) + WaitOf(r)
    BY <1>1, CallChange
  <1>3. QueueTypeOK'
    BY <1>1, <1>2 DEF QueueTypeOK
  <1>4. Unsignalled' = Unsignalled /\ Unposted' = Unposted
    BY DEF Unsignalled, Unposted
  <1>5. /\ Unsignalled \in Nat /\ Unposted \in Nat /\ Granted \in Nat /\ Waiting \in Nat
        /\ WaitOf(r) \in Nat /\ WaitOf(call[c]) \in Nat
    BY <1>1, SumTypes DEF WaitOf
  <1>6. CountsItems'
    <2>1. m_count = inner - Unsignalled - Granted - Waiting
      BY <1>1 DEF CountsItems
    <2>2. m_count' = inner' - Unsignalled' - Granted' - Waiting'
      BY <1>1, <1>2, <1>4, <1>5, <2>1
    <2> QED
      BY <2>2 DEF CountsItems
  <1>7. CountsReleases'
    <2>1. m_sema + Unposted = Waiting + Smaller(m_count, 0)
      BY <1>1 DEF CountsReleases
    <2>2. Smaller(m_count, 0) \in Int /\ Smaller(m_count', 0) \in Int
      BY <1>1 DEF Smaller
    <2>3. m_sema' + Unposted' = Waiting' + Smaller(m_count', 0)
      BY <1>1, <1>2, <1>4, <1>5, <2>1, <2>2
    <2> QED
      BY <2>3 DEF CountsReleases, Smaller
  <1> QED
    BY <1>2, <1>3, <1>6, <1>7 DEF QueueInv, OneCallEach

(* The same of a producer. *)
LEMMA ProducerKeeps ==
  ASSUME QueueInv, NEW p \in Producer, NEW s \in Nat, NEW n \in Nat,
         signals' = [signals EXCEPT ![p] = s], posts' = [posts EXCEPT ![p] = n], call' = call,
         s = 0 \/ n = 0,
         inner' \in Nat, m_sema' \in Nat, m_count' \in Int,
         m_count' - m_count = (inner' - inner) - (s - signals[p]),
         m_sema' - m_sema = (Smaller(m_count', 0) - Smaller(m_count, 0)) - (n - posts[p])
  PROVE  QueueInv'
  <1>1. /\ QueueTypeOK /\ CallsFit /\ CountsItems /\ CountsReleases
        /\ inner \in Nat /\ m_sema \in Nat /\ m_count \in Int
        /\ signals \in [Producer -> Nat] /\ posts \in [Producer -> Nat]
    BY DEF QueueInv, QueueTypeOK
  <1>2. /\ signals' \in [Producer -> Nat] /\ posts' \in [Producer -> Nat]
        /\ signals'[p] = s /\ posts'[p] = n /\ signals[p] \in Nat /\ posts[p] \in Nat
        /\ \A q \in Producer : q # p => signals'[q] = signals[q]
        /\ \A q \in Producer : q # p => posts'[q] = posts[q]
    BY <1>1
  <1>3. QueueTypeOK' /\ CallsFit' /\ OneCallEach'
    <2>1. inner' \in Nat /\ m_sema' \in Nat /\ m_count' \in Int /\ call' = call
      OBVIOUS
    <2>2. CallsFit'
      BY <1>1, <2>1 DEF CallsFit, Fits
    <2>3. call' \in [Consumer -> Calls]
      BY <1>1, <2>1 DEF QueueTypeOK
    <2>4. OneCallEach'
      BY <1>1, <1>2 DEF QueueInv, OneCallEach
    <2> QED
      BY <1>2, <2>1, <2>2, <2>3, <2>4 DEF QueueTypeOK
  <1>4. Total(signals') = Total(signals) - signals[p] + signals'[p]
    <2>1. /\ signals \in [Producer -> Nat] /\ signals' \in [Producer -> Nat]
          /\ \A q \in Producer : q # p => signals'[q] = signals[q]
      BY <1>1, <1>2
    <2> QED
      BY ONLY <2>1, p \in Producer, ThreadAssumption, TotalChange
  <1>5. Total(posts') = Total(posts) - posts[p] + posts'[p]
    <2>1. /\ posts \in [Producer -> Nat] /\ posts' \in [Producer -> Nat]
          /\ \A q \in Producer : q # p => posts'[q] = posts[q]
      BY <1>1, <1>2
    <2> QED
      BY ONLY <2>1, p \in Producer, ThreadAssumption, TotalChange
  <1>50. Unsignalled' = Unsignalled - signals[p] + s /\ Unposted' = Unposted - posts[p] + n
    BY <1>2, <1>4, <1>5 DEF Unsignalled, Unposted
  <1>6. Granted' = Granted /\ Waiting' = Waiting
    BY DEF Granted, Waiting, WaitsOf
  <1>7. Unsignalled \in Nat /\ Unposted \in Nat /\ Granted \in Nat /\ Waiting \in Nat
    BY <1>1, SumTypes
  <1>8. CountsItems'
    <2>1. m_count = inner - Unsignalled - Granted - Waiting
      BY <1>1 DEF CountsItems
    <2>2. m_count' = inner' - Unsignalled' - Granted' - Waiting'
      BY <1>1, <1>2, <1>50, <1>6, <1>7, <2>1
    <2> QED
      BY <2>2 DEF CountsItems
  <1>9. CountsReleases'
    <2>1. m_sema + Unposted = Waiting + Smaller(m_count, 0)
      BY <1>1 DEF CountsReleases
    <2>2. Smaller(m_count, 0) \in Int /\ Smaller(m_count', 0) \in Int
      BY <1>1 DEF Smaller
    <2>3. m_sema' + Unposted' = Waiting' + Smaller(m_count', 0)
      BY <1>1, <1>2, <1>50, <1>6, <1>7, <2>1, <2>2
    <2> QED
      BY <2>3 DEF CountsReleases, Smaller
  <1> QED
    BY <1>3, <1>8, <1>9 DEF QueueInv

(***************************************************************************)
(* The steps                                                               *)
(***************************************************************************)

LEMMA InitQueue == Init => QueueInv
  <1> SUFFICES ASSUME Init PROVE QueueInv
    OBVIOUS
  <1>1. QueueTypeOK /\ CallsFit /\ OneCallEach
    BY DEF Init, NoCall, QueueTypeOK, Calls, Kinds, Waits, CallsFit, Fits, OneCallEach
  <1>2. Unsignalled = 0 /\ Unposted = 0
    BY TotalZero DEF Init, Unsignalled, Unposted
  <1>3. /\ GrantedOf \in [Consumer -> Nat] /\ WaitsOf \in [Consumer -> Nat]
        /\ \A c \in Consumer : GrantedOf[c] = 0 /\ WaitsOf[c] = 0
    BY <1>1, SumTypes DEF Init, NoCall, GrantedOf, WaitsOf, Waits
  <1>4. Granted = 0 /\ Waiting = 0
    <2>1. Granted = Total(GrantedOf)
      BY DEF Granted, GrantedOf
    <2> QED
      BY <1>3, <2>1, TotalZero DEF Waiting
  <1> QED
    BY <1>1, <1>2, <1>4 DEF Init, QueueInv, CountsItems, CountsReleases, Smaller

LEMMA ProducerStep ==
  ASSUME QueueInv, NEW p \in Producer, producer(p)
  PROVE  QueueInv'
  <1>0. /\ inner \in Nat /\ m_sema \in Nat /\ m_count \in Int
        /\ signals \in [Producer -> Nat] /\ posts \in [Producer -> Nat]
        /\ signals[p] \in Nat /\ posts[p] \in Nat
    BY DEF QueueInv, QueueTypeOK
  <1>1. ASSUME NEW k \in EnqueueSize, enqueue(p, k) PROVE QueueInv'
    <2>1. k \in Nat
      BY SizeAssumption
    <2>2. /\ signals' = [signals EXCEPT ![p] = k] /\ posts' = [posts EXCEPT ![p] = 0]
          /\ call' = call /\ inner' = inner + k /\ m_sema' = m_sema /\ m_count' = m_count
          /\ signals[p] = 0 /\ posts[p] = 0
      BY <1>0, <1>1 DEF enqueue
    <2>3. /\ m_count' - m_count = (inner' - inner) - (k - signals[p])
          /\ m_sema' - m_sema
               = (Smaller(m_count', 0) - Smaller(m_count, 0)) - (0 - posts[p])
          /\ inner' \in Nat /\ m_sema' \in Nat /\ m_count' \in Int
      BY <1>0, <2>1, <2>2 DEF Smaller
    <2> QED
      BY <1>0, <2>1, <2>2, <2>3, ProducerKeeps
  <1>2. ASSUME signal(p) PROVE QueueInv'
    <2> DEFINE n == Larger(0, ToRelease(signals[p]))
    <2>0. posts[p] = 0
      BY <1>0, <1>2 DEF signal, QueueInv, OneCallEach
    <2>1. n \in Nat /\ n = Smaller(m_count + signals[p], 0) - Smaller(m_count, 0)
      BY <1>0 DEF Larger, ToRelease, Smaller
    <2>2. /\ signals' = [signals EXCEPT ![p] = 0] /\ posts' = [posts EXCEPT ![p] = n]
          /\ call' = call /\ inner' = inner /\ m_sema' = m_sema
          /\ m_count' = m_count + signals[p]
      BY <1>2 DEF signal
    <2> HIDE DEF n
    <2>3. /\ m_count' - m_count = (inner' - inner) - (0 - signals[p])
          /\ m_sema' - m_sema = (Smaller(m_count', 0) - Smaller(m_count, 0)) - (n - posts[p])
          /\ inner' \in Nat /\ m_sema' \in Nat /\ m_count' \in Int
      BY <1>0, <2>0, <2>1, <2>2 DEF Smaller
    <2> QED
      BY <2>1, <2>2, <2>3, ProducerKeeps
  <1>3. ASSUME Post(p) PROVE QueueInv'
    <2>0. PICK n \in Nat : n = posts[p] - 1
      BY <1>0, <1>3 DEF Post
    <2>1. /\ signals[p] = 0 /\ signals' = [signals EXCEPT ![p] = 0]
          /\ posts' = [posts EXCEPT ![p] = n]
          /\ call' = call /\ inner' = inner /\ m_sema' = m_sema + 1 /\ m_count' = m_count
      BY <1>0, <1>3, <2>0 DEF Post, QueueInv, OneCallEach
    <2>2. /\ m_count' - m_count = (inner' - inner) - (0 - signals[p])
          /\ m_sema' - m_sema
               = (Smaller(m_count', 0) - Smaller(m_count, 0)) - (n - posts[p])
          /\ inner' \in Nat /\ m_sema' \in Nat /\ m_count' \in Int
      BY <1>0, <2>0, <2>1 DEF Smaller
    <2> QED
      BY <1>0, <2>0, <2>1, <2>2, ProducerKeeps
  <1> QED
    BY <1>1, <1>2, <1>3 DEF producer

LEMMA ConsumerStep ==
  ASSUME QueueInv, NEW c \in Consumer, consumer(c)
  PROVE  QueueInv'
  <1>0. /\ inner \in Nat /\ m_sema \in Nat /\ m_count \in Int
        /\ call[c] \in Calls /\ call[c].granted \in Nat /\ call[c].max \in Nat
        /\ Fits(call[c])
    BY DEF QueueInv, QueueTypeOK, Calls, CallsFit
  <1> USE DEF Become, Kinds
  <1>1. ASSUME NEW kind \in Kinds, NEW k \in DequeueSize, dequeue(c, kind, k) PROVE QueueInv'
    <2>1. PICK r : r = [pc |-> "trying", kind |-> kind, max |-> k, granted |-> 0]
      OBVIOUS
    <2>2. r \in Calls /\ Fits(r) /\ WaitOf(r) = 0 /\ r.granted = 0
      BY <2>1, SizeAssumption DEF Calls, Fits, WaitOf, Waits
    <2>3. WaitOf(call[c]) = 0 /\ call[c].granted = 0
      BY <1>0, <1>1 DEF dequeue, WaitOf, Waits, Fits
    <2>4. /\ call' = [call EXCEPT ![c] = r] /\ UNCHANGED <<signals, posts>>
          /\ inner' = inner /\ m_sema' = m_sema /\ m_count' = m_count
      BY <1>1, <2>1 DEF dequeue
    <2>5. /\ m_count' - m_count = (inner' - inner) - (r.granted - call[c].granted)
                                    - (WaitOf(r) - WaitOf(call[c]))
          /\ m_sema' - m_sema = (WaitOf(r) - WaitOf(call[c]))
                                    + (Smaller(m_count', 0) - Smaller(m_count, 0))
          /\ inner' \in Nat /\ m_sema' \in Nat /\ m_count' \in Int
      BY <1>0, <2>2, <2>3, <2>4 DEF Smaller
    <2> QED
      BY <1>0, <2>2, <2>4, <2>5, ConsumerKeeps
  <1>2. ASSUME tryWaitMany(c) PROVE QueueInv'
    <2>1. PICK n \in Nat : n = Smaller(call[c].max, m_count) /\ n <= m_count
      BY <1>0, <1>2 DEF tryWaitMany, Smaller
    <2>2. PICK r : r = [call[c] EXCEPT !.pc = "dequeue", !.granted = n]
      OBVIOUS
    <2>3. r \in Calls /\ Fits(r) /\ WaitOf(r) = 0 /\ r.granted = n
      BY <1>0, <1>2, <2>2 DEF tryWaitMany, Calls, Fits, WaitOf, Waits
    <2>4. WaitOf(call[c]) = 0 /\ call[c].granted = 0
      BY <1>0, <1>2 DEF tryWaitMany, WaitOf, Waits, Fits
    <2>5. /\ call' = [call EXCEPT ![c] = r] /\ UNCHANGED <<signals, posts>>
          /\ inner' = inner /\ m_sema' = m_sema /\ m_count' = m_count - n
      BY <1>2, <2>1, <2>2 DEF tryWaitMany, Grant
    <2>6. /\ m_count' - m_count = (inner' - inner) - (r.granted - call[c].granted)
                                    - (WaitOf(r) - WaitOf(call[c]))
          /\ m_sema' - m_sema = (WaitOf(r) - WaitOf(call[c]))
                                    + (Smaller(m_count', 0) - Smaller(m_count, 0))
          /\ inner' \in Nat /\ m_sema' \in Nat /\ m_count' \in Int
      BY <1>0, <2>1, <2>3, <2>4, <2>5 DEF Smaller
    <2> QED
      BY <1>0, <2>3, <2>5, <2>6, ConsumerKeeps
  (* Steps that only move the call on, whether it waits or not. *)
  <1>3. ASSUME NEW r \in Calls, Fits(r), r.granted = call[c].granted, WaitOf(r) = WaitOf(call[c]),
               call' = [call EXCEPT ![c] = r],
               UNCHANGED <<inner, m_count, m_sema, signals, posts>>
        PROVE  QueueInv'
    <2>1. /\ m_count' - m_count = (inner' - inner) - (r.granted - call[c].granted)
                                    - (WaitOf(r) - WaitOf(call[c]))
          /\ m_sema' - m_sema = (WaitOf(r) - WaitOf(call[c]))
                                    + (Smaller(m_count', 0) - Smaller(m_count, 0))
          /\ inner' \in Nat /\ m_sema' \in Nat /\ m_count' \in Int
      BY <1>0, <1>3 DEF Smaller, WaitOf
    <2> QED
      BY <1>0, <1>3, <2>1, ConsumerKeeps
  (* Steps that take one release. *)
  <1>4. ASSUME call[c].pc \in Waits, call' = [call EXCEPT ![c] = GrantOne(c)],
               m_sema > 0, m_sema' = m_sema - 1, UNCHANGED <<inner, m_count, signals, posts>>
        PROVE  QueueInv'
    <2>1. PICK r : r = GrantOne(c)
      OBVIOUS
    <2>2. r \in Calls /\ Fits(r) /\ WaitOf(r) = 0 /\ r.granted = 1
      BY <1>0, <1>4, <2>1 DEF GrantOne, Grant, Calls, Fits, WaitOf, Waits
    <2>3. WaitOf(call[c]) = 1 /\ call[c].granted = 0
      BY <1>0, <1>4 DEF WaitOf, Waits, Fits
    <2>4. /\ m_count' - m_count = (inner' - inner) - (r.granted - call[c].granted)
                                    - (WaitOf(r) - WaitOf(call[c]))
          /\ m_sema' - m_sema = (WaitOf(r) - WaitOf(call[c]))
                                    + (Smaller(m_count', 0) - Smaller(m_count, 0))
          /\ inner' \in Nat /\ m_sema' \in Nat /\ m_count' \in Int
      BY <1>0, <1>4, <2>2, <2>3 DEF Smaller
    <2> QED
      BY <1>4, <2>1, <2>2, <2>4, ConsumerKeeps
  <1>5. ASSUME TryFails(c) PROVE QueueInv'
    <2>1. PICK r : r = IF call[c].kind = "try" THEN NoCall ELSE [call[c] EXCEPT !.pc = "spinning"]
      OBVIOUS
    <2>2. r \in Calls /\ Fits(r) /\ WaitOf(r) = 0 /\ r.granted = 0
      BY <1>0, <1>5, <2>1 DEF TryFails, NoCall, Calls, Fits, WaitOf, Waits
    <2>3. WaitOf(call[c]) = 0 /\ call[c].granted = 0
      BY <1>0, <1>5 DEF TryFails, WaitOf, Waits, Fits
    <2> QED
      BY <1>3, <1>5, <2>1, <2>2, <2>3 DEF TryFails
  <1>6. ASSUME SpinEnds(c) PROVE QueueInv'
    <2>0. /\ WaitOf(call[c]) = 0 /\ call[c].granted = 0 /\ call[c].pc = "spinning"
          /\ UNCHANGED <<signals, posts>>
          /\ inner' = inner /\ m_sema' = m_sema /\ m_count' = m_count - 1
      BY <1>0, <1>6 DEF SpinEnds, WaitOf, Waits, Fits
    <2>1. CASE m_count > 0
      <3>1. PICK r : r = GrantOne(c)
        OBVIOUS
      <3>2. r \in Calls /\ Fits(r) /\ WaitOf(r) = 0 /\ r.granted = 1
        BY <1>0, <2>0, <3>1 DEF GrantOne, Grant, Calls, Fits, WaitOf, Waits
      <3>3. call' = [call EXCEPT ![c] = r]
        BY <1>6, <2>1, <3>1 DEF SpinEnds
      <3>4. /\ m_count' - m_count = (inner' - inner) - (r.granted - call[c].granted)
                                      - (WaitOf(r) - WaitOf(call[c]))
            /\ m_sema' - m_sema = (WaitOf(r) - WaitOf(call[c]))
                                      + (Smaller(m_count', 0) - Smaller(m_count, 0))
            /\ inner' \in Nat /\ m_sema' \in Nat /\ m_count' \in Int
        BY <1>0, <2>0, <2>1, <3>2 DEF Smaller
      <3> QED
        BY <1>0, <2>0, <3>2, <3>3, <3>4, ConsumerKeeps
    <2>2. CASE ~(m_count > 0)
      <3>1. PICK r : r = [call[c] EXCEPT !.pc = "asleep"]
        OBVIOUS
      <3>2. r \in Calls /\ Fits(r) /\ WaitOf(r) = 1 /\ r.granted = 0
        BY <1>0, <2>0, <3>1 DEF Calls, Fits, WaitOf, Waits
      <3>3. call' = [call EXCEPT ![c] = r]
        BY <1>6, <2>2, <3>1 DEF SpinEnds
      <3>4. /\ m_count' - m_count = (inner' - inner) - (r.granted - call[c].granted)
                                      - (WaitOf(r) - WaitOf(call[c]))
            /\ m_sema' - m_sema = (WaitOf(r) - WaitOf(call[c]))
                                      + (Smaller(m_count', 0) - Smaller(m_count, 0))
            /\ inner' \in Nat /\ m_sema' \in Nat /\ m_count' \in Int
        BY <1>0, <2>0, <2>2, <3>2 DEF Smaller
      <3> QED
        BY <1>0, <2>0, <3>2, <3>3, <3>4, ConsumerKeeps
    <2> QED
      BY <2>1, <2>2
  <1>7. ASSUME Wakes(c) PROVE QueueInv'
    BY <1>4, <1>7 DEF Wakes, Waits
  <1>8. ASSUME TimesOut(c) PROVE QueueInv'
    <2>1. PICK r : r = [call[c] EXCEPT !.pc = "adjust"]
      OBVIOUS
    <2>2. r \in Calls /\ Fits(r) /\ WaitOf(r) = WaitOf(call[c]) /\ r.granted = call[c].granted
      BY <1>0, <1>8, <2>1 DEF TimesOut, Calls, Fits, WaitOf, Waits
    <2> QED
      BY <1>3, <1>8, <2>1, <2>2 DEF TimesOut
  <1>9. ASSUME SeesRelease(c) PROVE QueueInv'
    <2>1. PICK r : r = [call[c] EXCEPT !.pc = "try_wait"]
      OBVIOUS
    <2>2. r \in Calls /\ Fits(r) /\ WaitOf(r) = WaitOf(call[c]) /\ r.granted = call[c].granted
      BY <1>0, <1>9, <2>1 DEF SeesRelease, Calls, Fits, WaitOf, Waits
    <2> QED
      BY <1>3, <1>9, <2>1, <2>2 DEF SeesRelease
  <1>10. ASSUME try_wait(c) PROVE QueueInv'
    <2>1. CASE m_sema > 0
      BY <1>4, <1>10, <2>1 DEF try_wait, Waits
    <2>2. CASE ~(m_sema > 0)
      <3>1. PICK r : r = [call[c] EXCEPT !.pc = "adjust"]
        OBVIOUS
      <3>2. r \in Calls /\ Fits(r) /\ WaitOf(r) = WaitOf(call[c]) /\ r.granted = call[c].granted
        BY <1>0, <1>10, <3>1 DEF try_wait, Calls, Fits, WaitOf, Waits
      <3> QED
        BY <1>3, <1>10, <2>2, <3>1, <3>2 DEF try_wait
    <2> QED
      BY <2>1, <2>2
  <1>11. ASSUME Withdraw(c) PROVE QueueInv'
    <2>1. PICK r : r = NoCall
      OBVIOUS
    <2>2. r \in Calls /\ Fits(r) /\ WaitOf(r) = 0 /\ r.granted = 0
      BY <2>1 DEF NoCall, Calls, Fits, WaitOf, Waits
    <2>3. WaitOf(call[c]) = 1 /\ call[c].granted = 0
      BY <1>0, <1>11 DEF Withdraw, WaitOf, Waits, Fits
    <2>4. /\ call' = [call EXCEPT ![c] = r] /\ UNCHANGED <<signals, posts>>
          /\ inner' = inner /\ m_sema' = m_sema /\ m_count' = m_count + 1 /\ m_count < 0
      BY <1>11, <2>1 DEF Withdraw
    <2>5. /\ m_count' - m_count = (inner' - inner) - (r.granted - call[c].granted)
                                    - (WaitOf(r) - WaitOf(call[c]))
          /\ m_sema' - m_sema = (WaitOf(r) - WaitOf(call[c]))
                                    + (Smaller(m_count', 0) - Smaller(m_count, 0))
          /\ inner' \in Nat /\ m_sema' \in Nat /\ m_count' \in Int
      <3>1. m_count \in Int /\ inner \in Nat /\ m_sema \in Nat
        BY <1>0
      <3>2. Smaller(m_count, 0) = m_count /\ Smaller(m_count', 0) = m_count'
        BY <2>4, <3>1 DEF Smaller
      <3>3. m_count' - m_count = 1 /\ m_count' \in Int
        BY <2>4, <3>1
      <3>4. inner' - inner = 0 /\ m_sema' - m_sema = 0
        BY <2>4, <3>1
      <3>5. r.granted - call[c].granted = 0 /\ WaitOf(r) - WaitOf(call[c]) = -1
        BY <2>2, <2>3
      <3>6. inner' \in Nat /\ m_sema' \in Nat
        BY <2>4, <3>1
      <3> QED
        BY ONLY <3>2, <3>3, <3>4, <3>5, <3>6
    <2> QED
      BY <1>0, <2>2, <2>4, <2>5, ConsumerKeeps
  <1>12. ASSUME More(c) PROVE QueueInv'
    <2>0. call[c].pc = "more" /\ call[c].granted = 1 /\ call[c].max > 0
      BY <1>0, <1>12 DEF More, Fits
    <2>1. PICK n \in Nat : /\ n = IF m_count > 0 THEN Smaller(call[c].max - 1, m_count) ELSE 0
                           /\ n = 0 \/ n <= m_count
      BY <1>0, <2>0 DEF Smaller
    <2>2. PICK r : r = [call[c] EXCEPT !.pc = "dequeue", !.granted = 1 + n]
      OBVIOUS
    <2>3. r \in Calls /\ Fits(r) /\ WaitOf(r) = 0 /\ r.granted = 1 + n
      <3>1. PICK g \in Nat : g = 1 + n
        OBVIOUS
      <3>2. r = [call[c] EXCEPT !.pc = "dequeue", !.granted = g]
        BY <2>2, <3>1
      <3> QED
        BY <1>0, <2>0, <3>1, <3>2 DEF Calls, Fits, WaitOf, Waits
    <2>4. WaitOf(call[c]) = 0
      BY <2>0 DEF WaitOf, Waits
    <2>5. /\ call' = [call EXCEPT ![c] = r] /\ UNCHANGED <<signals, posts>>
          /\ inner' = inner /\ m_sema' = m_sema /\ m_count' = m_count - n
      BY <1>12, <2>1, <2>2 DEF More, Grant
    <2>6. /\ m_count' - m_count = (inner' - inner) - (r.granted - call[c].granted)
                                    - (WaitOf(r) - WaitOf(call[c]))
          /\ m_sema' - m_sema = (WaitOf(r) - WaitOf(call[c]))
                                    + (Smaller(m_count', 0) - Smaller(m_count, 0))
          /\ inner' \in Nat /\ m_sema' \in Nat /\ m_count' \in Int
      BY <1>0, <2>0, <2>1, <2>3, <2>4, <2>5 DEF Smaller
    <2> QED
      BY <1>0, <2>3, <2>5, <2>6, ConsumerKeeps
  <1>13. ASSUME Dequeue(c) PROVE QueueInv'
    <2>0. call[c].pc = "dequeue"
      BY <1>13 DEF Dequeue
    <2>1. PICK n \in 1..Smaller(inner, call[c].granted) :
             /\ inner' = inner - n
             /\ call' = [call EXCEPT ![c] = IF n = call[c].granted THEN NoCall
                                            ELSE [call[c] EXCEPT !.granted = @ - n]]
      BY <1>13 DEF Dequeue
    <2>2. n \in Nat /\ n <= inner /\ n <= call[c].granted
      BY <1>0 DEF Smaller
    <2>3. PICK r : r = IF n = call[c].granted THEN NoCall ELSE [call[c] EXCEPT !.granted = @ - n]
      OBVIOUS
    <2>4. r \in Calls /\ Fits(r) /\ WaitOf(r) = 0 /\ r.granted = call[c].granted - n
      <3>1. PICK g \in Nat : g = call[c].granted - n
        BY <1>0, <2>2
      <3>2. CASE n = call[c].granted
        BY <1>0, <2>3, <3>2 DEF NoCall, Calls, Fits, WaitOf, Waits
      <3>3. CASE n # call[c].granted
        <4>1. r = [call[c] EXCEPT !.granted = g]
          BY <2>3, <3>1, <3>3
        <4> QED
          BY <1>0, <2>0, <3>1, <4>1 DEF Calls, Fits, WaitOf, Waits
      <3> QED
        BY <3>2, <3>3
    <2>5. WaitOf(call[c]) = 0
      BY <2>0 DEF WaitOf, Waits
    <2>6. /\ call' = [call EXCEPT ![c] = r] /\ UNCHANGED <<signals, posts>>
          /\ m_sema' = m_sema /\ m_count' = m_count
      BY <1>13, <2>1, <2>3 DEF Dequeue
    <2>7. /\ m_count' - m_count = (inner' - inner) - (r.granted - call[c].granted)
                                    - (WaitOf(r) - WaitOf(call[c]))
          /\ m_sema' - m_sema = (WaitOf(r) - WaitOf(call[c]))
                                    + (Smaller(m_count', 0) - Smaller(m_count, 0))
          /\ inner' \in Nat /\ m_sema' \in Nat /\ m_count' \in Int
      BY <1>0, <2>1, <2>2, <2>4, <2>5, <2>6 DEF Smaller
    <2> QED
      BY <2>4, <2>6, <2>7, ConsumerKeeps
  <1> QED
    BY <1>1, <1>2, <1>5, <1>6, <1>7, <1>8, <1>9, <1>10, <1>11, <1>12, <1>13 DEF consumer, WaitStep

(***************************************************************************)
(* The theorems                                                            *)
(***************************************************************************)

(* The two equations hold for any number of threads and items. *)
THEOREM QueueInvariant == Spec => []QueueInv
  <1>1. QueueInv /\ [Next]_vars => QueueInv'
    <2> SUFFICES ASSUME QueueInv, [Next]_vars PROVE QueueInv'
      OBVIOUS
    <2>1. CASE UNCHANGED vars
      <3>1. QueueTypeOK' /\ CallsFit' /\ OneCallEach'
        BY <2>1 DEF vars, QueueInv, QueueTypeOK, CallsFit, Fits, OneCallEach
      <3>2. /\ Unsignalled' = Unsignalled /\ Unposted' = Unposted
            /\ Granted' = Granted /\ Waiting' = Waiting
        BY <2>1 DEF vars, Unsignalled, Unposted, Granted, Waiting, WaitsOf
      <3> QED
        BY <2>1, <3>1, <3>2 DEF vars, QueueInv, CountsItems, CountsReleases, Smaller
    <2> QED
      BY <2>1, ProducerStep, ConsumerStep DEF Next
  <1> QED
    BY <1>1, InitQueue, PTL DEF Spec

(* What is granted is in the queue, so that a consumer's loop around       *)
(* try_dequeue ends.                                                       *)
THEOREM GrantedIsThereAlways == Spec => []GrantedIsThere
  <1>1. QueueInv => GrantedIsThere
    <2> SUFFICES ASSUME QueueInv PROVE GrantedIsThere
      OBVIOUS
    <2>1. /\ inner \in Nat /\ m_count \in Int /\ m_sema \in Nat
          /\ Unsignalled \in Nat /\ Unposted \in Nat /\ Granted \in Nat /\ Waiting \in Nat
      BY SumTypes DEF QueueInv, QueueTypeOK
    <2> QED
      BY <2>1 DEF QueueInv, CountsItems, CountsReleases, GrantedIsThere, Smaller
  <1> QED
    BY <1>1, QueueInvariant, PTL

(* If no release is on its way to those who sleep, every signalled item is *)
(* granted to somebody.                                                    *)
THEOREM NoLostWakeupAlways == Spec => []NoLostWakeup
  <1>1. QueueInv => NoLostWakeup
    <2> SUFFICES ASSUME QueueInv, NEW c \in Consumer, call[c].pc = "asleep",
                        m_sema = 0, Unposted = 0
                 PROVE  inner - Unsignalled = Granted
      BY DEF NoLostWakeup
    <2>1. /\ inner \in Nat /\ m_count \in Int
          /\ Unsignalled \in Nat /\ Granted \in Nat /\ Waiting \in Nat
          /\ WaitsOf \in [Consumer -> Nat]
      BY SumTypes DEF QueueInv, QueueTypeOK
    <2>2. 1 <= Waiting
      <3>1. WaitsOf[c] = 1
        BY DEF WaitsOf, Waits
      <3>2. WaitsOf[c] <= Total(WaitsOf)
        BY <2>1, ThreadAssumption, TotalPart
      <3> QED
        BY <3>1, <3>2 DEF Waiting
    <2> QED
      BY <2>1, <2>2 DEF QueueInv, CountsItems, CountsReleases, Smaller
  <1> QED
    BY <1>1, QueueInvariant, PTL
=============================================================================
