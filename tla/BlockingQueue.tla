---------------------------- MODULE BlockingQueue ----------------------------
(***************************************************************************)
(* The queue on which consumers sleep while it is empty                    *)
(* (thirdparty/concurrentqueue, blockingconcurrentqueue.h over             *)
(* lightweightsemaphore.h): an item is enqueued and then signalled, and a  *)
(* consumer looks for an item only when the semaphore has granted it one.  *)
(* The semaphore counts in m_count, below zero for consumers that wait,    *)
(* and uses the system's semaphore m_sema only for those.                  *)
(* Items are counted; that they leave in order is ProducerQueue's matter.  *)
(* A step is one atomic access.  The load and the compare-and-swap of a    *)
(* loop are one step, since one that fails changes nothing and is          *)
(* repeated, and so are m_count and the decision taken on what it was.     *)
(***************************************************************************)
EXTENDS Integers, Totals

CONSTANTS
  Producer, Consumer,
  EnqueueSize, \* items of one call: 1, or the count of enqueue_bulk
  DequeueSize, \* items a call asks for: 1, or the max of a bulk dequeue
  MaxItems     \* bound: items in the queue when an item is enqueued

ASSUME ThreadAssumption == IsFiniteSet(Producer) /\ IsFiniteSet(Consumer)
ASSUME SizeAssumption == (EnqueueSize \union DequeueSize) \subseteq (Nat \ {0})
ASSUME BoundAssumption == MaxItems \in Nat

VARIABLES
  inner,   \* items in the ConcurrentQueue
  m_count, \* of the LightweightSemaphore
  m_sema,  \* the value of the system's semaphore
  signals, \* per producer: items enqueued and not yet signalled
  posts,   \* per producer: what Semaphore::signal has yet to release
  call     \* per consumer: how far its call is, and its locals

vars == <<inner, m_count, m_sema, signals, posts, call>>

Kinds == {"try", "wait", "timed"}

(* max; and the items granted by the semaphore that are yet to be dequeued *)
NoCall == [pc |-> "idle", kind |-> "try", max |-> 0, granted |-> 0]

Init ==
  /\ inner = 0 /\ m_count = 0 /\ m_sema = 0
  /\ signals = [p \in Producer |-> 0]
  /\ posts = [p \in Producer |-> 0]
  /\ call = [c \in Consumer |-> NoCall]

Smaller(a, b) == IF a < b THEN a ELSE b
Larger(a, b) == IF a < b THEN b ELSE a

(***************************************************************************)
(* Producers                                                               *)
(***************************************************************************)

(* All forms of enqueue; one that fails changes nothing. *)
enqueue(p, k) ==
  /\ signals[p] = 0 /\ posts[p] = 0 /\ inner < MaxItems
  /\ inner' = inner + k
  /\ signals' = [signals EXCEPT ![p] = k]
  /\ UNCHANGED <<m_count, m_sema, posts, call>>

(* Mutant of ToRelease: the count is taken after the addition. *)
ToRelease_after(count) == Smaller(-(m_count + count), count)

(* Of the consumers that wait, as many as there are new items. *)
ToRelease(count) == Smaller(-m_count, count)

signal(p) ==
  /\ signals[p] > 0
  /\ m_count' = m_count + signals[p]
  /\ posts' = [posts EXCEPT ![p] = Larger(0, ToRelease(signals[p]))]
  /\ signals' = [signals EXCEPT ![p] = 0]
  /\ UNCHANGED <<inner, m_sema, call>>

(* Semaphore::signal posts one after the other. *)
Post(p) ==
  /\ posts[p] > 0
  /\ m_sema' = m_sema + 1
  /\ posts' = [posts EXCEPT ![p] = @ - 1]
  /\ UNCHANGED <<inner, m_count, signals, call>>

(***************************************************************************)
(* Consumers: the semaphore                                                *)
(***************************************************************************)

Become(c, to) == call' = [call EXCEPT ![c] = to]
Grant(c, n) == [call[c] EXCEPT !.pc = "dequeue", !.granted = n]

(* The granted item; a bulk call then tries for max - 1 more. *)
GrantOne(c) == [Grant(c, 1) EXCEPT !.pc = IF call[c].max > 1 THEN "more" ELSE "dequeue"]

dequeue(c, kind, k) ==
  /\ call[c].pc = "idle"
  /\ Become(c, [pc |-> "trying", kind |-> kind, max |-> k, granted |-> 0])
  /\ UNCHANGED <<inner, m_count, m_sema, signals, posts>>

(* tryWait and tryWaitMany, and each turn of the loop that spins: what is  *)
(* there is taken, up to max.                                              *)
tryWaitMany(c) ==
  /\ call[c].pc \in {"trying", "spinning"} /\ m_count > 0
  /\ m_count' = m_count - Smaller(call[c].max, m_count)
  /\ Become(c, Grant(c, Smaller(call[c].max, m_count)))
  /\ UNCHANGED <<inner, m_sema, signals, posts>>

(* Nothing is there: a try_dequeue returns, the others go on to spin. *)
TryFails(c) ==
  /\ call[c].pc = "trying" /\ m_count <= 0
  /\ Become(c, IF call[c].kind = "try" THEN NoCall ELSE [call[c] EXCEPT !.pc = "spinning"])
  /\ UNCHANGED <<inner, m_count, m_sema, signals, posts>>

(* After the last turn m_count.fetch_sub(1): an item after all, or one more *)
(* that waits.                                                              *)
SpinEnds(c) ==
  /\ call[c].pc = "spinning"
  /\ m_count' = m_count - 1
  /\ Become(c, IF m_count > 0 THEN GrantOne(c) ELSE [call[c] EXCEPT !.pc = "asleep"])
  /\ UNCHANGED <<inner, m_sema, signals, posts>>

(* m_sema.wait and m_sema.timed_wait *)
Wakes(c) ==
  /\ call[c].pc = "asleep" /\ m_sema > 0
  /\ m_sema' = m_sema - 1
  /\ Become(c, GrantOne(c))
  /\ UNCHANGED <<inner, m_count, signals, posts>>

TimesOut(c) ==
  /\ call[c].pc = "asleep" /\ call[c].kind = "timed"
  /\ Become(c, [call[c] EXCEPT !.pc = "adjust"])
  /\ UNCHANGED <<inner, m_count, m_sema, signals, posts>>

(* Mutant of Withdraw: whether it was released meanwhile is not tested. *)
Withdraw_always(c) ==
  /\ call[c].pc = "adjust"
  /\ m_count' = m_count + 1
  /\ Become(c, NoCall)
  /\ UNCHANGED <<inner, m_sema, signals, posts>>

(* It counts itself out again, unless it was released meanwhile: ... *)
Withdraw(c) ==
  /\ call[c].pc = "adjust" /\ m_count < 0
  /\ m_count' = m_count + 1
  /\ Become(c, NoCall)
  /\ UNCHANGED <<inner, m_sema, signals, posts>>

(* Mutant of SeesRelease: only a count above zero is a release. *)
SeesRelease_positive(c) ==
  /\ call[c].pc = "adjust" /\ m_count > 0
  /\ Become(c, [call[c] EXCEPT !.pc = "try_wait"])
  /\ UNCHANGED <<inner, m_count, m_sema, signals, posts>>

SeesRelease(c) ==
  /\ call[c].pc = "adjust" /\ m_count >= 0
  /\ Become(c, [call[c] EXCEPT !.pc = "try_wait"])
  /\ UNCHANGED <<inner, m_count, m_sema, signals, posts>>

(* ... then it takes the release, or looks at the count again while the    *)
(* release is not there.                                                   *)
try_wait(c) ==
  /\ call[c].pc = "try_wait"
  /\ IF m_sema > 0
     THEN m_sema' = m_sema - 1 /\ Become(c, GrantOne(c))
     ELSE Become(c, [call[c] EXCEPT !.pc = "adjust"]) /\ UNCHANGED m_sema
  /\ UNCHANGED <<inner, m_count, signals, posts>>

(* 1 + tryWaitMany(max - 1) *)
More(c) ==
  /\ call[c].pc = "more"
  /\ LET n == IF m_count > 0 THEN Smaller(call[c].max - 1, m_count) ELSE 0
     IN m_count' = m_count - n /\ Become(c, Grant(c, 1 + n))
  /\ UNCHANGED <<inner, m_sema, signals, posts>>

(***************************************************************************)
(* Consumers: the items                                                    *)
(***************************************************************************)

(* try_dequeue and try_dequeue_bulk of the queue, repeated until all that  *)
(* was granted is there; one that finds nothing changes nothing.           *)
Dequeue(c) ==
  /\ call[c].pc = "dequeue"
  /\ \E n \in 1..Smaller(inner, call[c].granted) :
       /\ inner' = inner - n
       /\ Become(c, IF n = call[c].granted THEN NoCall ELSE [call[c] EXCEPT !.granted = @ - n])
  /\ UNCHANGED <<m_count, m_sema, signals, posts>>

(***************************************************************************)
(* Specification                                                           *)
(***************************************************************************)

producer(p) == (\E k \in EnqueueSize : enqueue(p, k)) \/ signal(p) \/ Post(p)

WaitStep(c) ==
  \/ tryWaitMany(c) \/ TryFails(c) \/ SpinEnds(c)
  \/ Wakes(c) \/ TimesOut(c)
  \/ Withdraw(c) \/ SeesRelease(c) \/ try_wait(c) \/ More(c)
  \/ Dequeue(c)

consumer(c) == (\E kind \in Kinds, k \in DequeueSize : dequeue(c, kind, k)) \/ WaitStep(c)

Next == (\E p \in Producer : producer(p)) \/ \E c \in Consumer : consumer(c)

Spec == Init /\ [][Next]_vars

(* Every thread goes on with the call it has begun; nobody has to begin    *)
(* one.                                                                    *)
FairSpec ==
  /\ Spec
  /\ \A p \in Producer : WF_vars(signal(p) \/ Post(p))
  /\ \A c \in Consumer : WF_vars(WaitStep(c))

(***************************************************************************)
(* Properties                                                              *)
(***************************************************************************)

Unsignalled == Total(signals)
Unposted == Total(posts)
Granted == Total([c \in Consumer |-> call[c].granted])

(* What is granted is in the queue, so that the loops around try_dequeue   *)
(* (blockingconcurrentqueue.h:361) end, also when a wait timed out while   *)
(* its consumer was being released.                                        *)
GrantedIsThere == Granted <= inner - Unsignalled

(* Nobody sleeps beside an item: if no release is on its way to those who  *)
(* sleep, every item that was signalled is granted to somebody.            *)
NoLostWakeup ==
  /\ \E c \in Consumer : call[c].pc = "asleep"
  /\ m_sema = 0 /\ Unposted = 0
  => inner - Unsignalled = Granted

(* A wait that has timed out returns, with or without an item, although    *)
(* its loop (lightweightsemaphore.h:288) waits for a producer between its  *)
(* two steps of the release: unless others are served for ever, who may    *)
(* take the release away each time it is seen.                             *)
Adjusting(c) == call[c].pc \in {"adjust", "try_wait"}
Served == m_sema' < m_sema
TimedWaitReturns ==
  []<><<Served>>_vars \/ \A c \in Consumer : Adjusting(c) ~> ~Adjusting(c)
=============================================================================
