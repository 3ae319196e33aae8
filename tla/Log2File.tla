------------------------------ MODULE Log2File ------------------------------
(***************************************************************************)
(* Log2File (thirdparty/loghelper/loghelper/log2file.cpp): lines for a     *)
(* file are written by the thread that logs them, or, once                 *)
(* startConsumeThread was called, put into a queue that a thread of its    *)
(* own writes out.  Which of the two is decided by a flag that is neither  *)
(* locked nor atomic.                                                      *)
(* The queue is that of concurrentqueue.h: ProducerHash finds the thread's *)
(* sub-queue, each sub-queue is a FIFO (ProducerQueue, which               *)
(* ImplicitProducer implements), and try_dequeue chooses among them.       *)
(* A thread's lines are numbered; the open, append and close of a line are *)
(* one step, as one write in append mode is.                               *)
(***************************************************************************)
EXTENDS ProducerHash, SequencesExt, FiniteSetsExt

CONSTANTS
  Consumer,   \* calls of startConsumeThread, each with its thread
  MaxLines,   \* bound: lines logged
  MaxDeaths   \* bound: exceptions in a consumer thread

ASSUME LogAssumption == {MaxLines, MaxDeaths} \subseteq Nat

VARIABLES
  s_isConcurrentQueueStarted,
  lines,      \* per thread: the lines logged so far
  logging,    \* per thread: where its ~Log2File is
  queue,      \* per producer of the list: its items
  starter,    \* per consumer: where the call of startConsumeThread is
  cons,       \* per consumer: where its thread is, and its try_dequeue
  file,       \* the lines in the file
  lost,       \* lines no longer in memory that did not get to the file
  deaths

writers == <<lines, logging>>
consumers == <<starter, cons>>
vars == <<hash, fails, s_isConcurrentQueueStarted, writers, queue, consumers, file, lost, deaths>>

NoDequeue == [pc |-> "none", from |-> 0, best |-> 0, item |-> <<>>]

Init ==
  /\ HashInit /\ fails = 0
  /\ s_isConcurrentQueueStarted = FALSE
  /\ lines = [t \in Thread |-> 0]
  /\ logging = [t \in Thread |-> "idle"]
  /\ queue = <<>>
  /\ starter = [c \in Consumer |-> "idle"]
  /\ cons = [c \in Consumer |-> NoDequeue]
  /\ file = <<>> /\ lost = {} /\ deaths = 0

(***************************************************************************)
(* ~Log2File                                                               *)
(***************************************************************************)

Line(t) == <<t, lines[t]>>

(* The flag is read once; what it says may be over when it is acted on. *)
LogLine(t) ==
  /\ logging[t] = "idle" /\ MapThenSumSet(LAMBDA u : lines[u], Thread) < MaxLines
  /\ lines' = [lines EXCEPT ![t] = @ + 1]
  /\ logging' = [logging EXCEPT ![t] =
                  IF s_isConcurrentQueueStarted THEN "enqueue" ELSE "write"]
  /\ UNCHANGED <<hash, fails, s_isConcurrentQueueStarted, queue, consumers, file, lost, deaths>>

(* Under s_mtx, which consumers do not take. *)
WriteLine(t) ==
  /\ logging[t] = "write"
  /\ file' = Append(file, Line(t))
  /\ logging' = [logging EXCEPT ![t] = "idle"]
  /\ UNCHANGED <<hash, fails, s_isConcurrentQueueStarted, lines, queue, consumers, lost, deaths>>

(* The file does not open or the write fails: the stream notes it, and     *)
(* nobody asks.                                                            *)
WriteLineFails(t) ==
  /\ logging[t] = "write"
  /\ lost' = lost \union {Line(t)}
  /\ logging' = [logging EXCEPT ![t] = "idle"]
  /\ UNCHANGED <<hash, fails, s_isConcurrentQueueStarted, lines, queue, consumers, file, deaths>>

EnqueueLine(t) ==
  /\ logging[t] = "enqueue"
  /\ get_or_add_implicit_producer(t)
  /\ logging' = [logging EXCEPT ![t] = "look"]
  /\ UNCHANGED <<s_isConcurrentQueueStarted, lines, queue, consumers, file, lost, deaths>>

FindProducer(t) ==
  /\ logging[t] = "look"
  /\ LookUp(t)
  /\ queue' = queue \o [p \in 1..(Len(owner') - Len(owner)) |-> <<>>]
  /\ UNCHANGED <<s_isConcurrentQueueStarted, writers, consumers, file, lost, deaths>>

Enqueue(t) ==
  /\ LookedUp(t) /\ look[t].producer # 0
  /\ queue' = [queue EXCEPT ![look[t].producer] = Append(@, Line(t))]
  /\ logging' = [logging EXCEPT ![t] = "idle"]
  /\ UNCHANGED <<tables, hashCount, resizing, owner, fails, s_isConcurrentQueueStarted, lines,
                 consumers, file, lost, deaths>>

(* enqueue returns false, without a producer or without memory; nobody     *)
(* looks at that.                                                          *)
EnqueueFails(t) ==
  /\ LookedUp(t)
  /\ \/ look[t].producer = 0 /\ UNCHANGED fails
     \/ look[t].producer # 0 /\ fails < MaxFails /\ fails' = fails + 1
  /\ lost' = lost \union {Line(t)}
  /\ logging' = [logging EXCEPT ![t] = "idle"]
  /\ UNCHANGED <<tables, hashCount, resizing, owner, s_isConcurrentQueueStarted, lines,
                 queue, consumers, file, deaths>>

(***************************************************************************)
(* startConsumeThread, and the thread it starts                            *)
(***************************************************************************)

startConsumeThread(c) ==
  /\ starter[c] = "idle"
  /\ starter' = [starter EXCEPT ![c] = "flag"]
  /\ cons' = [cons EXCEPT ![c].pc = "idle"]
  /\ UNCHANGED <<hash, fails, s_isConcurrentQueueStarted, writers, queue, file, lost, deaths>>

(* The thread already runs when the flag is set. *)
SetStarted(c) ==
  /\ starter[c] = "flag"
  /\ starter' = [starter EXCEPT ![c] = "done"]
  /\ s_isConcurrentQueueStarted' = TRUE
  /\ UNCHANGED <<hash, fails, writers, queue, cons, file, lost, deaths>>

DequeueStep(c, from, to) == cons[c].pc = from /\ cons' = [cons EXCEPT ![c] = to]

(* The first three producers of the list, newest first, that hold items;   *)
(* of these the one with the most, the first of them if there are several. *)
NonEmpty == {p \in DOMAIN queue : queue[p] # <<>>}
Scored == {p \in NonEmpty : Cardinality({q \in NonEmpty : q > p}) < 3}
Best == Max({p \in Scored : \A q \in Scored : Len(queue[q]) <= Len(queue[p])})

(* try_dequeue.  Its look at the sizes is one step: what it saw may be     *)
(* over anyway when it acts on it.  When all are empty the loop calls it   *)
(* again.                                                                  *)
try_dequeue(c) ==
  /\ NonEmpty # {}
  /\ DequeueStep(c, "idle", [NoDequeue EXCEPT !.pc = "best", !.best = Best])
  /\ UNCHANGED <<hash, fails, s_isConcurrentQueueStarted, writers, queue, starter, file, lost,
                 deaths>>

(* Mutant of Taken: the item is read before it is claimed. *)
Taken_unclaimed(c, p) ==
  /\ queue[p] # <<>>
  /\ cons' = [cons EXCEPT ![c] = [NoDequeue EXCEPT !.pc = "write", !.item = Head(queue[p])]]
  /\ \/ queue' = [queue EXCEPT ![p] = Tail(@)]
     \/ UNCHANGED queue

Taken(c, p) ==
  /\ queue[p] # <<>>
  /\ cons' = [cons EXCEPT ![c] = [NoDequeue EXCEPT !.pc = "write", !.item = Head(queue[p])]]
  /\ queue' = [queue EXCEPT ![p] = Tail(@)]

DequeueBest(c) ==
  /\ cons[c].pc = "best"
  /\ \/ Taken(c, cons[c].best)
     \/ /\ queue[cons[c].best] = <<>>
        /\ cons' = [cons EXCEPT ![c].pc = "all", ![c].from = Len(owner)]
        /\ UNCHANGED queue
  /\ UNCHANGED <<hash, fails, s_isConcurrentQueueStarted, writers, starter, file, lost, deaths>>

(* If another consumer was faster, every other producer is tried. *)
DequeueAny(c) ==
  LET p == cons[c].from
  IN /\ cons[c].pc = "all"
     /\ IF p = 0 THEN cons' = [cons EXCEPT ![c] = [NoDequeue EXCEPT !.pc = "idle"]]
                      /\ UNCHANGED queue
        ELSE \/ p # cons[c].best /\ Taken(c, p)
             \/ /\ p = cons[c].best \/ queue[p] = <<>>
                /\ cons' = [cons EXCEPT ![c].from = @ - 1]
                /\ UNCHANGED queue
     /\ UNCHANGED <<hash, fails, s_isConcurrentQueueStarted, writers, starter, file, lost,
                    deaths>>

WriteItem(c) ==
  /\ DequeueStep(c, "write", [NoDequeue EXCEPT !.pc = "idle"])
  /\ file' = Append(file, cons[c].item)
  /\ UNCHANGED <<hash, fails, s_isConcurrentQueueStarted, writers, queue, starter, lost, deaths>>

(* As WriteLineFails. *)
WriteItemFails(c) ==
  /\ DequeueStep(c, "write", [NoDequeue EXCEPT !.pc = "idle"])
  /\ lost' = lost \union {cons[c].item}
  /\ UNCHANGED <<hash, fails, s_isConcurrentQueueStarted, writers, queue, starter, file, deaths>>

(* An exception while a line is written ends the thread, which clears the  *)
(* flag where it catches it and once more when it ends.                    *)
Dies(c) ==
  /\ deaths < MaxDeaths /\ deaths' = deaths + 1
  /\ DequeueStep(c, "write", [NoDequeue EXCEPT !.pc = "dying"])
  /\ lost' = lost \union {cons[c].item}
  /\ s_isConcurrentQueueStarted' = FALSE
  /\ UNCHANGED <<hash, fails, writers, queue, starter, file>>

Ends(c) ==
  /\ DequeueStep(c, "dying", [NoDequeue EXCEPT !.pc = "dead"])
  /\ s_isConcurrentQueueStarted' = FALSE
  /\ UNCHANGED <<hash, fails, writers, queue, starter, file, lost, deaths>>

writer(t) ==
  \/ LogLine(t) \/ WriteLine(t) \/ WriteLineFails(t) \/ EnqueueLine(t) \/ FindProducer(t)
  \/ Enqueue(t) \/ EnqueueFails(t)

consumer(c) ==
  \/ try_dequeue(c) \/ DequeueBest(c) \/ DequeueAny(c)
  \/ WriteItem(c) \/ WriteItemFails(c) \/ Dies(c) \/ Ends(c)

Next ==
  \/ \E t \in Thread : writer(t)
  \/ \E c \in Consumer : startConsumeThread(c) \/ SetStarted(c) \/ consumer(c)

Spec == Init /\ [][Next]_vars

(***************************************************************************)
(* Properties                                                              *)
(***************************************************************************)

Places(x) ==
  Cardinality({i \in DOMAIN file : file[i] = x})
  + Cardinality({p \in DOMAIN queue : \E i \in DOMAIN queue[p] : queue[p][i] = x})
  + Cardinality({c \in Consumer : cons[c].item = x})
  + Cardinality({t \in Thread : logging[t] # "idle" /\ Line(t) = x})
  + (IF x \in lost THEN 1 ELSE 0)

(* A line that was logged is in one place: with its thread, in the queue,  *)
(* with a consumer, in the file, or lost to a failure.                     *)
LineInOnePlace ==
  \A t \in Thread : \A n \in 1..lines[t] : Places(<<t, n>>) = 1

(* With startConsumeThread called once, the lines of a thread are in the   *)
(* file in the order in which it logged them, also those logged before.    *)
PerThreadOrder ==
  Cardinality({c \in Consumer : starter[c] # "idle"}) <= 1 =>
    \A i, j \in DOMAIN file :
      i < j /\ file[i][1] = file[j][1] => file[i][2] < file[j][2]
=============================================================================
