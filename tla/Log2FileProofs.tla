--------------------------- MODULE Log2FileProofs ---------------------------
(***************************************************************************)
(* Theorems about the log and the hash table in which its threads find     *)
(* their sub-queues: a thread has one producer, every table keeps a free   *)
(* slot, a logged line is in one place, and the lines of a thread are      *)
(* written in order by a single consumer.                                  *)
(***************************************************************************)
EXTENDS Log2File, FiniteSetTheorems, WellFoundedInduction, TLAPS

(***************************************************************************)
(* Types                                                                   *)
(***************************************************************************)

Entries == UNION {[T -> Nat \ {0}] : T \in SUBSET Thread}
HashTable == [capacity : {n \in Nat : n >= 2}, entries : Entries]

(* The steps of a call in which its thread is counted. *)
Counting == {"full", "resize", "resized", "create", "insert"}
Pcs == {"none", "search", "count", "done"} \union Counting
Call == [pc : Pcs, main : Nat, count : Int, producer : Nat]

HashTypeOK ==
  /\ tables \in Seq(HashTable) /\ tables # <<>>
  /\ hashCount \in Int /\ resizing \in BOOLEAN
  /\ owner \in Seq(Thread)
  /\ look \in [Thread -> Call]
  /\ \A t \in Thread :
       look[t].pc \in {"search", "count"} \union Counting => look[t].main \in DOMAIN tables

LogLines == Thread \X Nat
Dequeue == [pc : {"none", "idle", "best", "all", "write", "dying", "dead"}, from : Nat, best : Nat,
            item : LogLines \union {<<>>}]

(* What a consumer's thread is at, and where its search has come to. *)
Consistent(c) ==
  /\ cons[c].pc = "none" <=> starter[c] = "idle"
  /\ cons[c].pc = "write" <=> cons[c].item # <<>>
  /\ cons[c].pc = "best" => cons[c].best \in DOMAIN queue
  /\ cons[c].pc = "all" => cons[c].from \in 0..Len(queue)

LogTypeOK ==
  /\ s_isConcurrentQueueStarted \in BOOLEAN
  /\ lines \in [Thread -> Nat]
  /\ logging \in [Thread -> {"idle", "write", "enqueue", "look"}]
  /\ queue \in Seq(Seq(LogLines)) /\ Len(queue) = Len(owner)
  /\ starter \in [Consumer -> {"idle", "flag", "done"}]
  /\ cons \in [Consumer -> Dequeue]
  /\ \A c \in Consumer : Consistent(c)
  /\ file \in Seq(LogLines) /\ lost \subseteq LogLines

(***************************************************************************)
(* The inductive invariant of the hash table                               *)
(***************************************************************************)

Found(t) == \E h \in DOMAIN tables : t \in DOMAIN tables[h].entries

(* What a thread has been given is its own, and it finds it again. *)
EntriesOwned ==
  \A h \in DOMAIN tables : \A t \in DOMAIN tables[h].entries :
    tables[h].entries[t] \in DOMAIN owner /\ owner[tables[h].entries[t]] = t
ProducerOwned ==
  \A t \in Thread :
    look[t].pc = "insert" \/ (look[t].pc = "done" /\ look[t].producer # 0) =>
      look[t].producer \in DOMAIN owner /\ owner[look[t].producer] = t
Known ==
  \A p \in DOMAIN owner : Found(owner[p]) \/ look[owner[p]].pc = "insert"

(* A search sees all entries of its thread, and who goes on without one    *)
(* has none.                                                               *)
SearchSeesAll ==
  \A t \in Thread : look[t].pc \in {"search", "insert"} =>
    \A h \in DOMAIN tables : t \in DOMAIN tables[h].entries => h <= look[t].main
Unknown ==
  \A t \in Thread : look[t].pc \in {"count"} \union (Counting \ {"insert"}) => ~Found(t)

OwnerInv ==
  HashTypeOK /\ EntriesOwned /\ ProducerOwned /\ Known /\ SearchSeesAll /\ Unknown
  /\ OneProducerEach

(* Tables grow, made by one thread at a time. *)
TablesGrow ==
  \A g, h \in DOMAIN tables : g <= h => tables[g].capacity <= tables[h].capacity
Resizer(t) == look[t].pc \in {"resize", "resized"}
OneResizer ==
  \A t \in Thread : Resizer(t) =>
    /\ resizing /\ look[t].main = Len(tables)
    /\ \A u \in Thread : Resizer(u) => u = t

(* implicitProducerHashCount is the number of threads with an entry or on  *)
(* the way to one.                                                         *)
Counted == {t \in Thread : Found(t) \/ look[t].pc \in Counting}
CountIsExact == IsFiniteSet(Counted) /\ hashCount = Cardinality(Counted)

(* How many a table may hold.  Those that are found up to table h, and     *)
(* those that may still be put into it since they were counted below k,    *)
(* are fewer than k.                                                       *)
Limit(h) == tables[h].capacity \div 2 + tables[h].capacity \div 4
Early(h, k) ==
  {t \in Thread : \/ \E g \in DOMAIN tables : g <= h /\ t \in DOMAIN tables[g].entries
                  \/ ~Found(t) /\ look[t].pc \in Counting /\ look[t].count < k}
EarlyFit ==
  \A h \in DOMAIN tables : \A k \in Nat : k >= Limit(h) => Cardinality(Early(h, k)) < k

(* Who is about to get an entry had room. *)
HadRoom ==
  \A t \in Thread :
    look[t].pc = "create" \/ (look[t].pc = "insert" /\ ~Found(t)) => Room(look[t])

SlotInv == OwnerInv /\ TablesGrow /\ OneResizer /\ CountIsExact /\ EarlyFit /\ HadRoom

(***************************************************************************)
(* The inductive invariant of the log                                      *)
(***************************************************************************)

(* A line that was logged and is no longer with its thread. *)
Past(x) ==
  /\ x[2] \in 1..lines[x[1]]
  /\ logging[x[1]] # "idle" => x[2] # lines[x[1]]

InFile(x) == \E i \in DOMAIN file : file[i] = x
InQueue(x) == \E p \in DOMAIN queue : \E i \in DOMAIN queue[p] : queue[p][i] = x
InHand(x) == \E c \in Consumer : cons[c].item = x

PastIsSomewhere ==
  \A x \in LogLines : Past(x) <=> InFile(x) \/ InQueue(x) \/ InHand(x) \/ x \in lost

FileOnce == \A i, j \in DOMAIN file : file[i] = file[j] => i = j
QueueOnce ==
  \A p, q \in DOMAIN queue : \A i \in DOMAIN queue[p], j \in DOMAIN queue[q] :
    queue[p][i] = queue[q][j] => p = q /\ i = j
HandOnce ==
  \A c, d \in Consumer : cons[c].item = cons[d].item /\ cons[c].item # <<>> => c = d
Disjoint ==
  \A x \in LogLines :
    /\ InFile(x) => ~InQueue(x) /\ ~InHand(x) /\ x \notin lost
    /\ InQueue(x) => ~InHand(x) /\ x \notin lost
    /\ InHand(x) => x \notin lost

(* A thread looks for its producer while it logs a line. *)
AtWork ==
  \A t \in Thread : /\ logging[t] # "idle" => lines[t] # 0
                    /\ look[t].pc # "none" <=> logging[t] = "look"

PlaceInv ==
  OwnerInv /\ LogTypeOK /\ AtWork /\ PastIsSomewhere /\ FileOnce /\ QueueOnce /\ HandOnce /\ Disjoint

Started == {c \in Consumer : starter[c] # "idle"}
OneConsumer == \A c, d \in Started : c = d
NoneDead == \A c \in Consumer : cons[c].pc \notin {"dying", "dead"}

QueueOwned == \A p \in DOMAIN queue : \A i \in DOMAIN queue[p] : queue[p][i][1] = owner[p]

(* Before the flag is set nothing is queued, and who found it not set has  *)
(* nothing in the queue.                                                   *)
QuietBefore ==
  OneConsumer /\ NoneDead /\ ~s_isConcurrentQueueStarted =>
    /\ \A p \in DOMAIN queue : queue[p] = <<>>
    /\ \A c \in Consumer : cons[c].item = <<>>
    /\ \A t \in Thread : logging[t] \notin {"enqueue", "look"}
WritesAlone ==
  OneConsumer /\ NoneDead =>
    \A t \in Thread : logging[t] = "write" =>
      /\ \A p \in DOMAIN queue : owner[p] = t => queue[p] = <<>>
      /\ \A c \in Consumer : cons[c].item # <<>> => cons[c].item[1] # t

(* The lines of one thread: file, consumer's hand, queue. *)
FileOrder ==
  OneConsumer =>
    \A i, j \in DOMAIN file : i < j /\ file[i][1] = file[j][1] => file[i][2] < file[j][2]
HandOrder ==
  OneConsumer /\ NoneDead =>
    \A c \in Consumer : cons[c].item # <<>> =>
      \A i \in DOMAIN file : file[i][1] = cons[c].item[1] => file[i][2] < cons[c].item[2]
QueueOrder ==
  OneConsumer /\ NoneDead =>
    \A p \in DOMAIN queue : \A j \in DOMAIN queue[p] :
      /\ \A i \in DOMAIN queue[p] : i < j => queue[p][i][2] < queue[p][j][2]
      /\ \A i \in DOMAIN file : file[i][1] = owner[p] => file[i][2] < queue[p][j][2]
      /\ \A c \in Consumer : cons[c].item # <<>> /\ cons[c].item[1] = owner[p] =>
           cons[c].item[2] < queue[p][j][2]

OrderInv ==
  PlaceInv /\ IsFiniteSet(Started) /\ QueueOwned /\ QuietBefore /\ WritesAlone
  /\ FileOrder /\ HandOrder /\ QueueOrder

LEMMA AddEntry ==
  ASSUME NEW f \in Entries, NEW t \in Thread, NEW p \in Nat \ {0}, NEW g,
         g = [u \in DOMAIN f \union {t} |-> IF u = t THEN p ELSE f[u]]
  PROVE  /\ g \in Entries /\ DOMAIN g = DOMAIN f \union {t}
         /\ g[t] = p /\ \A u \in DOMAIN f : u # t => g[u] = f[u]
  <1>1. PICK T \in SUBSET Thread : f \in [T -> Nat \ {0}]
    BY DEF Entries
  <1>2. T \union {t} \in SUBSET Thread /\ g \in [T \union {t} -> Nat \ {0}]
    BY <1>1
  <1> QED
    BY <1>1, <1>2 DEF Entries

LEMMA EmptyEntries == <<>> \in Entries /\ DOMAIN <<>> = {}
  <1>1. DOMAIN <<>> = {}
    OBVIOUS
  <1>2. <<>> \in [{} -> Nat \ {0}]
    OBVIOUS
  <1> QED
    BY <1>1, <1>2 DEF Entries

LEMMA NoCallType == NoCall \in Call /\ NoCall.pc = "none" /\ NoCall.producer = 0
  <1>1. "none" \in Pcs
    BY DEF Pcs
  <1> QED
    BY <1>1 DEF NoCall, Call

LEMMA PcType == \A pc \in {"none", "search", "count", "done", "full", "resize", "resized",
                          "create", "insert"} : pc \in Pcs
  BY DEF Pcs, Counting

LEMMA SetPc ==
  ASSUME NEW r \in Call, NEW pc \in Pcs, NEW q, q = [r EXCEPT !.pc = pc]
  PROVE  /\ q \in Call /\ q.pc = pc /\ q.main = r.main /\ q.count = r.count
         /\ q.producer = r.producer
  BY DEF Call

LEMMA NoLine == \A x \in LogLines : x # <<>> /\ x[1] \in Thread /\ x[2] \in Nat /\ x = <<x[1], x[2]>>
  BY DEF LogLines

(* Search takes the newest of the tables that hold an entry. *)
LEMMA MaxIn ==
  ASSUME NEW n \in Nat, NEW S \in SUBSET (1..n), S # {}
  PROVE  Max(S) \in S /\ \A x \in S : Max(S) >= x
  <1> DEFINE Bounds == {u \in Nat : \A x \in S : x <= u}
  <1>1. n \in Bounds
    OBVIOUS
  <1>2. PICK u \in Bounds : \A v \in Bounds : ~(v < u)
    <2>1. PICK R : R = {ss \in Nat \X Nat : ss[1] < ss[2]}
      OBVIOUS
    <2>2. IsWellFoundedOn(R, Nat)
      BY <2>1, NatLessThanWellFounded DEF OpToRel
    <2>3. PICK B \in SUBSET Nat : B = Bounds /\ B # {}
      BY <1>1
    <2> HIDE DEF Bounds
    <2>4. \E x \in B : \A y \in B : ~(<<y, x>> \in R)
      BY <2>2, <2>3, WFMin
    <2> QED
      BY <2>1, <2>3, <2>4
  <1>3. u \in S
    <2> SUFFICES ASSUME u \notin S PROVE FALSE
      OBVIOUS
    <2>1. u \in Nat /\ \A x \in S : x \in Nat /\ x <= u /\ x # u /\ x >= 1
      OBVIOUS
    <2>2. u - 1 \in Nat /\ \A x \in S : x <= u - 1
      <3>1. PICK y \in S : TRUE
        OBVIOUS
      <3>2. u >= 1
        BY <2>1, <3>1
      <3> QED
        BY <2>1, <3>2
    <2> QED
      BY <1>2, <2>1, <2>2
  <1>4. \A x \in S : u >= x
    OBVIOUS
  <1> QED
    BY <1>3, <1>4 DEF Max

(***************************************************************************)
(* Each thread has one producer                                            *)
(***************************************************************************)

(* The steps as the hash table sees them. *)
HashNext ==
  \/ \E t \in Thread : \/ get_or_add_implicit_producer(t) \/ LookUp(t)
                       \/ LookedUp(t) /\ UNCHANGED <<tables, hashCount, resizing, owner>>
  \/ UNCHANGED hash

LEMMA NextIsHashNext == [Next]_vars => HashNext
  <1> SUFFICES ASSUME [Next]_vars PROVE HashNext
    OBVIOUS
  <1> USE DEF HashNext, hash
  <1>1. ASSUME NEW t \in Thread, writer(t) PROVE HashNext
    BY <1>1 DEF writer, LogLine, WriteLine, WriteLineFails, EnqueueLine, FindProducer,
        Enqueue, EnqueueFails
  <1>2. ASSUME NEW c \in Consumer, startConsumeThread(c) \/ SetStarted(c) PROVE HashNext
    BY <1>2 DEF startConsumeThread, SetStarted
  <1>3. ASSUME NEW c \in Consumer, consumer(c) PROVE HashNext
    BY <1>3 DEF consumer, try_dequeue, DequeueBest, DequeueAny, WriteItem,
        WriteItemFails, Dies, Ends
  <1> QED
    BY <1>1, <1>2, <1>3 DEF Next, vars

LEMMA InitOwner == Init => OwnerInv
  <1> SUFFICES ASSUME Init PROVE OwnerInv
    OBVIOUS
  <1>1. /\ tables = <<Table(INITIAL_HASH_SIZE)>> /\ hashCount = 0 /\ resizing = FALSE
        /\ owner = <<>> /\ look = [t \in Thread |-> NoCall]
    BY DEF Init, HashInit
  <1>2. Table(INITIAL_HASH_SIZE) \in HashTable
    BY EmptyEntries, HashAssumption DEF Table, HashTable
  <1>3. /\ tables \in Seq(HashTable) /\ DOMAIN tables = {1} /\ tables # <<>>
        /\ DOMAIN tables[1].entries = {}
    BY <1>1, <1>2, EmptyEntries DEF Table
  <1>4. NoCall \in Call /\ NoCall.pc = "none"
    BY NoCallType
  <1>5. HashTypeOK
    <2>0. <<>> \in Seq(Thread) /\ 0 \in Int
      OBVIOUS
    <2>1. owner \in Seq(Thread) /\ hashCount \in Int /\ resizing \in BOOLEAN
      BY <1>1, <2>0
    <2>2. look \in [Thread -> Call] /\ \A t \in Thread : look[t].pc = "none"
      BY <1>1, <1>4
    <2> QED
      BY <1>3, <2>1, <2>2 DEF HashTypeOK, Counting
  <1> QED
    BY <1>1, <1>3, <1>4, <1>5 DEF OwnerInv, EntriesOwned, ProducerOwned, Known, SearchSeesAll,
      Unknown, OneProducerEach, Counting

(* A call goes on to locals r, and no table changes. *)
LEMMA LookStep ==
  ASSUME OwnerInv, NEW t \in Thread, NEW r \in Call,
         look' = [look EXCEPT ![t] = r], tables' = tables, owner' = owner,
         hashCount' \in Int, resizing' \in BOOLEAN, look[t].pc # "insert",
         r.pc \in {"search", "count"} \union Counting => r.main \in DOMAIN tables,
         r.pc = "insert" \/ (r.pc = "done" /\ r.producer # 0) =>
           r.producer \in DOMAIN owner /\ owner[r.producer] = t,
         r.pc = "search" => r.main = Len(tables),
         r.pc = "insert" =>
           \A h \in DOMAIN tables : t \in DOMAIN tables[h].entries => h <= r.main,
         r.pc \in {"count"} \union (Counting \ {"insert"}) => ~Found(t)
  PROVE  OwnerInv'
  <1>1. /\ look'[t] = r /\ \A u \in Thread : u # t => look'[u] = look[u]
        /\ look' \in [Thread -> Call]
    BY DEF OwnerInv, HashTypeOK
  <1>2. HashTypeOK'
    BY <1>1 DEF OwnerInv, HashTypeOK
  <1>3. \A u : Found(u)' <=> Found(u)
    BY DEF Found
  <1>4. EntriesOwned' /\ OneProducerEach'
    BY DEF OwnerInv, EntriesOwned, OneProducerEach
  <1>5. ProducerOwned'
    BY <1>1 DEF OwnerInv, ProducerOwned
  <1>6. Known'
    BY <1>1, <1>3 DEF OwnerInv, Known, HashTypeOK
  <1>7. SearchSeesAll'
    <2>1. \A h \in DOMAIN tables : h <= Len(tables)
      BY DEF OwnerInv, HashTypeOK
    <2> QED
      BY <1>1, <2>1 DEF OwnerInv, SearchSeesAll
  <1>8. Unknown'
    BY <1>1, <1>3 DEF OwnerInv, Unknown
  <1> QED
    BY <1>2, <1>4, <1>5, <1>6, <1>7, <1>8 DEF OwnerInv

(* The new capacity is a number not less than twice the old one. *)
LEMMA NewCapacityGrows ==
  ASSUME NEW c, tables[c.main].capacity \in Nat, c.count \in Int, NEW n \in NewCapacity(c)
  PROVE  n \in Nat /\ n >= 2 * tables[c.main].capacity
  <1> DEFINE old == tables[c.main].capacity
             bound == 4 * (old + c.count)
  <1>1. n \in (2 * old)..bound
    BY DEF NewCapacity
  <1>2. old \in Nat /\ bound \in Int
    OBVIOUS
  <1> HIDE DEF old, bound
  <1>3. n \in Nat /\ n >= 2 * old
    BY <1>1, <1>2
  <1> QED
    BY <1>3 DEF old

(* Steps after which the table or the list of producers differs. *)
LEMMA ResizeOwner == ASSUME OwnerInv, NEW t \in Thread, Resize(t) PROVE OwnerInv'
  <1>0. PICK n \in NewCapacity(look[t]) : tables' = Append(tables, Table(n))
    BY DEF Resize
  <1> DEFINE new == Table(n)
  <1>1. /\ look[t] \in Call /\ look[t].pc = "resize" /\ look[t].main \in DOMAIN tables
        /\ tables \in Seq(HashTable) /\ Len(tables) \in Nat /\ look \in [Thread -> Call]
    BY DEF OwnerInv, HashTypeOK, Resize, Counting
  <1>2. tables[look[t].main] \in HashTable
    BY <1>1
  <1>3. new \in HashTable /\ DOMAIN new.entries = {}
    <2>1. /\ tables[look[t].main].capacity \in Nat /\ tables[look[t].main].capacity >= 2
          /\ look[t].count \in Int
      BY <1>1, <1>2 DEF HashTable, Call
    <2>2. n \in Nat /\ n >= 2 * tables[look[t].main].capacity
      BY <1>0, <2>1, NewCapacityGrows
    <2>3. n \in Nat /\ n >= 2
      BY <2>1, <2>2
    <2> QED
      BY <2>3, EmptyEntries DEF Table, HashTable
  <1> HIDE DEF new
  <1>4. PICK q \in Seq(HashTable) :
          /\ q = tables' /\ Len(q) = Len(tables) + 1 /\ q # <<>>
          /\ DOMAIN q = DOMAIN tables \union {Len(tables) + 1}
          /\ \A h \in DOMAIN tables : q[h] = tables[h]
          /\ q[Len(tables) + 1] = new
    <2>1. tables' = Append(tables, new)
      BY <1>0 DEF new
    <2>2. /\ tables' \in Seq(HashTable) /\ Len(tables') = Len(tables) + 1
          /\ \A h \in 1..Len(tables) : tables'[h] = tables[h]
          /\ tables'[Len(tables) + 1] = new
      BY <1>1, <1>3, <2>1
    <2>3. DOMAIN tables' = DOMAIN tables \union {Len(tables) + 1} /\ tables' # <<>>
      <3>1. DOMAIN tables' = 1..(Len(tables) + 1) /\ DOMAIN tables = 1..Len(tables)
        BY <1>1, <2>2
      <3>2. 1..(Len(tables) + 1) = 1..Len(tables) \union {Len(tables) + 1}
        BY <1>1
      <3> QED
        BY <1>1, <2>2, <3>1, <3>2
    <2> QED
      BY <1>1, <2>2, <2>3
  <1>5. PICK r \in Call :
          /\ look' = [look EXCEPT ![t] = r] /\ r.pc = "resized" /\ r.main = Len(tables) + 1
          /\ r.count = look[t].count
    <2>1. PICK r : r = [look[t] EXCEPT !.pc = "resized", !.main = Len(tables) + 1]
      OBVIOUS
    <2>2. look' = [look EXCEPT ![t] = r]
      BY <2>1 DEF Resize, Go, newest
    <2>3. "resized" \in Pcs /\ Len(tables) + 1 \in Nat
      BY <1>1, PcType
    <2>4. r \in Call /\ r.pc = "resized" /\ r.main = Len(tables) + 1 /\ r.count = look[t].count
      BY <1>1, <2>1, <2>3 DEF Call
    <2> QED
      BY <2>2, <2>4
  <1>6. /\ look'[t] = r /\ \A u \in Thread : u # t => look'[u] = look[u]
        /\ look' \in [Thread -> Call]
    BY <1>1, <1>5
  <1>7. hashCount' = hashCount /\ resizing' = resizing /\ owner' = owner
    BY DEF Resize
  <1>8. \A u : Found(u)' <=> Found(u)
    BY <1>3, <1>4 DEF Found
  <1>9. HashTypeOK'
    BY <1>4, <1>5, <1>6, <1>7 DEF OwnerInv, HashTypeOK
  <1>10. EntriesOwned'
    BY <1>3, <1>4, <1>7 DEF OwnerInv, EntriesOwned
  <1>11. ProducerOwned' /\ OneProducerEach'
    BY <1>5, <1>6, <1>7 DEF OwnerInv, ProducerOwned, OneProducerEach
  <1>12. Known'
    BY <1>1, <1>6, <1>7, <1>8 DEF OwnerInv, Known, HashTypeOK
  <1>13. SearchSeesAll'
    BY <1>3, <1>4, <1>5, <1>6 DEF OwnerInv, SearchSeesAll
  <1>14. Unknown'
    BY <1>1, <1>5, <1>6, <1>8 DEF OwnerInv, Unknown, Counting
  <1> QED
    BY <1>9, <1>10, <1>11, <1>12, <1>13, <1>14 DEF OwnerInv

LEMMA AddProducerOwner == ASSUME OwnerInv, NEW t \in Thread, add_producer(t) PROVE OwnerInv'
  <1>1. /\ look[t] \in Call /\ look[t].pc = "create" /\ look[t].main \in DOMAIN tables
        /\ look \in [Thread -> Call] /\ owner \in Seq(Thread) /\ Len(owner) \in Nat
    BY DEF OwnerInv, HashTypeOK, add_producer, Go, Counting
  <1>2. PICK r \in Call :
          /\ look' = [look EXCEPT ![t] = r] /\ r.pc = "insert" /\ r.main = look[t].main
          /\ r.producer = Len(owner) + 1
    <2>1. PICK r : r = [look[t] EXCEPT !.pc = "insert", !.producer = Len(owner) + 1]
      OBVIOUS
    <2>2. look' = [look EXCEPT ![t] = r]
      BY <2>1 DEF add_producer, Go
    <2>3. "insert" \in Pcs /\ Len(owner) + 1 \in Nat
      BY <1>1, PcType
    <2>4. /\ r \in Call /\ r.pc = "insert" /\ r.main = look[t].main
          /\ r.producer = Len(owner) + 1
      BY <1>1, <2>1, <2>3 DEF Call
    <2> QED
      BY <2>2, <2>4
  <1>3. /\ look'[t] = r /\ \A u \in Thread : u # t => look'[u] = look[u]
        /\ look' \in [Thread -> Call]
    BY <1>1, <1>2
  <1>4. /\ tables' = tables /\ hashCount' = hashCount /\ resizing' = resizing
        /\ owner' \in Seq(Thread) /\ DOMAIN owner' = DOMAIN owner \union {Len(owner) + 1}
        /\ \A p \in DOMAIN owner : owner'[p] = owner[p]
        /\ owner'[Len(owner) + 1] = t
    BY <1>1 DEF add_producer
  <1>5. \A u : Found(u)' <=> Found(u)
    BY <1>4 DEF Found
  <1>6. \A p \in DOMAIN owner : owner[p] # t
    BY <1>1 DEF OwnerInv, Known, Unknown, Counting
  <1>7. HashTypeOK'
    BY <1>1, <1>2, <1>3, <1>4 DEF OwnerInv, HashTypeOK
  <1>8. EntriesOwned'
    BY <1>4 DEF OwnerInv, EntriesOwned
  <1>9. ProducerOwned'
    BY <1>2, <1>3, <1>4 DEF OwnerInv, ProducerOwned
  <1>10. OneProducerEach'
    BY <1>4, <1>6 DEF OwnerInv, OneProducerEach
  <1>11. Known'
    <2>1. \A p \in DOMAIN owner : owner[p] \in Thread
      BY <1>1
    <2> QED
      BY <1>2, <1>3, <1>4, <1>5, <1>6, <2>1 DEF OwnerInv, Known
  <1>12. SearchSeesAll' /\ Unknown'
    <2>1. ~Found(t)
      BY <1>1 DEF OwnerInv, Unknown, Counting
    <2> QED
      BY <1>2, <1>3, <1>4, <1>5, <2>1 DEF OwnerInv, SearchSeesAll, Unknown, Counting, Found
  <1> QED
    BY <1>7, <1>8, <1>9, <1>10, <1>11, <1>12 DEF OwnerInv

LEMMA InsertOwner == ASSUME OwnerInv, NEW t \in Thread, Insert(t) PROVE OwnerInv'
  <1> SUFFICES ASSUME NEW m, m = look[t].main, NEW p, p = look[t].producer,
                      NEW f, f = tables[m].entries,
                      NEW g, g = [u \in DOMAIN f \union {t} |-> IF u = t THEN p ELSE f[u]]
               PROVE  OwnerInv'
    OBVIOUS
  <1>1. /\ look[t] \in Call /\ look[t].pc = "insert" /\ m \in DOMAIN tables
        /\ look \in [Thread -> Call] /\ tables \in Seq(HashTable)
    BY DEF OwnerInv, HashTypeOK, Insert, Go, Counting
  <1>2. p \in Nat \ {0} /\ p \in DOMAIN owner /\ owner[p] = t
    BY <1>1 DEF OwnerInv, HashTypeOK, ProducerOwned
  <1>3. tables[m] \in HashTable /\ f \in Entries
    <2>1. tables[m] \in HashTable
      BY <1>1
    <2> QED
      BY <2>1 DEF HashTable
  <1>4. /\ g \in Entries /\ DOMAIN g = DOMAIN f \union {t}
        /\ g[t] = p /\ \A u \in DOMAIN f : u # t => g[u] = f[u]
    BY ONLY <1>2, <1>3, t \in Thread, AddEntry,
       g = [u \in DOMAIN f \union {t} |-> IF u = t THEN p ELSE f[u]]
  <1>5. /\ look' = [look EXCEPT ![t] = [NoCall EXCEPT !.pc = "done", !.producer = p]]
        /\ tables' = [tables EXCEPT ![m].entries = g]
        /\ hashCount' = hashCount /\ resizing' = resizing /\ owner' = owner
    BY DEF Insert, Go
  <1>6. /\ DOMAIN tables' = DOMAIN tables /\ tables' # <<>> /\ Len(tables') = Len(tables)
        /\ tables'[m] = [tables[m] EXCEPT !.entries = g]
        /\ \A h \in DOMAIN tables : h # m => tables'[h] = tables[h]
        /\ tables' \in Seq(HashTable)
    <2>1. [tables[m] EXCEPT !.entries = g] \in HashTable
      BY <1>3, <1>4 DEF HashTable
    <2> QED
      BY <1>1, <1>5, <2>1 DEF OwnerInv, HashTypeOK
  <1>7. tables'[m].entries = g /\ tables'[m].capacity = tables[m].capacity
    BY <1>3, <1>6 DEF HashTable
  <1>8. PICK r \in Call : look' = [look EXCEPT ![t] = r] /\ r.pc = "done" /\ r.producer = p
    <2>1. PICK r : r = [NoCall EXCEPT !.pc = "done", !.producer = p]
      OBVIOUS
    <2>2. r \in Call /\ r.pc = "done" /\ r.producer = p
      BY <1>2, <2>1, NoCallType, PcType DEF Call
    <2> QED
      BY <1>5, <2>1, <2>2
  <1>9. /\ look'[t] = r /\ \A u \in Thread : u # t => look'[u] = look[u]
        /\ look' \in [Thread -> Call]
    BY <1>1, <1>8
  <1>10. /\ \A u \in Thread : u # t => (Found(u)' <=> Found(u))
         /\ Found(t)'
    <2>1. \A h \in DOMAIN tables, u \in Thread :
            u # t => (u \in DOMAIN tables'[h].entries <=> u \in DOMAIN tables[h].entries)
      <3>1. ASSUME NEW u \in Thread, u # t
            PROVE  u \in DOMAIN tables'[m].entries <=> u \in DOMAIN tables[m].entries
        BY <1>4, <1>7, <3>1
      <3> QED
        BY <1>6, <3>1
    <2>2. t \in DOMAIN tables'[m].entries
      BY <1>4, <1>7
    <2> QED
      BY <1>1, <1>6, <2>1, <2>2 DEF Found
  <1>11. HashTypeOK'
    BY <1>5, <1>6, <1>8, <1>9 DEF OwnerInv, HashTypeOK, Counting
  <1>12. EntriesOwned'
    <2>1. ASSUME NEW h \in DOMAIN tables', NEW u \in DOMAIN tables'[h].entries
          PROVE  tables'[h].entries[u] \in DOMAIN owner /\ owner[tables'[h].entries[u]] = u
      <3>1. CASE h # m
        BY <1>6, <2>1, <3>1 DEF OwnerInv, EntriesOwned
      <3>2. CASE h = m /\ u = t
        BY <1>2, <1>4, <1>7, <3>2
      <3>3. CASE h = m /\ u # t
        BY <1>1, <1>4, <1>7, <2>1, <3>3 DEF OwnerInv, EntriesOwned
      <3> QED
        BY <3>1, <3>2, <3>3
    <2> QED
      BY <1>5, <2>1 DEF EntriesOwned
  <1>13. ProducerOwned' /\ OneProducerEach'
    BY <1>2, <1>5, <1>8, <1>9 DEF OwnerInv, ProducerOwned, OneProducerEach
  <1>14. Known'
    <2>1. \A q \in DOMAIN owner : owner[q] \in Thread
      BY DEF OwnerInv, HashTypeOK
    <2> QED
      BY <1>5, <1>9, <1>10, <2>1 DEF OwnerInv, Known
  <1>15. SearchSeesAll'
    <2>1. ASSUME NEW u \in Thread, look'[u].pc \in {"search", "insert"}, NEW h \in DOMAIN tables',
                 u \in DOMAIN tables'[h].entries
          PROVE  h <= look'[u].main
      <3>1. u # t
        BY <1>8, <1>9, <2>1
      <3>2. u \in DOMAIN tables[h].entries
        <4>1. CASE h = m
          BY <1>4, <1>7, <2>1, <3>1, <4>1
        <4>2. CASE h # m
          BY <1>6, <2>1, <4>2
        <4> QED
          BY <4>1, <4>2
      <3> QED
        BY <1>6, <1>9, <2>1, <3>1, <3>2 DEF OwnerInv, SearchSeesAll
    <2> QED
      BY <2>1 DEF SearchSeesAll
  <1>16. Unknown'
    BY <1>8, <1>9, <1>10 DEF OwnerInv, Unknown, Counting
  <1> QED
    BY <1>11, <1>12, <1>13, <1>14, <1>15, <1>16 DEF OwnerInv

(* Whatever a thread finds in its tables is its producer; only who has     *)
(* found nothing gets a new one.                                           *)
LEMMA HashOwner == OwnerInv /\ HashNext => OwnerInv'
  <1> SUFFICES ASSUME OwnerInv, HashNext PROVE OwnerInv'
    OBVIOUS
  <1>0. /\ look \in [Thread -> Call] /\ tables \in Seq(HashTable) /\ tables # <<>>
        /\ Len(tables) \in DOMAIN tables /\ Len(tables) \in Nat
        /\ hashCount \in Int /\ resizing \in BOOLEAN
    BY DEF OwnerInv, HashTypeOK
  <1>1. CASE UNCHANGED hash
    BY <1>1 DEF hash, OwnerInv, HashTypeOK, EntriesOwned, ProducerOwned, Known, SearchSeesAll,
      Unknown, OneProducerEach, Found
  <1> SUFFICES ASSUME NEW t \in Thread,
                      \/ get_or_add_implicit_producer(t) \/ LookUp(t)
                      \/ LookedUp(t) /\ UNCHANGED <<tables, hashCount, resizing, owner>>
               PROVE  OwnerInv'
    BY <1>1 DEF HashNext
  <1>2. /\ look[t] \in Call
        /\ look[t].pc \in {"search", "count"} \union Counting => look[t].main \in DOMAIN tables
        /\ look[t].pc \in {"count"} \union (Counting \ {"insert"}) => ~Found(t)
    BY <1>0 DEF OwnerInv, HashTypeOK, Unknown
  <1>3. CASE get_or_add_implicit_producer(t)
    <2>1. PICK r : r = [NoCall EXCEPT !.pc = "search", !.main = Len(tables)]
      OBVIOUS
    <2>2. r \in Call /\ r.pc = "search" /\ r.main = Len(tables)
      BY <1>0, <2>1, NoCallType, PcType DEF Call
    <2>3. look[t].pc # "insert" /\ look' = [look EXCEPT ![t] = r]
          /\ UNCHANGED <<tables, hashCount, resizing, owner>>
      BY <1>3, <2>1 DEF get_or_add_implicit_producer, Go, newest
    <2> QED
      BY <1>0, <2>2, <2>3, LookStep DEF Counting
  <1>4. CASE LookedUp(t) /\ UNCHANGED <<tables, hashCount, resizing, owner>>
    <2>1. NoCall \in Call /\ NoCall.pc = "none"
      BY NoCallType
    <2>2. look[t].pc # "insert" /\ look' = [look EXCEPT ![t] = NoCall]
      BY <1>4 DEF LookedUp, Go
    <2> QED
      BY <1>0, <1>4, <2>1, <2>2, LookStep DEF Counting
  <1>5. CASE Search(t)
    <2>1. look[t].pc = "search" /\ UNCHANGED <<tables, hashCount, resizing, owner>>
      BY <1>5 DEF Search
    <2>2. CASE ~Found(t)
      <3>1. PICK r : r = [look[t] EXCEPT !.pc = "count"]
        OBVIOUS
      <3>2. look' = [look EXCEPT ![t] = r]
        <4>1. PICK in : in = {h \in 1..look[t].main : t \in DOMAIN tables[h].entries}
          OBVIOUS
        <4>2. look[t].main \in DOMAIN tables /\ DOMAIN tables = 1..Len(tables)
          BY <1>0, <1>2, <2>1
        <4>3. in = {}
          BY <1>0, <2>2, <4>1, <4>2 DEF Found
        <4> QED
          BY <1>5, <3>1, <4>1, <4>3 DEF Search, Go, Searched
      <3>3. r \in Call /\ r.pc = "count" /\ r.main = look[t].main
        BY <1>2, <3>1, PcType, SetPc
      <3> QED
        BY <1>0, <1>2, <2>1, <2>2, <3>2, <3>3, LookStep DEF Counting
    <2>3. CASE Found(t)
      <3> SUFFICES ASSUME NEW in, in = {h \in 1..look[t].main : t \in DOMAIN tables[h].entries}
                   PROVE  OwnerInv'
        OBVIOUS
      <3>1. in # {} /\ in \subseteq DOMAIN tables /\ look[t].main \in DOMAIN tables
        <4>1. PICK h \in DOMAIN tables : t \in DOMAIN tables[h].entries
          BY <2>3 DEF Found
        <4>2. h <= look[t].main
          BY <2>1, <4>1 DEF OwnerInv, SearchSeesAll
        <4>3. look[t].main \in DOMAIN tables /\ DOMAIN tables = 1..Len(tables)
          BY <1>0, <1>2, <2>1
        <4> QED
          BY <1>0, <4>1, <4>2, <4>3
      <3>2. Max(in) \in in
        <4>1. in \in SUBSET (1..Len(tables))
          BY <1>0, <3>1
        <4> QED
          BY <1>0, <3>1, <4>1, MaxIn
      <3>3. PICK p : p = tables[Max(in)].entries[t]
        OBVIOUS
      <3>4. p \in DOMAIN owner /\ owner[p] = t
        BY <3>1, <3>2, <3>3 DEF OwnerInv, EntriesOwned
      <3>5. p \in Nat
        BY <3>4 DEF OwnerInv, HashTypeOK
      <3>6. PICK r : r = [look[t] EXCEPT !.pc = IF look[t].main \in in THEN "done" ELSE "insert",
                                        !.producer = p]
        OBVIOUS
      <3>7. look' = [look EXCEPT ![t] = r]
        BY <1>5, <3>1, <3>3, <3>6 DEF Search, Go, Searched
      <3>8. /\ r \in Call /\ r.pc \in {"done", "insert"} /\ r.main = look[t].main
            /\ r.producer = p
        <4>1. (IF look[t].main \in in THEN "done" ELSE "insert") \in Pcs
          BY PcType
        <4> QED
          BY <1>2, <3>5, <3>6, <4>1 DEF Call
      <3>9. \A h \in DOMAIN tables : t \in DOMAIN tables[h].entries => h <= r.main
        BY <2>1, <3>8 DEF OwnerInv, SearchSeesAll
      <3> QED
        BY <1>0, <1>2, <2>1, <3>1, <3>4, <3>7, <3>8, <3>9, LookStep DEF Counting
    <2> QED
      BY <2>2, <2>3
  <1>6. CASE Count(t)
    <2>1. /\ look[t].pc = "count" /\ hashCount' = hashCount + 1
          /\ UNCHANGED <<tables, resizing, owner>>
      BY <1>6 DEF Count, Go
    <2>2. PICK r : r = [look[t] EXCEPT !.pc = "full", !.count = hashCount + 1]
      OBVIOUS
    <2>3. look' = [look EXCEPT ![t] = r]
      BY <1>6, <2>2 DEF Count, Go
    <2>4. r \in Call /\ r.pc = "full" /\ r.main = look[t].main
      <3>1. hashCount + 1 \in Int /\ "full" \in Pcs
        BY <1>0, PcType
      <3> QED
        BY <1>2, <2>2, <3>1 DEF Call
    <2>5. hashCount' \in Int /\ resizing' \in BOOLEAN
      BY <1>0, <2>1
    <2> QED
      BY <1>0, <1>2, <2>1, <2>3, <2>4, <2>5, LookStep DEF Counting
  <1>7. CASE TestAndSet(t)
    <2>1. look[t].pc = "full" /\ UNCHANGED <<tables, hashCount, owner>> /\ resizing' \in BOOLEAN
      BY <1>0, <1>7 DEF TestAndSet
    <2>2. PICK r : /\ look' = [look EXCEPT ![t] = r]
                   /\ \/ r = [look[t] EXCEPT !.pc = "resize", !.main = Len(tables)]
                      \/ r = [look[t] EXCEPT !.pc = "create"]
                      \/ r = [look[t] EXCEPT !.main = Len(tables)]
      BY <1>7 DEF TestAndSet, Go, newest
    <2>3. /\ r \in Call /\ r.pc \in {"resize", "create", "full"}
          /\ r.main \in {look[t].main, Len(tables)}
      <3>1. {"resize", "create"} \subseteq Pcs
        BY PcType
      <3> QED
        BY <1>0, <1>2, <2>1, <2>2, <3>1 DEF Call
    <2> QED
      BY <1>0, <1>2, <2>1, <2>2, <2>3, LookStep DEF Counting
  <1>8. CASE Resize(t)
    BY <1>8, ResizeOwner
  <1>9. CASE Resized(t)
    <2>1. look[t].pc \in {"resized", "resize"} /\ UNCHANGED <<tables, hashCount, owner>>
          /\ resizing' = FALSE
      BY <1>9 DEF Resized
    <2>2. PICK r : /\ look' = [look EXCEPT ![t] = r]
                   /\ \/ r = [look[t] EXCEPT !.pc = "create", !.main = look[t].main]
                      \/ r = [look[t] EXCEPT !.pc = "full", !.main = Len(tables)]
      BY <1>0, <1>9 DEF Resized, newest
    <2>3. /\ r \in Call /\ r.pc \in {"create", "full"}
          /\ r.main \in {look[t].main, Len(tables)}
      <3>1. {"full", "create"} \subseteq Pcs /\ look[t].main \in Nat
        BY <1>2, PcType DEF Call
      <3> QED
        BY <1>0, <1>2, <2>1, <2>2, <3>1 DEF Call
    <2> QED
      BY <1>0, <1>2, <2>1, <2>2, <2>3, LookStep DEF Counting
  <1>10. CASE ResizeFails(t) \/ CreateFails(t)
    <2>1. PICK r : r = [NoCall EXCEPT !.pc = "done"]
      OBVIOUS
    <2>2. r \in Call /\ r.pc = "done" /\ r.producer = 0
      BY <2>1, NoCallType, PcType, SetPc
    <2>3. /\ look[t].pc \in {"resize", "create"} /\ UNCHANGED <<tables, owner>>
          /\ hashCount' \in Int /\ resizing' \in BOOLEAN /\ look' = [look EXCEPT ![t] = r]
      <3>1. hashCount - 1 \in Int
        BY <1>0
      <3> QED
        BY <1>0, <1>10, <2>1, <3>1 DEF ResizeFails, CreateFails, Go
    <2> QED
      BY <2>2, <2>3, LookStep DEF Counting
  <1>11. CASE add_producer(t)
    BY <1>11, AddProducerOwner
  <1>12. CASE Insert(t)
    BY <1>12, InsertOwner
  <1> QED
    BY <1>3, <1>4, <1>5, <1>6, <1>7, <1>8, <1>9, <1>10, <1>11, <1>12 DEF LookUp

(* The inductive invariant of the producers holds in every state. *)
THEOREM OwnerInvariant == Spec => []OwnerInv
  <1>1. OwnerInv /\ [Next]_vars => OwnerInv'
    BY NextIsHashNext, HashOwner
  <1> QED
    BY <1>1, InitOwner, PTL DEF Spec

(* A thread has one producer, whatever tables are made while it looks it   *)
(* up and whichever allocations fail.                                      *)
THEOREM OneProducerAlways == Spec => []OneProducerEach
  BY OwnerInvariant, PTL DEF OwnerInv

(***************************************************************************)
(* Every table keeps a free slot                                           *)
(***************************************************************************)

LEMMA Limits ==
  ASSUME OwnerInv
  PROVE  /\ \A h \in DOMAIN tables :
              /\ tables[h].capacity \in Nat /\ tables[h].capacity >= 2
              /\ Limit(h) \in Nat /\ Limit(h) >= 1 /\ Limit(h) < tables[h].capacity
         /\ TablesGrow => \A g, h \in DOMAIN tables : g <= h => Limit(g) <= Limit(h)
         /\ \A c \in Call : Room(c) <=> c.count < Limit(c.main)
  <1>1. \A h \in DOMAIN tables : tables[h].capacity \in Nat /\ tables[h].capacity >= 2
    <2>1. \A h \in DOMAIN tables : tables[h] \in HashTable
      BY DEF OwnerInv, HashTypeOK
    <2> QED
      BY <2>1 DEF HashTable
  <1>2. \A n \in Nat : n >= 2 => /\ n \div 2 + n \div 4 \in Nat /\ n \div 2 + n \div 4 >= 1
                               /\ n \div 2 + n \div 4 < n
    OBVIOUS
  <1>3. \A a, b \in Nat : a <= b => a \div 2 + a \div 4 <= b \div 2 + b \div 4
    OBVIOUS
  <1>4. \A h \in DOMAIN tables : Limit(h) \in Nat /\ Limit(h) >= 1 /\ Limit(h) < tables[h].capacity
    BY <1>1, <1>2 DEF Limit
  <1>5. TablesGrow => \A g, h \in DOMAIN tables : g <= h => Limit(g) <= Limit(h)
    BY <1>1, <1>3 DEF Limit, TablesGrow
  <1> QED
    BY <1>1, <1>4, <1>5 DEF Room, Limit

LEMMA EarlyAreCounted ==
  ASSUME CountIsExact, NEW h, NEW k
  PROVE  /\ Early(h, k) \subseteq Counted /\ IsFiniteSet(Early(h, k))
         /\ Cardinality(Early(h, k)) \in Nat
         /\ \A S : S \subseteq Early(h, k) =>
              IsFiniteSet(S) /\ Cardinality(S) \in Nat /\ Cardinality(S) <= Cardinality(Early(h, k))
  <1>1. Early(h, k) \subseteq Counted
    BY DEF Early, Counted, Found
  <1>2. IsFiniteSet(Early(h, k))
    BY <1>1, FS_Subset DEF CountIsExact
  <1> QED
    BY <1>1, <1>2, FS_Subset, FS_CardinalityType

(* Steps that leave no table with more early threads than one had before. *)
LEMMA EarlyShrinks ==
  ASSUME CountIsExact, EarlyFit,
         \A h \in DOMAIN tables' : \E g \in DOMAIN tables :
           Limit(g) <= Limit(h)' /\ Limit(g) \in Nat /\ Limit(h)' \in Nat
           /\ \A k \in Nat : k >= Limit(h)' => Early(h, k)' \subseteq Early(g, k)
  PROVE  EarlyFit'
  <1> SUFFICES ASSUME NEW h \in DOMAIN tables', NEW k \in Nat, k >= Limit(h)'
               PROVE  Cardinality(Early(h, k)') < k
    BY DEF EarlyFit
  <1>1. PICK g \in DOMAIN tables :
          /\ Limit(g) <= Limit(h)' /\ Limit(g) \in Nat /\ Limit(h)' \in Nat
          /\ Early(h, k)' \subseteq Early(g, k)
    OBVIOUS
  <1>2. Cardinality(Early(g, k)) < k
    BY <1>1 DEF EarlyFit
  <1>3. /\ Cardinality(Early(h, k)') \in Nat /\ Cardinality(Early(g, k)) \in Nat
        /\ Cardinality(Early(h, k)') <= Cardinality(Early(g, k))
    BY <1>1, EarlyAreCounted
  <1> QED
    BY <1>2, <1>3

(* The flag and the step of one thread agree on who makes a table. *)
ResizerPc(pc) == pc \in {"resize", "resized"}
ResizeKept(c, r) ==
  /\ ResizerPc(r.pc) => ~resizing /\ resizing' /\ r.main = Len(tables)
  /\ ResizerPc(c.pc) \/ ResizerPc(r.pc) \/ resizing' = resizing

(* How a call may go on while no table changes. *)
Looks(t, r) ==
  /\ look[t].pc \notin Counting
  /\ r.pc \notin Counting \/ (r.pc = "insert" /\ Found(t))
  /\ hashCount' = hashCount
Counts(t, r) ==
  /\ look[t].pc = "count" /\ r.pc = "full" /\ r.count = hashCount + 1
  /\ hashCount' = hashCount + 1
Continues(t, r) ==
  /\ look[t].pc \in Counting \ {"insert"} /\ r.pc \in Counting
  /\ r.count = look[t].count /\ hashCount' = hashCount
  /\ r.pc \in {"create", "insert"} => Room(r)
GivesUp(t, r) ==
  /\ look[t].pc \in Counting \ {"insert"} /\ r.pc = "done" /\ hashCount' = hashCount - 1

LEMMA LookSlots ==
  ASSUME SlotInv, OwnerInv', NEW t \in Thread, NEW r \in Call,
         look' = [look EXCEPT ![t] = r], tables' = tables, ResizeKept(look[t], r),
         Looks(t, r) \/ Counts(t, r) \/ Continues(t, r) \/ GivesUp(t, r)
  PROVE  SlotInv'
  <1>1. /\ look'[t] = r /\ \A u \in Thread : u # t => look'[u] = look[u]
        /\ look \in [Thread -> Call]
    BY DEF SlotInv, OwnerInv, HashTypeOK
  <1>2. \A u : Found(u)' <=> Found(u)
    BY DEF Found
  <1>3. TablesGrow' /\ \A h : Limit(h)' = Limit(h)
    BY DEF SlotInv, TablesGrow, Limit
  <1>4. OneResizer'
    BY <1>1 DEF SlotInv, OneResizer, Resizer, ResizeKept, ResizerPc
  <1>5. HadRoom'
    <2>1. \A c : Room(c)' <=> Room(c)
      BY DEF Room
    <2> QED
      BY <1>1, <1>2, <2>1 DEF SlotInv, HadRoom, Looks, Counts, Continues, GivesUp, Counting
  <1>6. look[t].pc \in {"count"} \union (Counting \ {"insert"}) => ~Found(t)
    BY DEF SlotInv, OwnerInv, Unknown
  <1>7. IsFiniteSet(Counted) /\ hashCount = Cardinality(Counted) /\ Cardinality(Counted) \in Nat
    BY FS_CardinalityType DEF SlotInv, CountIsExact
  <1>8. \A u \in Thread : u # t => (u \in Counted' <=> u \in Counted)
    BY <1>1, <1>2 DEF Counted
  <1>9. CASE Counts(t, r)
    <2>1. t \notin Counted /\ Counted' = Counted \union {t}
      BY <1>1, <1>2, <1>6, <1>8, <1>9 DEF Counted, Counts, Counting
    <2>2. IsFiniteSet(Counted') /\ Cardinality(Counted') = hashCount + 1
      BY <1>7, <2>1, FS_AddElement
    <2>3. CountIsExact'
      BY <1>9, <2>2 DEF CountIsExact, Counts
    <2>4. EarlyFit'
      <3> SUFFICES ASSUME NEW h \in DOMAIN tables, NEW k \in Nat, k >= Limit(h)
                   PROVE  Cardinality(Early(h, k)') < k
        BY <1>3 DEF EarlyFit
      <3>1. CASE hashCount + 1 < k
        <4>1. Early(h, k)' \subseteq Counted'
          BY DEF Early, Counted, Found
        <4>2. Cardinality(Early(h, k)') \in Nat /\ Cardinality(Early(h, k)') <= hashCount + 1
          BY <2>2, <4>1, FS_Subset, FS_CardinalityType
        <4> QED
          BY <1>7, <3>1, <4>2
      <3>2. CASE ~(hashCount + 1 < k)
        <4>1. Early(h, k)' \subseteq Early(h, k)
          BY <1>1, <1>2, <1>6, <1>9, <3>2 DEF Early, Counts, Counting, Found
        <4>2. /\ Cardinality(Early(h, k)') \in Nat /\ Cardinality(Early(h, k)) \in Nat
              /\ Cardinality(Early(h, k)') <= Cardinality(Early(h, k))
          BY <4>1, EarlyAreCounted DEF SlotInv
        <4>3. Cardinality(Early(h, k)) < k
          BY DEF SlotInv, EarlyFit
        <4> QED
          BY <4>2, <4>3
      <3> QED
        BY <3>1, <3>2
    <2> QED
      BY <1>3, <1>4, <1>5, <2>3, <2>4 DEF SlotInv
  <1>10. CASE ~Counts(t, r)
    <2>1. \A h, k : Early(h, k)' \subseteq Early(h, k)
      BY <1>1, <1>2, <1>10 DEF Early, Looks, Continues, GivesUp, Counting
    <2>2. EarlyFit'
      <3>1. \A h \in DOMAIN tables : Limit(h) \in Nat
        BY Limits DEF SlotInv
      <3> QED
        BY <1>3, <2>1, <3>1, EarlyShrinks DEF SlotInv
    <2>3. CASE GivesUp(t, r)
      <3>1. t \in Counted /\ Counted' = Counted \ {t}
        BY <1>1, <1>2, <1>6, <1>8, <2>3 DEF Counted, GivesUp, Counting
      <3>2. IsFiniteSet(Counted') /\ Cardinality(Counted') = hashCount - 1
        BY <1>7, <3>1, FS_RemoveElement
      <3>3. CountIsExact'
        BY <2>3, <3>2 DEF CountIsExact, GivesUp
      <3> QED
        BY <1>3, <1>4, <1>5, <2>2, <3>3 DEF SlotInv
    <2>4. CASE ~GivesUp(t, r)
      <3>1. Counted' = Counted
        BY <1>1, <1>2, <1>8, <1>10, <2>4 DEF Counted, Looks, Continues, Counting
      <3>2. hashCount' = hashCount
        BY <1>10, <2>4 DEF Looks, Continues
      <3> QED
        BY <1>3, <1>4, <1>5, <1>7, <2>2, <3>1, <3>2 DEF SlotInv, CountIsExact
    <2> QED
      BY <2>3, <2>4
  <1> QED
    BY <1>9, <1>10

LEMMA ResizeSlots == ASSUME SlotInv, OwnerInv', NEW t \in Thread, Resize(t) PROVE SlotInv'
  <1>0. OwnerInv
    BY DEF SlotInv
  <1>1. /\ look[t] \in Call /\ look[t].pc = "resize" /\ look[t].main = Len(tables)
        /\ look \in [Thread -> Call] /\ tables \in Seq(HashTable) /\ Len(tables) \in DOMAIN tables
        /\ Len(tables) \in Nat /\ DOMAIN tables = 1..Len(tables)
        /\ \A h \in DOMAIN tables : h <= Len(tables)
    BY <1>0 DEF OwnerInv, HashTypeOK, Resize, SlotInv, OneResizer, Resizer
  <1>2. PICK n \in Nat : /\ n >= tables[Len(tables)].capacity
                        /\ tables' = Append(tables, Table(n))
    <2>1. PICK n \in NewCapacity(look[t]) : tables' = Append(tables, Table(n))
      BY DEF Resize
    <2>2. tables[look[t].main].capacity \in Nat /\ look[t].count \in Int
      BY <1>0, <1>1, Limits DEF Call
    <2>3. n \in Nat /\ n >= 2 * tables[look[t].main].capacity
      BY <2>1, <2>2, NewCapacityGrows
    <2>4. n \in Nat /\ n >= tables[Len(tables)].capacity
      BY <1>1, <2>2, <2>3
    <2> QED
      BY <2>1, <2>4
  <1>3. /\ Len(tables') = Len(tables) + 1 /\ DOMAIN tables' = DOMAIN tables \union {Len(tables) + 1}
        /\ \A h \in DOMAIN tables : tables'[h] = tables[h]
        /\ tables'[Len(tables) + 1].capacity = n
        /\ DOMAIN tables'[Len(tables) + 1].entries = {}
    <2>1. /\ Len(tables') = Len(tables) + 1 /\ tables'[Len(tables) + 1] = Table(n)
          /\ \A h \in 1..Len(tables) : tables'[h] = tables[h]
          /\ DOMAIN tables' = 1..(Len(tables) + 1)
      BY <1>1, <1>2
    <2>2. Table(n).capacity = n /\ DOMAIN Table(n).entries = {}
      BY EmptyEntries DEF Table
    <2> QED
      BY <1>1, <2>1, <2>2
  <1>4. PICK r \in Call : /\ look' = [look EXCEPT ![t] = r] /\ r.pc = "resized"
                         /\ r.main = Len(tables) + 1 /\ r.count = look[t].count
    <2>1. PICK r : r = [look[t] EXCEPT !.pc = "resized", !.main = Len(tables) + 1]
      OBVIOUS
    <2>2. look' = [look EXCEPT ![t] = r]
      BY <2>1 DEF Resize, Go, newest
    <2>3. "resized" \in Pcs /\ Len(tables) + 1 \in Nat
      BY <1>1, PcType
    <2>4. r \in Call /\ r.pc = "resized" /\ r.main = Len(tables) + 1 /\ r.count = look[t].count
      BY <1>1, <2>1, <2>3 DEF Call
    <2> QED
      BY <2>2, <2>4
  <1>5. /\ look'[t] = r /\ \A u \in Thread : u # t => look'[u] = look[u]
        /\ hashCount' = hashCount /\ resizing' = resizing
    BY <1>1, <1>4 DEF Resize
  <1>6. \A u : Found(u)' <=> Found(u)
    BY <1>3 DEF Found
  <1>7. TablesGrow'
    <2>1. \A g \in DOMAIN tables : tables[g].capacity \in Nat /\ tables[g].capacity <= n
      BY <1>0, <1>1, <1>2, Limits DEF SlotInv, TablesGrow
    <2> QED
      BY <1>1, <1>2, <1>3, <2>1 DEF SlotInv, TablesGrow
  <1>8. OneResizer'
    BY <1>1, <1>3, <1>4, <1>5 DEF SlotInv, OneResizer, Resizer
  <1>9. Counted' = Counted
    BY <1>1, <1>4, <1>5, <1>6 DEF Counted, Counting
  <1>10. CountIsExact'
    BY <1>5, <1>9 DEF SlotInv, CountIsExact
  <1>11. \A h \in DOMAIN tables : Limit(h)' = Limit(h)
    BY <1>3 DEF Limit
  <1>12. HadRoom'
    <2>1. ASSUME NEW u \in Thread, look'[u].pc = "create" \/ (look'[u].pc = "insert" /\ ~Found(u)')
          PROVE  Room(look[u])'
      <3>1. u # t /\ look'[u] = look[u] /\ Room(look[u])
        BY <1>4, <1>5, <1>6, <2>1 DEF SlotInv, HadRoom
      <3>2. look[u].main \in DOMAIN tables
        BY <1>0, <2>1, <3>1 DEF OwnerInv, HashTypeOK, Counting
      <3> QED
        BY <1>3, <3>1, <3>2 DEF Room
    <2> QED
      BY <2>1 DEF HadRoom
  <1>13. EarlyFit'
    <2>1. ASSUME NEW h \in DOMAIN tables, NEW k \in Nat PROVE Early(h, k)' \subseteq Early(h, k)
      BY <1>1, <1>3, <1>4, <1>5, <1>6 DEF Early, Counting
    <2>3. PICK last \in Nat : last = Len(tables) + 1
      BY <1>1
    <2>2. ASSUME NEW h, h = last, NEW k \in Nat
          PROVE  Early(h, k)' \subseteq Early(Len(tables), k)
      BY <1>1, <1>3, <1>4, <1>5, <1>6, <2>2, <2>3 DEF Early, Counting
    <2>4. Limit(last)' = n \div 2 + n \div 4
      BY <1>3, <2>3 DEF Limit
    <2>5. Limit(last)' \in Nat /\ Limit(Len(tables)) <= Limit(last)'
      <3>1. \A a, b \in Nat : a <= b => /\ a \div 2 + a \div 4 <= b \div 2 + b \div 4
                                      /\ b \div 2 + b \div 4 \in Nat
        OBVIOUS
      <3>2. tables[Len(tables)].capacity \in Nat
        BY <1>0, <1>1, Limits
      <3> QED
        BY <1>2, <2>4, <3>1, <3>2 DEF Limit
    <2>6. \A h \in DOMAIN tables : Limit(h) \in Nat
      BY <1>0, Limits
    <2>7. \A h \in DOMAIN tables : Limit(h) <= Limit(h)' /\ Limit(h)' \in Nat
      BY <1>11, <2>6
    <2>8. ASSUME NEW h \in DOMAIN tables'
          PROVE  \E g \in DOMAIN tables :
                   Limit(g) <= Limit(h)' /\ Limit(g) \in Nat /\ Limit(h)' \in Nat
                   /\ \A k \in Nat : k >= Limit(h)' => Early(h, k)' \subseteq Early(g, k)
      <3>1. CASE h \in DOMAIN tables
        BY <2>1, <2>6, <2>7, <3>1
      <3>2. CASE h = last
        <4>1. \A k \in Nat : Early(h, k)' \subseteq Early(Len(tables), k)
          BY <2>2, <2>3, <3>2
        <4>2. Limit(Len(tables)) <= Limit(h)' /\ Limit(h)' \in Nat /\ Limit(Len(tables)) \in Nat
          BY <1>1, <2>5, <2>6, <3>2
        <4> QED
          BY <1>1, <4>1, <4>2
      <3> QED
        BY <1>3, <2>3, <3>1, <3>2
    <2> QED
      BY <2>8, EarlyShrinks DEF SlotInv
  <1> QED
    BY <1>7, <1>8, <1>10, <1>12, <1>13 DEF SlotInv

LEMMA InsertSlots == ASSUME SlotInv, OwnerInv', NEW t \in Thread, Insert(t) PROVE SlotInv'
  <1> SUFFICES ASSUME NEW m, m = look[t].main
               PROVE  SlotInv'
    OBVIOUS
  <1>0. OwnerInv
    BY DEF SlotInv
  <1>1. /\ look[t] \in Call /\ look[t].pc = "insert" /\ m \in DOMAIN tables
        /\ look \in [Thread -> Call] /\ tables \in Seq(HashTable)
    BY <1>0 DEF OwnerInv, HashTypeOK, Insert, Go, Counting
  <1>2. tables[m] \in HashTable
    BY <1>1
  <1>3. /\ DOMAIN tables' = DOMAIN tables /\ Len(tables') = Len(tables)
        /\ \A h \in DOMAIN tables : h # m => tables'[h] = tables[h]
        /\ tables'[m].capacity = tables[m].capacity
        /\ DOMAIN tables'[m].entries = DOMAIN tables[m].entries \union {t}
    <2>1. PICK g : g = [u \in DOMAIN tables[m].entries \union {t} |->
                         IF u = t THEN look[t].producer ELSE tables[m].entries[u]]
      OBVIOUS
    <2>2. tables' = [tables EXCEPT ![m].entries = g]
      BY <2>1 DEF Insert
    <2>3. DOMAIN g = DOMAIN tables[m].entries \union {t}
      BY <2>1
    <2>4. /\ DOMAIN tables' = DOMAIN tables /\ Len(tables') = Len(tables)
          /\ \A h \in DOMAIN tables : h # m => tables'[h] = tables[h]
          /\ tables'[m] = [tables[m] EXCEPT !.entries = g]
      BY <1>1, <2>2
    <2> QED
      BY <1>2, <2>3, <2>4 DEF HashTable
  <1>4. PICK r \in Call : look' = [look EXCEPT ![t] = r] /\ r.pc = "done"
    <2>1. PICK r : r = [NoCall EXCEPT !.pc = "done", !.producer = look[t].producer]
      OBVIOUS
    <2>2. r \in Call /\ r.pc = "done"
      BY <1>1, <2>1, NoCallType, PcType DEF Call
    <2>3. look' = [look EXCEPT ![t] = r]
      BY <2>1 DEF Insert, Go
    <2> QED
      BY <2>2, <2>3
  <1>5. /\ look'[t] = r /\ \A u \in Thread : u # t => look'[u] = look[u]
        /\ hashCount' = hashCount /\ resizing' = resizing
    BY <1>1, <1>4 DEF Insert
  <1>6. \A h \in DOMAIN tables, u \in Thread :
          u # t => (u \in DOMAIN tables'[h].entries <=> u \in DOMAIN tables[h].entries)
    <2>1. \A u : u # t => (u \in DOMAIN tables'[m].entries <=> u \in DOMAIN tables[m].entries)
      BY <1>3
    <2> QED
      BY <1>3, <2>1
  <1>7. (\A u \in Thread : u # t => (Found(u)' <=> Found(u))) /\ Found(t)'
    BY <1>1, <1>3, <1>6 DEF Found
  <1>8. TablesGrow' /\ \A h \in DOMAIN tables : Limit(h)' = Limit(h)
    <2>1. \A h \in DOMAIN tables : tables'[h].capacity = tables[h].capacity
      BY <1>3
    <2> QED
      BY <1>3, <2>1 DEF SlotInv, TablesGrow, Limit
  <1>9. OneResizer'
    BY <1>3, <1>4, <1>5 DEF SlotInv, OneResizer, Resizer
  <1>10. Counted' = Counted
    BY <1>1, <1>4, <1>5, <1>7 DEF Counted, Counting
  <1>11. CountIsExact'
    BY <1>5, <1>10 DEF SlotInv, CountIsExact
  <1>12. HadRoom'
    <2>1. ASSUME NEW u \in Thread, look'[u].pc = "create" \/ (look'[u].pc = "insert" /\ ~Found(u)')
          PROVE  Room(look[u])'
      <3>1. u # t /\ look'[u] = look[u] /\ Room(look[u])
        BY <1>4, <1>5, <1>7, <2>1 DEF SlotInv, HadRoom
      <3>2. look[u].main \in DOMAIN tables
        BY <1>0, <2>1, <3>1 DEF OwnerInv, HashTypeOK, Counting
      <3>3. tables'[look[u].main].capacity = tables[look[u].main].capacity
        BY <1>3, <3>2
      <3> QED
        BY <3>1, <3>3 DEF Room
    <2> QED
      BY <2>1 DEF HadRoom
  <1>13. EarlyFit'
    <2>1. ASSUME NEW h \in DOMAIN tables, NEW k \in Nat, k >= Limit(h)
          PROVE  Early(h, k)' \subseteq Early(h, k)
      <3>1. ASSUME NEW u \in Early(h, k)', u # t PROVE u \in Early(h, k)
        BY <1>3, <1>5, <1>6, <1>7, <3>1 DEF Early
      <3>2. ASSUME t \in Early(h, k)' PROVE t \in Early(h, k)
        <4>1. PICK g \in DOMAIN tables : g <= h /\ t \in DOMAIN tables'[g].entries
          BY <1>3, <1>7, <3>2 DEF Early
        <4>2. CASE g # m
          BY <1>3, <4>1, <4>2 DEF Early
        <4>3. CASE g = m /\ Found(t)
          <5>1. PICK f \in DOMAIN tables : t \in DOMAIN tables[f].entries
            BY <4>3 DEF Found
          <5>2. f <= m
            BY <1>0, <1>1, <5>1 DEF OwnerInv, SearchSeesAll
          <5>3. f <= h
            BY <1>1, <4>1, <4>3, <5>1, <5>2
          <5> QED
            BY <5>1, <5>3 DEF Early
        <4>4. CASE g = m /\ ~Found(t)
          <5>1. look[t].count < Limit(m)
            BY <1>0, <1>1, <4>4, Limits DEF SlotInv, HadRoom
          <5>2. Limit(m) <= Limit(h) /\ Limit(m) \in Nat /\ Limit(h) \in Nat
            BY <1>0, <1>1, <4>1, <4>4, Limits DEF SlotInv
          <5>3. look[t].count < k
            BY <1>1, <2>1, <5>1, <5>2 DEF Call
          <5> QED
            BY <1>1, <4>4, <5>3 DEF Early, Counting
        <4> QED
          BY <4>2, <4>3, <4>4
      <3> QED
        BY <3>1, <3>2
    <2>2. \A h \in DOMAIN tables : Limit(h) \in Nat
      BY <1>0, Limits
    <2> QED
      BY <1>3, <1>8, <2>1, <2>2, EarlyShrinks DEF SlotInv
  <1> QED
    BY <1>8, <1>9, <1>11, <1>12, <1>13 DEF SlotInv

LEMMA InitSlots == Init => SlotInv
  <1> SUFFICES ASSUME Init PROVE SlotInv
    OBVIOUS
  <1>1. OwnerInv
    BY InitOwner
  <1>2. /\ tables = <<Table(INITIAL_HASH_SIZE)>> /\ hashCount = 0
        /\ look = [t \in Thread |-> NoCall]
    BY DEF Init, HashInit
  <1>3. DOMAIN tables = {1} /\ DOMAIN tables[1].entries = {} /\ tables[1].capacity \in Nat
    BY <1>1, <1>2, EmptyEntries, Limits DEF Table
  <1>4. \A t \in Thread : look[t].pc = "none" /\ ~Found(t)
    BY <1>2, <1>3, NoCallType DEF Found
  <1>5. TablesGrow /\ OneResizer /\ HadRoom
    BY <1>3, <1>4 DEF TablesGrow, OneResizer, Resizer, HadRoom
  <1>6. Counted = {} /\ \A h, k : Early(h, k) = {}
    BY <1>3, <1>4 DEF Counted, Early, Found, Counting
  <1>7. CountIsExact
    BY <1>2, <1>6, FS_EmptySet DEF CountIsExact
  <1>8. EarlyFit
    BY <1>1, <1>6, FS_EmptySet, Limits DEF EarlyFit
  <1> QED
    BY <1>1, <1>5, <1>7, <1>8 DEF SlotInv

(* Who gets an entry was counted below the limit of its table, or of an    *)
(* older and smaller one, and the count was of all who may come before it. *)
LEMMA HashSlots == SlotInv /\ HashNext => SlotInv'
  <1> SUFFICES ASSUME SlotInv, HashNext PROVE SlotInv'
    OBVIOUS
  <1>0. /\ OwnerInv /\ OwnerInv' /\ look \in [Thread -> Call] /\ hashCount \in Int
        /\ Len(tables) \in Nat
    BY HashOwner DEF SlotInv, OwnerInv, HashTypeOK
  <1>1. CASE UNCHANGED hash
    <2>1. \A h, k : Early(h, k)' = Early(h, k)
      BY <1>1 DEF hash, Early, Found
    <2>2. Counted' = Counted /\ \A h : Limit(h)' = Limit(h)
      BY <1>1 DEF hash, Counted, Found, Limit
    <2>3. EarlyFit' /\ CountIsExact'
      BY <1>1, <2>1, <2>2 DEF hash, SlotInv, EarlyFit, CountIsExact
    <2>4. TablesGrow' /\ OneResizer' /\ HadRoom'
      BY <1>1 DEF hash, SlotInv, TablesGrow, OneResizer, Resizer, HadRoom, Room, Found
    <2> QED
      BY <1>0, <2>3, <2>4 DEF SlotInv
  <1> SUFFICES ASSUME NEW t \in Thread,
                      \/ get_or_add_implicit_producer(t) \/ LookUp(t)
                      \/ LookedUp(t) /\ UNCHANGED <<tables, hashCount, resizing, owner>>
               PROVE  SlotInv'
    BY <1>1 DEF HashNext
  <1>2. look[t] \in Call /\ look' \in [Thread -> Call]
    BY <1>0 DEF OwnerInv, HashTypeOK
  <1>3. CASE get_or_add_implicit_producer(t)
    <2>1. PICK r : r = [NoCall EXCEPT !.pc = "search", !.main = Len(tables)]
      OBVIOUS
    <2>2. r \in Call /\ r.pc = "search"
      BY <1>0, <2>1, NoCallType, PcType DEF Call
    <2>3. look[t].pc = "none" /\ look' = [look EXCEPT ![t] = r]
          /\ UNCHANGED <<tables, hashCount, resizing>>
      BY <1>3, <2>1 DEF get_or_add_implicit_producer, Go, newest
    <2>4. ResizeKept(look[t], r) /\ Looks(t, r)
      BY <2>2, <2>3 DEF ResizeKept, ResizerPc, Looks, Counting
    <2> QED
      BY <1>0, <2>2, <2>3, <2>4, LookSlots
  <1>4. CASE LookedUp(t) /\ UNCHANGED <<tables, hashCount, resizing, owner>>
    <2>1. look[t].pc = "done" /\ look' = [look EXCEPT ![t] = NoCall]
      BY <1>4 DEF LookedUp, Go
    <2>2. ResizeKept(look[t], NoCall) /\ Looks(t, NoCall)
      BY <1>4, <2>1, NoCallType DEF ResizeKept, ResizerPc, Looks, Counting
    <2> QED
      BY <1>0, <1>4, <2>1, <2>2, NoCallType, LookSlots
  <1>5. CASE Search(t)
    <2>1. look[t].pc = "search" /\ UNCHANGED <<tables, hashCount, resizing>>
      BY <1>5 DEF Search
    <2>2. PICK r : /\ look' = [look EXCEPT ![t] = r]
                   /\ r.pc \in {"count", "done"} \/ (r.pc = "insert" /\ Found(t))
      <3>1. PICK in : in = {h \in 1..look[t].main : t \in DOMAIN tables[h].entries}
        OBVIOUS
      <3>2. look[t].main \in DOMAIN tables /\ DOMAIN tables = 1..Len(tables)
        BY <1>0, <2>1 DEF OwnerInv, HashTypeOK
      <3>3. in # {} => Found(t)
        BY <1>0, <3>1, <3>2 DEF Found
      <3>4. PICK r : r = IF in = {} THEN [look[t] EXCEPT !.pc = "count"]
                         ELSE [look[t] EXCEPT !.pc = IF look[t].main \in in THEN "done" ELSE "insert",
                                              !.producer = tables[Max(in)].entries[t]]
        OBVIOUS
      <3>5. look' = [look EXCEPT ![t] = r]
        BY <1>5, <3>1, <3>4 DEF Search, Go, Searched
      <3>6. r.pc \in {"count", "done"} \/ (r.pc = "insert" /\ Found(t))
        BY <1>2, <3>3, <3>4 DEF Call
      <3> QED
        BY <3>5, <3>6
    <2>3. r \in Call
      BY <1>0, <1>2, <2>2
    <2>4. ResizeKept(look[t], r) /\ Looks(t, r)
      BY <2>1, <2>2 DEF ResizeKept, ResizerPc, Looks, Counting
    <2> QED
      BY <1>0, <2>1, <2>2, <2>3, <2>4, LookSlots
  <1>6. CASE Count(t)
    <2>1. /\ look[t].pc = "count" /\ hashCount' = hashCount + 1
          /\ UNCHANGED <<tables, resizing>>
      BY <1>6 DEF Count, Go
    <2>2. PICK r : r = [look[t] EXCEPT !.pc = "full", !.count = hashCount + 1]
      OBVIOUS
    <2>3. look' = [look EXCEPT ![t] = r]
      BY <1>6, <2>2 DEF Count, Go
    <2>4. r \in Call /\ r.pc = "full" /\ r.count = hashCount + 1
      BY <1>0, <1>2, <2>2, <2>3 DEF Call
    <2>5. ResizeKept(look[t], r) /\ Counts(t, r)
      BY <2>1, <2>4 DEF ResizeKept, ResizerPc, Counts
    <2> QED
      BY <1>0, <2>1, <2>3, <2>4, <2>5, LookSlots
  <1>7. CASE TestAndSet(t)
    <2>1. look[t].pc = "full" /\ UNCHANGED <<tables, hashCount>>
      BY <1>7 DEF TestAndSet
    <2>2. PICK r : /\ look' = [look EXCEPT ![t] = r]
                   /\ \/ /\ r = [look[t] EXCEPT !.pc = "resize", !.main = Len(tables)]
                         /\ ~resizing /\ resizing' = TRUE
                      \/ /\ r = [look[t] EXCEPT !.pc = "create"] /\ Room(look[t])
                         /\ resizing' = resizing
                      \/ r = [look[t] EXCEPT !.main = Len(tables)] /\ resizing' = resizing
      BY <1>7 DEF TestAndSet, Go, newest
    <2>3. /\ r \in Call /\ r.count = look[t].count
          /\ \/ /\ r.pc = "resize" /\ r.main = Len(tables) /\ ~resizing /\ resizing' = TRUE
             \/ r.pc = "create" /\ r.main = look[t].main /\ Room(look[t]) /\ resizing' = resizing
             \/ r.pc = "full" /\ resizing' = resizing
      BY <1>0, <1>2, <2>1, <2>2 DEF Call
    <2>4. ResizeKept(look[t], r) /\ Continues(t, r)
      BY <2>1, <2>3 DEF ResizeKept, ResizerPc, Continues, Counting, Room
    <2> QED
      BY <1>0, <2>1, <2>2, <2>3, <2>4, LookSlots
  <1>8. CASE Resize(t)
    BY <1>0, <1>8, ResizeSlots
  <1>9. CASE Resized(t)
    <2>1. look[t].pc \in {"resized", "resize"} /\ UNCHANGED <<tables, hashCount>>
          /\ resizing' = FALSE
      BY <1>9 DEF Resized
    <2>2. PICK r : /\ look' = [look EXCEPT ![t] = r]
                   /\ \/ /\ r = [look[t] EXCEPT !.pc = "create", !.main = look[t].main]
                         /\ Room(look[t])
                      \/ r = [look[t] EXCEPT !.pc = "full", !.main = Len(tables)]
      BY <1>0, <1>9 DEF Resized, newest
    <2>3. /\ r \in Call /\ r.count = look[t].count
          /\ \/ r.pc = "create" /\ r.main = look[t].main /\ Room(look[t])
             \/ r.pc = "full"
      BY <1>0, <1>2, <2>1, <2>2 DEF Call
    <2>4. ResizeKept(look[t], r) /\ Continues(t, r)
      BY <2>1, <2>3 DEF ResizeKept, ResizerPc, Continues, Counting, Room
    <2> QED
      BY <1>0, <2>1, <2>2, <2>3, <2>4, LookSlots
  <1>10. CASE ResizeFails(t) \/ CreateFails(t)
    <2>1. PICK r : r = [NoCall EXCEPT !.pc = "done"]
      OBVIOUS
    <2>2. r \in Call /\ r.pc = "done"
      BY <2>1, NoCallType, PcType, SetPc
    <2>3. /\ hashCount' = hashCount - 1 /\ tables' = tables /\ look' = [look EXCEPT ![t] = r]
          /\ look[t].pc = "resize" \/ (look[t].pc = "create" /\ resizing' = resizing)
      BY <1>10, <2>1 DEF ResizeFails, CreateFails, Go
    <2>4. ResizeKept(look[t], r) /\ GivesUp(t, r)
      BY <2>2, <2>3 DEF ResizeKept, ResizerPc, GivesUp, Counting
    <2> QED
      BY <1>0, <2>2, <2>3, <2>4, LookSlots
  <1>11. CASE add_producer(t)
    <2>1. look[t].pc = "create" /\ UNCHANGED <<tables, hashCount, resizing>>
      BY <1>11 DEF add_producer, Go
    <2>2. PICK r : r = [look[t] EXCEPT !.pc = "insert", !.producer = Len(owner) + 1]
      OBVIOUS
    <2>3. look' = [look EXCEPT ![t] = r]
      BY <1>11, <2>2 DEF add_producer, Go
    <2>4. /\ r \in Call /\ r.pc = "insert" /\ r.main = look[t].main /\ r.count = look[t].count
      BY <1>0, <1>2, <2>2, <2>3 DEF Call
    <2>5. ResizeKept(look[t], r) /\ Continues(t, r)
      BY <2>1, <2>4 DEF ResizeKept, ResizerPc, Continues, Counting, SlotInv, HadRoom, Room
    <2> QED
      BY <1>0, <2>1, <2>3, <2>4, <2>5, LookSlots
  <1>12. CASE Insert(t)
    BY <1>0, <1>12, InsertSlots
  <1> QED
    BY <1>3, <1>4, <1>5, <1>6, <1>7, <1>8, <1>9, <1>10, <1>11, <1>12 DEF LookUp

(* The inductive invariant of the tables holds in every state. *)
THEOREM SlotInvariant == Spec => []SlotInv
  <1>1. SlotInv /\ [Next]_vars => SlotInv'
    BY NextIsHashNext, HashSlots
  <1> QED
    BY <1>1, InitSlots, PTL DEF Spec

(* The search for a free slot ends (concurrentqueue.h:3398), however many  *)
(* threads log and however late they come to the table they chose.         *)
THEOREM SlotFreeAlways == Spec => []SlotFree
  <1>1. SlotInv => SlotFree
    <2> SUFFICES ASSUME SlotInv, NEW h \in DOMAIN tables
                 PROVE  Cardinality(DOMAIN tables[h].entries) < tables[h].capacity
      BY DEF SlotFree
    <2>1. /\ Limit(h) \in Nat /\ Limit(h) < tables[h].capacity /\ tables[h].capacity \in Nat
          /\ h \in Nat /\ tables[h].entries \in Entries
      <3>1. tables[h] \in HashTable /\ h \in Nat
        BY DEF SlotInv, OwnerInv, HashTypeOK
      <3> QED
        BY <3>1, Limits DEF SlotInv, HashTable
    <2>2. DOMAIN tables[h].entries \subseteq Early(h, Limit(h))
      BY <2>1 DEF Early, Entries
    <2>3. Cardinality(Early(h, Limit(h))) < Limit(h)
      BY <2>1 DEF SlotInv, EarlyFit
    <2>4. /\ Cardinality(DOMAIN tables[h].entries) \in Nat
          /\ Cardinality(Early(h, Limit(h))) \in Nat
          /\ Cardinality(DOMAIN tables[h].entries) <= Cardinality(Early(h, Limit(h)))
      BY <2>2, EarlyAreCounted DEF SlotInv
    <2> QED
      BY <2>1, <2>3, <2>4
  <1> QED
    BY <1>1, SlotInvariant, PTL

(***************************************************************************)
(* A logged line is in one place                                           *)
(***************************************************************************)

LEMMA NoDequeueType ==
  /\ NoDequeue \in Dequeue /\ NoDequeue.pc = "none" /\ NoDequeue.item = <<>>
  /\ \A r : r = [NoDequeue EXCEPT !.pc = "idle"] =>
       r \in Dequeue /\ r.pc = "idle" /\ r.item = <<>>
  /\ \A r : r = [NoDequeue EXCEPT !.pc = "dying"] =>
       r \in Dequeue /\ r.pc = "dying" /\ r.item = <<>>
  /\ \A r : r = [NoDequeue EXCEPT !.pc = "dead"] =>
       r \in Dequeue /\ r.pc = "dead" /\ r.item = <<>>
  BY DEF NoDequeue, Dequeue

LEMMA LookUpStep ==
  ASSUME OwnerInv, NEW t \in Thread, LookUp(t)
  PROVE  /\ look[t].pc # "none" /\ look'[t].pc # "none"
         /\ \A u \in Thread : u # t => look'[u] = look[u]
         /\ owner' = owner \/ owner' = Append(owner, t)
  <1>1. look \in [Thread -> Call] /\ look[t] \in Call
    BY DEF OwnerInv, HashTypeOK
  <1>2. owner' = owner \/ owner' = Append(owner, t)
    BY DEF LookUp, Search, Count, TestAndSet, Resize, Resized, ResizeFails, CreateFails,
      add_producer, Insert
  <1>3. PICK r : /\ look' = [look EXCEPT ![t] = r]
                 /\ look[t].pc # "none" /\ r.pc # "none"
    <2>1. CASE Search(t)
      <3>1. PICK r, in, p : /\ look' = [look EXCEPT ![t] = r]
                         /\ r = IF in = {} THEN [look[t] EXCEPT !.pc = "count"]
                                ELSE [look[t] EXCEPT !.pc = IF look[t].main \in in THEN "done"
                                                            ELSE "insert",
                                                     !.producer = p]
        BY <2>1, Zenon DEF Search, Go
      <3>2. look[t].pc # "none" /\ r.pc # "none"
        BY <1>1, <2>1, <3>1 DEF Search, Call
      <3> QED
        BY <3>1, <3>2
    <2>2. CASE Count(t)
      <3>1. PICK r : r = [look[t] EXCEPT !.pc = "full", !.count = hashCount + 1]
        OBVIOUS
      <3>2. look' = [look EXCEPT ![t] = r] /\ look[t].pc # "none"
        BY <2>2, <3>1 DEF Count, Go
      <3>3. r.pc # "none"
        BY <1>1, <3>1 DEF Call
      <3> QED
        BY <3>2, <3>3
    <2>3. CASE TestAndSet(t)
      <3>1. PICK r : /\ look' = [look EXCEPT ![t] = r]
                     /\ \/ r = [look[t] EXCEPT !.pc = "resize", !.main = newest]
                        \/ r = [look[t] EXCEPT !.pc = "create"]
                        \/ r = [look[t] EXCEPT !.main = newest]
        BY <2>3 DEF TestAndSet, Go
      <3>2. look[t].pc # "none" /\ r.pc # "none"
        BY <1>1, <2>3, <3>1 DEF TestAndSet, Call
      <3> QED
        BY <3>1, <3>2
    <2>4. CASE Resize(t)
      <3>1. PICK r : r = [look[t] EXCEPT !.pc = "resized", !.main = newest + 1]
        OBVIOUS
      <3>2. look' = [look EXCEPT ![t] = r] /\ look[t].pc # "none"
        BY <2>4, <3>1 DEF Resize, Go
      <3>3. r.pc # "none"
        BY <1>1, <3>1 DEF Call
      <3> QED
        BY <3>2, <3>3
    <2>5. CASE Resized(t)
      <3>1. PICK r : /\ look' = [look EXCEPT ![t] = r]
                     /\ \/ r = [look[t] EXCEPT !.pc = "create", !.main = look[t].main]
                        \/ r = [look[t] EXCEPT !.pc = "full", !.main = newest]
        BY <1>1, <2>5 DEF Resized
      <3>2. r.pc # "none" /\ look[t].pc # "none"
        BY <1>1, <2>5, <3>1 DEF Call, Resized
      <3> QED
        BY <3>1, <3>2
    <2>6. CASE ResizeFails(t) \/ CreateFails(t) \/ Insert(t)
      <3>1. look[t].pc # "none"
        BY <2>6 DEF ResizeFails, CreateFails, Insert, Go
      <3>2. PICK r : /\ look' = [look EXCEPT ![t] = r]
                     /\ \/ r = [NoCall EXCEPT !.pc = "done"]
                        \/ r = [NoCall EXCEPT !.pc = "done", !.producer = look[t].producer]
        BY <2>6, Zenon DEF ResizeFails, CreateFails, Insert, Go
      <3>3. r.pc # "none"
        BY <3>2 DEF NoCall
      <3> QED
        BY <3>1, <3>2, <3>3
    <2>7. CASE add_producer(t)
      <3>1. PICK r : r = [look[t] EXCEPT !.pc = "insert", !.producer = Len(owner) + 1]
        OBVIOUS
      <3>2. look' = [look EXCEPT ![t] = r] /\ look[t].pc # "none"
        BY <2>7, <3>1 DEF add_producer, Go
      <3>3. r.pc # "none"
        BY <1>1, <3>1 DEF Call
      <3> QED
        BY <3>2, <3>3
    <2> QED
      BY <2>1, <2>2, <2>3, <2>4, <2>5, <2>6, <2>7 DEF LookUp
  <1> QED
    BY <1>1, <1>2, <1>3

(* A consumer's thread goes on to r. *)
LEMMA ConsumerStep ==
  ASSUME LogTypeOK, NEW c \in Consumer, NEW r \in Dequeue,
         cons' = [cons EXCEPT ![c] = r], starter' = starter, Len(queue') = Len(queue),
         queue' \in Seq(Seq(LogLines)),
         cons[c].pc # "none", r.pc # "none", r.pc = "write" <=> r.item # <<>>,
         r.pc = "best" => r.best \in DOMAIN queue,
         r.pc = "all" => r.from \in 0..Len(queue)
  PROVE  /\ cons' \in [Consumer -> Dequeue] /\ \A d \in Consumer : Consistent(d)'
         /\ cons'[c] = r /\ \A d \in Consumer : d # c => cons'[d] = cons[d]
  <1>1. /\ cons' \in [Consumer -> Dequeue] /\ cons'[c] = r
        /\ \A d \in Consumer : d # c => cons'[d] = cons[d]
    BY DEF LogTypeOK
  <1>2. DOMAIN queue' = DOMAIN queue
    BY DEF LogTypeOK
  <1> QED
    BY <1>1, <1>2 DEF LogTypeOK, Consistent

LEMMA TakenStep ==
  ASSUME LogTypeOK, NEW c \in Consumer, NEW p \in DOMAIN queue, Taken(c, p),
         cons[c].pc # "none", starter' = starter
  PROVE  /\ cons' \in [Consumer -> Dequeue] /\ \A d \in Consumer : Consistent(d)'
         /\ cons'[c].item = queue[p][1] /\ cons'[c].item \in LogLines /\ cons'[c].pc = "write"
         /\ \A d \in Consumer : d # c => cons'[d] = cons[d]
         /\ queue' \in Seq(Seq(LogLines)) /\ Len(queue') = Len(queue)
         /\ DOMAIN queue' = DOMAIN queue
         /\ \A q \in DOMAIN queue : q # p => queue'[q] = queue[q]
         /\ queue'[p] = Tail(queue[p]) /\ queue[p] \in Seq(LogLines) /\ queue[p] # <<>>
  <1>1. queue[p] \in Seq(LogLines) /\ queue[p] # <<>> /\ queue' = [queue EXCEPT ![p] = Tail(@)]
    BY DEF LogTypeOK, Taken
  <1>2. Head(queue[p]) = queue[p][1] /\ queue[p][1] \in LogLines /\ Tail(queue[p]) \in Seq(LogLines)
    BY <1>1
  <1>3. /\ queue' \in Seq(Seq(LogLines)) /\ Len(queue') = Len(queue)
        /\ DOMAIN queue' = DOMAIN queue
        /\ \A q \in DOMAIN queue : q # p => queue'[q] = queue[q]
        /\ queue'[p] = Tail(queue[p])
    BY <1>1, <1>2 DEF LogTypeOK
  <1>4. PICK r : r = [NoDequeue EXCEPT !.pc = "write", !.item = Head(queue[p])]
    OBVIOUS
  <1>5. r \in Dequeue /\ r.pc = "write" /\ r.item = queue[p][1]
    BY <1>2, <1>4, NoDequeueType DEF Dequeue
  <1>6. cons' = [cons EXCEPT ![c] = r]
    BY <1>4 DEF Taken
  <1>7. r.item # <<>>
    BY <1>2, <1>5, NoLine
  <1> QED
    BY <1>1, <1>2, <1>3, <1>5, <1>6, <1>7, ConsumerStep

(* Of finitely many numbers one is the greatest. *)
LEMMA GreatestIn ==
  ASSUME NEW n \in Nat, NEW f \in [1..n -> Nat], NEW S \in SUBSET (1..n), S # {}
  PROVE  \E p \in S : \A q \in S : f[q] <= f[p]
  <1> SUFFICES ASSUME \A p \in S : \E q \in S : f[q] > f[p] PROVE FALSE
    OBVIOUS
  <1>1. PICK R : R = {ss \in Nat \X Nat : ss[1] < ss[2]}
    OBVIOUS
  <1>2. IsWellFoundedOn(R, Nat)
    BY <1>1, NatLessThanWellFounded DEF OpToRel
  <1>3. PICK Lost :
          Lost = {m \in 0..n : /\ \E q \in S : q <= m
                               /\ \A p \in S : p <= m => \E q \in S : q <= m /\ f[q] > f[p]}
    OBVIOUS
  <1>4. Lost \in SUBSET Nat /\ n \in Lost
    <2>1. n \in 0..n /\ \A q \in S : q <= n
      OBVIOUS
    <2>2. PICK q \in S : TRUE
      OBVIOUS
    <2> QED
      BY <1>3, <2>1, <2>2, SMTT(30)
  <1>5. PICK m \in Lost : \A y \in Lost : ~(<<y, m>> \in R)
    BY <1>2, <1>3, <1>4, WFMin
  <1>6. /\ m \in 1..n /\ \A p \in S : p <= m => \E q \in S : q <= m /\ f[q] > f[p]
        /\ \E q \in S : q <= m
    <2>1. /\ m \in 0..n /\ \A p \in S : p <= m => \E q \in S : q <= m /\ f[q] > f[p]
          /\ \E q \in S : q <= m
      BY <1>3, <1>5
    <2>2. m # 0
      BY <2>1
    <2> QED
      BY <2>1, <2>2
  <1>7. PICK k \in 0..n : k = m - 1 /\ k \in Nat /\ m \in Nat /\ k < m
    <2>1. \A i \in 1..n : i - 1 \in 0..n /\ i - 1 \in Nat /\ i \in Nat /\ i - 1 < i
      OBVIOUS
    <2> QED
      BY <1>6, <2>1
  <1>8. k \notin Lost
    <2>1. <<k, m>> \in R
      BY <1>1, <1>7
    <2> QED
      BY <1>5, <2>1
  <1>9. \A q \in S : q <= m <=> (q <= k \/ q = m)
    <2>1. \A i \in 1..n : i <= m <=> (i <= k \/ i = m)
      BY <1>7
    <2> QED
      BY <2>1
  <1>10. CASE \E q \in S : q <= k
    <2>1. PICK p \in S : p <= k /\ \A q \in S : q <= k => ~(f[q] > f[p])
      BY <1>3, <1>8, <1>10
    <2>2. PICK q \in S : q <= m /\ f[q] > f[p]
      BY <1>6, <1>9, <2>1
    <2>3. q = m
      BY <1>9, <2>1, <2>2
    <2>4. PICK r \in S : r <= m /\ f[r] > f[q]
      BY <1>6, <2>2
    <2>5. r <= k
      BY <1>9, <2>3, <2>4
    <2>6. f[p] \in Nat /\ f[q] \in Nat /\ f[r] \in Nat
      OBVIOUS
    <2> QED
      BY <2>1, <2>2, <2>4, <2>5, <2>6, SMTT(30)
  <1>11. CASE ~\E q \in S : q <= k
    <2>1. PICK p \in S : p = m
      BY <1>6, <1>9, <1>11
    <2>2. PICK q \in S : q <= m /\ f[q] > f[p]
      BY <1>6, <2>1
    <2>3. q = p
      BY <1>9, <1>11, <2>1, <2>2
    <2> QED
      BY <2>2, <2>3
  <1> QED
    BY <1>10, <1>11

(* Some producer that holds items is the best. *)
LEMMA BestIsThere ==
  ASSUME LogTypeOK, NonEmpty # {}
  PROVE  Best \in DOMAIN queue
  <1>1. PICK n \in Nat : n = Len(queue) /\ DOMAIN queue = 1..n
    BY DEF LogTypeOK
  <1>2. PICK f \in [1..n -> Nat] : \A p \in 1..n : f[p] = Len(queue[p])
    <2>1. \A p \in 1..n : queue[p] \in Seq(LogLines)
      BY <1>1 DEF LogTypeOK
    <2>2. PICK f : f = [p \in 1..n |-> Len(queue[p])]
      OBVIOUS
    <2> QED
      BY <2>1, <2>2
  <1>3. NonEmpty \in SUBSET (1..n) /\ Scored \in SUBSET (1..n)
    BY <1>1 DEF NonEmpty, Scored
  <1>4. Scored # {}
    <2>1. PICK N \in SUBSET (1..n) : N = NonEmpty /\ N # {}
      BY <1>3
    <2>2. PICK p \in N : \A x \in N : p >= x
      BY <2>1, MaxIn
    <2>3. {q \in NonEmpty : q > p} = {} /\ p \in NonEmpty
      <3>1. \A i, j \in 1..n : i >= j => ~(j > i)
        OBVIOUS
      <3>2. \A q \in N : ~(q > p)
        BY <2>1, <2>2, <3>1
      <3> QED
        BY <2>1, <2>2, <3>2
    <2>4. Cardinality({q \in NonEmpty : q > p}) < 3
      <3>1. Cardinality({q \in NonEmpty : q > p}) = Cardinality({})
        BY <2>3, Zenon
      <3> QED
        BY <3>1, FS_EmptySet
    <2> QED
      BY <2>3, <2>4 DEF Scored
  <1>5. PICK p \in Scored : \A q \in Scored : f[q] <= f[p]
    BY <1>3, <1>4, GreatestIn
  <1>6. PICK S : S = {q \in Scored : \A r \in Scored : Len(queue[r]) <= Len(queue[q])}
    OBVIOUS
  <1>7. S \in SUBSET (1..n) /\ S # {}
    BY <1>2, <1>3, <1>5, <1>6
  <1>8. Max(S) \in S
    BY <1>7, MaxIn
  <1> QED
    BY <1>1, <1>6, <1>7, <1>8 DEF Best

(* What a step of a thread that logs leaves as it is.                      *)
LEMMA ConsumersKept ==
  ASSUME LogTypeOK, UNCHANGED consumers, queue' \in Seq(Seq(LogLines)),
         Len(queue') >= Len(queue)
  PROVE  /\ starter' \in [Consumer -> {"idle", "flag", "done"}]
         /\ cons' \in [Consumer -> Dequeue] /\ \A c \in Consumer : Consistent(c)'
  <1>1. starter' = starter /\ cons' = cons
    BY DEF consumers
  <1>2. DOMAIN queue \subseteq DOMAIN queue' /\ 0..Len(queue) \subseteq 0..Len(queue')
    BY DEF LogTypeOK
  <1> QED
    BY <1>1, <1>2 DEF LogTypeOK, Consistent

(* A producer that is added has an empty queue. *)
LEMMA ProducerQueues ==
  ASSUME OwnerInv, LogTypeOK, NEW t \in Thread, FindProducer(t)
  PROVE  /\ queue' \in Seq(Seq(LogLines)) /\ Len(queue') = Len(owner')
         /\ Len(queue') >= Len(queue)
         /\ \A p \in DOMAIN queue : queue'[p] = queue[p] /\ owner'[p] = owner[p]
         /\ \A p \in DOMAIN queue' : p \notin DOMAIN queue => queue'[p] = <<>>
  <1>1. owner' = owner \/ owner' = Append(owner, t)
    BY LookUpStep DEF FindProducer
  <1>2. owner \in Seq(Thread) /\ queue \in Seq(Seq(LogLines)) /\ Len(queue) = Len(owner)
    BY DEF OwnerInv, HashTypeOK, LogTypeOK
  <1>3. PICK k \in {0, 1} : k = Len(owner') - Len(owner) /\ Len(owner') = Len(owner) + k
    <2>1. Len(owner) \in Nat
      BY <1>2
    <2>2. Len(owner') = Len(owner) \/ Len(owner') = Len(owner) + 1
      BY <1>1, <1>2
    <2> QED
      BY <2>1, <2>2
  <1>4. PICK e : e = [p \in 1..k |-> <<>>] /\ queue' = queue \o e
    BY <1>3 DEF FindProducer
  <1>5. e \in Seq(Seq(LogLines)) /\ Len(e) = k /\ \A i \in 1..k : e[i] = <<>>
    <2>1. <<>> \in Seq(LogLines)
      OBVIOUS
    <2> QED
      BY <1>3, <1>4, <2>1
  <1>6. /\ queue' \in Seq(Seq(LogLines)) /\ Len(queue') = Len(queue) + k
        /\ \A p \in DOMAIN queue : queue'[p] = queue[p]
        /\ \A p \in DOMAIN queue' : p \notin DOMAIN queue => queue'[p] = e[p - Len(queue)]
                                      /\ p - Len(queue) \in 1..k
    <2>1. Len(queue) \in Nat /\ k \in Nat /\ queue' = queue \o e
      BY <1>2, <1>3, <1>4
    <2>2. /\ queue' \in Seq(Seq(LogLines)) /\ Len(queue') = Len(queue) + k
          /\ \A p \in 1..(Len(queue) + k) :
               queue'[p] = IF p <= Len(queue) THEN queue[p] ELSE e[p - Len(queue)]
      BY <1>2, <1>5, <2>1
    <2>3. DOMAIN queue = 1..Len(queue) /\ DOMAIN queue' = 1..(Len(queue) + k)
      BY <1>2, <2>2
    <2> QED
      BY <2>1, <2>2, <2>3
  <1>7. \A p \in DOMAIN queue : owner'[p] = owner[p]
    BY <1>1, <1>2
  <1>8. \A p \in DOMAIN queue' : p \notin DOMAIN queue => queue'[p] = <<>>
    BY <1>5, <1>6
  <1>9. Len(queue') = Len(owner') /\ Len(queue') >= Len(queue)
    BY <1>2, <1>3, <1>6
  <1> QED
    BY <1>6, <1>7, <1>8, <1>9

LEMMA LogTypes ==
  ASSUME OwnerInv, LogTypeOK, AtWork, Next
  PROVE  LogTypeOK' /\ AtWork'
  <1>1. /\ lines \in [Thread -> Nat] /\ logging \in [Thread -> {"idle", "write", "enqueue", "look"}]
        /\ queue \in Seq(Seq(LogLines)) /\ Len(queue) = Len(owner) /\ file \in Seq(LogLines)
        /\ lost \subseteq LogLines /\ s_isConcurrentQueueStarted \in BOOLEAN
        /\ starter \in [Consumer -> {"idle", "flag", "done"}] /\ cons \in [Consumer -> Dequeue]
        /\ look \in [Thread -> Call] /\ owner \in Seq(Thread) /\ Len(queue) \in Nat
    BY DEF LogTypeOK, OwnerInv, HashTypeOK
  <1>2. \A t \in Thread : Line(t) \in LogLines
    BY <1>1 DEF Line, LogLines
  <1>3. ASSUME NEW t \in Thread, LogLine(t) PROVE LogTypeOK' /\ AtWork'
    <2>1. \A c \in Consumer : Consistent(c)'
      BY <1>1, <1>3, ConsumersKept DEF LogLine
    <2>2. lines' \in [Thread -> Nat] /\ logging' \in [Thread -> {"idle", "write", "enqueue", "look"}]
      BY <1>1, <1>3 DEF LogLine
    <2>3. look' = look
      BY <1>3 DEF LogLine, hash
    <2>4. AtWork'
      BY <1>1, <1>3, <2>3 DEF LogLine, AtWork
    <2> QED
      BY <1>3, <2>1, <2>2, <2>4 DEF LogLine, LogTypeOK, hash, consumers
  <1>4. ASSUME NEW t \in Thread, WriteLine(t) PROVE LogTypeOK' /\ AtWork'
    <2>1. \A c \in Consumer : Consistent(c)'
      BY <1>1, <1>4, ConsumersKept DEF WriteLine
    <2>2. logging' \in [Thread -> {"idle", "write", "enqueue", "look"}] /\ file' \in Seq(LogLines)
      BY <1>1, <1>2, <1>4 DEF WriteLine
    <2>3. AtWork'
      BY <1>1, <1>4 DEF WriteLine, AtWork, hash
    <2> QED
      BY <1>4, <2>1, <2>2, <2>3 DEF WriteLine, LogTypeOK, hash, consumers
  <1>17. ASSUME NEW t \in Thread, WriteLineFails(t) PROVE LogTypeOK' /\ AtWork'
    <2>1. \A c \in Consumer : Consistent(c)'
      BY <1>1, <1>17, ConsumersKept DEF WriteLineFails
    <2>2. logging' \in [Thread -> {"idle", "write", "enqueue", "look"}] /\ lost' \subseteq LogLines
      BY <1>1, <1>2, <1>17 DEF WriteLineFails
    <2>3. AtWork'
      BY <1>1, <1>17 DEF WriteLineFails, AtWork, hash
    <2> QED
      BY <1>17, <2>1, <2>2, <2>3 DEF WriteLineFails, LogTypeOK, hash, consumers
  <1>5. ASSUME NEW t \in Thread, EnqueueLine(t) PROVE LogTypeOK' /\ AtWork'
    <2>1. \A c \in Consumer : Consistent(c)'
      BY <1>1, <1>5, ConsumersKept DEF EnqueueLine
    <2>2. logging' \in [Thread -> {"idle", "write", "enqueue", "look"}]
      BY <1>1, <1>5 DEF EnqueueLine
    <2>3. PICK r : r = [NoCall EXCEPT !.pc = "search", !.main = newest]
      OBVIOUS
    <2>4. r.pc # "none" /\ look' = [look EXCEPT ![t] = r]
      BY <1>5, <2>3 DEF EnqueueLine, get_or_add_implicit_producer, Go, NoCall
    <2>5. AtWork'
      BY <1>1, <1>5, <2>4 DEF EnqueueLine, AtWork
    <2> QED
      BY <1>5, <2>1, <2>2, <2>5
        DEF EnqueueLine, LogTypeOK, consumers, get_or_add_implicit_producer
  <1>6. ASSUME NEW t \in Thread, FindProducer(t) PROVE LogTypeOK' /\ AtWork'
    <2>1. \A c \in Consumer : Consistent(c)'
      BY <1>6, ConsumersKept, ProducerQueues DEF FindProducer
    <2>2. AtWork'
      BY <1>1, <1>6, LookUpStep DEF FindProducer, AtWork, writers
    <2> QED
      BY <1>6, <2>1, <2>2, ProducerQueues DEF FindProducer, LogTypeOK, consumers, writers
  <1>7. ASSUME NEW t \in Thread, Enqueue(t) PROVE LogTypeOK' /\ AtWork'
    <2>1. look[t].producer \in DOMAIN queue /\ look[t].pc = "done" /\ look' = [look EXCEPT ![t] = NoCall]
      <3>1. look[t].producer \in DOMAIN owner
        BY <1>7 DEF Enqueue, LookedUp, Go, OwnerInv, ProducerOwned
      <3> QED
        BY <1>1, <1>7, <3>1 DEF Enqueue, LookedUp, Go
    <2>2. queue' \in Seq(Seq(LogLines)) /\ Len(queue') = Len(queue)
      <3>1. queue[look[t].producer] \in Seq(LogLines)
        BY <1>1, <2>1
      <3>2. Append(queue[look[t].producer], Line(t)) \in Seq(LogLines)
        BY <1>2, <3>1
      <3> QED
        BY <1>1, <1>7, <2>1, <3>2 DEF Enqueue
    <2>3. \A c \in Consumer : Consistent(c)'
      BY <1>1, <1>7, <2>2, ConsumersKept DEF Enqueue
    <2>4. logging' \in [Thread -> {"idle", "write", "enqueue", "look"}]
      BY <1>1, <1>7 DEF Enqueue
    <2>5. AtWork'
      BY <1>1, <1>7, <2>1, NoCallType DEF Enqueue, AtWork
    <2> QED
      BY <1>7, <2>2, <2>3, <2>4, <2>5 DEF Enqueue, LogTypeOK, consumers
  <1>8. ASSUME NEW t \in Thread, EnqueueFails(t) PROVE LogTypeOK' /\ AtWork'
    <2>1. look[t].pc = "done" /\ look' = [look EXCEPT ![t] = NoCall]
      BY <1>8 DEF EnqueueFails, LookedUp, Go
    <2>2. \A c \in Consumer : Consistent(c)'
      BY <1>1, <1>8, ConsumersKept DEF EnqueueFails
    <2>3. logging' \in [Thread -> {"idle", "write", "enqueue", "look"}] /\ lost' \subseteq LogLines
      BY <1>1, <1>2, <1>8 DEF EnqueueFails
    <2>4. AtWork'
      BY <1>1, <1>8, <2>1, NoCallType DEF EnqueueFails, AtWork
    <2> QED
      BY <1>8, <2>2, <2>3, <2>4 DEF EnqueueFails, LogTypeOK, consumers
  <1>9. ASSUME NEW c \in Consumer, startConsumeThread(c) PROVE LogTypeOK' /\ AtWork'
    <2>1. PICK r : r = [cons[c] EXCEPT !.pc = "idle"] /\ cons' = [cons EXCEPT ![c] = r]
      BY <1>9 DEF startConsumeThread
    <2>2. cons[c] \in Dequeue /\ cons[c].pc = "none" /\ cons[c].item = <<>>
      BY <1>1, <1>9 DEF startConsumeThread, LogTypeOK, Consistent
    <2>3. r \in Dequeue /\ r.pc = "idle" /\ r.item = <<>>
      BY <2>1, <2>2 DEF Dequeue
    <2>4. /\ cons' \in [Consumer -> Dequeue] /\ starter' \in [Consumer -> {"idle", "flag", "done"}]
          /\ cons'[c] = r /\ starter'[c] = "flag"
          /\ \A d \in Consumer : d # c => cons'[d] = cons[d] /\ starter'[d] = starter[d]
      BY <1>1, <1>9, <2>1, <2>3 DEF startConsumeThread
    <2>5. \A d \in Consumer : Consistent(d)'
      BY <1>9, <2>3, <2>4 DEF startConsumeThread, LogTypeOK, Consistent
    <2> QED
      BY <1>9, <2>4, <2>5 DEF startConsumeThread, LogTypeOK, AtWork, hash, writers
  <1>10. ASSUME NEW c \in Consumer, SetStarted(c) PROVE LogTypeOK' /\ AtWork'
    <2>1. /\ starter' \in [Consumer -> {"idle", "flag", "done"}] /\ starter'[c] = "done"
          /\ starter[c] = "flag" /\ cons' = cons
          /\ \A d \in Consumer : d # c => starter'[d] = starter[d]
      BY <1>1, <1>10 DEF SetStarted
    <2>2. \A d \in Consumer : Consistent(d)'
      BY <1>10, <2>1 DEF SetStarted, LogTypeOK, Consistent
    <2> QED
      BY <1>10, <2>1, <2>2 DEF SetStarted, LogTypeOK, AtWork, hash, writers
  <1>11. ASSUME NEW c \in Consumer, try_dequeue(c) PROVE LogTypeOK' /\ AtWork'
    <2>1. PICK r : r = [NoDequeue EXCEPT !.pc = "best", !.best = Best]
      OBVIOUS
    <2>2. cons' = [cons EXCEPT ![c] = r] /\ cons[c].pc = "idle"
      BY <1>11, <2>1 DEF try_dequeue, DequeueStep
    <2>3. Best \in DOMAIN queue /\ Best \in Nat
      <3>1. Best \in DOMAIN queue
        BY <1>11, BestIsThere DEF try_dequeue
      <3> QED
        BY <1>1, <3>1
    <2>4. r \in Dequeue /\ r.pc = "best" /\ r.item = <<>> /\ r.best \in DOMAIN queue
      BY <2>1, <2>3, NoDequeueType DEF Dequeue
    <2>5. cons' \in [Consumer -> Dequeue] /\ \A d \in Consumer : Consistent(d)'
      BY <1>1, <1>11, <2>2, <2>4, ConsumerStep DEF try_dequeue
    <2> QED
      BY <1>11, <2>5 DEF try_dequeue, LogTypeOK, AtWork, hash, writers
  <1>12. ASSUME NEW c \in Consumer, NEW p \in DOMAIN queue, Taken(c, p), cons[c].pc # "none",
                UNCHANGED <<hash, fails, s_isConcurrentQueueStarted, writers, starter, file, lost,
                            deaths>>
         PROVE  LogTypeOK' /\ AtWork'
    BY <1>12, TakenStep DEF LogTypeOK, AtWork, hash, writers
  <1>13. ASSUME NEW c \in Consumer, NEW r \in Dequeue, cons' = [cons EXCEPT ![c] = r],
                queue' = queue, cons[c].pc # "none", r.pc # "none", r.pc = "write" <=> r.item # <<>>,
                r.pc = "best" => r.best \in DOMAIN queue,
                r.pc = "all" => r.from \in 0..Len(queue),
                UNCHANGED <<hash, fails, s_isConcurrentQueueStarted, writers, starter, file, lost,
                            deaths>>
         PROVE  LogTypeOK' /\ AtWork'
    <2>1. cons' \in [Consumer -> Dequeue] /\ \A d \in Consumer : Consistent(d)'
      BY <1>1, <1>13, ConsumerStep
    <2> QED
      BY <1>13, <2>1 DEF LogTypeOK, AtWork, hash, writers
  <1>14. ASSUME NEW c \in Consumer, DequeueBest(c) PROVE LogTypeOK' /\ AtWork'
    <2>1. cons[c] \in Dequeue /\ cons[c].pc = "best" /\ cons[c].best \in DOMAIN queue
          /\ cons[c].item = <<>>
      BY <1>1, <1>14 DEF DequeueBest, LogTypeOK, Consistent
    <2>2. CASE Taken(c, cons[c].best)
      BY <1>12, <1>14, <2>1, <2>2 DEF DequeueBest
    <2>3. CASE ~Taken(c, cons[c].best)
      <3>1. PICK r : r = [cons[c] EXCEPT !.pc = "all", !.from = Len(owner)]
        OBVIOUS
      <3>2. cons' = [cons EXCEPT ![c] = r] /\ queue' = queue
        BY <1>14, <2>3, <3>1 DEF DequeueBest
      <3>3. r \in Dequeue /\ r.pc = "all" /\ r.from = Len(queue) /\ r.item = <<>>
        BY <1>1, <2>1, <3>1 DEF Dequeue
      <3>4. r.from \in 0..Len(queue)
        BY <1>1, <3>3
      <3> QED
        BY <1>13, <1>14, <2>1, <3>2, <3>3, <3>4 DEF DequeueBest
    <2> QED
      BY <2>2, <2>3
  <1>15. ASSUME NEW c \in Consumer, DequeueAny(c) PROVE LogTypeOK' /\ AtWork'
    <2>1. cons[c] \in Dequeue /\ cons[c].pc = "all" /\ cons[c].from \in 0..Len(queue)
          /\ cons[c].item = <<>>
      BY <1>1, <1>15 DEF DequeueAny, LogTypeOK, Consistent
    <2>2. CASE cons[c].from = 0
      <3>1. PICK r : r = [NoDequeue EXCEPT !.pc = "idle"]
        OBVIOUS
      <3>2. cons' = [cons EXCEPT ![c] = r] /\ queue' = queue
        BY <1>15, <2>2, <3>1 DEF DequeueAny
      <3>3. r \in Dequeue /\ r.pc = "idle" /\ r.item = <<>>
        BY <3>1, NoDequeueType
      <3> QED
        BY <1>13, <1>15, <2>1, <3>2, <3>3 DEF DequeueAny
    <2>3. CASE cons[c].from # 0 /\ Taken(c, cons[c].from)
      <3>1. cons[c].from \in DOMAIN queue
        BY <1>1, <2>1, <2>3
      <3> QED
        BY <1>12, <1>15, <2>1, <2>3, <3>1 DEF DequeueAny
    <2>4. CASE cons[c].from # 0 /\ ~Taken(c, cons[c].from)
      <3>1. PICK r : r = [cons[c] EXCEPT !.from = cons[c].from - 1]
        OBVIOUS
      <3>2. cons' = [cons EXCEPT ![c] = r] /\ queue' = queue
        BY <1>15, <2>4, <3>1 DEF DequeueAny
      <3>3. cons[c].from - 1 \in 0..Len(queue) /\ cons[c].from - 1 \in Nat
        BY <1>1, <2>1, <2>4
      <3>4. r \in Dequeue /\ r.pc = "all" /\ r.from = cons[c].from - 1 /\ r.item = <<>>
        BY <2>1, <3>1, <3>3 DEF Dequeue
      <3> QED
        BY <1>13, <1>15, <2>1, <3>2, <3>3, <3>4 DEF DequeueAny
    <2> QED
      BY <2>2, <2>3, <2>4
  <1>16. ASSUME NEW c \in Consumer, WriteItem(c) \/ WriteItemFails(c) \/ Dies(c)
         PROVE  LogTypeOK' /\ AtWork'
    <2>1. cons[c] \in Dequeue /\ cons[c].pc = "write" /\ cons[c].item \in LogLines
      <3>1. cons[c] \in Dequeue /\ cons[c].pc = "write"
        BY <1>1, <1>16 DEF WriteItem, WriteItemFails, Dies, DequeueStep
      <3>2. cons[c].item # <<>>
        BY <3>1 DEF LogTypeOK, Consistent
      <3> QED
        BY <3>1, <3>2 DEF Dequeue
    <2>2. PICK r : /\ cons' = [cons EXCEPT ![c] = r]
                   /\ r = [NoDequeue EXCEPT !.pc = "idle"] \/ r = [NoDequeue EXCEPT !.pc = "dying"]
      <3>1. CASE WriteItem(c) \/ WriteItemFails(c)
        BY <3>1, Zenon DEF WriteItem, WriteItemFails, DequeueStep
      <3>2. CASE Dies(c)
        BY <3>2, Zenon DEF Dies, DequeueStep
      <3> QED
        BY <1>16, <3>1, <3>2
    <2>3. r \in Dequeue /\ r.pc \in {"idle", "dying"} /\ r.item = <<>>
      <3>1. CASE r = [NoDequeue EXCEPT !.pc = "idle"]
        BY <3>1, NoDequeueType
      <3>2. CASE r = [NoDequeue EXCEPT !.pc = "dying"]
        BY <3>2, NoDequeueType
      <3> QED
        BY <2>2, <3>1, <3>2
    <2>4. starter' = starter /\ queue' = queue /\ UNCHANGED <<hash, writers>>
      BY <1>16 DEF WriteItem, WriteItemFails, Dies
    <2>5. cons' \in [Consumer -> Dequeue] /\ \A d \in Consumer : Consistent(d)'
      BY <1>1, <2>1, <2>2, <2>3, <2>4, ConsumerStep
    <2>6. /\ file' \in Seq(LogLines) /\ lost' \subseteq LogLines
          /\ s_isConcurrentQueueStarted' \in BOOLEAN
      <3>1. CASE WriteItem(c)
        BY <1>1, <2>1, <3>1 DEF WriteItem
      <3>2. CASE WriteItemFails(c)
        BY <1>1, <2>1, <3>2 DEF WriteItemFails
      <3>3. CASE Dies(c)
        BY <1>1, <2>1, <3>3 DEF Dies
      <3> QED
        BY <1>16, <3>1, <3>2, <3>3
    <2> QED
      BY <2>4, <2>5, <2>6 DEF LogTypeOK, AtWork, hash, writers
  <1>18. ASSUME NEW c \in Consumer, Ends(c) PROVE LogTypeOK' /\ AtWork'
    <2>1. cons[c] \in Dequeue /\ cons[c].pc = "dying" /\ cons[c].item = <<>>
      BY <1>1, <1>18 DEF Ends, DequeueStep, LogTypeOK, Consistent
    <2>2. PICK r : cons' = [cons EXCEPT ![c] = r] /\ r = [NoDequeue EXCEPT !.pc = "dead"]
      BY <1>18, Zenon DEF Ends, DequeueStep
    <2>3. r \in Dequeue /\ r.pc = "dead" /\ r.item = <<>>
      BY <2>2, NoDequeueType
    <2>4. /\ starter' = starter /\ queue' = queue /\ UNCHANGED <<hash, writers, file, lost>>
          /\ s_isConcurrentQueueStarted' = FALSE
      BY <1>18 DEF Ends
    <2>5. cons' \in [Consumer -> Dequeue] /\ \A d \in Consumer : Consistent(d)'
      BY <1>1, <2>1, <2>2, <2>3, <2>4, ConsumerStep
    <2> QED
      BY <1>1, <2>4, <2>5 DEF LogTypeOK, AtWork, hash, writers
  <1> QED
    BY <1>3, <1>4, <1>5, <1>6, <1>7, <1>8, <1>9, <1>10, <1>11, <1>14, <1>15, <1>16, <1>17, <1>18
      DEF Next, writer, consumer

(* The thread that logged a line is done with it. *)
LEMMA PastGains ==
  ASSUME LogTypeOK, AtWork, NEW t \in Thread, logging[t] # "idle", lines' = lines,
         logging' = [logging EXCEPT ![t] = "idle"]
  PROVE  /\ Line(t) \in LogLines /\ Line(t)[1] = t /\ Line(t)[2] = lines[t] /\ ~Past(Line(t))
         /\ \A x \in LogLines : Past(x)' <=> Past(x) \/ x = Line(t)
  <1>1. /\ lines \in [Thread -> Nat] /\ lines[t] \in Nat /\ lines[t] # 0 /\ logging'[t] = "idle"
        /\ \A u \in Thread : u # t => logging'[u] = logging[u]
    BY DEF LogTypeOK, AtWork
  <1>2. Line(t) \in LogLines /\ Line(t)[1] = t /\ Line(t)[2] = lines[t]
    BY <1>1 DEF Line, LogLines
  <1>3. ~Past(Line(t))
    BY <1>2 DEF Past
  <1>4. ASSUME NEW x \in LogLines PROVE Past(x)' <=> Past(x) \/ x = Line(t)
    <2>1. x[1] \in Thread /\ x[2] \in Nat /\ x = <<x[1], x[2]>>
      BY NoLine
    <2>2. CASE x[1] # t
      BY <1>1, <1>2, <2>1, <2>2 DEF Past
    <2>3. CASE x[1] = t
      <3>1. x = Line(t) <=> x[2] = lines[t]
        BY <1>2, <2>1, <2>3 DEF Line
      <3> QED
        BY <1>1, <2>1, <2>3, <3>1 DEF Past
    <2> QED
      BY <2>2, <2>3
  <1> QED
    BY <1>2, <1>3, <1>4

LEMMA FileGains ==
  ASSUME file \in Seq(LogLines), FileOnce, NEW x \in LogLines, ~InFile(x),
         file' = Append(file, x)
  PROVE  /\ FileOnce' /\ \A y : InFile(y)' <=> InFile(y) \/ y = x
         /\ Len(file') = Len(file) + 1 /\ Len(file) \in Nat
         /\ DOMAIN file' = DOMAIN file \union {Len(file) + 1} /\ file'[Len(file) + 1] = x
         /\ \A i \in DOMAIN file : file'[i] = file[i] /\ i \in Nat /\ i < Len(file) + 1
  <1>1. PICK n \in Nat : n = Len(file)
    OBVIOUS
  <1>2. DOMAIN file = 1..n /\ 1..(n + 1) = 1..n \union {n + 1}
    BY <1>1
  <1>3. /\ Len(file') = n + 1 /\ DOMAIN file' = DOMAIN file \union {n + 1} /\ file'[n + 1] = x
        /\ \A i \in DOMAIN file : file'[i] = file[i] /\ i \in Nat /\ i < n + 1
    BY <1>1, <1>2
  <1>4. \A y : InFile(y)' <=> InFile(y) \/ y = x
    BY <1>3 DEF InFile
  <1>5. FileOnce'
    <2>1. \A i \in DOMAIN file : file'[i] # x
      BY <1>3 DEF InFile
    <2> QED
      BY <1>3, <2>1 DEF FileOnce
  <1> QED
    BY <1>1, <1>3, <1>4, <1>5

LEMMA QueueGains ==
  ASSUME queue \in Seq(Seq(LogLines)), QueueOnce, NEW p \in DOMAIN queue, NEW x \in LogLines,
         ~InQueue(x), queue' = [queue EXCEPT ![p] = Append(@, x)]
  PROVE  /\ QueueOnce' /\ \A y : InQueue(y)' <=> InQueue(y) \/ y = x
         /\ DOMAIN queue' = DOMAIN queue /\ \A q \in DOMAIN queue : q # p => queue'[q] = queue[q]
         /\ Len(queue[p]) \in Nat
         /\ DOMAIN queue'[p] = DOMAIN queue[p] \union {Len(queue[p]) + 1}
         /\ queue'[p][Len(queue[p]) + 1] = x
         /\ \A i \in DOMAIN queue[p] : /\ queue'[p][i] = queue[p][i]
                                       /\ i \in Nat /\ i < Len(queue[p]) + 1
  <1>1. queue[p] \in Seq(LogLines) /\ Len(queue[p]) \in Nat
    <2>1. queue[p] \in Seq(LogLines)
      OBVIOUS
    <2> QED
      BY <2>1
  <1>2. PICK n \in Nat : n = Len(queue[p])
    BY <1>1
  <1>3. DOMAIN queue[p] = 1..n /\ 1..(n + 1) = 1..n \union {n + 1}
    BY <1>1, <1>2
  <1>4. /\ DOMAIN queue' = DOMAIN queue /\ queue'[p] = Append(queue[p], x)
        /\ \A q \in DOMAIN queue : q # p => queue'[q] = queue[q]
    OBVIOUS
  <1>5. /\ DOMAIN queue'[p] = DOMAIN queue[p] \union {n + 1} /\ queue'[p][n + 1] = x
        /\ \A i \in DOMAIN queue[p] : queue'[p][i] = queue[p][i] /\ i \in Nat /\ i < n + 1
    BY <1>1, <1>2, <1>3, <1>4
  <1>6. ASSUME NEW y PROVE InQueue(y)' <=> InQueue(y) \/ y = x
    <2>1. \A i \in DOMAIN queue'[p] : queue'[p][i] = y => InQueue(y) \/ y = x
      BY <1>5 DEF InQueue
    <2>2. \A q \in DOMAIN queue : q # p =>
            \A i \in DOMAIN queue'[q] : queue'[q][i] = y => InQueue(y)
      BY <1>4 DEF InQueue
    <2>3. InQueue(y)' => InQueue(y) \/ y = x
      BY <1>4, <2>1, <2>2 DEF InQueue
    <2>4. \A q \in DOMAIN queue : \A i \in DOMAIN queue[q] :
            i \in DOMAIN queue'[q] /\ queue'[q][i] = queue[q][i]
      BY <1>4, <1>5
    <2>5. InQueue(y) => InQueue(y)'
      BY <1>4, <2>4 DEF InQueue
    <2>6. y = x => InQueue(y)'
      BY <1>4, <1>5 DEF InQueue
    <2> QED
      BY <2>3, <2>5, <2>6
  <1>7. QueueOnce'
    <2>1. \A q \in DOMAIN queue : \A i \in DOMAIN queue[q] : queue[q][i] # x
      BY DEF InQueue
    <2> QED
      BY <1>4, <1>5, <2>1, SMTT(30) DEF QueueOnce
  <1> QED
    BY <1>2, <1>4, <1>5, <1>6, <1>7

LEMMA QueueLoses ==
  ASSUME QueueOnce, NEW p \in DOMAIN queue, queue[p] \in Seq(LogLines), queue[p] # <<>>,
         DOMAIN queue' = DOMAIN queue, \A q \in DOMAIN queue : q # p => queue'[q] = queue[q],
         queue'[p] = Tail(queue[p])
  PROVE  /\ QueueOnce' /\ \A y : InQueue(y)' <=> InQueue(y) /\ y # queue[p][1]
         /\ 1 \in DOMAIN queue[p]
         /\ \A i \in DOMAIN queue'[p] : /\ i + 1 \in DOMAIN queue[p] /\ i \in Nat /\ 1 < i + 1
                                        /\ queue'[p][i] = queue[p][i + 1]
  <1>1. PICK n \in Nat : n + 1 = Len(queue[p])
    <2>1. Len(queue[p]) \in Nat /\ Len(queue[p]) # 0
      OBVIOUS
    <2> QED
      BY <2>1
  <1>2. /\ DOMAIN queue[p] = 1..(n + 1) /\ DOMAIN queue'[p] = 1..n
        /\ \A i \in 1..n : queue'[p][i] = queue[p][i + 1]
    BY <1>1
  <1>3. /\ 1 \in DOMAIN queue[p]
        /\ \A i \in 1..n : i + 1 \in DOMAIN queue[p] /\ i \in Nat /\ 1 < i + 1
        /\ \A i \in DOMAIN queue[p] : i # 1 => i - 1 \in 1..n /\ i = (i - 1) + 1
    BY <1>2
  <1>4. ASSUME NEW y PROVE InQueue(y)' <=> InQueue(y) /\ y # queue[p][1]
    <2>1. ASSUME NEW q \in DOMAIN queue, NEW i \in DOMAIN queue'[q], queue'[q][i] = y
          PROVE  InQueue(y) /\ y # queue[p][1]
      <3>1. CASE q = p
        <4>1. i + 1 \in DOMAIN queue[p] /\ y = queue[p][i + 1] /\ i + 1 # 1
          BY <1>2, <1>3, <2>1, <3>1
        <4> QED
          BY <1>3, <4>1 DEF InQueue, QueueOnce
      <3>2. CASE q # p
        BY <1>3, <2>1, <3>2 DEF InQueue, QueueOnce
      <3> QED
        BY <3>1, <3>2
    <2>2. ASSUME NEW q \in DOMAIN queue, NEW i \in DOMAIN queue[q], queue[q][i] = y,
                 y # queue[p][1]
          PROVE  InQueue(y)'
      <3>1. CASE q = p
        <4>1. i - 1 \in DOMAIN queue'[p] /\ queue'[p][i - 1] = y
          BY <1>2, <1>3, <2>2, <3>1
        <4> QED
          BY <4>1 DEF InQueue
      <3>2. CASE q # p
        BY <2>2, <3>2 DEF InQueue
      <3> QED
        BY <3>1, <3>2
    <2> QED
      BY <2>1, <2>2 DEF InQueue
  <1>5. QueueOnce'
    <2>1. ASSUME NEW q \in DOMAIN queue, NEW r \in DOMAIN queue, NEW i \in DOMAIN queue'[q],
                 NEW j \in DOMAIN queue'[r], queue'[q][i] = queue'[r][j]
          PROVE  q = r /\ i = j
      <3>1. PICK k \in DOMAIN queue[q] : queue'[q][i] = queue[q][k] /\ k = IF q = p THEN i + 1 ELSE i
        BY <1>2, <1>3
      <3>2. PICK l \in DOMAIN queue[r] : queue'[r][j] = queue[r][l] /\ l = IF r = p THEN j + 1 ELSE j
        BY <1>2, <1>3
      <3>3. q = r /\ k = l
        <4>1. queue[q][k] = queue[r][l]
          BY <2>1, <3>1, <3>2
        <4> QED
          BY <4>1 DEF QueueOnce
      <3>4. CASE q = p
        <4>1. r = p /\ DOMAIN queue'[q] = 1..n /\ DOMAIN queue'[r] = 1..n
          BY <1>2, <3>3, <3>4
        <4>2. i \in 1..n /\ j \in 1..n
          BY <4>1
        <4>3. i + 1 = j + 1
          BY <3>1, <3>2, <3>3, <3>4, <4>1
        <4> QED
          BY <3>3, <4>2, <4>3
      <3>5. CASE q # p
        <4>1. k = i /\ r # p
          BY <3>1, <3>3, <3>5
        <4>2. l = j
          BY <3>2, <4>1
        <4> QED
          BY <3>3, <4>1, <4>2
      <3> QED
        BY <3>4, <3>5
    <2> QED
      BY <2>1 DEF QueueOnce
  <1> QED
    BY <1>2, <1>3, <1>4, <1>5

LEMMA NothingMoves ==
  ASSUME PlaceInv, OwnerInv', LogTypeOK', AtWork', QueueOnce',
         \A x \in LogLines : (Past(x)' <=> Past(x)) /\ (InQueue(x)' <=> InQueue(x)),
         file' = file, lost' = lost, \A c \in Consumer : cons'[c].item = cons[c].item
  PROVE  PlaceInv'
  <1>1. \A x : (InFile(x)' <=> InFile(x)) /\ (InHand(x)' <=> InHand(x))
    BY DEF InFile, InHand
  <1>2. PastIsSomewhere'
    BY <1>1 DEF PlaceInv, PastIsSomewhere
  <1>3. FileOnce' /\ HandOnce'
    BY DEF PlaceInv, FileOnce, HandOnce
  <1>4. Disjoint'
    BY <1>1 DEF PlaceInv, Disjoint
  <1> QED
    BY <1>2, <1>3, <1>4 DEF PlaceInv

LEMMA LineMoves ==
  ASSUME PlaceInv, OwnerInv', LogTypeOK', AtWork', NEW t \in Thread, logging[t] # "idle",
         lines' = lines, logging' = [logging EXCEPT ![t] = "idle"], cons' = cons,
         \/ file' = Append(file, Line(t)) /\ queue' = queue /\ lost' = lost
         \/ /\ file' = file /\ lost' = lost
            /\ \E p \in DOMAIN queue : queue' = [queue EXCEPT ![p] = Append(@, Line(t))]
         \/ file' = file /\ queue' = queue /\ lost' = lost \union {Line(t)}
  PROVE  PlaceInv'
  <1>1. /\ Line(t) \in LogLines /\ ~Past(Line(t))
        /\ \A x \in LogLines : Past(x)' <=> Past(x) \/ x = Line(t)
    BY PastGains DEF PlaceInv
  <1>2. ~InFile(Line(t)) /\ ~InQueue(Line(t)) /\ ~InHand(Line(t)) /\ Line(t) \notin lost
    BY <1>1 DEF PlaceInv, PastIsSomewhere
  <1>3. HandOnce' /\ \A x : InHand(x)' <=> InHand(x)
    BY DEF PlaceInv, HandOnce, InHand
  <1>4. CASE file' = Append(file, Line(t)) /\ queue' = queue /\ lost' = lost
    <2>1. FileOnce' /\ \A x : InFile(x)' <=> InFile(x) \/ x = Line(t)
      BY <1>1, <1>2, <1>4, FileGains DEF PlaceInv, LogTypeOK
    <2>2. QueueOnce' /\ \A x : InQueue(x)' <=> InQueue(x)
      BY <1>4 DEF PlaceInv, QueueOnce, InQueue
    <2>3. PastIsSomewhere'
      BY <1>1, <1>3, <1>4, <2>1, <2>2 DEF PlaceInv, PastIsSomewhere
    <2>4. Disjoint'
      BY <1>2, <1>3, <1>4, <2>1, <2>2 DEF PlaceInv, Disjoint
    <2> QED
      BY <1>3, <2>1, <2>2, <2>3, <2>4 DEF PlaceInv
  <1>5. CASE /\ file' = file /\ lost' = lost
             /\ \E p \in DOMAIN queue : queue' = [queue EXCEPT ![p] = Append(@, Line(t))]
    <2>1. QueueOnce' /\ \A x : InQueue(x)' <=> InQueue(x) \/ x = Line(t)
      <3>1. queue \in Seq(Seq(LogLines)) /\ QueueOnce
        BY DEF PlaceInv, LogTypeOK
      <3> QED
        BY <1>1, <1>2, <1>5, <3>1, QueueGains
    <2>2. FileOnce' /\ \A x : InFile(x)' <=> InFile(x)
      BY <1>5 DEF PlaceInv, FileOnce, InFile
    <2>3. PastIsSomewhere'
      BY <1>1, <1>3, <1>5, <2>1, <2>2 DEF PlaceInv, PastIsSomewhere
    <2>4. Disjoint'
      BY <1>2, <1>3, <1>5, <2>1, <2>2 DEF PlaceInv, Disjoint
    <2> QED
      BY <1>3, <2>1, <2>2, <2>3, <2>4 DEF PlaceInv
  <1>6. CASE file' = file /\ queue' = queue /\ lost' = lost \union {Line(t)}
    <2>1. QueueOnce' /\ FileOnce'
          /\ \A x : (InQueue(x)' <=> InQueue(x)) /\ (InFile(x)' <=> InFile(x))
      BY <1>6 DEF PlaceInv, QueueOnce, FileOnce, InQueue, InFile
    <2>2. PastIsSomewhere'
      BY <1>1, <1>3, <1>6, <2>1 DEF PlaceInv, PastIsSomewhere
    <2>3. Disjoint'
      BY <1>2, <1>3, <1>6, <2>1 DEF PlaceInv, Disjoint
    <2> QED
      BY <1>3, <2>1, <2>2, <2>3 DEF PlaceInv
  <1> QED
    BY <1>4, <1>5, <1>6

LEMMA ItemTaken ==
  ASSUME PlaceInv, OwnerInv', LogTypeOK', AtWork', NEW c \in Consumer, NEW p \in DOMAIN queue,
         Taken(c, p), cons[c].pc \in {"best", "all"},
         UNCHANGED <<writers, starter, file, lost>>
  PROVE  PlaceInv'
  <1>1. /\ cons'[c].item = queue[p][1] /\ cons'[c].item \in LogLines
        /\ \A d \in Consumer : d # c => cons'[d] = cons[d]
        /\ QueueOnce' /\ \A y : InQueue(y)' <=> InQueue(y) /\ y # queue[p][1]
        /\ InQueue(queue[p][1])
    <2>1. /\ cons'[c].item = queue[p][1] /\ cons'[c].item \in LogLines
          /\ \A d \in Consumer : d # c => cons'[d] = cons[d]
          /\ queue[p] \in Seq(LogLines) /\ queue[p] # <<>> /\ DOMAIN queue' = DOMAIN queue
          /\ \A q \in DOMAIN queue : q # p => queue'[q] = queue[q]
          /\ queue'[p] = Tail(queue[p])
      BY TakenStep DEF PlaceInv
    <2>2. /\ QueueOnce' /\ \A y : InQueue(y)' <=> InQueue(y) /\ y # queue[p][1]
          /\ 1 \in DOMAIN queue[p]
      BY <2>1, QueueLoses DEF PlaceInv
    <2> QED
      BY <2>1, <2>2 DEF InQueue
  <1>2. cons[c].item = <<>> /\ \A x \in LogLines : x # <<>>
    BY NoLine DEF PlaceInv, LogTypeOK, Consistent
  <1>3. \A x \in LogLines : InHand(x)' <=> InHand(x) \/ x = queue[p][1]
    BY <1>1, <1>2 DEF InHand
  <1>4. ~InFile(queue[p][1]) /\ ~InHand(queue[p][1]) /\ queue[p][1] \notin lost
    BY <1>1 DEF PlaceInv, Disjoint
  <1>5. HandOnce'
    BY <1>1, <1>2, <1>4 DEF PlaceInv, HandOnce, InHand
  <1>6. FileOnce' /\ \A x : (InFile(x)' <=> InFile(x)) /\ (Past(x)' <=> Past(x))
    BY DEF PlaceInv, FileOnce, InFile, Past, writers
  <1>7. PastIsSomewhere'
    BY <1>1, <1>3, <1>6 DEF PlaceInv, PastIsSomewhere
  <1>8. Disjoint'
    BY <1>1, <1>3, <1>4, <1>6 DEF PlaceInv, Disjoint
  <1> QED
    BY <1>1, <1>5, <1>6, <1>7, <1>8 DEF PlaceInv

LEMMA ItemLeaves ==
  ASSUME PlaceInv, OwnerInv', LogTypeOK', AtWork', NEW c \in Consumer,
         WriteItem(c) \/ WriteItemFails(c) \/ Dies(c)
  PROVE  PlaceInv'
  <1>1. PICK r : /\ cons' = [cons EXCEPT ![c] = r] /\ r.item = <<>>
                 /\ cons[c].pc = "write" /\ UNCHANGED <<hash, writers, queue, starter>>
    <2>1. CASE WriteItem(c) \/ WriteItemFails(c)
      <3>1. PICK r : r = [NoDequeue EXCEPT !.pc = "idle"]
        OBVIOUS
      <3>2. r.item = <<>>
        BY <3>1, NoDequeueType
      <3> QED
        BY <2>1, <3>1, <3>2 DEF WriteItem, WriteItemFails, DequeueStep
    <2>2. CASE Dies(c)
      <3>1. PICK r : r = [NoDequeue EXCEPT !.pc = "dying"]
        OBVIOUS
      <3>2. r.item = <<>>
        BY <3>1, NoDequeueType
      <3> QED
        BY <2>2, <3>1, <3>2 DEF Dies, DequeueStep
    <2> QED
      BY <2>1, <2>2
  <1>2. PICK x \in LogLines : x = cons[c].item
    <2>1. cons[c] \in Dequeue /\ cons[c].item # <<>>
      BY <1>1 DEF PlaceInv, LogTypeOK, Consistent
    <2> QED
      BY <2>1 DEF Dequeue
  <1>3. cons'[c].item = <<>> /\ \A d \in Consumer : d # c => cons'[d] = cons[d]
    BY <1>1 DEF PlaceInv, LogTypeOK
  <1>4. HandOnce' /\ \A y \in LogLines : InHand(y)' <=> InHand(y) /\ y # x
    <2>1. \A y \in LogLines : y # <<>>
      BY NoLine
    <2>2. \A d \in Consumer : d # c => cons[d].item # x
      BY <1>2, <2>1 DEF PlaceInv, HandOnce
    <2> QED
      BY <1>2, <1>3, <2>1, <2>2 DEF PlaceInv, HandOnce, InHand
  <1>5. InHand(x) /\ ~InFile(x) /\ ~InQueue(x) /\ x \notin lost
    <2>1. InHand(x)
      BY <1>2 DEF InHand
    <2> QED
      BY <2>1 DEF PlaceInv, Disjoint
  <1>6. QueueOnce' /\ \A y : (InQueue(y)' <=> InQueue(y)) /\ (Past(y)' <=> Past(y))
    BY <1>1 DEF PlaceInv, QueueOnce, InQueue, Past, writers
  <1>7. CASE WriteItem(c)
    <2>1. file' = Append(file, x) /\ lost' = lost
      BY <1>2, <1>7 DEF WriteItem
    <2>2. FileOnce' /\ \A y : InFile(y)' <=> InFile(y) \/ y = x
      BY <1>5, <2>1, FileGains DEF PlaceInv, LogTypeOK
    <2>3. PastIsSomewhere'
      BY <1>4, <1>5, <1>6, <2>1, <2>2 DEF PlaceInv, PastIsSomewhere
    <2>4. Disjoint'
      BY <1>4, <1>5, <1>6, <2>1, <2>2 DEF PlaceInv, Disjoint
    <2> QED
      BY <1>4, <1>6, <2>2, <2>3, <2>4 DEF PlaceInv
  <1>8. CASE WriteItemFails(c) \/ Dies(c)
    <2>1. file' = file /\ lost' = lost \union {x}
      BY <1>2, <1>8 DEF WriteItemFails, Dies
    <2>2. FileOnce' /\ \A y : InFile(y)' <=> InFile(y)
      BY <2>1 DEF PlaceInv, FileOnce, InFile
    <2>3. PastIsSomewhere'
      BY <1>4, <1>5, <1>6, <2>1, <2>2 DEF PlaceInv, PastIsSomewhere
    <2>4. Disjoint'
      BY <1>4, <1>5, <1>6, <2>1, <2>2 DEF PlaceInv, Disjoint
    <2> QED
      BY <1>4, <1>6, <2>2, <2>3, <2>4 DEF PlaceInv
  <1> QED
    BY <1>7, <1>8

LEMMA InitPlace == Init => PlaceInv
  <1> SUFFICES ASSUME Init PROVE PlaceInv
    OBVIOUS
  <1>1. /\ OwnerInv /\ queue = <<>> /\ file = <<>> /\ lost = {} /\ owner = <<>>
        /\ s_isConcurrentQueueStarted = FALSE /\ lines = [t \in Thread |-> 0]
        /\ logging = [t \in Thread |-> "idle"] /\ starter = [c \in Consumer |-> "idle"]
        /\ cons = [c \in Consumer |-> NoDequeue] /\ look = [t \in Thread |-> NoCall]
    BY InitOwner DEF Init, HashInit
  <1>2. LogTypeOK
    <2>1. <<>> \in Seq(Seq(LogLines)) /\ <<>> \in Seq(LogLines) /\ Len(queue) = Len(owner)
      BY <1>1
    <2>2. cons \in [Consumer -> Dequeue] /\ \A c \in Consumer : Consistent(c)
      BY <1>1, NoDequeueType DEF Consistent
    <2> QED
      BY <1>1, <2>1, <2>2 DEF LogTypeOK
  <1>3. AtWork
    BY <1>1, NoCallType DEF AtWork
  <1>4. \A x \in LogLines : ~Past(x) /\ ~InFile(x) /\ ~InQueue(x) /\ ~InHand(x) /\ x \notin lost
    BY <1>1, NoLine, NoDequeueType DEF Past, InFile, InQueue, InHand
  <1>5. FileOnce /\ QueueOnce /\ HandOnce
    BY <1>1, NoDequeueType DEF FileOnce, QueueOnce, HandOnce
  <1> QED
    BY <1>1, <1>2, <1>3, <1>4, <1>5 DEF PlaceInv, PastIsSomewhere, Disjoint

LEMMA PlaceNext == PlaceInv /\ [Next]_vars => PlaceInv'
  <1> SUFFICES ASSUME PlaceInv, [Next]_vars PROVE PlaceInv'
    OBVIOUS
  <1>1. OwnerInv /\ OwnerInv' /\ LogTypeOK /\ AtWork /\ queue \in Seq(Seq(LogLines))
    BY NextIsHashNext, HashOwner DEF PlaceInv, LogTypeOK
  <1>2. CASE UNCHANGED vars
    <2>1. \A x : (Past(x)' <=> Past(x)) /\ (InQueue(x)' <=> InQueue(x))
      BY <1>2 DEF vars, writers, Past, InQueue
    <2>2. LogTypeOK' /\ AtWork' /\ QueueOnce'
      BY <1>2, <1>1
        DEF vars, writers, consumers, hash, PlaceInv, LogTypeOK, Consistent, AtWork, QueueOnce
    <2> QED
      BY <1>1, <1>2, <2>1, <2>2, NothingMoves DEF vars, consumers
  <1> SUFFICES ASSUME Next PROVE PlaceInv'
    BY <1>2
  <1>3. LogTypeOK' /\ AtWork'
    BY <1>1, LogTypes
  <1>4. ASSUME QueueOnce', \A x \in LogLines : (Past(x)' <=> Past(x)) /\ (InQueue(x)' <=> InQueue(x)),
               file' = file, lost' = lost, \A c \in Consumer : cons'[c].item = cons[c].item
        PROVE  PlaceInv'
    BY <1>1, <1>3, <1>4, NothingMoves
  <1>5. queue' = queue => QueueOnce' /\ \A x : InQueue(x)' <=> InQueue(x)
    BY DEF PlaceInv, QueueOnce, InQueue
  <1>6. UNCHANGED writers => \A x : Past(x)' <=> Past(x)
    BY DEF writers, Past
  <1>7. ASSUME NEW t \in Thread, LogLine(t) PROVE PlaceInv'
    <2>1. ASSUME NEW x \in LogLines PROVE Past(x)' <=> Past(x)
      <3>1. /\ lines[t] \in Nat /\ lines' = [lines EXCEPT ![t] = lines[t] + 1]
            /\ lines \in [Thread -> Nat] /\ logging[t] = "idle"
            /\ logging'[t] # "idle" /\ \A u \in Thread : u # t => logging'[u] = logging[u]
        BY <1>1, <1>7 DEF LogLine, LogTypeOK
      <3>2. x[1] \in Thread /\ x[2] \in Nat
        BY NoLine
      <3>3. CASE x[1] = t
        BY <3>1, <3>2, <3>3 DEF Past
      <3>4. CASE x[1] # t
        BY <3>1, <3>2, <3>4 DEF Past
      <3> QED
        BY <3>3, <3>4
    <2> QED
      BY <1>4, <1>5, <1>7, <2>1 DEF LogLine, consumers
  <1>8. ASSUME NEW t \in Thread, WriteLine(t) PROVE PlaceInv'
    BY <1>1, <1>3, <1>8, LineMoves DEF WriteLine, consumers
  <1>20. ASSUME NEW t \in Thread, WriteLineFails(t) PROVE PlaceInv'
    BY <1>1, <1>3, <1>20, LineMoves DEF WriteLineFails, consumers
  <1>9. ASSUME NEW t \in Thread, EnqueueLine(t) PROVE PlaceInv'
    <2>1. \A x \in LogLines : Past(x)' <=> Past(x)
      BY <1>1, <1>9, NoLine DEF EnqueueLine, Past, LogTypeOK
    <2> QED
      BY <1>4, <1>5, <1>9, <2>1 DEF EnqueueLine, consumers
  <1>10. ASSUME NEW t \in Thread, FindProducer(t) PROVE PlaceInv'
    <2>1. \A p \in DOMAIN queue' : \A i \in DOMAIN queue'[p] :
            p \in DOMAIN queue /\ queue'[p] = queue[p]
      <3>1. \A p \in DOMAIN queue' : p \notin DOMAIN queue => DOMAIN queue'[p] = {}
        BY <1>1, <1>10, ProducerQueues, EmptyEntries
      <3> QED
        BY <1>1, <1>10, <3>1, ProducerQueues
    <2>2. \A p \in DOMAIN queue : p \in DOMAIN queue' /\ queue'[p] = queue[p]
      <3>1. Len(queue') >= Len(queue) /\ queue' \in Seq(Seq(LogLines))
        BY <1>1, <1>10, ProducerQueues
      <3>2. DOMAIN queue \subseteq DOMAIN queue'
        BY <1>1, <3>1
      <3> QED
        BY <1>1, <1>10, <3>2, ProducerQueues
    <2>3. \A x : InQueue(x)' <=> InQueue(x)
      BY <2>1, <2>2 DEF InQueue
    <2>4. QueueOnce'
      BY <2>1 DEF PlaceInv, QueueOnce
    <2> QED
      BY <1>4, <1>6, <1>10, <2>3, <2>4 DEF FindProducer, consumers
  <1>11. ASSUME NEW t \in Thread, Enqueue(t) PROVE PlaceInv'
    <2>1. look[t].pc = "done" /\ look[t].producer # 0
      BY <1>11 DEF Enqueue, LookedUp, Go
    <2>2. look[t].producer \in DOMAIN queue /\ logging[t] # "idle"
      <3>1. look[t].producer \in DOMAIN owner /\ logging[t] = "look"
        BY <1>1, <2>1 DEF OwnerInv, ProducerOwned, AtWork
      <3> QED
        BY <1>1, <3>1 DEF LogTypeOK, OwnerInv, HashTypeOK
    <2>3. /\ file' = file /\ lost' = lost /\ lines' = lines /\ cons' = cons
          /\ logging' = [logging EXCEPT ![t] = "idle"]
          /\ queue' = [queue EXCEPT ![look[t].producer] = Append(@, Line(t))]
      BY <1>11 DEF Enqueue, consumers
    <2> QED
      BY <1>1, <1>3, <2>2, <2>3, LineMoves
  <1>12. ASSUME NEW t \in Thread, EnqueueFails(t) PROVE PlaceInv'
    <2>1. logging[t] # "idle"
      BY <1>1, <1>12 DEF EnqueueFails, LookedUp, Go, AtWork
    <2> QED
      BY <1>1, <1>3, <1>12, <2>1, LineMoves DEF EnqueueFails, consumers
  <1>13. ASSUME NEW c \in Consumer, startConsumeThread(c) PROVE PlaceInv'
    <2>1. \A d \in Consumer : cons'[d].item = cons[d].item
      BY <1>1, <1>13 DEF startConsumeThread, LogTypeOK, Dequeue
    <2> QED
      BY <1>4, <1>5, <1>6, <1>13, <2>1 DEF startConsumeThread
  <1>14. ASSUME NEW c \in Consumer, SetStarted(c) PROVE PlaceInv'
    BY <1>4, <1>5, <1>6, <1>14 DEF SetStarted
  <1>15. ASSUME NEW c \in Consumer, NEW r, cons' = [cons EXCEPT ![c] = r], r.item = <<>>,
                cons[c].pc # "write", queue' = queue,
                UNCHANGED <<writers, file, lost>>
         PROVE  PlaceInv'
    <2>1. \A d \in Consumer : cons'[d].item = cons[d].item
      BY <1>1, <1>15 DEF LogTypeOK, Consistent
    <2> QED
      BY <1>4, <1>5, <1>6, <1>15, <2>1
  <1>16. ASSUME NEW c \in Consumer, try_dequeue(c) PROVE PlaceInv'
    <2>1. PICK r : r = [NoDequeue EXCEPT !.pc = "best", !.best = Best]
      OBVIOUS
    <2>2. r.item = <<>> /\ cons' = [cons EXCEPT ![c] = r] /\ cons[c].pc = "idle"
      <3>1. r.item = <<>>
        BY <2>1 DEF NoDequeue
      <3> QED
        BY <1>16, <2>1, <3>1 DEF try_dequeue, DequeueStep
    <2> QED
      BY <1>15, <1>16, <2>2 DEF try_dequeue
  <1>17. ASSUME NEW c \in Consumer, DequeueBest(c) PROVE PlaceInv'
    <2>1. cons[c] \in Dequeue /\ cons[c].pc = "best" /\ cons[c].best \in DOMAIN queue
          /\ cons[c].item = <<>>
      BY <1>1, <1>17 DEF DequeueBest, LogTypeOK, Consistent
    <2>2. CASE Taken(c, cons[c].best)
      BY <1>1, <1>3, <1>17, <2>1, <2>2, ItemTaken DEF DequeueBest
    <2>3. CASE ~Taken(c, cons[c].best)
      <3>1. PICK r : r = [cons[c] EXCEPT !.pc = "all", !.from = Len(owner)]
        OBVIOUS
      <3>2. cons' = [cons EXCEPT ![c] = r] /\ queue' = queue
        BY <1>17, <2>3, <3>1 DEF DequeueBest
      <3>3. r.item = <<>>
        BY <2>1, <3>1 DEF Dequeue
      <3> QED
        BY <1>15, <1>17, <2>1, <3>2, <3>3 DEF DequeueBest
    <2> QED
      BY <2>2, <2>3
  <1>18. ASSUME NEW c \in Consumer, DequeueAny(c) PROVE PlaceInv'
    <2>1. cons[c] \in Dequeue /\ cons[c].pc = "all" /\ cons[c].from \in 0..Len(queue)
          /\ cons[c].item = <<>>
      BY <1>1, <1>18 DEF DequeueAny, LogTypeOK, Consistent
    <2>2. CASE cons[c].from = 0
      <3>1. PICK r : r = [NoDequeue EXCEPT !.pc = "idle"]
        OBVIOUS
      <3>2. cons' = [cons EXCEPT ![c] = r] /\ queue' = queue
        BY <1>18, <2>2, <3>1 DEF DequeueAny
      <3>3. r.item = <<>>
        BY <3>1, NoDequeueType
      <3> QED
        BY <1>15, <1>18, <2>1, <3>2, <3>3 DEF DequeueAny
    <2>3. CASE cons[c].from # 0 /\ Taken(c, cons[c].from)
      <3>1. cons[c].from \in DOMAIN queue
        BY <1>1, <2>1, <2>3
      <3> QED
        BY <1>1, <1>3, <1>18, <2>1, <2>3, <3>1, ItemTaken DEF DequeueAny
    <2>4. CASE cons[c].from # 0 /\ ~Taken(c, cons[c].from)
      <3>1. PICK r : r = [cons[c] EXCEPT !.from = cons[c].from - 1]
        OBVIOUS
      <3>2. cons' = [cons EXCEPT ![c] = r] /\ queue' = queue
        BY <1>18, <2>4, <3>1 DEF DequeueAny
      <3>3. r.item = <<>>
        BY <2>1, <3>1 DEF Dequeue
      <3> QED
        BY <1>15, <1>18, <2>1, <3>2, <3>3 DEF DequeueAny
    <2> QED
      BY <2>2, <2>3, <2>4
  <1>19. ASSUME NEW c \in Consumer, WriteItem(c) \/ WriteItemFails(c) \/ Dies(c) PROVE PlaceInv'
    BY <1>1, <1>3, <1>19, ItemLeaves
  <1>21. ASSUME NEW c \in Consumer, Ends(c) PROVE PlaceInv'
    <2>1. PICK r : r = [NoDequeue EXCEPT !.pc = "dead"]
      OBVIOUS
    <2>2. r.item = <<>> /\ cons' = [cons EXCEPT ![c] = r] /\ cons[c].pc = "dying"
      BY <1>21, <2>1, NoDequeueType DEF Ends, DequeueStep
    <2>3. \A d \in Consumer : cons'[d].item = cons[d].item
      BY <1>1, <2>2 DEF PlaceInv, LogTypeOK, Consistent
    <2>4. UNCHANGED <<hash, writers, queue, file, lost>>
      BY <1>21 DEF Ends
    <2> QED
      BY <1>4, <1>5, <2>3, <2>4 DEF Past, writers
  <1> QED
    BY <1>7, <1>8, <1>9, <1>10, <1>11, <1>12, <1>13, <1>14, <1>16, <1>17, <1>18, <1>19, <1>20, <1>21
      DEF Next, writer, consumer

(* The inductive invariant of the lines holds in every state. *)
THEOREM PlaceInvariant == Spec => []PlaceInv
  BY InitPlace, PlaceNext, PTL DEF Spec

LEMMA AtMostOne ==
  ASSUME NEW S, \A a, b \in S : a = b
  PROVE  Cardinality(S) = IF S = {} THEN 0 ELSE 1
  <1>1. CASE S = {}
    BY <1>1, FS_EmptySet
  <1>2. CASE S # {}
    <2>1. PICK a : S = {a}
      BY <1>2
    <2> QED
      BY <1>2, <2>1, FS_Singleton
  <1> QED
    BY <1>1, <1>2

(* No line is lost without a failure and none is written twice, by however *)
(* many threads and consumers, and whenever they are started.              *)
THEOREM LineInOnePlaceAlways == Spec => []LineInOnePlace
  <1>1. PlaceInv => LineInOnePlace
    <2> SUFFICES ASSUME PlaceInv, NEW t \in Thread, NEW n \in 1..lines[t]
                 PROVE  Places(<<t, n>>) = 1
      BY DEF LineInOnePlace
    <2>1. PICK x \in LogLines : x = <<t, n>> /\ x[1] = t /\ x[2] = n
      <3>1. lines[t] \in Nat
        BY DEF PlaceInv, LogTypeOK
      <3>2. <<t, n>> \in LogLines
        BY <3>1 DEF LogLines
      <3> QED
        BY <3>2
    <2>2. PICK F : F = {i \in DOMAIN file : file[i] = x}
      OBVIOUS
    <2>3. PICK Q : Q = {p \in DOMAIN queue : \E i \in DOMAIN queue[p] : queue[p][i] = x}
      OBVIOUS
    <2>4. PICK H : H = {c \in Consumer : cons[c].item = x}
      OBVIOUS
    <2>5. PICK T : T = {u \in Thread : logging[u] # "idle" /\ Line(u) = x}
      OBVIOUS
    <2>6. PICK l : l = IF x \in lost THEN 1 ELSE 0
      OBVIOUS
    <2>7. Places(x) = Cardinality(F) + Cardinality(Q) + Cardinality(H) + Cardinality(T) + l
      BY <2>2, <2>3, <2>4, <2>5, <2>6 DEF Places
    <2>8. Cardinality(F) = IF InFile(x) THEN 1 ELSE 0
      <3>1. F # {} <=> InFile(x)
        BY <2>2 DEF InFile
      <3> QED
        BY <2>2, <3>1, AtMostOne DEF PlaceInv, FileOnce
    <2>9. Cardinality(Q) = IF InQueue(x) THEN 1 ELSE 0
      <3>1. Q # {} <=> InQueue(x)
        BY <2>3 DEF InQueue
      <3>2. \A p, q \in Q : p = q
        BY <2>3 DEF PlaceInv, QueueOnce
      <3> QED
        BY <3>1, <3>2, AtMostOne
    <2>10. Cardinality(H) = IF InHand(x) THEN 1 ELSE 0
      <3>1. H # {} <=> InHand(x)
        BY <2>4 DEF InHand
      <3>2. \A c, d \in H : c = d
        BY <2>4, NoLine DEF PlaceInv, HandOnce
      <3> QED
        BY <3>1, <3>2, AtMostOne
    <2>11. Cardinality(T) = IF Past(x) THEN 0 ELSE 1
      <3>1. T # {} <=> ~Past(x)
        <4>1. \A u \in Thread : Line(u) = x <=> u = t /\ lines[u] = n
          BY <2>1 DEF Line
        <4> QED
          BY <2>1, <2>5, <4>1 DEF Past
      <3>2. \A u, v \in T : u = v
        BY <2>1, <2>5 DEF Line
      <3> QED
        BY <3>1, <3>2, AtMostOne
    <2>12. Past(x) <=> InFile(x) \/ InQueue(x) \/ InHand(x) \/ x \in lost
      BY DEF PlaceInv, PastIsSomewhere
    <2>13. /\ InFile(x) => ~InQueue(x) /\ ~InHand(x) /\ x \notin lost
           /\ InQueue(x) => ~InHand(x) /\ x \notin lost
           /\ InHand(x) => x \notin lost
      BY DEF PlaceInv, Disjoint
    <2>14. Places(x) = 1
      <3>1. CASE InFile(x)
        BY <2>6, <2>7, <2>8, <2>9, <2>10, <2>11, <2>12, <2>13, <3>1
      <3>2. CASE InQueue(x)
        BY <2>6, <2>7, <2>8, <2>9, <2>10, <2>11, <2>12, <2>13, <3>2
      <3>3. CASE InHand(x)
        BY <2>6, <2>7, <2>8, <2>9, <2>10, <2>11, <2>12, <2>13, <3>3
      <3>4. CASE x \in lost
        BY <2>6, <2>7, <2>8, <2>9, <2>10, <2>11, <2>12, <2>13, <3>4
      <3>5. CASE ~Past(x)
        BY <2>6, <2>7, <2>8, <2>9, <2>10, <2>11, <2>12, <2>13, <3>5
      <3> QED
        BY <2>12, <3>1, <3>2, <3>3, <3>4, <3>5
    <2> QED
      BY <2>1, <2>14
  <1> QED
    BY <1>1, PlaceInvariant, PTL

(***************************************************************************)
(* A thread's lines are written in order                                   *)
(***************************************************************************)

LEMMA Before ==
  ASSUME PlaceInv, NEW t \in Thread, logging[t] # "idle", NEW x \in LogLines, x[1] = t,
         InFile(x) \/ InQueue(x) \/ InHand(x)
  PROVE  x[2] < lines[t]
  <1>1. Past(x)
    BY DEF PlaceInv, PastIsSomewhere
  <1>2. lines[t] \in Nat /\ x[2] \in Nat
    BY NoLine DEF PlaceInv, LogTypeOK
  <1> QED
    BY <1>1, <1>2 DEF Past

(* A consumer that was started stays so, and one that died stays dead. *)
LEMMA StartedStay ==
  ASSUME PlaceInv, Next, IsFiniteSet(Started)
  PROVE  /\ OneConsumer' => OneConsumer
         /\ NoneDead' => NoneDead
         /\ IsFiniteSet(Started)'
  <1>1. starter \in [Consumer -> {"idle", "flag", "done"}] /\ cons \in [Consumer -> Dequeue]
    BY DEF PlaceInv, LogTypeOK
  <1>2. \/ starter' = starter
        \/ \E c \in Consumer : /\ \A d \in Consumer : d # c => starter'[d] = starter[d]
                               /\ starter'[c] # "idle"
    <2>1. ASSUME NEW t \in Thread, writer(t) PROVE starter' = starter
      BY <2>1 DEF writer, LogLine, WriteLine, WriteLineFails, EnqueueLine, FindProducer,
        Enqueue, EnqueueFails, consumers
    <2>2. ASSUME NEW c \in Consumer, consumer(c) PROVE starter' = starter
      BY <2>2 DEF consumer, try_dequeue, DequeueBest, DequeueAny, WriteItem,
        WriteItemFails, Dies, Ends
    <2>3. ASSUME NEW c \in Consumer, startConsumeThread(c) \/ SetStarted(c)
          PROVE  /\ \A d \in Consumer : d # c => starter'[d] = starter[d]
                 /\ starter'[c] # "idle"
      BY <1>1, <2>3 DEF startConsumeThread, SetStarted
    <2> QED
      BY <2>1, <2>2, <2>3 DEF Next
  <1>3. /\ Started \subseteq Started'
        /\ Started' = Started \/ \E c \in Consumer : Started' \subseteq Started \union {c}
    BY <1>1, <1>2 DEF Started
  <1>4. OneConsumer' => OneConsumer
    BY <1>3 DEF OneConsumer
  <1>5. IsFiniteSet(Started)'
    <2>1. CASE Started' = Started
      BY <2>1
    <2>2. ASSUME NEW c \in Consumer, Started' \subseteq Started \union {c}
          PROVE  IsFiniteSet(Started)'
      <3>1. IsFiniteSet(Started \union {c})
        BY FS_AddElement
      <3> QED
        BY <2>2, <3>1, FS_Subset
    <2> QED
      BY <1>3, <2>1, <2>2
  <1>6. ASSUME NEW d \in Consumer, cons[d].pc \in {"dying", "dead"}
        PROVE  cons'[d].pc \in {"dying", "dead"}
    <2>1. ASSUME NEW t \in Thread, writer(t) PROVE cons' = cons
      BY <2>1 DEF writer, LogLine, WriteLine, WriteLineFails, EnqueueLine, FindProducer,
        Enqueue, EnqueueFails, consumers
    <2>2. ASSUME NEW c \in Consumer, NEW r, cons' = [cons EXCEPT ![c] = r],
                 cons[c].pc \notin {"dying", "dead"}
          PROVE  cons'[d].pc \in {"dying", "dead"}
      BY <1>1, <1>6, <2>2
    <2>3. ASSUME NEW c \in Consumer, consumer(c) PROVE cons'[d].pc \in {"dying", "dead"}
      <3>0. CASE Ends(c)
        <4>1. PICK r : r = [NoDequeue EXCEPT !.pc = "dead"]
          OBVIOUS
        <4>2. r.pc = "dead" /\ cons' = [cons EXCEPT ![c] = r]
          BY <3>0, <4>1, NoDequeueType DEF Ends, DequeueStep
        <4> QED
          BY <1>1, <1>6, <4>2
      <3>1. ~Ends(c) => cons[c].pc \notin {"dying", "dead"}
        BY <2>3 DEF consumer, try_dequeue, DequeueBest, DequeueAny, WriteItem, WriteItemFails,
          Dies, DequeueStep
      <3>2. \E r : cons' = [cons EXCEPT ![c] = r]
        <4>1. CASE try_dequeue(c) \/ WriteItem(c) \/ WriteItemFails(c) \/ Dies(c) \/ Ends(c)
          BY <4>1, Zenon DEF try_dequeue, WriteItem, WriteItemFails, Dies, Ends, DequeueStep
        <4>2. CASE DequeueBest(c)
          <5>1. CASE Taken(c, cons[c].best)
            BY <5>1, Zenon DEF Taken
          <5>2. CASE ~Taken(c, cons[c].best)
            <6>1. PICK r : r = [cons[c] EXCEPT !.pc = "all", !.from = Len(owner)]
              OBVIOUS
            <6> QED
              BY <4>2, <5>2, <6>1 DEF DequeueBest
          <5> QED
            BY <5>1, <5>2
        <4>3. CASE DequeueAny(c)
          BY <4>3, Zenon DEF DequeueAny, Taken
        <4> QED
          BY <2>3, <4>1, <4>2, <4>3 DEF consumer
      <3> QED
        BY <2>2, <3>0, <3>1, <3>2
    <2>4. ASSUME NEW c \in Consumer, startConsumeThread(c) PROVE cons'[d].pc \in {"dying", "dead"}
      <3>1. cons[c].pc = "none" /\ \E r : cons' = [cons EXCEPT ![c] = r]
        BY <2>4 DEF startConsumeThread, PlaceInv, LogTypeOK, Consistent
      <3> QED
        BY <2>2, <3>1
    <2>5. ASSUME NEW c \in Consumer, SetStarted(c) PROVE cons' = cons
      BY <2>5 DEF SetStarted
    <2> QED
      BY <1>6, <2>1, <2>3, <2>4, <2>5 DEF Next
  <1>7. NoneDead' => NoneDead
    BY <1>6 DEF NoneDead
  <1> QED
    BY <1>4, <1>5, <1>7

(* No line moves but out of memory. *)
LEMMA OrderKept ==
  ASSUME OrderInv, PlaceInv', OneConsumer' => OneConsumer, NoneDead' => NoneDead,
         IsFiniteSet(Started)', file' = file,
         \A c \in Consumer : cons'[c].item = cons[c].item \/ cons'[c].item = <<>>,
         \A p \in DOMAIN queue' :
           \/ p \in DOMAIN queue /\ queue'[p] = queue[p] /\ owner'[p] = owner[p]
           \/ queue'[p] = <<>>,
         s_isConcurrentQueueStarted => s_isConcurrentQueueStarted',
         \A t \in Thread :
           /\ logging'[t] = "write" => logging[t] = "write" \/ ~s_isConcurrentQueueStarted
           /\ logging'[t] \in {"enqueue", "look"} =>
                logging[t] \in {"enqueue", "look"} \/ s_isConcurrentQueueStarted
  PROVE  OrderInv'
  <1>1. DOMAIN <<>> = {}
    OBVIOUS
  <1>2. \A p \in DOMAIN queue' : \A i \in DOMAIN queue'[p] :
          p \in DOMAIN queue /\ queue'[p] = queue[p] /\ owner'[p] = owner[p]
    BY <1>1
  <1>3. QueueOwned' /\ FileOrder' /\ HandOrder'
    BY <1>2 DEF OrderInv, QueueOwned, FileOrder, HandOrder
  <1>4. QueueOrder'
    BY <1>2 DEF OrderInv, QueueOrder
  <1>5. QuietBefore'
    BY DEF OrderInv, QuietBefore
  <1>6. WritesAlone'
    BY DEF OrderInv, WritesAlone, QuietBefore
  <1> QED
    BY <1>3, <1>4, <1>5, <1>6 DEF OrderInv

LEMMA LineWritten ==
  ASSUME OrderInv, PlaceInv', IsFiniteSet(Started)', NEW t \in Thread, WriteLine(t)
  PROVE  OrderInv'
  <1>1. /\ logging[t] = "write" /\ file' = Append(file, Line(t)) /\ lines' = lines
        /\ logging' = [logging EXCEPT ![t] = "idle"]
        /\ queue' = queue /\ owner' = owner /\ starter' = starter /\ cons' = cons
        /\ s_isConcurrentQueueStarted' = s_isConcurrentQueueStarted
    BY DEF WriteLine, hash, consumers
  <1>2. /\ PlaceInv /\ file \in Seq(LogLines)
        /\ logging \in [Thread -> {"idle", "write", "enqueue", "look"}]
    BY DEF OrderInv, PlaceInv, LogTypeOK
  <1>3. /\ Line(t) \in LogLines /\ Line(t)[1] = t /\ Line(t)[2] = lines[t] /\ ~InFile(Line(t))
    BY <1>1, <1>2, PastGains DEF PlaceInv, PastIsSomewhere
  <1>4. PICK m \in Nat : /\ DOMAIN file' = DOMAIN file \union {m} /\ file'[m] = Line(t)
                         /\ \A i \in DOMAIN file : file'[i] = file[i] /\ i \in Nat /\ i < m
    BY <1>1, <1>2, <1>3, FileGains DEF PlaceInv
  <1>5. \A i \in DOMAIN file : file[i][1] = t => file[i][2] < lines[t]
    <2>1. \A i \in DOMAIN file : file[i] \in LogLines /\ InFile(file[i])
      BY <1>2 DEF InFile
    <2> QED
      BY <1>1, <1>2, <2>1, Before
  <1>6. FileOrder'
    <2>1. ASSUME OneConsumer, NEW i \in DOMAIN file', NEW j \in DOMAIN file', i < j,
                 file'[i][1] = file'[j][1]
          PROVE  file'[i][2] < file'[j][2]
      <3>1. i \in DOMAIN file
        BY <1>4, <2>1
      <3>2. CASE j = m
        BY <1>3, <1>4, <1>5, <2>1, <3>1, <3>2
      <3>3. CASE j \in DOMAIN file
        BY <1>4, <2>1, <3>1, <3>3 DEF OrderInv, FileOrder
      <3> QED
        BY <1>4, <3>2, <3>3
    <2> QED
      BY <1>1, <2>1 DEF FileOrder, OneConsumer, Started
  <1>7. HandOrder'
    <2>1. ASSUME OneConsumer, NoneDead, NEW c \in Consumer, cons[c].item # <<>>,
                 NEW i \in DOMAIN file', file'[i][1] = cons[c].item[1]
          PROVE  file'[i][2] < cons[c].item[2]
      <3>1. i # m
        BY <1>1, <1>3, <1>4, <2>1 DEF OrderInv, WritesAlone
      <3> QED
        BY <1>4, <2>1, <3>1 DEF OrderInv, HandOrder
    <2> QED
      BY <1>1, <2>1 DEF HandOrder, OneConsumer, NoneDead, Started
  <1>8. QueueOrder'
    <2>1. ASSUME OneConsumer, NoneDead, NEW p \in DOMAIN queue, NEW j \in DOMAIN queue[p],
                 NEW i \in DOMAIN file', file'[i][1] = owner[p]
          PROVE  file'[i][2] < queue[p][j][2]
      <3>1. i # m
        <4>1. DOMAIN <<>> = {}
          OBVIOUS
        <4>2. queue[p] # <<>>
          BY <4>1
        <4> QED
          BY <1>1, <1>3, <1>4, <2>1, <4>2 DEF OrderInv, WritesAlone
      <3> QED
        BY <1>4, <2>1, <3>1 DEF OrderInv, QueueOrder
    <2> QED
      BY <1>1, <2>1 DEF OrderInv, QueueOrder, OneConsumer, NoneDead, Started
  <1>9. QueueOwned' /\ QuietBefore' /\ WritesAlone'
    BY <1>1, <1>2 DEF OrderInv, QueueOwned, QuietBefore, WritesAlone, OneConsumer, NoneDead, Started
  <1> QED
    BY <1>6, <1>7, <1>8, <1>9 DEF OrderInv

LEMMA LineEnqueued ==
  ASSUME OrderInv, PlaceInv', IsFiniteSet(Started)', NEW t \in Thread, Enqueue(t)
  PROVE  OrderInv'
  <1>1. /\ file' = file /\ lines' = lines /\ logging' = [logging EXCEPT ![t] = "idle"]
        /\ queue' = [queue EXCEPT ![look[t].producer] = Append(@, Line(t))]
        /\ owner' = owner /\ starter' = starter /\ cons' = cons
        /\ s_isConcurrentQueueStarted' = s_isConcurrentQueueStarted
        /\ look[t].pc = "done" /\ look[t].producer # 0
    BY DEF Enqueue, LookedUp, Go, consumers
  <1>2. /\ PlaceInv /\ file \in Seq(LogLines) /\ queue \in Seq(Seq(LogLines))
        /\ logging \in [Thread -> {"idle", "write", "enqueue", "look"}]
        /\ cons \in [Consumer -> Dequeue]
    BY DEF OrderInv, PlaceInv, LogTypeOK
  <1>3. PICK p \in DOMAIN queue : p = look[t].producer /\ owner[p] = t
    <2>1. look[t].producer \in DOMAIN owner /\ owner[look[t].producer] = t
      BY <1>1, <1>2 DEF PlaceInv, OwnerInv, ProducerOwned
    <2>2. DOMAIN queue = DOMAIN owner
      BY <1>2 DEF PlaceInv, LogTypeOK, OwnerInv, HashTypeOK
    <2> QED
      BY <2>1, <2>2
  <1>4. logging[t] = "look"
    BY <1>1, <1>2 DEF PlaceInv, AtWork
  <1>5. /\ Line(t) \in LogLines /\ Line(t)[1] = t /\ Line(t)[2] = lines[t] /\ ~InQueue(Line(t))
    BY <1>1, <1>2, <1>4, PastGains DEF PlaceInv, PastIsSomewhere
  <1>6. PICK m \in Nat :
          /\ DOMAIN queue' = DOMAIN queue /\ \A q \in DOMAIN queue : q # p => queue'[q] = queue[q]
          /\ DOMAIN queue'[p] = DOMAIN queue[p] \union {m} /\ queue'[p][m] = Line(t)
          /\ \A i \in DOMAIN queue[p] : queue'[p][i] = queue[p][i] /\ i \in Nat /\ i < m
    <2>1. queue[p] \in Seq(LogLines)
      BY <1>2
    <2>2. PICK m \in Nat : m = Len(queue[p]) + 1
      BY <2>1
    <2>3. queue' = [queue EXCEPT ![p] = Append(@, Line(t))] /\ QueueOnce
      BY <1>1, <1>2, <1>3 DEF PlaceInv
    <2>4. /\ DOMAIN queue' = DOMAIN queue
          /\ \A q \in DOMAIN queue : q # p => queue'[q] = queue[q]
          /\ DOMAIN queue'[p] = DOMAIN queue[p] \union {Len(queue[p]) + 1}
          /\ queue'[p][Len(queue[p]) + 1] = Line(t)
          /\ \A i \in DOMAIN queue[p] : /\ queue'[p][i] = queue[p][i]
                                        /\ i \in Nat /\ i < Len(queue[p]) + 1
      BY <1>2, <1>5, <2>3, QueueGains
    <2> QED
      BY <2>2, <2>4
  <1>7. /\ \A i \in DOMAIN file : file[i][1] = t => file[i][2] < lines[t]
        /\ \A c \in Consumer : cons[c].item # <<>> /\ cons[c].item[1] = t => cons[c].item[2] < lines[t]
        /\ \A i \in DOMAIN queue[p] : queue[p][i][2] < lines[t]
    <2>1. \A i \in DOMAIN file : file[i] \in LogLines /\ InFile(file[i])
      BY <1>2 DEF InFile
    <2>2. \A c \in Consumer : cons[c].item # <<>> => cons[c].item \in LogLines /\ InHand(cons[c].item)
      BY <1>2 DEF InHand, Dequeue
    <2>3. \A i \in DOMAIN queue[p] :
            queue[p][i] \in LogLines /\ InQueue(queue[p][i]) /\ queue[p][i][1] = t
      <3>1. queue[p] \in Seq(LogLines)
        BY <1>2
      <3> QED
        BY <1>3, <3>1 DEF InQueue, OrderInv, QueueOwned
    <2> QED
      BY <1>2, <1>4, <2>1, <2>2, <2>3, Before
  <1>8. QueueOwned'
    BY <1>1, <1>3, <1>5, <1>6 DEF OrderInv, QueueOwned
  <1>9. QueueOrder'
    <2>1. ASSUME OneConsumer, NoneDead, NEW q \in DOMAIN queue, q # p, NEW j \in DOMAIN queue'[q]
          PROVE  /\ \A i \in DOMAIN queue'[q] : i < j => queue'[q][i][2] < queue'[q][j][2]
                 /\ \A i \in DOMAIN file : file[i][1] = owner[q] => file[i][2] < queue'[q][j][2]
                 /\ \A c \in Consumer : cons[c].item # <<>> /\ cons[c].item[1] = owner[q] =>
                      cons[c].item[2] < queue'[q][j][2]
      BY <1>6, <2>1 DEF OrderInv, QueueOrder
    <2>2. ASSUME OneConsumer, NoneDead, NEW j \in DOMAIN queue'[p]
          PROVE  /\ \A i \in DOMAIN queue'[p] : i < j => queue'[p][i][2] < queue'[p][j][2]
                 /\ \A i \in DOMAIN file : file[i][1] = owner[p] => file[i][2] < queue'[p][j][2]
                 /\ \A c \in Consumer : cons[c].item # <<>> /\ cons[c].item[1] = owner[p] =>
                      cons[c].item[2] < queue'[p][j][2]
      <3>1. CASE j = m
        <4>1. ASSUME NEW i \in DOMAIN queue'[p], i < j PROVE i \in DOMAIN queue[p]
          BY <1>6, <3>1, <4>1
        <4> QED
          BY <1>3, <1>5, <1>6, <1>7, <3>1, <4>1
      <3>2. CASE j \in DOMAIN queue[p]
        <4>1. ASSUME NEW i \in DOMAIN queue'[p], i < j PROVE i \in DOMAIN queue[p]
          BY <1>6, <3>2, <4>1
        <4> QED
          BY <1>6, <2>2, <3>2, <4>1 DEF OrderInv, QueueOrder
      <3> QED
        BY <1>6, <3>1, <3>2
    <2> QED
      BY <1>1, <1>6, <2>1, <2>2, SMTT(30) DEF QueueOrder, OneConsumer, NoneDead, Started
  <1>10. FileOrder' /\ HandOrder'
    BY <1>1 DEF OrderInv, FileOrder, HandOrder, OneConsumer, NoneDead, Started
  <1>11. QuietBefore'
    BY <1>1, <1>4 DEF OrderInv, QuietBefore, OneConsumer, NoneDead, Started
  <1>12. WritesAlone'
    <2>1. \A u \in Thread : logging'[u] = "write" => u # t /\ logging[u] = "write"
      BY <1>1, <1>2
    <2>2. \A u \in Thread, q \in DOMAIN queue : u # t /\ owner[q] = u => queue'[q] = queue[q]
      BY <1>3, <1>6
    <2> QED
      BY <1>1, <1>6, <2>1, <2>2 DEF OrderInv, WritesAlone, OneConsumer, NoneDead, Started
  <1> QED
    BY <1>8, <1>9, <1>10, <1>11, <1>12 DEF OrderInv

LEMMA LineTaken ==
  ASSUME OrderInv, PlaceInv', IsFiniteSet(Started)', NEW c \in Consumer, NEW p \in DOMAIN queue,
         Taken(c, p), cons[c].pc \in {"best", "all"},
         UNCHANGED <<hash, s_isConcurrentQueueStarted, writers, starter, file>>
  PROVE  OrderInv'
  <1>1. /\ file' = file /\ logging' = logging /\ owner' = owner /\ starter' = starter
        /\ s_isConcurrentQueueStarted' = s_isConcurrentQueueStarted
    BY DEF hash, writers
  <1>2. /\ PlaceInv /\ DOMAIN queue = DOMAIN owner /\ OneProducerEach
    <2>1. PlaceInv /\ OneProducerEach
      BY DEF OrderInv, PlaceInv, OwnerInv
    <2>2. queue \in Seq(Seq(LogLines)) /\ owner \in Seq(Thread) /\ Len(queue) = Len(owner)
      BY <2>1 DEF PlaceInv, LogTypeOK, OwnerInv, HashTypeOK
    <2> QED
      BY <2>1, <2>2
  <1>3. /\ cons'[c].item = queue[p][1] /\ cons'[c].item \in LogLines /\ cons'[c].pc = "write"
        /\ \A d \in Consumer : d # c => cons'[d] = cons[d]
        /\ queue[p] \in Seq(LogLines) /\ queue[p] # <<>> /\ DOMAIN queue' = DOMAIN queue
        /\ \A q \in DOMAIN queue : q # p => queue'[q] = queue[q]
        /\ queue'[p] = Tail(queue[p])
    BY <1>2, TakenStep DEF PlaceInv
  <1>4. /\ 1 \in DOMAIN queue[p]
        /\ \A i \in DOMAIN queue'[p] : /\ i + 1 \in DOMAIN queue[p] /\ i \in Nat /\ 1 < i + 1
                                       /\ queue'[p][i] = queue[p][i + 1]
    BY <1>2, <1>3, QueueLoses DEF PlaceInv
  <1>5. queue[p][1][1] = owner[p]
    BY <1>4 DEF OrderInv, QueueOwned
  <1>6. (OneConsumer' => OneConsumer) /\ (NoneDead' => NoneDead)
    <2>1. cons[c].pc \notin {"dying", "dead"}
      OBVIOUS
    <2> QED
      BY <1>1, <1>3, <2>1 DEF OneConsumer, NoneDead, Started
  <1>7. QueueOwned'
    <2>1. \A i \in DOMAIN queue'[p] : queue'[p][i][1] = owner[p]
      BY <1>4 DEF OrderInv, QueueOwned
    <2>2. \A q \in DOMAIN queue : q # p =>
            \A i \in DOMAIN queue'[q] : queue'[q][i][1] = owner[q]
      BY <1>3 DEF OrderInv, QueueOwned
    <2> QED
      BY <1>1, <1>3, <2>1, <2>2 DEF QueueOwned
  <1>8. FileOrder'
    BY <1>1, <1>6 DEF OrderInv, FileOrder
  <1>9. QuietBefore'
    BY <1>1, <1>3, <1>6 DEF OrderInv, QuietBefore
  <1>10. WritesAlone'
    <2>1. ASSUME OneConsumer, NoneDead, NEW u \in Thread, logging[u] = "write"
          PROVE  /\ \A q \in DOMAIN queue : owner[q] = u => queue'[q] = <<>>
                 /\ \A d \in Consumer : cons'[d].item # <<>> => cons'[d].item[1] # u
      <3>1. owner[p] # u
        BY <1>3, <2>1 DEF OrderInv, WritesAlone
      <3>2. \A q \in DOMAIN queue : owner[q] = u => queue'[q] = <<>>
        BY <1>3, <2>1, <3>1 DEF OrderInv, WritesAlone
      <3>3. \A d \in Consumer : cons'[d].item # <<>> => cons'[d].item[1] # u
        BY <1>3, <1>5, <2>1, <3>1 DEF OrderInv, WritesAlone
      <3> QED
        BY <3>2, <3>3
    <2> QED
      BY <1>1, <1>3, <1>6, <2>1 DEF WritesAlone
  <1>11. HandOrder'
    <2>1. ASSUME OneConsumer, NoneDead, NEW d \in Consumer, cons'[d].item # <<>>,
                 NEW i \in DOMAIN file, file[i][1] = cons'[d].item[1]
          PROVE  file[i][2] < cons'[d].item[2]
      <3>1. CASE d = c
        BY <1>3, <1>4, <1>5, <2>1, <3>1 DEF OrderInv, QueueOrder
      <3>2. CASE d # c
        BY <1>3, <2>1, <3>2 DEF OrderInv, HandOrder
      <3> QED
        BY <3>1, <3>2
    <2> QED
      BY <1>1, <1>6, <2>1 DEF HandOrder
  <1>12. QueueOrder'
    <2>1. ASSUME OneConsumer, NoneDead, NEW j \in DOMAIN queue'[p]
          PROVE  /\ \A i \in DOMAIN queue'[p] : i < j => queue'[p][i][2] < queue'[p][j][2]
                 /\ \A i \in DOMAIN file : file[i][1] = owner[p] => file[i][2] < queue'[p][j][2]
                 /\ \A d \in Consumer : cons'[d].item # <<>> /\ cons'[d].item[1] = owner[p] =>
                      cons'[d].item[2] < queue'[p][j][2]
      <3>1. ASSUME NEW i \in DOMAIN queue'[p], i < j PROVE queue'[p][i][2] < queue'[p][j][2]
        <4>1. i + 1 \in DOMAIN queue[p] /\ j + 1 \in DOMAIN queue[p] /\ i + 1 < j + 1
          BY <1>4, <3>1
        <4>2. queue[p][i + 1][2] < queue[p][j + 1][2]
          BY <2>1, <4>1 DEF OrderInv, QueueOrder
        <4> QED
          BY <1>4, <4>2
      <3>2. j + 1 \in DOMAIN queue[p] /\ 1 < j + 1 /\ queue'[p][j] = queue[p][j + 1]
        BY <1>4
      <3>3. ASSUME NEW d \in Consumer, cons'[d].item # <<>>, cons'[d].item[1] = owner[p]
            PROVE  cons'[d].item[2] < queue'[p][j][2]
        <4>1. CASE d = c
          BY <1>3, <1>4, <2>1, <3>2, <4>1 DEF OrderInv, QueueOrder
        <4>2. CASE d # c
          BY <1>3, <2>1, <3>2, <3>3, <4>2 DEF OrderInv, QueueOrder
        <4> QED
          BY <4>1, <4>2
      <3> QED
        BY <2>1, <3>1, <3>2, <3>3 DEF OrderInv, QueueOrder
    <2>2. ASSUME OneConsumer, NoneDead, NEW q \in DOMAIN queue, q # p, NEW j \in DOMAIN queue[q]
          PROVE  /\ \A i \in DOMAIN queue[q] : i < j => queue[q][i][2] < queue[q][j][2]
                 /\ \A i \in DOMAIN file : file[i][1] = owner[q] => file[i][2] < queue[q][j][2]
                 /\ \A d \in Consumer : cons'[d].item # <<>> /\ cons'[d].item[1] = owner[q] =>
                      cons'[d].item[2] < queue[q][j][2]
      <3>1. owner[q] # owner[p]
        BY <1>2, <2>2 DEF OneProducerEach
      <3> QED
        BY <1>3, <1>5, <2>2, <3>1 DEF OrderInv, QueueOrder
    <2> QED
      BY <1>1, <1>3, <1>6, <2>1, <2>2, SMTT(30) DEF QueueOrder
  <1> QED
    BY <1>7, <1>8, <1>9, <1>10, <1>11, <1>12 DEF OrderInv

LEMMA TakenLineWritten ==
  ASSUME OrderInv, PlaceInv', IsFiniteSet(Started)', NEW c \in Consumer, WriteItem(c)
  PROVE  OrderInv'
  <1>1. /\ file' = Append(file, cons[c].item) /\ logging' = logging /\ owner' = owner
        /\ queue' = queue /\ starter' = starter /\ cons[c].pc = "write"
        /\ s_isConcurrentQueueStarted' = s_isConcurrentQueueStarted
    BY DEF WriteItem, DequeueStep, hash, writers
  <1>2. /\ PlaceInv /\ file \in Seq(LogLines) /\ cons \in [Consumer -> Dequeue]
        /\ \A d \in Consumer : Consistent(d)
    BY DEF OrderInv, PlaceInv, LogTypeOK
  <1>3. PICK x \in LogLines : x = cons[c].item /\ x # <<>>
    <2>1. cons[c] \in Dequeue /\ cons[c].item # <<>>
      BY <1>1, <1>2 DEF Consistent
    <2> QED
      BY <2>1 DEF Dequeue
  <1>4. cons'[c].item = <<>> /\ cons'[c].pc = "idle" /\ \A d \in Consumer : d # c => cons'[d] = cons[d]
    <2>1. PICK r : r = [NoDequeue EXCEPT !.pc = "idle"]
      OBVIOUS
    <2>2. r.item = <<>> /\ r.pc = "idle" /\ cons' = [cons EXCEPT ![c] = r]
      BY <2>1, NoDequeueType DEF WriteItem, DequeueStep
    <2> QED
      BY <1>2, <2>2
  <1>5. ~InFile(x)
    BY <1>2, <1>3 DEF PlaceInv, Disjoint, InHand
  <1>6. PICK m \in Nat : /\ DOMAIN file' = DOMAIN file \union {m} /\ file'[m] = x
                         /\ \A i \in DOMAIN file : file'[i] = file[i] /\ i \in Nat /\ i < m
    BY <1>1, <1>2, <1>3, <1>5, FileGains DEF PlaceInv
  <1>7. ASSUME OneConsumer
        PROVE  NoneDead /\ \A d \in Consumer : d # c => cons[d].item = <<>>
    <2>1. \A d \in Consumer : d # c => cons[d].pc = "none"
      BY <1>1, <1>2, <1>7 DEF OneConsumer, Started, Consistent
    <2> QED
      BY <1>1, <1>2, <2>1 DEF Consistent, NoneDead
  <1>8. OneConsumer' => OneConsumer
    BY <1>1 DEF OneConsumer, Started
  <1>9. FileOrder'
    <2>1. ASSUME OneConsumer, NEW i \in DOMAIN file', NEW j \in DOMAIN file', i < j,
                 file'[i][1] = file'[j][1]
          PROVE  file'[i][2] < file'[j][2]
      <3>1. i \in DOMAIN file
        BY <1>6, <2>1
      <3>2. CASE j = m
        BY <1>3, <1>6, <1>7, <2>1, <3>1, <3>2 DEF OrderInv, HandOrder
      <3>3. CASE j \in DOMAIN file
        BY <1>6, <2>1, <3>1, <3>3 DEF OrderInv, FileOrder
      <3> QED
        BY <1>6, <3>2, <3>3
    <2> QED
      BY <1>8, <2>1 DEF FileOrder
  <1>10. OneConsumer => \A d \in Consumer : cons'[d].item = <<>>
    BY <1>4, <1>7
  <1>11. HandOrder'
    BY <1>8, <1>10 DEF HandOrder
  <1>12. QueueOrder'
    <2>1. ASSUME OneConsumer, NEW p \in DOMAIN queue, NEW j \in DOMAIN queue[p],
                 NEW i \in DOMAIN file', file'[i][1] = owner[p]
          PROVE  file'[i][2] < queue[p][j][2]
      <3>1. CASE i = m
        BY <1>3, <1>6, <1>7, <2>1, <3>1 DEF OrderInv, QueueOrder
      <3>2. CASE i # m
        BY <1>6, <1>7, <2>1, <3>2 DEF OrderInv, QueueOrder
      <3> QED
        BY <3>1, <3>2
    <2> QED
      BY <1>1, <1>7, <1>8, <1>10, <2>1 DEF OrderInv, QueueOrder
  <1>13. QueueOwned' /\ QuietBefore' /\ WritesAlone'
    BY <1>1, <1>3, <1>7, <1>8, <1>10 DEF OrderInv, QueueOwned, QuietBefore, WritesAlone
  <1> QED
    BY <1>9, <1>11, <1>12, <1>13 DEF OrderInv

LEMMA InitOrder == Init => OrderInv
  <1> SUFFICES ASSUME Init PROVE OrderInv
    OBVIOUS
  <1>1. /\ PlaceInv /\ queue = <<>> /\ file = <<>>
        /\ logging = [t \in Thread |-> "idle"] /\ starter = [c \in Consumer |-> "idle"]
        /\ cons = [c \in Consumer |-> NoDequeue]
    BY InitPlace DEF Init
  <1>2. Started = {}
    BY <1>1 DEF Started
  <1>3. IsFiniteSet(Started)
    BY <1>2, FS_EmptySet
  <1>4. DOMAIN file = {} /\ DOMAIN queue = {}
    BY <1>1
  <1>5. \A c \in Consumer : cons[c].item = <<>>
    BY <1>1, NoDequeueType
  <1> QED
    BY <1>1, <1>3, <1>4, <1>5
      DEF OrderInv, QueueOwned, QuietBefore, WritesAlone, FileOrder, HandOrder, QueueOrder

LEMMA OrderNext == OrderInv /\ [Next]_vars => OrderInv'
  <1> SUFFICES ASSUME OrderInv, [Next]_vars PROVE OrderInv'
    OBVIOUS
  <1>1. /\ PlaceInv /\ PlaceInv' /\ IsFiniteSet(Started) /\ LogTypeOK /\ OwnerInv
        /\ logging \in [Thread -> {"idle", "write", "enqueue", "look"}]
    BY PlaceNext DEF OrderInv, PlaceInv, LogTypeOK
  <1>2. CASE UNCHANGED vars
    <2>1. (OneConsumer' <=> OneConsumer) /\ (NoneDead' <=> NoneDead) /\ Started' = Started
      BY <1>2 DEF vars, consumers, OneConsumer, Started, NoneDead
    <2> QED
      BY <1>1, <1>2, <2>1, OrderKept DEF vars, hash, writers, consumers
  <1> SUFFICES ASSUME Next PROVE OrderInv'
    BY <1>2
  <1>3. (OneConsumer' => OneConsumer) /\ (NoneDead' => NoneDead) /\ IsFiniteSet(Started)'
    BY <1>1, StartedStay
  <1>4. ASSUME file' = file,
               \A c \in Consumer : cons'[c].item = cons[c].item \/ cons'[c].item = <<>>,
               \A p \in DOMAIN queue' :
                 \/ p \in DOMAIN queue /\ queue'[p] = queue[p] /\ owner'[p] = owner[p]
                 \/ queue'[p] = <<>>,
               s_isConcurrentQueueStarted => s_isConcurrentQueueStarted',
               \A t \in Thread :
                 /\ logging'[t] = "write" => logging[t] = "write" \/ ~s_isConcurrentQueueStarted
                 /\ logging'[t] \in {"enqueue", "look"} =>
                      logging[t] \in {"enqueue", "look"} \/ s_isConcurrentQueueStarted
        PROVE  OrderInv'
    BY <1>1, <1>3, <1>4, OrderKept
  <1>5. ASSUME NEW t \in Thread, LogLine(t) PROVE OrderInv'
    <2>1. \A u \in Thread : logging'[u] =
            IF u = t THEN IF s_isConcurrentQueueStarted THEN "enqueue" ELSE "write" ELSE logging[u]
      BY <1>1, <1>5 DEF LogLine
    <2> QED
      BY <1>4, <1>5, <2>1 DEF LogLine, hash, consumers
  <1>6. ASSUME NEW t \in Thread, WriteLine(t) PROVE OrderInv'
    BY <1>1, <1>3, <1>6, LineWritten
  <1>19. ASSUME NEW t \in Thread, WriteLineFails(t) PROVE OrderInv'
    <2>1. \A u \in Thread : logging'[u] = IF u = t THEN "idle" ELSE logging[u]
      BY <1>1, <1>19 DEF WriteLineFails
    <2> QED
      BY <1>4, <1>19, <2>1 DEF WriteLineFails, hash, consumers
  <1>7. ASSUME NEW t \in Thread, EnqueueLine(t) PROVE OrderInv'
    <2>1. logging[t] = "enqueue" /\ \A u \in Thread : logging'[u] = IF u = t THEN "look" ELSE logging[u]
      BY <1>1, <1>7 DEF EnqueueLine
    <2> QED
      BY <1>4, <1>7, <2>1 DEF EnqueueLine, get_or_add_implicit_producer, consumers
  <1>8. ASSUME NEW t \in Thread, FindProducer(t) PROVE OrderInv'
    BY <1>1, <1>4, <1>8, ProducerQueues DEF FindProducer, writers, consumers
  <1>9. ASSUME NEW t \in Thread, Enqueue(t) PROVE OrderInv'
    BY <1>1, <1>3, <1>9, LineEnqueued
  <1>10. ASSUME NEW t \in Thread, EnqueueFails(t) PROVE OrderInv'
    <2>1. \A u \in Thread : logging'[u] = IF u = t THEN "idle" ELSE logging[u]
      BY <1>1, <1>10 DEF EnqueueFails
    <2> QED
      BY <1>4, <1>10, <2>1 DEF EnqueueFails, consumers
  <1>11. ASSUME NEW c \in Consumer, startConsumeThread(c) PROVE OrderInv'
    <2>1. \A d \in Consumer : cons'[d].item = cons[d].item
      BY <1>1, <1>11 DEF startConsumeThread, LogTypeOK, Dequeue
    <2> QED
      BY <1>4, <1>11, <2>1 DEF startConsumeThread, hash, writers
  <1>12. ASSUME NEW c \in Consumer, SetStarted(c) PROVE OrderInv'
    BY <1>4, <1>12 DEF SetStarted, hash, writers
  <1>13. ASSUME NEW c \in Consumer, NEW r, cons' = [cons EXCEPT ![c] = r], r.item = <<>>,
                cons[c].pc # "write", queue' = queue,
                UNCHANGED <<hash, s_isConcurrentQueueStarted, writers, file>>
         PROVE  OrderInv'
    <2>1. \A d \in Consumer : cons'[d].item = cons[d].item
      BY <1>1, <1>13 DEF LogTypeOK, Consistent
    <2> QED
      BY <1>4, <1>13, <2>1 DEF hash, writers
  <1>14. ASSUME NEW c \in Consumer, try_dequeue(c) PROVE OrderInv'
    <2>1. PICK r : r = [NoDequeue EXCEPT !.pc = "best", !.best = Best]
      OBVIOUS
    <2>2. r.item = <<>>
      BY <2>1 DEF NoDequeue
    <2>3. cons' = [cons EXCEPT ![c] = r] /\ cons[c].pc = "idle"
      BY <1>14, <2>1 DEF try_dequeue, DequeueStep
    <2> QED
      BY <1>13, <1>14, <2>2, <2>3 DEF try_dequeue
  <1>15. ASSUME NEW c \in Consumer, DequeueBest(c) PROVE OrderInv'
    <2>1. cons[c] \in Dequeue /\ cons[c].pc = "best" /\ cons[c].best \in DOMAIN queue
          /\ cons[c].item = <<>>
      BY <1>1, <1>15 DEF DequeueBest, LogTypeOK, Consistent
    <2>2. CASE Taken(c, cons[c].best)
      BY <1>1, <1>3, <1>15, <2>1, <2>2, LineTaken DEF DequeueBest
    <2>3. CASE ~Taken(c, cons[c].best)
      <3>1. PICK r : r = [cons[c] EXCEPT !.pc = "all", !.from = Len(owner)]
        OBVIOUS
      <3>2. cons' = [cons EXCEPT ![c] = r] /\ queue' = queue
        BY <1>15, <2>3, <3>1 DEF DequeueBest
      <3>3. r.item = <<>>
        BY <2>1, <3>1 DEF Dequeue
      <3> QED
        BY <1>13, <1>15, <2>1, <3>2, <3>3 DEF DequeueBest
    <2> QED
      BY <2>2, <2>3
  <1>16. ASSUME NEW c \in Consumer, DequeueAny(c) PROVE OrderInv'
    <2>1. cons[c] \in Dequeue /\ cons[c].pc = "all" /\ cons[c].from \in 0..Len(queue)
          /\ cons[c].item = <<>>
      BY <1>1, <1>16 DEF DequeueAny, LogTypeOK, Consistent
    <2>2. CASE cons[c].from = 0
      <3>1. PICK r : r = [NoDequeue EXCEPT !.pc = "idle"]
        OBVIOUS
      <3>2. cons' = [cons EXCEPT ![c] = r] /\ queue' = queue
        BY <1>16, <2>2, <3>1 DEF DequeueAny
      <3>3. r.item = <<>>
        BY <3>1, NoDequeueType
      <3> QED
        BY <1>13, <1>16, <2>1, <3>2, <3>3 DEF DequeueAny
    <2>3. CASE cons[c].from # 0 /\ Taken(c, cons[c].from)
      <3>1. cons[c].from \in DOMAIN queue
        BY <1>1, <2>1, <2>3 DEF LogTypeOK
      <3> QED
        BY <1>1, <1>3, <1>16, <2>1, <2>3, <3>1, LineTaken DEF DequeueAny
    <2>4. CASE cons[c].from # 0 /\ ~Taken(c, cons[c].from)
      <3>1. PICK r : r = [cons[c] EXCEPT !.from = cons[c].from - 1]
        OBVIOUS
      <3>2. cons' = [cons EXCEPT ![c] = r] /\ queue' = queue
        BY <1>16, <2>4, <3>1 DEF DequeueAny
      <3>3. r.item = <<>>
        BY <2>1, <3>1 DEF Dequeue
      <3> QED
        BY <1>13, <1>16, <2>1, <3>2, <3>3 DEF DequeueAny
    <2> QED
      BY <2>2, <2>3, <2>4
  <1>17. ASSUME NEW c \in Consumer, WriteItem(c) PROVE OrderInv'
    BY <1>1, <1>3, <1>17, TakenLineWritten
  <1>20. ASSUME NEW c \in Consumer, WriteItemFails(c) PROVE OrderInv'
    <2>1. PICK r : r = [NoDequeue EXCEPT !.pc = "idle"]
      OBVIOUS
    <2>2. r.item = <<>> /\ cons' = [cons EXCEPT ![c] = r]
      BY <1>20, <2>1, NoDequeueType DEF WriteItemFails, DequeueStep
    <2>3. \A d \in Consumer : cons'[d].item = cons[d].item \/ cons'[d].item = <<>>
      BY <1>1, <2>2 DEF LogTypeOK
    <2> QED
      BY <1>4, <1>20, <2>3 DEF WriteItemFails, hash, writers
  <1>18. ASSUME NEW c \in Consumer, Dies(c) \/ Ends(c) PROVE OrderInv'
    <2>1. PICK r : /\ cons' = [cons EXCEPT ![c] = r]
                   /\ r = [NoDequeue EXCEPT !.pc = "dying"] \/ r = [NoDequeue EXCEPT !.pc = "dead"]
      BY <1>18, Zenon DEF Dies, Ends, DequeueStep
    <2>2. r.pc \in {"dying", "dead"}
      BY <2>1, NoDequeueType
    <2>3. ~NoneDead'
      BY <1>1, <2>1, <2>2 DEF NoneDead, LogTypeOK
    <2>4. queue' = queue /\ owner' = owner /\ file' = file
      BY <1>18 DEF Dies, Ends, hash
    <2> QED
      BY <1>1, <1>3, <2>3, <2>4
        DEF OrderInv, QueueOwned, QuietBefore, WritesAlone, FileOrder, HandOrder, QueueOrder
  <1> QED
    BY <1>5, <1>6, <1>7, <1>8, <1>9, <1>10, <1>11, <1>12, <1>14, <1>15, <1>16, <1>17, <1>18,
       <1>19, <1>20
      DEF Next, writer, consumer

(* The inductive invariant of the order holds in every state. *)
THEOREM OrderInvariant == Spec => []OrderInv
  BY InitOrder, OrderNext, PTL DEF Spec

(* With one consumer at most, the lines of a thread are in the file as it  *)
(* logged them, although the flag that sends them there or into the queue  *)
(* is set and read without a lock.                                         *)
THEOREM PerThreadOrderAlways == Spec => []PerThreadOrder
  <1>1. OrderInv => PerThreadOrder
    <2> SUFFICES ASSUME OrderInv, Cardinality(Started) <= 1 PROVE FileOrder /\ OneConsumer
      BY DEF PerThreadOrder, FileOrder, Started
    <2>1. OneConsumer
      <3>1. ASSUME NEW c \in Started, NEW d \in Started, c # d PROVE FALSE
        <4>1. IsFiniteSet(Started)
          BY DEF OrderInv
        <4>2. Cardinality({c}) = 1 /\ IsFiniteSet({c})
          BY FS_Singleton
        <4>3. Cardinality({c} \union {d}) = 2
          <5>1. d \notin {c} /\ 1 + 1 = 2
            BY <3>1
          <5>2. Cardinality({c} \union {d}) = Cardinality({c}) + 1
            BY <4>2, <5>1, FS_AddElement
          <5> QED
            BY <4>2, <5>1, <5>2
        <4>4. {c} \union {d} \subseteq Started
          OBVIOUS
        <4>5. /\ Cardinality({c} \union {d}) <= Cardinality(Started)
              /\ Cardinality(Started) \in Nat
          BY <4>1, <4>4, FS_Subset, FS_CardinalityType
        <4> QED
          BY <4>3, <4>5
      <3> QED
        BY <3>1 DEF OneConsumer
    <2> QED
      BY <2>1 DEF OrderInv
  <1> QED
    BY <1>1, OrderInvariant, PTL
=============================================================================
