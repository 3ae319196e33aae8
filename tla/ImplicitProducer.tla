-------------------------- MODULE ImplicitProducer --------------------------
(***************************************************************************)
(* One implicit producer of the queue under Log2File                       *)
(* (thirdparty/loghelper/loghelper/concurrentqueue.h, ImplicitProducer):   *)
(* the thread that owns it enqueues, consumers dequeue from it without a   *)
(* lock.  Items live in blocks of BLOCK_SIZE slots; a growing circular     *)
(* index leads from an item's number to its block; a block returns to the  *)
(* pool when its last item is gone.  An item is known by its number.       *)
(* A step is one atomic access together with what only its thread can see; *)
(* memory is sequentially consistent.                                      *)
(***************************************************************************)
EXTENDS DequeueCounters, Sequences, FiniteSets, FiniteSetsExt

CONSTANTS
  Block, Null,
  BLOCK_SIZE, INITIAL_INDEX_SIZE,
  EnqueueSize, \* items of one call: 1, or the count of enqueue_bulk
  MaxTail,     \* bound: items enqueued
  MaxFails     \* bound: failed allocations

ASSUME SizeAssumption == {BLOCK_SIZE, INITIAL_INDEX_SIZE} \subseteq Nat \ {0, 1}
ASSUME EnqueueAssumption == EnqueueSize \subseteq (Nat \ {0})
                            /\ MaxTail \in Nat /\ MaxFails \in Nat
(* Sizes have the type size_t: there is a largest call. *)
ASSUME LargestCall ==
  \E m \in EnqueueSize \union DequeueSize : \A k \in EnqueueSize \union DequeueSize : k <= m

VARIABLES
  tailBlock,
  entry,      \* BlockIndexEntry: key and value, in order of allocation
  header,     \* BlockIndexHeader: capacity, tail, index; the last is blockIndex
  slots,      \* per block its elements
  completely, \* per block: elementsCompletelyDequeued
  pool,       \* how often a block is in the free list or yet to be created
  prod,       \* the owner's call: where it is and its locals
  walk,       \* per consumer: its way from claimed items to their blocks
  fails,      \* allocations that failed so far
  destroyed

index == <<entry, header>>
storage == <<slots, completely, pool>>
vars == <<counters, tailBlock, index, storage, prod, walk, fails, destroyed>>

INVALID_BLOCK_BASE == 1
Wild == -1              \* an index entry's value before the first store
Raw == -1               \* a slot without a constructed element

ASSUME BlockAssumption == Null \notin Block /\ Wild \notin Block

Base(i) == BLOCK_SIZE * (i \div BLOCK_SIZE)
Offset(i) == i % BLOCK_SIZE

ProdIdle == [pc |-> "idle", count |-> 0, alloc |-> <<>>, slot |-> 0]
WalkIdle == [pc |-> "index", hdr |-> 0, at |-> 0, block |-> Null, out |-> <<>>]

NewEntry == [key |-> INVALID_BLOCK_BASE, value |-> Wild]

Init ==
  /\ CountersInit
  /\ tailBlock = Null
  /\ entry = [e \in 1..INITIAL_INDEX_SIZE |-> NewEntry]
  /\ header = <<[capacity |-> INITIAL_INDEX_SIZE, tail |-> INITIAL_INDEX_SIZE - 1,
                 index |-> [i \in 0..(INITIAL_INDEX_SIZE - 1) |-> i + 1]]>>
  /\ slots = [b \in Block |-> [i \in 0..(BLOCK_SIZE - 1) |-> Raw]]
  /\ completely = [b \in Block |-> 0]
  /\ pool = [b \in Block |-> 1]
  /\ prod = ProdIdle
  /\ walk = [c \in Consumer |-> WalkIdle]
  /\ fails = 0
  /\ destroyed = FALSE

(***************************************************************************)
(* The owner: enqueue and enqueue_bulk                                     *)
(***************************************************************************)

blockIndex == Len(header)
current == header[blockIndex]
FirstBlock(n) == Base(n - 1) + BLOCK_SIZE
BlocksNeeded(n, k) == (Base(n + k - 1) - Base(n - 1)) \div BLOCK_SIZE

(* The base of the block to be added next (currentTailIndex of the loop). *)
NextBase == FirstBlock(tailIndex) + BLOCK_SIZE * Len(prod.alloc)

Continue(p) ==
  IF Len(p.alloc) < BlocksNeeded(tailIndex, p.count) THEN "insert" ELSE "write"

(* enqueue is enqueue_bulk of one item. *)
enqueue_bulk(k) ==
  /\ prod.pc = "idle" /\ ~destroyed /\ tailIndex + k <= MaxTail
  /\ LET p == [ProdIdle EXCEPT !.count = k]
     IN prod' = [p EXCEPT !.pc = Continue(p)]
  /\ UNCHANGED <<counters, tailBlock, index, storage, walk, fails, destroyed>>

NewTail == (current.tail + 1) % current.capacity

EntryIsFree(e) == entry[e].key = INVALID_BLOCK_BASE \/ entry[e].value = Null

(* insert_block_index_entry: take the slot after the tail, ... *)
InsertKey ==
  /\ prod.pc = "insert"
  /\ EntryIsFree(current.index[NewTail])
  /\ entry' = [entry EXCEPT ![current.index[NewTail]].key = NextBase]
  /\ prod' = [prod EXCEPT !.pc = "advance", !.slot = NewTail]
  /\ UNCHANGED <<counters, tailBlock, header, storage, walk, fails, destroyed>>

(* ... and make it the tail. *)
InsertTail ==
  /\ prod.pc = "advance"
  /\ header' = [header EXCEPT ![blockIndex].tail = prod.slot]
  /\ prod' = [prod EXCEPT !.pc = "requisition"]
  /\ UNCHANGED <<counters, tailBlock, entry, storage, walk, fails, destroyed>>

(* Mutant of Grown: the old slots keep their places. *)
Grown_unrotated(h, n) ==
  [capacity |-> 2 * h.capacity, tail |-> h.capacity - 1,
   index |-> [i \in 0..(2 * h.capacity - 1) |->
                IF i < h.capacity THEN h.index[i] ELSE n + i - h.capacity + 1]]

(* The index twice as large: the old slots, oldest first, then n fresh     *)
(* entries.                                                                *)
Grown(h, n) ==
  [capacity |-> 2 * h.capacity, tail |-> h.capacity - 1,
   index |-> [i \in 0..(2 * h.capacity - 1) |->
                IF i < h.capacity THEN h.index[(h.tail + 1 + i) % h.capacity]
                ELSE n + i - h.capacity + 1]]

(* new_block_index, when the slot is taken; the insertion is repeated. *)
new_block_index ==
  /\ prod.pc = "insert"
  /\ ~EntryIsFree(current.index[NewTail])
  /\ header' = Append(header, Grown(current, Len(entry)))
  /\ entry' = entry \o [i \in 1..current.capacity |-> NewEntry]
  /\ UNCHANGED <<counters, tailBlock, storage, prod, walk, fails, destroyed>>

IndexAllocationFails ==
  /\ prod.pc = "insert" /\ fails < MaxFails
  /\ ~EntryIsFree(current.index[NewTail])
  /\ fails' = fails + 1
  /\ prod' = [prod EXCEPT !.pc = "undo"]
  /\ UNCHANGED <<counters, tailBlock, index, storage, walk, destroyed>>

(* requisition_block: a block from the pool is emptied, put into the index  *)
(* and onto the chain of this call.                                        *)
requisition_block ==
  /\ prod.pc = "requisition"
  /\ \E b \in Block :
       /\ pool[b] > 0
       /\ pool' = [pool EXCEPT ![b] = @ - 1]
       /\ completely' = [completely EXCEPT ![b] = 0]
       /\ entry' = [entry EXCEPT ![current.index[prod.slot]].value = b]
       /\ LET p == [prod EXCEPT !.alloc = Append(@, b), !.slot = 0]
          IN prod' = [p EXCEPT !.pc = Continue(p)]
  /\ UNCHANGED <<counters, tailBlock, header, slots, walk, fails, destroyed>>

rewind_block_index_tail ==
  header' = [header EXCEPT ![blockIndex].tail = (@ - 1) % current.capacity]

(* No block: the entry is given back. *)
BlockAllocationFails ==
  /\ prod.pc = "requisition" /\ fails < MaxFails
  /\ fails' = fails + 1
  /\ rewind_block_index_tail
  /\ entry' = [entry EXCEPT ![current.index[prod.slot]].value = Null]
  /\ prod' = [prod EXCEPT !.pc = "undo", !.slot = 0]
  /\ UNCHANGED <<counters, tailBlock, storage, walk, destroyed>>

(* get_block_index_index_for_index, on a header whose tail has been read. *)
IndexFor(h, tail, i) ==
  (tail + (Base(i) - entry[h.index[tail]].key) \div BLOCK_SIZE) % h.capacity

(* After a failure the blocks of this call leave the index one by one ... *)
UndoEntry ==
  /\ prod.pc = "undo" /\ prod.slot < Len(prod.alloc)
  /\ LET i == FirstBlock(tailIndex) + BLOCK_SIZE * prod.slot
         e == current.index[IndexFor(current, current.tail, i)]
     IN entry' = [entry EXCEPT ![e].value = Null]
  /\ rewind_block_index_tail
  /\ prod' = [prod EXCEPT !.slot = @ + 1]
  /\ UNCHANGED <<counters, tailBlock, storage, walk, fails, destroyed>>

(* ... and return to the pool; the call returns false. *)
add_blocks_to_free_list ==
  /\ prod.pc = "undo" /\ prod.slot >= Len(prod.alloc)
  /\ pool' = [b \in Block |->
                pool[b] + Cardinality({k \in DOMAIN prod.alloc : prod.alloc[k] = b})]
  /\ prod' = ProdIdle
  /\ UNCHANGED <<counters, tailBlock, index, slots, completely, walk, fails, destroyed>>

(* The block of each item of this call: the tail block up to its end, then *)
(* the chain.                                                              *)
BlockFor(i) ==
  IF i < FirstBlock(tailIndex) THEN tailBlock
  ELSE prod.alloc[1 + (i - FirstBlock(tailIndex)) \div BLOCK_SIZE]

(* The items are constructed, which nobody sees before they are published. *)
Publish ==
  /\ prod.pc = "write"
  /\ LET new == tailIndex..(tailIndex + prod.count - 1)
         At(b, o) == {i \in new : BlockFor(i) = b /\ Offset(i) = o}
     IN slots' = [b \in Block |-> [o \in 0..(BLOCK_SIZE - 1) |->
          IF At(b, o) = {} THEN slots[b][o] ELSE Max(At(b, o))]]
  /\ tailBlock' = BlockFor(tailIndex + prod.count - 1)
  /\ tailIndex' = tailIndex + prod.count
  /\ prod' = ProdIdle
  /\ UNCHANGED <<headIndex, dequeueOptimisticCount, dequeueOvercommit, claim, index,
                 completely, pool, walk, fails, destroyed>>

(***************************************************************************)
(* A consumer: dequeue and dequeue_bulk                                    *)
(***************************************************************************)

Claim(c) ==
  /\ ~destroyed /\ ClaimItems(c)
  /\ UNCHANGED <<tailBlock, index, storage, prod, walk, fails, destroyed>>

Step(c, from, to) ==
  /\ claim[c].pc = "claimed" /\ walk[c].pc = from
  /\ walk' = [walk EXCEPT ![c] = to]

(* get_block_index_index_for_index: the index and its tail (which does not *)
(* change any more once there is a larger index), then the key there.      *)
LoadBlockIndex(c) ==
  /\ Step(c, "index", [walk[c] EXCEPT !.pc = "key", !.hdr = blockIndex, !.at = current.tail])
  /\ UNCHANGED <<counters, tailBlock, index, storage, prod, fails, destroyed>>

LoadKey(c) ==
  /\ Step(c, "key",
          [walk[c] EXCEPT !.pc = "take",
                          !.at = IndexFor(header[walk[c].hdr], walk[c].at, claim[c].next)])
  /\ UNCHANGED <<counters, tailBlock, index, storage, prod, fails, destroyed>>

EntryOf(c) == header[walk[c].hdr].index[walk[c].at]

(* After a block the loop goes on with the next slot of the same index, *)
(* until all claimed items are taken.                                   *)
Further(w, next, last) ==
  IF next = last THEN [WalkIdle EXCEPT !.pc = "return", !.out = w.out]
  ELSE [w EXCEPT !.pc = "take", !.block = Null, !.at = (@ + 1) % header[w.hdr].capacity]

(* What set_many_empty returns. *)
Emptied(b, n) == completely[b] + n = BLOCK_SIZE

(* The claimed items of the block are moved out and destroyed, and counted *)
(* as dequeued.                                                            *)
Take(c) ==
  /\ claim[c].pc = "claimed" /\ walk[c].pc = "take"
  /\ LET b == entry[EntryOf(c)].value
         end == Min({Base(claim[c].next) + BLOCK_SIZE, claim[c].last})
         n == end - claim[c].next
         at == Offset(claim[c].next)
         w == [walk[c] EXCEPT !.block = b,
                              !.out = @ \o [k \in 1..n |-> slots[b][at + k - 1]]]
     IN /\ b \in Block
        /\ walk' = [walk EXCEPT ![c] = IF Emptied(b, n) THEN [w EXCEPT !.pc = "unlink"]
                                       ELSE Further(w, end, claim[c].last)]
        /\ TakenUpTo(c, end)
        /\ slots' = [slots EXCEPT ![b] = [o \in 0..(BLOCK_SIZE - 1) |->
                       IF at <= o /\ o < at + n THEN Raw ELSE @[o]]]
        /\ completely' = [completely EXCEPT ![b] = @ + n]
  /\ UNCHANGED <<tailIndex, headIndex, dequeueOptimisticCount, dequeueOvercommit,
                 tailBlock, index, pool, prod, fails, destroyed>>

(* Who emptied a block takes it out of the index ... *)
Unlink(c) ==
  /\ Step(c, "unlink", [walk[c] EXCEPT !.pc = "release"])
  /\ entry' = [entry EXCEPT ![EntryOf(c)].value = Null]
  /\ UNCHANGED <<counters, tailBlock, header, storage, prod, fails, destroyed>>

(* ... and returns it to the pool. *)
add_block_to_free_list(c) ==
  /\ Step(c, "release", Further(walk[c], claim[c].next, claim[c].last))
  /\ pool' = [pool EXCEPT ![walk[c].block] = @ + 1]
  /\ UNCHANGED <<counters, tailBlock, index, slots, completely, prod, fails, destroyed>>

Delivered(c) ==
  /\ Step(c, "return", WalkIdle)
  /\ Return(c)
  /\ UNCHANGED <<tailIndex, headIndex, dequeueOptimisticCount, dequeueOvercommit,
                 tailBlock, index, storage, prod, fails, destroyed>>

(***************************************************************************)
(* ~ImplicitProducer, when all calls have ended                            *)
(***************************************************************************)

Locate(i) == entry[current.index[IndexFor(current, current.tail, i)]].value

(* Mutant of LastBlock: the tail block is freed whenever there is one. *)
LastBlock_always == {tailBlock} \ {Null}

(* The tail block is freed unless the queue is empty and the block full:   *)
(* then a consumer has freed it.                                           *)
LastBlock ==
  IF tailBlock # Null /\ (headIndex # tailIndex \/ Offset(tailIndex) # 0)
  THEN {tailBlock} ELSE {}

Destroy ==
  LET left == headIndex..(tailIndex - 1)
      loop == {Locate(i) : i \in left}
                \ (IF left = {} THEN {} ELSE {Locate(tailIndex - 1)})
  IN /\ ~destroyed /\ prod.pc = "idle" /\ \A c \in Consumer : claim[c].pc = "idle"
     /\ destroyed' = TRUE
     /\ pool' = [b \in Block |-> pool[b] + (IF b \in loop THEN 1 ELSE 0)
                                         + (IF b \in LastBlock THEN 1 ELSE 0)]
     /\ slots' = [b \in Block |-> [o \in 0..(BLOCK_SIZE - 1) |->
                   IF \E i \in left : Locate(i) = b /\ Offset(i) = o THEN Raw
                   ELSE slots[b][o]]]
     /\ UNCHANGED <<counters, tailBlock, index, completely, prod, walk, fails>>

producer ==
  \/ \E k \in EnqueueSize : enqueue_bulk(k)
  \/ InsertKey \/ InsertTail \/ new_block_index \/ IndexAllocationFails
  \/ requisition_block \/ BlockAllocationFails
  \/ UndoEntry \/ add_blocks_to_free_list
  \/ Publish

consumer(c) ==
  \/ Claim(c)
  \/ LoadBlockIndex(c) \/ LoadKey(c)
  \/ Take(c) \/ Unlink(c) \/ add_block_to_free_list(c) \/ Delivered(c)

Next == producer \/ Destroy \/ \E c \in Consumer : consumer(c)

Spec == Init /\ [][Next]_vars

(***************************************************************************)
(* Properties                                                              *)
(***************************************************************************)

(* Items that consumer c has claimed, those it has read as it read them. *)
Claimed(c) ==
  walk[c].out \o [k \in 1..(claim[c].last - claim[c].next) |-> claim[c].next + k - 1]

Queue == INSTANCE ProducerQueue WITH
  MaxBulk <- Max(EnqueueSize \union DequeueSize),
  sent <- tailIndex,
  queue <- [k \in 1..(tailIndex - headIndex) |-> headIndex + k - 1],
  claimed <- [c \in Consumer |-> IF claim[c].last = 0 THEN <<>> ELSE Claimed(c)]

(* The sub-queue is a FIFO whose items go to one consumer each, whatever   *)
(* the consumers, the growth of the index and the reuse of blocks do.      *)
ImplementsQueue == Queue!Spec

(* A block is in one place: in the pool, in the index, or in the hands of  *)
(* a thread that adds or frees it; after the destructor all are in the     *)
(* pool, none twice.                                                       *)
BlocksInOnePlace ==
  \A b \in Block :
    pool[b] + (IF destroyed THEN 0 ELSE
       Cardinality({e \in DOMAIN entry : entry[e].value = b})
         + (IF prod.pc = "undo"
            THEN Cardinality({k \in 1..prod.slot : k <= Len(prod.alloc) /\ prod.alloc[k] = b})
            ELSE 0)
         + Cardinality({c \in Consumer : walk[c].pc = "release" /\ walk[c].block = b})) = 1

(* The assertions of get_block_index_index_for_index (2940, 2945): the     *)
(* entry a consumer finds is that of its item's block, and stays it until  *)
(* the consumer has read the item.                                         *)
FindsItsBlock ==
  \A c \in Consumer : walk[c].pc = "take" =>
    /\ entry[EntryOf(c)].key = Base(claim[c].next)
    /\ entry[EntryOf(c)].value \in Block
=============================================================================
