-------------------------- MODULE ExplicitProducer --------------------------
(***************************************************************************)
(* One explicit producer (a ProducerToken's sub-queue) of                  *)
(* thirdparty/concurrentqueue/concurrentqueue.h.  Its blocks form a ring   *)
(* it never gives back: the block after the tail block is the oldest, and  *)
(* is used again once all of its items are taken.  A circular index lists  *)
(* the blocks with the number of their first item; its front is what       *)
(* consumers start from.  An item is known by its number.                  *)
(* A step is one atomic access together with what only its thread can see; *)
(* memory is sequentially consistent.  MAX_SUBQUEUE_SIZE has its default,  *)
(* so that a sub-queue is never full.                                      *)
(***************************************************************************)
EXTENDS DequeueCounters, Sequences, FiniteSets, FiniteSetsExt

CONSTANTS
  Block, Null,
  BLOCK_SIZE,
  INITIAL_INDEX_SIZE, \* EXPLICIT_INITIAL_INDEX_SIZE
  EnqueueSize,   \* items of one call: 1, or the count of enqueue_bulk
  MaxTail,       \* bound: items enqueued
  MaxFails,      \* bound: failed allocations
  MaxInjected    \* bound: blocks a call may already have when an allocation fails

ASSUME SizeAssumption == {BLOCK_SIZE, INITIAL_INDEX_SIZE} \subseteq Nat \ {0, 1}
ASSUME EnqueueAssumption == EnqueueSize \subseteq (Nat \ {0})
                            /\ {MaxTail, MaxFails, MaxInjected} \subseteq Nat

VARIABLES
  tailBlock,
  next,       \* per block: the block after it in the ring
  slotsUsed, front, \* pr_blockIndexSlotsUsed, pr_blockIndexFront (the next slot)
  header,     \* BlockIndexHeader: size, front (the current slot), entries;
              \* the last is blockIndex
  slots,      \* per block its elements
  empty,      \* per block: the slots whose emptyFlags are set
  pool,       \* how often a block is in the free list or yet to be created
  prod,       \* the owner's call: where it is and its locals
  walk,       \* per consumer: its way from claimed items to their blocks
  fails,      \* allocations that failed so far
  destroyed

ring == <<tailBlock, next>>
index == <<slotsUsed, front, header>>
storage == <<slots, empty, pool>>
vars == <<counters, ring, index, storage, prod, walk, fails, destroyed>>

Raw == -1               \* a slot without a constructed element
Twice == -2             \* a slot whose element was destroyed twice
NoEntry == [base |-> 1, block |-> Null]

Slot == 0..(BLOCK_SIZE - 1)
Base(i) == BLOCK_SIZE * (i \div BLOCK_SIZE)
Offset(i) == i % BLOCK_SIZE

ProdIdle == [pc |-> "idle", count |-> 0, alloc |-> <<>>, startBlock |-> Null,
             originalFront |-> 0, originalSlotsUsed |-> 0]
WalkIdle == [pc |-> "index", hdr |-> 0, at |-> 0, out |-> <<>>]

blockIndex == Len(header)
current == header[blockIndex]

(* pr_blockIndexSize *)
IndexSize == IF header = <<>> THEN INITIAL_INDEX_SIZE \div 2 ELSE current.size

(* Mutant of Grown: the old slots keep their places. *)
Grown_unrotated(n) ==
  [size |-> 2 * IndexSize, front |-> n - 1,
   entries |-> [i \in 0..(2 * IndexSize - 1) |->
     IF i < slotsUsed THEN current.entries[i] ELSE NoEntry]]

(* new_block_index: an index twice as large that starts with the slots in  *)
(* use, oldest first, and shows consumers n of them.                       *)
Grown(n) ==
  [size |-> 2 * IndexSize, front |-> n - 1,
   entries |-> [i \in 0..(2 * IndexSize - 1) |->
     IF i < slotsUsed THEN current.entries[(front - slotsUsed + i) % IndexSize]
     ELSE NoEntry]]

(* The constructor makes an index, if it gets the memory. *)
Init ==
  /\ CountersInit
  /\ tailBlock = Null
  /\ next = [b \in Block |-> Null]
  /\ slotsUsed = 0 /\ front = 0
  /\ \/ fails = 0 /\ header = <<[size |-> INITIAL_INDEX_SIZE, front |-> -1,
                       entries |-> [i \in 0..(INITIAL_INDEX_SIZE - 1) |-> NoEntry]]>>
     \/ fails = 1 /\ fails <= MaxFails /\ header = <<>>
  /\ slots = [b \in Block |-> [o \in Slot |-> Raw]]
  /\ empty = [b \in Block |-> {}]
  /\ pool = [b \in Block |-> 1]
  /\ prod = ProdIdle
  /\ walk = [c \in Consumer |-> WalkIdle]
  /\ destroyed = FALSE

(***************************************************************************)
(* The owner: enqueue and enqueue_bulk                                     *)
(***************************************************************************)

FirstBlock(n) == Base(n - 1) + BLOCK_SIZE
BlocksNeeded(n, k) == (Base(n + k - 1) - Base(n - 1)) \div BLOCK_SIZE

(* The base of the block to be added next (currentTailIndex of the loops). *)
NextBase == FirstBlock(tailIndex) + BLOCK_SIZE * Len(prod.alloc)

Complete(p) == Len(p.alloc) = BlocksNeeded(tailIndex, p.count)

(* enqueue is enqueue_bulk of one item. *)
enqueue_bulk(k) ==
  /\ prod.pc = "idle" /\ ~destroyed /\ tailIndex + k <= MaxTail
  /\ LET p == [ProdIdle EXCEPT !.count = k, !.startBlock = tailBlock,
                 !.originalFront = front, !.originalSlotsUsed = slotsUsed]
     IN prod' = [p EXCEPT !.pc = IF Complete(p) THEN "write" ELSE "ahead"]
  /\ UNCHANGED <<counters, ring, index, storage, walk, fails, destroyed>>

is_empty(b) == empty[b] = Slot

set_all_empty(b) == empty' = [empty EXCEPT ![b] = Slot]

reset_empty(blocks) ==
  empty' = [b \in Block |-> IF b \in blocks THEN {} ELSE empty[b]]

set_many_empty(b, offsets) == empty' = [empty EXCEPT ![b] = @ \union offsets]

(* The block ahead can be used again: there is one, it is empty, and this  *)
(* call has not come around to its own first block.                        *)
Ahead ==
  /\ tailBlock # Null
  /\ prod.alloc # <<>> => next[tailBlock] # Head(prod.alloc)
  /\ is_empty(next[tailBlock])

(* Block b becomes the tail block and the newest entry of the index. *)
AddToIndex(b) ==
  /\ tailBlock' = b
  /\ header' = [header EXCEPT ![blockIndex].entries[front] =
                  [base |-> NextBase, block |-> b]]
  /\ front' = (front + 1) % IndexSize
  /\ LET p == [prod EXCEPT !.alloc = Append(@, b)]
     IN prod' = [p EXCEPT !.pc = IF Complete(p) THEN "front" ELSE prod.pc]

Reuse ==
  /\ prod.pc = "ahead" /\ Ahead
  /\ AddToIndex(next[tailBlock])
  /\ UNCHANGED <<counters, next, slotsUsed, storage, walk, fails, destroyed>>

(* From the first block that is not there on, blocks come from the pool. *)
NoneAhead ==
  /\ prod.pc = "ahead" /\ ~Ahead
  /\ prod' = [prod EXCEPT !.pc = "pool"]
  /\ UNCHANGED <<counters, ring, index, storage, walk, fails, destroyed>>

(* Mutant of IndexFull: one block more than the index has slots. *)
IndexFull_late == header = <<>> \/ slotsUsed > IndexSize

IndexFull == header = <<>> \/ slotsUsed = IndexSize

new_block_index ==
  /\ prod.pc = "pool" /\ IndexFull
  /\ header' = Append(header, Grown(prod.originalSlotsUsed))
  /\ front' = slotsUsed
  /\ prod' = [prod EXCEPT !.originalFront = prod.originalSlotsUsed]
  /\ UNCHANGED <<counters, ring, slotsUsed, storage, walk, fails, destroyed>>

(* The initial blocks, the free list or the heap give a block. *)
FromPool(b) == pool[b] > 0 /\ pool' = [pool EXCEPT ![b] = @ - 1]

(* requisition_block: the new block goes into the ring after the tail. *)
requisition_block ==
  /\ prod.pc = "pool" /\ ~IndexFull
  /\ \E b \in Block :
       /\ FromPool(b)
       /\ set_all_empty(b)
       /\ next' = IF tailBlock = Null THEN [next EXCEPT ![b] = b]
                  ELSE [next EXCEPT ![b] = next[tailBlock], ![tailBlock] = b]
       /\ AddToIndex(b)
  /\ slotsUsed' = slotsUsed + 1
  /\ UNCHANGED <<counters, slots, walk, fails, destroyed>>

(* No memory, for an index or for a block: the changes are undone, except  *)
(* that new blocks stay in the ring; the call returns false.               *)
AllocationFails ==
  /\ prod.pc = "pool" /\ fails < MaxFails /\ Len(prod.alloc) <= MaxInjected
  /\ fails' = fails + 1
  /\ front' = prod.originalFront
  /\ slotsUsed' = prod.originalSlotsUsed
  /\ tailBlock' = IF prod.startBlock # Null THEN prod.startBlock
                  ELSE IF prod.alloc = <<>> THEN Null ELSE prod.alloc[1]
  /\ prod' = ProdIdle
  /\ UNCHANGED <<counters, next, header, storage, walk, destroyed>>

(* The blocks are in use from now on, and consumers may find them. *)
PublishFront ==
  /\ prod.pc = "front"
  /\ reset_empty({prod.alloc[k] : k \in DOMAIN prod.alloc})
  /\ header' = [header EXCEPT ![blockIndex].front = (front - 1) % IndexSize]
  /\ prod' = [prod EXCEPT !.pc = "write"]
  /\ UNCHANGED <<counters, ring, slotsUsed, front, slots, pool, walk, fails, destroyed>>

BlockFor(i) ==
  IF i < FirstBlock(tailIndex) THEN prod.startBlock
  ELSE prod.alloc[1 + (i - FirstBlock(tailIndex)) \div BLOCK_SIZE]

(* The items are constructed, which nobody sees before they are published. *)
Publish ==
  /\ prod.pc = "write"
  /\ LET new == tailIndex..(tailIndex + prod.count - 1)
         At(b, o) == {i \in new : BlockFor(i) = b /\ Offset(i) = o}
     IN slots' = [b \in Block |-> [o \in Slot |->
          IF At(b, o) = {} THEN slots[b][o] ELSE Max(At(b, o))]]
  /\ tailIndex' = tailIndex + prod.count
  /\ prod' = ProdIdle
  /\ UNCHANGED <<headIndex, dequeueOptimisticCount, dequeueOvercommit, claim, ring, index,
                 empty, pool, walk, fails, destroyed>>

(***************************************************************************)
(* A consumer: dequeue and dequeue_bulk                                    *)
(***************************************************************************)

Claim(c) ==
  /\ ~destroyed /\ ClaimItems(c)
  /\ UNCHANGED <<ring, index, storage, prod, walk, fails, destroyed>>

Step(c, from, to) ==
  /\ claim[c].pc = "claimed" /\ walk[c].pc = from
  /\ walk' = [walk EXCEPT ![c] = to]

(* The index and its front (which does not change any more once there is a *)
(* larger index), ...                                                      *)
LoadBlockIndex(c) ==
  /\ Step(c, "index", [walk[c] EXCEPT !.pc = "base", !.hdr = blockIndex, !.at = current.front])
  /\ UNCHANGED <<counters, ring, index, storage, prod, fails, destroyed>>

(* ... and from the base there the entry of the first claimed item. *)
IndexFor(h, i) ==
  LET hdr == header[walk[h].hdr]
  IN (walk[h].at + (Base(i) - hdr.entries[walk[h].at].base) \div BLOCK_SIZE) % hdr.size

LoadBase(c) ==
  /\ Step(c, "base", [walk[c] EXCEPT !.pc = "take", !.at = IndexFor(c, claim[c].next)])
  /\ UNCHANGED <<counters, ring, index, storage, prod, fails, destroyed>>

EntryOf(c) == header[walk[c].hdr].entries[walk[c].at]

(* The claimed items of a block are moved out and destroyed, and their     *)
(* flags set; the loop goes on with the next slot of the same index.       *)
Take(c) ==
  /\ claim[c].pc = "claimed" /\ walk[c].pc = "take" /\ EntryOf(c).block \in Block
  /\ LET b == EntryOf(c).block
         end == Min({Base(claim[c].next) + BLOCK_SIZE, claim[c].last})
         taken == Offset(claim[c].next)..Offset(end - 1)
     IN /\ walk' = [walk EXCEPT ![c] =
                     [@ EXCEPT !.pc = IF end = claim[c].last THEN "return" ELSE "take",
                               !.at = (@ + 1) % header[walk[c].hdr].size,
                               !.out = @ \o [k \in 1..(end - claim[c].next) |->
                                               slots[b][Offset(claim[c].next + k - 1)]]]]
        /\ TakenUpTo(c, end)
        /\ slots' = [slots EXCEPT ![b] = [o \in Slot |-> IF o \in taken THEN Raw ELSE @[o]]]
        /\ set_many_empty(b, taken)
  /\ UNCHANGED <<tailIndex, headIndex, dequeueOptimisticCount, dequeueOvercommit,
                 ring, index, pool, prod, fails, destroyed>>

Delivered(c) ==
  /\ Step(c, "return", WalkIdle)
  /\ Return(c)
  /\ UNCHANGED <<tailIndex, headIndex, dequeueOptimisticCount, dequeueOvercommit,
                 ring, index, storage, prod, fails, destroyed>>

(***************************************************************************)
(* ~ExplicitProducer, when all calls have ended                            *)
(***************************************************************************)

InRing == {b \in Block : next[b] # Null}

(* The block whose first items are gone: the entry, from the oldest on,    *)
(* that reaches past the head.                                             *)
HalfDequeued ==
  IF Offset(headIndex) = 0 THEN Null
  ELSE LET oldest == (front - slotsUsed) % IndexSize
           EntryAt(k) == current.entries[(oldest + k) % IndexSize]
           k == Min({j \in 0..(IndexSize - 1) :
                       EntryAt(j).base + BLOCK_SIZE >= headIndex})
       IN EntryAt(k).block

(* Mutant of LastValid: the last block is taken to be full. *)
LastValid_full == BLOCK_SIZE - 1

LastValid == IF Offset(tailIndex) = 0 THEN BLOCK_SIZE - 1 ELSE Offset(tailIndex) - 1

(* The elements the destructor destroys. *)
Doomed(b) ==
  IF b \notin InRing \/ is_empty(b) THEN {}
  ELSE (IF b = HalfDequeued THEN Offset(headIndex) ELSE 0)
       ..(IF b = tailBlock THEN LastValid ELSE BLOCK_SIZE - 1)

Destroy ==
  /\ ~destroyed /\ prod.pc = "idle" /\ \A c \in Consumer : claim[c].pc = "idle"
  /\ destroyed' = TRUE
  /\ slots' = [b \in Block |-> [o \in Slot |->
                IF o \notin Doomed(b) THEN slots[b][o]
                ELSE IF slots[b][o] = Raw THEN Twice ELSE Raw]]
  /\ pool' = [b \in Block |-> pool[b] + IF b \in InRing THEN 1 ELSE 0]
  /\ UNCHANGED <<counters, ring, index, empty, prod, walk, fails>>

producer ==
  \/ \E k \in EnqueueSize : enqueue_bulk(k)
  \/ Reuse \/ NoneAhead \/ new_block_index \/ requisition_block \/ AllocationFails
  \/ PublishFront \/ Publish

consumer(c) ==
  \/ Claim(c)
  \/ LoadBlockIndex(c) \/ LoadBase(c) \/ Take(c) \/ Delivered(c)

Next == producer \/ Destroy \/ \E c \in Consumer : consumer(c)

Spec == Init /\ [][Next]_vars

(***************************************************************************)
(* Properties                                                              *)
(***************************************************************************)

(* Items that consumer c has claimed, those it has read as it read them. *)
Claimed(c) ==
  walk[c].out \o [k \in 1..(claim[c].last - claim[c].next) |-> claim[c].next + k - 1]

Queue == INSTANCE ProducerQueue WITH
  MaxBulk <- Max(EnqueueSize \union DequeueSize),
  sent <- tailIndex,
  queue <- [k \in 1..(tailIndex - headIndex) |-> headIndex + k - 1],
  claimed <- [c \in Consumer |-> IF claim[c].last = 0 THEN <<>> ELSE Claimed(c)]

(* The sub-queue is a FIFO whose items go to one consumer each, whatever   *)
(* the consumers, the growth of the index and the reuse of blocks do.      *)
ImplementsQueue == Queue!Spec

(* "We'll put the block on the block index (guaranteed to be room ...)"    *)
(* (enqueue, 1847): a published block that holds items nobody has taken    *)
(* yet keeps its entry in the producer's index.                            *)
RoomGuaranteed ==
  ~destroyed => \A b \in Block :
    (\E o \in Slot : slots[b][o] # Raw) =>
      \E i \in DOMAIN current.entries : current.entries[i].block = b

(* The destructor destroys each element that is left, each once, and gives *)
(* back each block.                                                        *)
AllDestroyed ==
  destroyed => /\ \A b \in Block : pool[b] = 1
               /\ \A b \in Block, o \in Slot : slots[b][o] = Raw
=============================================================================
