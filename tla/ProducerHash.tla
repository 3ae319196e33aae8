---------------------------- MODULE ProducerHash ----------------------------
(***************************************************************************)
(* How an enqueuing thread finds its implicit producer                     *)
(* (thirdparty/loghelper/loghelper/concurrentqueue.h,                      *)
(* get_or_add_implicit_producer): a hash table without locks, keyed by the *)
(* thread, and the list of all producers, which consumers go through.  A   *)
(* table that gets full is followed by a larger one; the old ones stay and *)
(* a thread moves its entry to the newest when it finds it in an old one.  *)
(* A step is one atomic access together with what only its thread can see, *)
(* a search of a table or for a free slot being one: an entry is put into  *)
(* the first free slot of its thread's probe sequence and never leaves,    *)
(* and only its thread looks for it, so that in which slot it is and what  *)
(* the others put into theirs meanwhile makes no difference.               *)
(* Producers are numbered in the order in which they were added to the     *)
(* list.  No producer is ever inactive, since the build has no thread-exit *)
(* notification and this queue is used without tokens.                     *)
(***************************************************************************)
EXTENDS Integers, Sequences, FiniteSets, FiniteSetsExt

CONSTANTS
  Thread,
  INITIAL_HASH_SIZE, \* INITIAL_IMPLICIT_PRODUCER_HASH_SIZE
  MaxFails      \* bound: failed allocations

ASSUME HashAssumption ==
  INITIAL_HASH_SIZE \in Nat \ {0, 1} /\ MaxFails \in Nat

VARIABLES
  tables,     \* ImplicitProducerHash, oldest first: capacity and entries
  hashCount,  \* implicitProducerHashCount
  resizing,   \* implicitProducerHashResizeInProgress
  owner,      \* the list of producers: the thread each was made for
  look,       \* per thread: its call of get_or_add_implicit_producer
  fails       \* allocations that failed so far

hash == <<tables, hashCount, resizing, owner, look>>

Table(n) == [capacity |-> n, entries |-> <<>>]

NoCall == [pc |-> "none", main |-> 0, count |-> 0, producer |-> 0]

(* populate_initial_implicit_producer_hash *)
HashInit ==
  /\ tables = <<Table(INITIAL_HASH_SIZE)>>
  /\ hashCount = 0 /\ resizing = FALSE
  /\ owner = <<>>
  /\ look = [t \in Thread |-> NoCall]

newest == Len(tables)

Go(t, from, to) ==
  look[t].pc = from /\ look' = [look EXCEPT ![t] = to]

(* The call begins with the newest table. *)
get_or_add_implicit_producer(t) ==
  /\ Go(t, "none", [NoCall EXCEPT !.pc = "search", !.main = newest])
  /\ UNCHANGED <<tables, hashCount, resizing, owner, fails>>

(* Mutant of Searched: the older tables are not looked at. *)
Searched_newest(main) == {main}

(* The tables that are searched, the newest first. *)
Searched(main) == 1..main

(* An entry found in an old table is put into the newest as well. *)
Search(t) ==
  LET c == look[t]
      in == {h \in Searched(c.main) : t \in DOMAIN tables[h].entries}
  IN /\ c.pc = "search"
     /\ Go(t, "search",
          IF in = {} THEN [c EXCEPT !.pc = "count"]
          ELSE [c EXCEPT !.pc = IF c.main \in in THEN "done" ELSE "insert",
                         !.producer = tables[Max(in)].entries[t]])
     /\ UNCHANGED <<tables, hashCount, resizing, owner, fails>>

(* Not found: the thread is counted, and needs a producer. *)
Count(t) ==
  /\ Go(t, "count", [look[t] EXCEPT !.pc = "full", !.count = hashCount + 1])
  /\ hashCount' = hashCount + 1
  /\ UNCHANGED <<tables, resizing, owner, fails>>

HalfFull(c) == c.count >= tables[c.main].capacity \div 2

(* Mutant of Room: a table may be filled to the last slot. *)
Room_all(c) == c.count <= tables[c.main].capacity

(* Less than three quarters full. *)
Room(c) == c.count < tables[c.main].capacity \div 2 + tables[c.main].capacity \div 4

(* With the table half full, the first thread to notice makes a larger     *)
(* one; the others insert while there is room, or try again.               *)
TestAndSet(t) ==
  LET c == look[t]
  IN /\ c.pc = "full"
     /\ IF HalfFull(c) /\ ~resizing
        THEN resizing' = TRUE /\ Go(t, "full", [c EXCEPT !.pc = "resize", !.main = newest])
        ELSE /\ Go(t, "full", IF Room(c) THEN [c EXCEPT !.pc = "create"]
                              ELSE [c EXCEPT !.main = newest])
             /\ UNCHANGED resizing
     /\ UNCHANGED <<tables, hashCount, owner, fails>>

(* The capacity of the larger table, as the only member of a set: twice    *)
(* the old one, doubled until the count is below half.                     *)
NewCapacity(c) ==
  LET old == tables[c.main].capacity
      Doubled(m) == \E i \in 1..(c.count + 1) : m = old * 2^i
      Enough(m) == Doubled(m) /\ c.count < m \div 2
  IN {n \in (2 * old)..(4 * (old + c.count)) :
        Enough(n) /\ \A m \in (2 * old)..(n - 1) : ~Enough(m)}

Resize(t) ==
  LET c == look[t]
  IN /\ c.pc = "resize" /\ HalfFull(c)
     /\ \E n \in NewCapacity(c) : tables' = Append(tables, Table(n))
     /\ Go(t, "resize", [c EXCEPT !.pc = "resized", !.main = newest + 1])
     /\ UNCHANGED <<hashCount, resizing, owner, fails>>

(* Another thread has resized before this one got the flag. *)
Resized(t) ==
  LET c == look[t]
  IN /\ c.pc = "resized" \/ (c.pc = "resize" /\ ~HalfFull(c))
     /\ resizing' = FALSE
     /\ look' = [look EXCEPT ![t].pc = IF Room(c) THEN "create" ELSE "full",
                             ![t].main = IF Room(c) THEN @ ELSE newest]
     /\ UNCHANGED <<tables, hashCount, owner, fails>>

(* No memory for the table or the producer: the call returns nullptr. *)
ResizeFails(t) ==
  /\ Go(t, "resize", [NoCall EXCEPT !.pc = "done"])
  /\ fails < MaxFails /\ HalfFull(look[t])
  /\ fails' = fails + 1
  /\ hashCount' = hashCount - 1
  /\ resizing' = FALSE
  /\ UNCHANGED <<tables, owner>>

CreateFails(t) ==
  /\ fails < MaxFails
  /\ Go(t, "create", [NoCall EXCEPT !.pc = "done"])
  /\ fails' = fails + 1
  /\ hashCount' = hashCount - 1
  /\ UNCHANGED <<tables, resizing, owner>>

(* recycle_or_create_producer and add_producer: a compare-and-swap of the  *)
(* list's head that is repeated until it succeeds.                         *)
add_producer(t) ==
  /\ Go(t, "create", [look[t] EXCEPT !.pc = "insert", !.producer = Len(owner) + 1])
  /\ owner' = Append(owner, t)
  /\ UNCHANGED <<tables, hashCount, resizing, fails>>

Insert(t) ==
  /\ Go(t, "insert", [NoCall EXCEPT !.pc = "done", !.producer = look[t].producer])
  /\ LET Added(f) ==
           [u \in DOMAIN f \union {t} |-> IF u = t THEN look[t].producer ELSE f[u]]
     IN tables' = [tables EXCEPT ![look[t].main].entries = Added(@)]
  /\ UNCHANGED <<hashCount, resizing, owner, fails>>

LookUp(t) ==
  \/ Search(t) \/ Count(t) \/ TestAndSet(t) \/ Resize(t) \/ Resized(t)
  \/ ResizeFails(t) \/ CreateFails(t) \/ add_producer(t) \/ Insert(t)

(* The caller has the producer. *)
LookedUp(t) == Go(t, "done", NoCall)

(***************************************************************************)
(* Properties                                                              *)
(***************************************************************************)

(* A thread has one producer, however often it looked it up and whatever   *)
(* the tables did: two would let its items overtake each other.            *)
OneProducerEach ==
  \A p, q \in DOMAIN owner : owner[p] = owner[q] => p = q

(* "Not an infinite loop because at least one slot is free in the hash     *)
(* table" (3398), for each table a thread may search.                      *)
SlotFree ==
  \A h \in DOMAIN tables :
    Cardinality(DOMAIN tables[h].entries) < tables[h].capacity
=============================================================================
