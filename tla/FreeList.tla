------------------------------ MODULE FreeList ------------------------------
(***************************************************************************)
(* The lock-free free list of the queue under Log2File                     *)
(* (thirdparty/loghelper/loghelper/concurrentqueue.h, struct FreeList):    *)
(* a stack of nodes whose head is moved with compare-and-swap and whose    *)
(* nodes carry a reference count and the flag SHOULD_BE_ON_FREELIST.       *)
(* A step is one atomic access; the accesses of all threads interleave in  *)
(* one order (sequential consistency).                                     *)
(***************************************************************************)
EXTENDS Naturals, FiniteSets

CONSTANTS Thread, Node, None

ASSUME NoneAssumption == None \notin Node

VARIABLES
  freeListHead,
  freeListNext,
  refs, should,  \* freeListRefs: its low 31 bits, and SHOULD_BE_ON_FREELIST
  held,          \* nodes the caller of a thread has in use
  pc,
  local          \* the locals of the call a thread is in, see Locals

shared == <<freeListHead, freeListNext, refs, should>>
vars == <<shared, held, pc, local>>

Pc == {"idle", "get", "load_refs", "acquire", "load_next", "swing", "release2",
       "release1", "load_head", "store_next", "store_refs", "push", "giveup"}

(* head and next of try_get and `refs` it has loaded; node, which try_get  *)
(* took or releases, or which add_knowing_refcount_is_zero adds; its own   *)
(* `head` (top); and whether try_get called it.                            *)
Locals == [head : Node \union {None}, next : Node \union {None},
           seen : [refs : Nat, should : BOOLEAN],
           node : Node \union {None}, top : Node \union {None},
           getting : BOOLEAN]
Unread == [refs |-> 0, should |-> FALSE]
Fresh == [head |-> None, next |-> None, seen |-> Unread,
          node |-> None, top |-> None, getting |-> FALSE]

Init ==
  /\ freeListHead = None
  /\ freeListNext = [n \in Node |-> None]
  /\ refs = [n \in Node |-> 0]
  /\ should = [n \in Node |-> FALSE]
  /\ held \in {h \in [Thread -> SUBSET Node] :
                 \A n \in Node : Cardinality({t \in Thread : n \in h[t]}) = 1}
  /\ pc = [t \in Thread |-> "idle"]
  /\ local = [t \in Thread |-> Fresh]

Goto(t, from, to) == pc[t] = from /\ pc' = [pc EXCEPT ![t] = to]

(* The locals become l; they end with the call. *)
Set(t, l) == local' = [local EXCEPT ![t] = IF pc'[t] = "idle" THEN Fresh ELSE l]

head(t) == local[t].head
node(t) == local[t].node
RefsOf(n) == [refs |-> refs[n], should |-> should[n]]

(***************************************************************************)
(* try_get                                                                 *)
(***************************************************************************)

(* head = freeListHead.load(): on entry and after a lost race. *)
LoadHead(t) ==
  /\ pc[t] \in {"idle", "get"}
  /\ pc' = [pc EXCEPT ![t] = IF freeListHead = None THEN "idle" ELSE "load_refs"]
  /\ Set(t, [Fresh EXCEPT !.head = freeListHead])
  /\ UNCHANGED <<shared, held>>

(* Mutant of LoadRefs: the reference count is not tested for zero. *)
LoadRefs_unchecked(t) ==
  /\ Goto(t, "load_refs", "acquire")
  /\ Set(t, [local[t] EXCEPT !.seen = RefsOf(head(t))])
  /\ UNCHANGED <<shared, held>>

LoadRefs(t) ==
  /\ Goto(t, "load_refs", IF refs[head(t)] = 0 THEN "get" ELSE "acquire")
  /\ Set(t, [local[t] EXCEPT !.seen = RefsOf(head(t))])
  /\ UNCHANGED <<shared, held>>

(* freeListRefs.compare_exchange_strong(refs, refs + 1) *)
Acquire(t) ==
  LET same == local[t].seen = RefsOf(head(t))
  IN /\ Goto(t, "acquire", IF same THEN "load_next" ELSE "get")
     /\ refs' = IF same THEN [refs EXCEPT ![head(t)] = @ + 1] ELSE refs
     /\ Set(t, [local[t] EXCEPT !.seen = Unread])
     /\ UNCHANGED <<freeListHead, freeListNext, should, held>>

LoadNext(t) ==
  /\ Goto(t, "load_next", "swing")
  /\ Set(t, [local[t] EXCEPT !.next = freeListNext[head(t)]])
  /\ UNCHANGED <<shared, held>>

(* freeListHead.compare_exchange_strong(head, next): when it fails, head   *)
(* becomes the current one and prevHead is released.                       *)
Swing(t) ==
  LET taken == freeListHead = head(t)
  IN /\ Goto(t, "swing", IF taken THEN "release2" ELSE "release1")
     /\ freeListHead' = IF taken THEN local[t].next ELSE freeListHead
     /\ Set(t, [Fresh EXCEPT !.node = head(t),
                             !.head = IF taken THEN None ELSE freeListHead])
     /\ UNCHANGED <<freeListNext, refs, should, held>>

Release2(t) ==
  /\ Goto(t, "release2", "idle")
  /\ refs' = [refs EXCEPT ![node(t)] = @ - 2]
  /\ held' = [held EXCEPT ![t] = @ \union {node(t)}]
  /\ Set(t, Fresh)
  /\ UNCHANGED <<freeListHead, freeListNext, should>>

(* The loop of try_get goes on with the head it has. *)
Loop(t) == IF head(t) = None THEN "idle" ELSE "load_refs"

(* fetch_sub(1); who leaves a node that should be on the list adds it. *)
Release1(t) ==
  LET last == refs[node(t)] = 1 /\ should[node(t)]
  IN /\ Goto(t, "release1", IF last THEN "load_head" ELSE Loop(t))
     /\ refs' = [refs EXCEPT ![node(t)] = @ - 1]
     /\ Set(t, IF last THEN [local[t] EXCEPT !.getting = TRUE]
                       ELSE [Fresh EXCEPT !.head = head(t)])
     /\ UNCHANGED <<freeListHead, freeListNext, should, held>>

(***************************************************************************)
(* add and add_knowing_refcount_is_zero                                    *)
(***************************************************************************)

(* Mutant of add: the node is added whoever still refers to it. *)
add_always(t) ==
  \E n \in held[t] :
    /\ Goto(t, "idle", "load_head")
    /\ should' = [should EXCEPT ![n] = TRUE]
    /\ held' = [held EXCEPT ![t] = @ \ {n}]
    /\ Set(t, [Fresh EXCEPT !.node = n])
    /\ UNCHANGED <<freeListHead, freeListNext, refs>>

(* fetch_add(SHOULD_BE_ON_FREELIST): the caller gives up the node. *)
add(t) ==
  \E n \in held[t] :
    /\ Goto(t, "idle", IF refs[n] = 0 THEN "load_head" ELSE "idle")
    /\ should' = [should EXCEPT ![n] = TRUE]
    /\ held' = [held EXCEPT ![t] = @ \ {n}]
    /\ Set(t, [Fresh EXCEPT !.node = n])
    /\ UNCHANGED <<freeListHead, freeListNext, refs>>

AddLoadHead(t) ==
  /\ Goto(t, "load_head", "store_next")
  /\ Set(t, [local[t] EXCEPT !.top = freeListHead])
  /\ UNCHANGED <<shared, held>>

StoreNext(t) ==
  /\ Goto(t, "store_next", "store_refs")
  /\ freeListNext' = [freeListNext EXCEPT ![node(t)] = local[t].top]
  /\ UNCHANGED <<freeListHead, refs, should, held, local>>

StoreRefs(t) ==
  /\ Goto(t, "store_refs", "push")
  /\ refs' = [refs EXCEPT ![node(t)] = 1]
  /\ should' = [should EXCEPT ![node(t)] = FALSE]
  /\ UNCHANGED <<freeListHead, freeListNext, held, local>>

Return(t) == IF local[t].getting THEN Loop(t) ELSE "idle"

(* freeListHead.compare_exchange_strong(head, node) *)
Push(t) ==
  LET pushed == freeListHead = local[t].top
  IN /\ Goto(t, "push", IF pushed THEN Return(t) ELSE "giveup")
     /\ freeListHead' = IF pushed THEN node(t) ELSE freeListHead
     /\ Set(t, IF pushed THEN [Fresh EXCEPT !.head = head(t)]
                         ELSE [local[t] EXCEPT !.top = freeListHead])
     /\ UNCHANGED <<freeListNext, refs, should, held>>

(* fetch_add(SHOULD_BE_ON_FREELIST - 1) == 1: try again; otherwise the     *)
(* thread that takes the count to zero adds the node.                      *)
GiveUp(t) ==
  LET again == refs[node(t)] = 1
  IN /\ Goto(t, "giveup", IF again THEN "store_next" ELSE Return(t))
     /\ refs' = [refs EXCEPT ![node(t)] = @ - 1]
     /\ should' = [should EXCEPT ![node(t)] = TRUE]
     /\ Set(t, IF again THEN local[t] ELSE [Fresh EXCEPT !.head = head(t)])
     /\ UNCHANGED <<freeListHead, freeListNext, held>>

try_get(t) ==
  \/ LoadHead(t) \/ LoadRefs(t) \/ Acquire(t) \/ LoadNext(t)
  \/ Swing(t) \/ Release2(t) \/ Release1(t)

add_knowing_refcount_is_zero(t) ==
  AddLoadHead(t) \/ StoreNext(t) \/ StoreRefs(t) \/ Push(t) \/ GiveUp(t)

Next == \E t \in Thread : try_get(t) \/ add(t) \/ add_knowing_refcount_is_zero(t)

Spec == Init /\ [][Next]_vars

(***************************************************************************)
(* Properties                                                              *)
(***************************************************************************)

(* The types of the variables. *)
TypeOK ==
  /\ freeListHead \in Node \union {None}
  /\ freeListNext \in [Node -> Node \union {None}]
  /\ refs \in [Node -> Nat]
  /\ should \in [Node -> BOOLEAN]
  /\ held \in [Thread -> SUBSET Node]
  /\ pc \in [Thread -> Pc]
  /\ local \in [Thread -> Locals]

(* The threads inside add_knowing_refcount_is_zero with n before it is on  *)
(* the list.                                                               *)
Adding(t, n) ==
  node(t) = n /\ pc[t] \in {"load_head", "store_next", "store_refs", "push", "giveup"}

(* Those that took n from the list and have yet to drop its references. *)
Taking(t, n) == node(t) = n /\ pc[t] = "release2"

(* The nodes on the list: freeListHead and what follows it. *)
Listed ==
  LET reach[k \in 0..Cardinality(Node)] ==
        IF k = 0 THEN {freeListHead} \ {None}
        ELSE reach[k - 1] \union ({freeListNext[n] : n \in reach[k - 1]} \ {None})
  IN reach[Cardinality(Node)]

(* A node has exactly one place: in use by one thread, just taken by one,  *)
(* being added by one ("we run only one copy of this method per node at a  *)
(* time", line 1498), on the list, or left to the thread that will take    *)
(* its count to zero.  So no node is handed out twice and none is lost.    *)
OnePlace ==
  \A n \in Node :
    LET users == {t \in Thread : n \in held[t] \/ Taking(t, n) \/ Adding(t, n)}
        handed == should[n] /\ refs[n] > 0
    IN \/ Cardinality(users) = 1 /\ n \notin Listed
          /\ (handed => \E t \in users : ~ (n \in held[t]))
       \/ users = {} /\ n \in Listed /\ ~should[n]
       \/ users = {} /\ n \notin Listed /\ handed

(* While a thread is about to swing the head away from the node it has a   *)
(* reference to, the successor it read is still the node's successor, even *)
(* if the node was taken and added again meanwhile (comment at 1466).      *)
NextIsCurrent ==
  \A t \in Thread :
    pc[t] = "swing" /\ freeListHead = head(t) => local[t].next = freeListNext[head(t)]
=============================================================================
