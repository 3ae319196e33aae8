-------------------------- MODULE TcpClientProofs --------------------------
(***************************************************************************)
(* Theorems about the edge client's connection: whatever the network and   *)
(* the timers do, writes, reads and heartbeats are one at a time, and a    *)
(* client that is to reconnect has its next attempt in store.  The queue   *)
(* of ready handlers is reasoned about by how many of each kind it holds,  *)
(* and by what stands behind a doClose.                                    *)
(***************************************************************************)
EXTENDS TcpClient, FiniteSetTheorems, SequenceTheorems, TLAPS

(***************************************************************************)
(* The inductive invariants                                                *)
(***************************************************************************)

Kind == Op \union Posted

(* Handlers of kind op in the queue q, and in ready. *)
Number(q, op) == Cardinality({i \in DOMAIN q : q[i].op = op})
Here == [op \in Kind |-> Number(ready, op)]

(* Under way: in progress, or with the handler still to run. *)
Under == [op \in Op |-> pending[op] + Here[op]]

ClientTypeOK ==
  /\ stopped \in BOOLEAN /\ closed \in BOOLEAN /\ reconnectFlag \in {0, 1}
  /\ writeMsgs \in Int /\ longs \in Nat
  /\ pending \in [Op -> Nat] /\ ready \in Seq(Handler)
  /\ rcTimer \in TimerState

(* Connected, and nothing has gone wrong. *)
Connected ==
  /\ ~stopped /\ ~closed /\ reconnectFlag = 0
  /\ Under["connect"] = 0 /\ Under["reconnect"] = 0 /\ Here["doClose"] = 0

(* doClose is posted: until it has run no time passes, so that the attempt *)
(* to reconnect, if there is one, stays in the timer.                      *)
Closing ==
  /\ closed /\ Here["doClose"] = 1
  /\ Under["connect"] = 0 /\ Here["reconnect"] = 0
  /\ pending["reconnect"] = reconnectFlag
  /\ reconnectFlag = 1 => rcTimer = "fresh"
  /\ ~stopped => reconnectFlag = 1

(* doClose has run: nothing is under way but the reconnect timer, and when *)
(* its interval is over all left-over handlers have run.                   *)
Closed ==
  /\ stopped /\ closed /\ writeMsgs = 0
  /\ Here["doClose"] = 0 /\ Under["connect"] = 0 /\ Under["reconnect"] <= 1
  /\ \A op \in {"readHeader", "readBody", "write", "heartbeat"} : pending[op] = 0
  /\ pending["reconnect"] = 1 => rcTimer \in {"fresh", "running"}
  /\ Here["reconnect"] = 1 \/ (pending["reconnect"] = 1 /\ rcTimer = "running")
       => \A op \in Kind \ {"reconnect"} : Here[op] = 0

(* An attempt to connect, and nothing else. *)
Connecting ==
  /\ stopped /\ writeMsgs = 0
  /\ Under["connect"] = 1
  /\ \A op \in Op \ {"connect"} : Under[op] = 0
  /\ \A op \in Posted : Here[op] = 0
  /\ ~closed => reconnectFlag = 0

(* What is under way at once. *)
OneEach ==
  /\ Under["write"] <= 1 /\ Under["heartbeat"] <= 1
  /\ ~stopped => /\ Under["readHeader"] + Under["readBody"] = 1
                 /\ Under["write"] = 1 <=> writeMsgs > 0
                 /\ writeMsgs >= 0

PhaseInv == OneEach /\ (Connected \/ Closing \/ Closed \/ Connecting)

PromptInv == ClientTypeOK /\ (Prompt => PhaseInv)

(* An attempt that startReconnect has left in the timer is still there     *)
(* while the timer runs.                                                   *)
TimerKept == reconnectFlag = 1 /\ rcTimer # "expired" => pending["reconnect"] > 0

(* An attempt to reconnect comes after every doClose that is posted. *)
Behind(q) ==
  \A i \in DOMAIN q : q[i].op = "doClose" => \E j \in DOMAIN q : i < j /\ q[j].op = "reconnect"
AttemptBehind == isReconnect => pending["reconnect"] > 0 \/ Behind(ready)

(* RecoveryPending, by the counts. *)
AttemptStored == isReconnect /\ stopped => Under["reconnect"] > 0 \/ Under["connect"] > 0

RecoveryInv == ClientTypeOK /\ TimerKept /\ AttemptBehind /\ AttemptStored

(***************************************************************************)
(* Numbers of handlers                                                     *)
(***************************************************************************)

LEMMA NumberType ==
  ASSUME NEW q \in Seq(Handler), NEW op
  PROVE  /\ Number(q, op) \in Nat
         /\ IsFiniteSet({i \in DOMAIN q : q[i].op = op})
         /\ Number(q, op) = 0 <=> \A i \in DOMAIN q : q[i].op # op
  <1>1. Len(q) \in Nat /\ DOMAIN q = 1..Len(q)
    BY LenProperties
  <1>2. IsFiniteSet({i \in DOMAIN q : q[i].op = op})
    <2>1. {i \in DOMAIN q : q[i].op = op} \in SUBSET (1..Len(q)) /\ IsFiniteSet(1..Len(q))
      BY <1>1, FS_Interval
    <2> QED
      BY <2>1, FS_Subset
  <1> QED
    BY <1>2, FS_CardinalityType, FS_EmptySet DEF Number

LEMMA NumberEmpty ==
  ASSUME NEW op
  PROVE  <<>> \in Seq(Handler) /\ Number(<<>>, op) = 0
  BY FS_EmptySet DEF Number

LEMMA NumberConcat ==
  ASSUME NEW q \in Seq(Handler), NEW r \in Seq(Handler), NEW op
  PROVE  q \o r \in Seq(Handler) /\ Number(q \o r, op) = Number(q, op) + Number(r, op)
  <1> DEFINE m == Len(q)
             A == {i \in 1..m : q[i].op = op}
             B == {i \in 1..Len(r) : r[i].op = op}
             C == {i \in (m + 1)..(m + Len(r)) : r[i - m].op = op}
  <1>1. /\ q \o r \in Seq(Handler) /\ m \in Nat /\ Len(r) \in Nat
        /\ DOMAIN q = 1..m /\ DOMAIN r = 1..Len(r) /\ DOMAIN (q \o r) = 1..(m + Len(r))
        /\ \A i \in 1..(m + Len(r)) : (q \o r)[i] = IF i <= m THEN q[i] ELSE r[i - m]
    BY LenProperties, ConcatProperties
  <1>2. {i \in DOMAIN (q \o r) : (q \o r)[i].op = op} = A \union C
    BY <1>1
  <1>3. A \intersect C = {}
    BY <1>1
  <1>4. IsFiniteSet(A) /\ IsFiniteSet(B) /\ IsFiniteSet(C)
    <2>1. IsFiniteSet(1..m) /\ IsFiniteSet(1..Len(r)) /\ IsFiniteSet((m + 1)..(m + Len(r)))
      BY <1>1, FS_Interval
    <2>2. /\ A \in SUBSET (1..m) /\ B \in SUBSET (1..Len(r))
          /\ C \in SUBSET ((m + 1)..(m + Len(r)))
      OBVIOUS
    <2> HIDE DEF A, B, C
    <2> QED
      BY <2>1, <2>2, FS_Subset
  <1>5. Cardinality(C) = Cardinality(B)
    <2> DEFINE f == [i \in B |-> i + m]
    <2>1. f \in Bijection(B, C)
      <3>1. f \in [B -> C]
        BY <1>1
      <3>2. \A i, j \in B : f[i] = f[j] => i = j
        BY <1>1
      <3>3. \A k \in C : \E i \in B : f[i] = k
        <4> SUFFICES ASSUME NEW k \in C PROVE \E i \in B : f[i] = k
          OBVIOUS
        <4>1. k - m \in B /\ f[k - m] = k
          BY <1>1
        <4> QED
          BY <4>1
      <3> QED
        BY <3>1, <3>2, <3>3 DEF Bijection, Injection, Surjection, IsInjective
    <2> QED
      BY <1>4, <2>1, FS_Bijection DEF ExistsBijection
  <1>6. Cardinality(A \union C) = Cardinality(A) + Cardinality(C)
    <2>1. Cardinality(A \intersect C) = 0 /\ Cardinality(A) \in Nat /\ Cardinality(C) \in Nat
      BY <1>3, <1>4, FS_EmptySet, FS_CardinalityType
    <2>2. Cardinality(A \union C) = Cardinality(A) + Cardinality(C) - Cardinality(A \intersect C)
      BY <1>4, FS_Union
    <2> QED
      BY <2>1, <2>2
  <1>7. Number(q, op) = Cardinality(A) /\ Number(r, op) = Cardinality(B)
    BY <1>1 DEF Number
  <1> QED
    BY <1>1, <1>2, <1>5, <1>6, <1>7 DEF Number

(* n handlers alike. *)
LEMMA NumberAlike ==
  ASSUME NEW h \in Handler, NEW n \in Nat, NEW op
  PROVE  /\ [i \in 1..n |-> h] \in Seq(Handler)
         /\ Number([i \in 1..n |-> h], op) = IF h.op = op THEN n ELSE 0
  <1> DEFINE q == [i \in 1..n |-> h]
  <1>1. q \in Seq(Handler)
    OBVIOUS
  <1>2. {i \in DOMAIN q : q[i].op = op} = IF h.op = op THEN 1..n ELSE {}
    OBVIOUS
  <1>3. Cardinality(1..n) = n /\ Cardinality({}) = 0
    BY FS_Interval, FS_EmptySet
  <1> QED
    BY <1>1, <1>2, <1>3 DEF Number

LEMMA NumberOne ==
  ASSUME NEW h \in Handler, NEW op
  PROVE  <<h>> \in Seq(Handler) /\ Number(<<h>>, op) = IF h.op = op THEN 1 ELSE 0
  <1>1. PICK n \in Nat : n = 1
    OBVIOUS
  <1>2. Number([i \in 1..n |-> h], op) = IF h.op = op THEN n ELSE 0
    BY NumberAlike
  <1>3. <<h>> = [i \in 1..n |-> h]
    BY <1>1
  <1> QED
    BY <1>1, <1>2, <1>3

(* The handler that runs leaves the queue. *)
LEMMA NumberTail ==
  ASSUME NEW q \in Seq(Handler), q # <<>>, NEW op
  PROVE  /\ Tail(q) \in Seq(Handler) /\ Head(q) \in Handler
         /\ Number(q, op) = Number(Tail(q), op) + (IF Head(q).op = op THEN 1 ELSE 0)
  <1>1. Tail(q) \in Seq(Handler) /\ Head(q) \in Handler
    OBVIOUS
  <1>2. PICK h \in Handler : h = Head(q)
    BY <1>1
  <1>3. PICK f \in Seq(Handler) : f = <<h>>
    <2>1. <<h>> \in Seq(Handler)
      BY NumberOne
    <2> QED
      BY <2>1
  <1>4. f \o Tail(q) = q
    BY <1>2, <1>3
  <1>5. Number(f \o Tail(q), op) = Number(f, op) + Number(Tail(q), op)
    BY <1>1, NumberConcat
  <1>6. Number(f, op) = IF h.op = op THEN 1 ELSE 0
    BY <1>3, NumberOne
  <1>7. Number(Tail(q), op) \in Nat
    BY <1>1, NumberType
  <1>8. Number(q, op) = (IF h.op = op THEN 1 ELSE 0) + Number(Tail(q), op)
    BY ONLY <1>4, <1>5, <1>6
  <1>9. Number(q, op) = Number(Tail(q), op) + (IF h.op = op THEN 1 ELSE 0)
    BY ONLY <1>7, <1>8
  <1> QED
    BY <1>1, <1>2, <1>9

(***************************************************************************)
(* What the helpers add to the queue                                       *)
(***************************************************************************)

LEMMA HereType ==
  ASSUME ClientTypeOK
  PROVE  /\ Here \in [Kind -> Nat] /\ Under \in [Op -> Nat]
         /\ \A op \in Kind : Here[op] = Number(ready, op)
         /\ \A op \in Op : Under[op] = pending[op] + Here[op] /\ Count(op) = Under[op]
  <1>1. ready \in Seq(Handler) /\ pending \in [Op -> Nat]
    BY DEF ClientTypeOK
  <1>2. \A op \in Kind : Number(ready, op) \in Nat
    BY <1>1, NumberType
  <1>3. Here \in [Kind -> Nat] /\ \A op \in Kind : Here[op] = Number(ready, op)
    BY <1>2 DEF Here
  <1>4. Under \in [Op -> Nat] /\ \A op \in Op : Under[op] = pending[op] + Here[op]
    BY <1>1, <1>3 DEF Under, Kind
  <1>5. \A op \in Op : Count(op) = Under[op]
    BY <1>3, <1>4 DEF Count, Queued, Number, Kind
  <1> QED
    BY <1>3, <1>4, <1>5

LEMMA HandlerType ==
  /\ \A op \in Op, ok \in BOOLEAN : [op |-> op, ok |-> ok] \in Handler
  /\ \A op \in Kind : /\ Done(op) \in Handler /\ Done(op).op = op
                      /\ Aborted(op) \in Handler /\ Aborted(op).op = op
  BY DEF Handler, Kind, Done, Aborted

LEMMA NumberAborted ==
  ASSUME NEW a \in Op, NEW n \in Nat, NEW op
  PROVE  /\ AbortedN(a, n) \in Seq(Handler)
         /\ Number(AbortedN(a, n), op) = IF op = a THEN n ELSE 0
  <1>0. Aborted(a) \in Handler /\ Aborted(a).op = a
    BY HandlerType DEF Kind
  <1>1. PICK h \in Handler : h = Aborted(a) /\ h.op = a
    BY <1>0
  <1>2. AbortedN(a, n) = [i \in 1..n |-> h]
    BY <1>1 DEF AbortedN
  <1> QED
    BY <1>1, <1>2, NumberAlike

LEMMA NumberClose ==
  ASSUME NEW op
  PROVE  /\ ClosePosts \in Seq(Handler)
         /\ Number(ClosePosts, op) = IF op = "doClose" /\ ~closed THEN 1 ELSE 0
  <1>0. Done("doClose") \in Handler /\ Done("doClose").op = "doClose"
    BY HandlerType DEF Kind, Posted
  <1>1. PICK h \in Handler : h = Done("doClose") /\ h.op = "doClose"
    BY <1>0
  <1>2. CASE closed
    BY <1>2, NumberEmpty DEF ClosePosts
  <1>3. CASE ~closed
    BY <1>1, <1>3, NumberOne DEF ClosePosts
  <1> QED
    BY <1>2, <1>3

LEMMA NumberWrites ==
  ASSUME NEW q, NEW op
  PROVE  /\ WritePosts(q) \in Seq(Handler) /\ Number(WritePosts(q), op) \in Nat
         /\ op # "startWrite" => Number(WritePosts(q), op) = 0
  <1>0. Done("startWrite") \in Handler /\ Done("startWrite").op = "startWrite"
    BY HandlerType DEF Kind, Posted
  <1>1. PICK h \in Handler : h = Done("startWrite") /\ h.op = "startWrite"
    BY <1>0
  <1>2. <<h>> \in Seq(Handler) /\ Number(<<h>>, op) = IF h.op = op THEN 1 ELSE 0
    BY NumberOne
  <1>3. WritePosts(q) = <<h>> \/ WritePosts(q) = <<>>
    BY <1>1 DEF WritePosts
  <1>4. CASE WritePosts(q) = <<h>>
    BY <1>1, <1>2, <1>4
  <1>5. CASE WritePosts(q) = <<>>
    BY <1>5, NumberEmpty
  <1> QED
    BY <1>3, <1>4, <1>5

LEMMA NumberSocket ==
  ASSUME NEW p \in [Op -> Nat], NEW op \in Kind
  PROVE  /\ SocketAborts(p) \in Seq(Handler)
         /\ Number(SocketAborts(p), op) = IF op \in SocketOps THEN p[op] ELSE 0
  <1> DEFINE A == AbortedN("readHeader", p["readHeader"])
             B == AbortedN("readBody", p["readBody"])
             C == AbortedN("connect", p["connect"])
             D == AbortedN("write", p["write"])
  <1>1. A \in Seq(Handler) /\ B \in Seq(Handler) /\ C \in Seq(Handler) /\ D \in Seq(Handler)
    BY NumberAborted DEF Op
  <1>2. /\ Number(A, op) = IF op = "readHeader" THEN p["readHeader"] ELSE 0
        /\ Number(B, op) = IF op = "readBody" THEN p["readBody"] ELSE 0
        /\ Number(C, op) = IF op = "connect" THEN p["connect"] ELSE 0
        /\ Number(D, op) = IF op = "write" THEN p["write"] ELSE 0
    BY NumberAborted DEF Op
  <1>3. SocketAborts(p) = ((A \o B) \o C) \o D
    BY DEF SocketAborts
  <1> HIDE DEF A, B, C, D
  <1>4. A \o B \in Seq(Handler) /\ Number(A \o B, op) = Number(A, op) + Number(B, op)
    BY <1>1, NumberConcat
  <1>5. /\ (A \o B) \o C \in Seq(Handler)
        /\ Number((A \o B) \o C, op) = Number(A \o B, op) + Number(C, op)
    BY <1>1, <1>4, NumberConcat
  <1>6. /\ ((A \o B) \o C) \o D \in Seq(Handler)
        /\ Number(((A \o B) \o C) \o D, op) = Number((A \o B) \o C, op) + Number(D, op)
    BY <1>1, <1>5, NumberConcat
  <1>7. \A k \in Op : p[k] \in Nat
    OBVIOUS
  <1>8. Number(SocketAborts(p), op) = Number(A, op) + Number(B, op) + Number(C, op) + Number(D, op)
    BY <1>3, <1>4, <1>5, <1>6
  <1> QED
    BY <1>2, <1>3, <1>6, <1>7, <1>8 DEF SocketOps, Op

(***************************************************************************)
(* What the steps do to the counts                                         *)
(***************************************************************************)

(* The queue has grown by r. *)
LEMMA Grows ==
  ASSUME ClientTypeOK, NEW r \in Seq(Handler), ready' = ready \o r
  PROVE  /\ ready' \in Seq(Handler) /\ Here' \in [Kind -> Nat]
         /\ \A op \in Kind : Here'[op] = Here[op] + Number(r, op)
  <1>1. ready \in Seq(Handler)
    BY DEF ClientTypeOK
  <1>2. ready' \in Seq(Handler)
    BY <1>1, NumberConcat
  <1>3. \A op \in Kind : Number(ready', op) \in Nat
    BY <1>2, NumberType
  <1>4. \A op \in Kind : Number(ready', op) = Number(ready, op) + Number(r, op)
    BY <1>1, NumberConcat
  <1> QED
    BY <1>2, <1>3, <1>4 DEF Here

(* Its first handler has run, and r was added. *)
LEMMA RunsEffect ==
  ASSUME ClientTypeOK, ready # <<>>, NEW r \in Seq(Handler), ready' = Tail(ready) \o r
  PROVE  /\ ready' \in Seq(Handler) /\ Here' \in [Kind -> Nat]
         /\ Head(ready).op \in Kind /\ Here[Head(ready).op] > 0
         /\ \A op \in Kind :
              Here'[op] = Here[op] - (IF Head(ready).op = op THEN 1 ELSE 0) + Number(r, op)
  <1>1. ready \in Seq(Handler)
    BY DEF ClientTypeOK
  <1>2. Tail(ready) \in Seq(Handler) /\ Head(ready) \in Handler
    BY <1>1, NumberTail
  <1>3. ready' \in Seq(Handler)
    BY <1>2, NumberConcat
  <1>4. \A op \in Kind : Number(ready', op) \in Nat
    BY <1>3, NumberType
  <1>5. ASSUME NEW op \in Kind
        PROVE  Number(ready', op)
                 = Number(ready, op) - (IF Head(ready).op = op THEN 1 ELSE 0) + Number(r, op)
    <2>1. Number(ready', op) = Number(Tail(ready), op) + Number(r, op)
      BY <1>2, NumberConcat
    <2>2. Number(ready, op) = Number(Tail(ready), op) + (IF Head(ready).op = op THEN 1 ELSE 0)
      BY <1>1, NumberTail
    <2>3. Number(Tail(ready), op) \in Nat /\ Number(r, op) \in Nat
      BY <1>2, NumberType
    <2> QED
      BY <2>1, <2>2, <2>3
  <1>6. Head(ready).op \in Kind
    BY <1>2 DEF Handler, Kind
  <1>7. Number(ready, Head(ready).op) > 0
    <2>1. Number(ready, Head(ready).op) = Number(Tail(ready), Head(ready).op) + 1
      BY <1>1, NumberTail
    <2>2. Number(Tail(ready), Head(ready).op) \in Nat
      BY <1>2, NumberType
    <2> QED
      BY <2>1, <2>2
  <1> QED
    BY <1>3, <1>4, <1>5, <1>6, <1>7 DEF Here

(* It has run, and nothing was added. *)
LEMMA RunsOnly ==
  ASSUME ClientTypeOK, ready # <<>>, ready' = Tail(ready)
  PROVE  /\ ready' \in Seq(Handler) /\ Here' \in [Kind -> Nat]
         /\ Head(ready).op \in Kind /\ Here[Head(ready).op] > 0
         /\ \A op \in Kind : Here'[op] = IF Head(ready).op = op THEN Here[op] - 1 ELSE Here[op]
  <1>1. Tail(ready) \in Seq(Handler)
    BY NumberTail DEF ClientTypeOK
  <1>2. ready' = Tail(ready) \o <<>>
    BY <1>1, ConcatEmptySeq
  <1>3. <<>> \in Seq(Handler) /\ \A op \in Kind : Number(<<>>, op) = 0
    BY NumberEmpty
  <1>4. PICK r \in Seq(Handler) : r = <<>> /\ \A op \in Kind : Number(r, op) = 0
    BY <1>3
  <1>5. /\ ready' \in Seq(Handler) /\ Here' \in [Kind -> Nat] /\ Here \in [Kind -> Nat]
        /\ Head(ready).op \in Kind /\ Here[Head(ready).op] > 0
        /\ \A op \in Kind :
             Here'[op] = Here[op] - (IF Head(ready).op = op THEN 1 ELSE 0) + Number(r, op)
    BY <1>2, <1>4, RunsEffect, HereType
  <1> QED
    BY <1>4, <1>5

LEMMA CompleteEffect ==
  ASSUME ClientTypeOK, NEW op \in Op, NEW ok \in BOOLEAN, Complete(op, ok)
  PROVE  /\ ready' \in Seq(Handler) /\ pending' \in [Op -> Nat] /\ Here' \in [Kind -> Nat]
         /\ \A k \in Op : pending'[k] = IF k = op THEN pending[k] - 1 ELSE pending[k]
         /\ \A k \in Kind : Here'[k] = IF k = op THEN Here[k] + 1 ELSE Here[k]
         /\ Under' = Under /\ pending[op] > 0
  <1>1. PICK h \in Handler : h = [op |-> op, ok |-> ok] /\ h.op = op
    BY HandlerType
  <1>2. PICK r \in Seq(Handler) : r = <<h>>
    BY NumberOne
  <1>3. ready' = ready \o r
    <2>1. ready' = Append(ready, h) /\ ready \in Seq(Handler)
      BY <1>1 DEF Complete, ClientTypeOK
    <2>2. Append(ready, h) = ready \o <<h>>
      BY <2>1, AppendIsConcat
    <2> QED
      BY <1>2, <2>1, <2>2
  <1>4. \A k \in Kind : Number(r, k) = IF k = op THEN 1 ELSE 0
    BY <1>1, <1>2, NumberOne
  <1>5. /\ ready' \in Seq(Handler) /\ Here' \in [Kind -> Nat] /\ Here \in [Kind -> Nat]
        /\ \A k \in Kind : Here'[k] = Here[k] + Number(r, k)
    BY <1>3, Grows, HereType
  <1>6. /\ pending' \in [Op -> Nat] /\ pending[op] > 0
        /\ \A k \in Op : pending'[k] = IF k = op THEN pending[k] - 1 ELSE pending[k]
    BY DEF Complete, ClientTypeOK
  <1>7. \A k \in Kind : Here'[k] = IF k = op THEN Here[k] + 1 ELSE Here[k]
    BY <1>4, <1>5
  <1>8. Under' = Under
    <2>1. ASSUME NEW k \in Op PROVE pending'[k] + Here'[k] = pending[k] + Here[k]
      <3>1. k \in Kind /\ pending[k] \in Nat /\ Here[k] \in Nat
        BY <1>5 DEF ClientTypeOK, Kind
      <3>2. CASE k = op
        <4>1. pending'[k] = pending[k] - 1 /\ Here'[k] = Here[k] + 1
          BY <1>6, <1>7, <3>1, <3>2
        <4> QED
          BY <3>1, <4>1
      <3>3. CASE k # op
        BY <1>6, <1>7, <3>1, <3>3
      <3> QED
        BY <3>2, <3>3
    <2> QED
      BY <2>1 DEF Under
  <1> QED
    BY <1>5, <1>6, <1>7, <1>8

(* All waits of a timer complete. *)
LEMMA WaitsEffect ==
  ASSUME ClientTypeOK, NEW op \in Op, WaitsComplete(op)
  PROVE  /\ ready' \in Seq(Handler) /\ pending' \in [Op -> Nat] /\ Here' \in [Kind -> Nat]
         /\ \A k \in Op : pending'[k] = IF k = op THEN 0 ELSE pending[k]
         /\ \A k \in Kind : Here'[k] = IF k = op THEN Here[k] + pending[op] ELSE Here[k]
         /\ Under' = Under /\ pending[op] > 0
  <1>0. Done(op) \in Handler /\ Done(op).op = op
    BY HandlerType DEF Kind
  <1>1. PICK h \in Handler : h = Done(op) /\ h.op = op
    BY <1>0
  <1>2. PICK n \in Nat : n = pending[op]
    BY DEF ClientTypeOK
  <1>3. PICK r \in Seq(Handler) : r = [i \in 1..n |-> h]
    BY NumberAlike
  <1>4. ready' = ready \o r
    BY <1>1, <1>2, <1>3 DEF WaitsComplete
  <1>5. \A k \in Kind : Number(r, k) = IF k = op THEN n ELSE 0
    BY <1>1, <1>3, NumberAlike
  <1>6. /\ ready' \in Seq(Handler) /\ Here' \in [Kind -> Nat] /\ Here \in [Kind -> Nat]
        /\ \A k \in Kind : Here'[k] = Here[k] + Number(r, k)
    BY <1>4, Grows, HereType
  <1>7. /\ pending' \in [Op -> Nat] /\ pending[op] > 0
        /\ \A k \in Op : pending'[k] = IF k = op THEN 0 ELSE pending[k]
    BY DEF WaitsComplete, ClientTypeOK
  <1>8. \A k \in Kind : Here'[k] = IF k = op THEN Here[k] + pending[op] ELSE Here[k]
    BY <1>2, <1>5, <1>6
  <1>9. Under' = Under
    <2>1. ASSUME NEW k \in Op PROVE pending'[k] + Here'[k] = pending[k] + Here[k]
      <3>1. k \in Kind /\ pending[k] \in Nat /\ Here[k] \in Nat
        BY <1>6 DEF ClientTypeOK, Kind
      <3>2. CASE k = op
        BY <1>7, <1>8, <3>1, <3>2
      <3>3. CASE k # op
        BY <1>7, <1>8, <3>1, <3>3
      <3> QED
        BY <3>2, <3>3
    <2> QED
      BY <2>1 DEF Under
  <1> QED
    BY <1>6, <1>7, <1>8, <1>9

(* Constants of the kinds, for the steps below. *)
LEMMA Kinds ==
  /\ Op = {"connect", "readHeader", "readBody", "write", "heartbeat", "reconnect"}
  /\ Posted = {"doClose", "startWrite"}
  /\ Kind = {"connect", "readHeader", "readBody", "write", "heartbeat", "reconnect",
             "doClose", "startWrite"}
  BY DEF Op, Posted, Kind

LEMMA EnvironmentKeeps ==
  ASSUME ClientTypeOK, PhaseInv, Environment
  PROVE  PhaseInv'
  <1>1. /\ Here \in [Kind -> Nat] /\ pending \in [Op -> Nat] /\ Under \in [Op -> Nat]
        /\ \A op \in Op : Under[op] = pending[op] + Here[op]
    BY HereType DEF ClientTypeOK
  <1>2. ASSUME NEW ok \in BOOLEAN, ConnectCompletes(ok) PROVE PhaseInv'
    <2>1. Complete("connect", ok) /\ UNCHANGED <<flagVars, writeMsgs, rcTimer>>
      BY <1>2 DEF ConnectCompletes, timerVars
    <2>2. /\ \A k \in Op : pending'[k] = IF k = "connect" THEN pending[k] - 1 ELSE pending[k]
          /\ \A k \in Kind : Here'[k] = IF k = "connect" THEN Here[k] + 1 ELSE Here[k]
          /\ Under' = Under /\ pending["connect"] > 0
          /\ Here' \in [Kind -> Nat] /\ pending' \in [Op -> Nat]
      BY <2>1, CompleteEffect DEF Op
    <2>3. Under["connect"] > 0
      BY <1>1, <2>2, Kinds
    <2>4. Connecting
      BY <2>3 DEF PhaseInv, Connected, Closing, Closed
    <2>5. Connecting'
      BY <2>1, <2>2, <2>4, Kinds DEF Connecting, flagVars
    <2>6. OneEach'
      BY <2>1, <2>2 DEF PhaseInv, OneEach, flagVars
    <2> QED
      BY <2>5, <2>6 DEF PhaseInv
  <1>3. ASSUME NEW op \in {"readHeader", "readBody", "write"}, NEW ok \in BOOLEAN,
               TransferCompletes(op, ok)
        PROVE  PhaseInv'
    <2>1. Complete(op, ok) /\ op \in Op /\ UNCHANGED <<flagVars, writeMsgs, rcTimer>>
      BY <1>3 DEF TransferCompletes, timerVars, Op
    <2>2. /\ \A k \in Op : pending'[k] = IF k = op THEN pending[k] - 1 ELSE pending[k]
          /\ \A k \in Kind : Here'[k] = IF k = op THEN Here[k] + 1 ELSE Here[k]
          /\ Under' = Under /\ pending[op] > 0
          /\ Here' \in [Kind -> Nat] /\ pending' \in [Op -> Nat]
      BY <2>1, CompleteEffect
    <2>3. /\ Here'["doClose"] = Here["doClose"] /\ Here'["reconnect"] = Here["reconnect"]
          /\ pending'["reconnect"] = pending["reconnect"]
      BY <2>2, Kinds
    <2>4. Under[op] > 0
      BY <1>1, <2>1, <2>2, Kinds
    <2>5. Connected \/ Closing
      BY <2>2, <2>4, Kinds DEF PhaseInv, Closed, Connecting
    <2>6. Connected' \/ Closing'
      BY <2>1, <2>2, <2>3, <2>5 DEF Connected, Closing, flagVars
    <2>7. OneEach'
      BY <2>1, <2>2 DEF PhaseInv, OneEach, flagVars
    <2> QED
      BY <2>6, <2>7 DEF PhaseInv
  <1>4. ASSUME TimePasses PROVE PhaseInv'
    <2>1. /\ UNCHANGED <<flagVars, writeMsgs, pending, ready>> /\ ready = <<>>
          /\ rcTimer' = IF rcTimer = "fresh" THEN "running" ELSE rcTimer
      BY <1>4 DEF TimePasses
    <2>2. Here' = Here /\ Under' = Under /\ pending' = pending
      BY <2>1 DEF Here, Under
    <2>3. \A op \in Kind : Here[op] = 0
      BY <2>1, HereType, NumberEmpty
    <2>4. ~Closing
      BY <2>3, Kinds DEF Closing
    <2>5. Connected' \/ Closed' \/ Connecting'
      BY <2>1, <2>2, <2>3, <2>4 DEF PhaseInv, Connected, Closed, Connecting, flagVars
    <2>6. OneEach'
      BY <2>1, <2>2 DEF PhaseInv, OneEach, flagVars
    <2> QED
      BY <2>5, <2>6 DEF PhaseInv
  <1>5. ASSUME HeartbeatExpires PROVE PhaseInv'
    <2>1. WaitsComplete("heartbeat") /\ UNCHANGED <<flagVars, writeMsgs, rcTimer>>
      BY <1>5 DEF HeartbeatExpires
    <2>2. /\ \A k \in Op : pending'[k] = IF k = "heartbeat" THEN 0 ELSE pending[k]
          /\ \A k \in Kind :
               Here'[k] = IF k = "heartbeat" THEN Here[k] + pending["heartbeat"] ELSE Here[k]
          /\ Under' = Under /\ pending["heartbeat"] > 0
      BY <2>1, WaitsEffect, Kinds
    <2>3. Connected \/ Closing
      BY <1>1, <2>2, Kinds DEF PhaseInv, Closed, Connecting
    <2>4. /\ Here'["doClose"] = Here["doClose"] /\ Here'["reconnect"] = Here["reconnect"]
          /\ pending'["reconnect"] = pending["reconnect"]
      BY <2>2, Kinds
    <2>5. Connected' \/ Closing'
      BY <2>1, <2>2, <2>3, <2>4 DEF Connected, Closing, flagVars
    <2>6. OneEach'
      BY <2>1, <2>2 DEF PhaseInv, OneEach, flagVars
    <2> QED
      BY <2>5, <2>6 DEF PhaseInv
  <1>6. ASSUME ReconnectExpires PROVE PhaseInv'
    <2>1. /\ WaitsComplete("reconnect") /\ UNCHANGED <<flagVars, writeMsgs>>
          /\ rcTimer \in {"running", "expired"}
      BY <1>6 DEF ReconnectExpires
    <2>2. /\ \A k \in Op : pending'[k] = IF k = "reconnect" THEN 0 ELSE pending[k]
          /\ \A k \in Kind :
               Here'[k] = IF k = "reconnect" THEN Here[k] + pending["reconnect"] ELSE Here[k]
          /\ Under' = Under /\ pending["reconnect"] > 0 /\ pending["reconnect"] \in Nat
          /\ Here["reconnect"] \in Nat /\ Under["reconnect"] = pending["reconnect"] + Here["reconnect"]
      BY <1>1, <2>1, WaitsEffect, Kinds
    <2>3. Closed /\ pending["reconnect"] = 1 /\ Here["reconnect"] = 0
      <3>1. ~Connected /\ ~Connecting
        BY <2>2, Kinds DEF Connected, Connecting
      <3>2. ~Closing
        BY <2>1, <2>2 DEF Closing, ClientTypeOK
      <3> QED
        BY <2>2, <3>1, <3>2 DEF PhaseInv, Closed
    <2>4. /\ \A op \in Kind \ {"reconnect"} : Here[op] = 0
          /\ \A op \in {"readHeader", "readBody", "write", "heartbeat"} : pending[op] = 0
      BY <2>1, <2>3 DEF Closed
    <2>5. /\ \A op \in Kind \ {"reconnect"} : Here'[op] = 0
          /\ \A op \in {"readHeader", "readBody", "write", "heartbeat"} : pending'[op] = 0
          /\ pending'["reconnect"] = 0
      BY <2>2, <2>4, Kinds
    <2>6. Closed'
      BY <2>1, <2>2, <2>3, <2>5, Kinds DEF Closed, flagVars
    <2>7. OneEach'
      BY <2>1, <2>2 DEF PhaseInv, OneEach, flagVars
    <2> QED
      BY <2>6, <2>7 DEF PhaseInv
  <1>7. ASSUME Write PROVE PhaseInv'
    <2>1. /\ ready' = ready \o WritePosts(ready) /\ ~stopped
          /\ UNCHANGED <<flagVars, writeMsgs, rcTimer, pending>>
      BY <1>7 DEF Write, timerVars
    <2>2. \A k \in Kind : k # "startWrite" => Here'[k] = Here[k]
      <3>1. /\ \A k \in Kind : Here'[k] = Here[k] + Number(WritePosts(ready), k)
            /\ \A k \in Kind : k # "startWrite" => Number(WritePosts(ready), k) = 0
        BY <2>1, Grows, NumberWrites
      <3> QED
        BY <1>1, <3>1
    <2>3. \A k \in Op : Under'[k] = Under[k]
      BY <2>1, <2>2, Kinds DEF Under
    <2>4. Connected \/ Closing
      BY <2>1 DEF PhaseInv, Closed, Connecting
    <2>5. Connected' \/ Closing'
      BY <2>1, <2>2, <2>3, <2>4, Kinds DEF Connected, Closing, flagVars
    <2>6. OneEach'
      BY <2>1, <2>3, Kinds DEF PhaseInv, OneEach, flagVars
    <2> QED
      BY <2>5, <2>6 DEF PhaseInv
  <1> QED
    BY <1>2, <1>3, <1>4, <1>5, <1>6, <1>7 DEF Environment

(***************************************************************************)
(* Disconnecting                                                           *)
(***************************************************************************)

LEMMA ReconnectEffect ==
  ASSUME NEW p \in [Op -> Nat], NEW q \in Seq(Handler), startReconnect(p, q)
  PROVE  /\ ready' \in Seq(Handler) /\ pending' \in [Op -> Nat] /\ reconnectFlag' = 1
         /\ \A k \in Op : k # "reconnect" => pending'[k] = p[k]
         /\ ReconnectArms =>
              /\ pending'["reconnect"] = 1 /\ rcTimer' = "fresh"
              /\ \A k \in Kind :
                   Number(ready', k) = Number(q, k) + IF k = "reconnect" THEN p["reconnect"] ELSE 0
         /\ ~ReconnectArms => pending' = p /\ ready' = q /\ rcTimer' = rcTimer
  <1>0. p["reconnect"] \in Nat /\ "reconnect" \in Op
    BY DEF Op
  <1>1. PICK r \in Seq(Handler) :
          /\ r = AbortedN("reconnect", p["reconnect"])
          /\ \A k \in Kind : Number(r, k) = IF k = "reconnect" THEN p["reconnect"] ELSE 0
    BY <1>0, NumberAborted
  <1>2. CASE ReconnectArms
    <2>1. /\ pending' = [p EXCEPT !["reconnect"] = 1] /\ ready' = q \o r /\ rcTimer' = "fresh"
          /\ reconnectFlag' = 1
      BY <1>1, <1>2 DEF startReconnect, Rearm
    <2>2. /\ ready' \in Seq(Handler)
          /\ \A k \in Kind : Number(ready', k) = Number(q, k) + Number(r, k)
      BY <2>1, NumberEmpty, NumberConcat
    <2>3. \A k \in Kind :
            Number(ready', k) = Number(q, k) + IF k = "reconnect" THEN p["reconnect"] ELSE 0
      BY <1>1, <2>2
    <2> QED
      BY <1>0, <1>2, <2>1, <2>2, <2>3
  <1>3. CASE ~ReconnectArms
    BY <1>3 DEF startReconnect
  <1> QED
    BY <1>2, <1>3

LEMMA DisconnectEffect ==
  ASSUME NEW p \in [Op -> Nat], NEW q \in Seq(Handler), Disconnect(p, q)
  PROVE  /\ ready' \in Seq(Handler) /\ pending' \in [Op -> Nat] /\ stopped' /\ closed'
         /\ \A k \in Op : k # "reconnect" => pending'[k] = p[k]
         /\ \A k \in Kind : k \notin {"reconnect", "doClose"} => Number(ready', k) = Number(q, k)
         /\ Number(ready', "doClose") = Number(q, "doClose") + IF closed THEN 0 ELSE 1
         /\ isReconnect => reconnectFlag' = 1
         /\ isReconnect /\ ReconnectArms =>
              /\ pending'["reconnect"] = 1 /\ rcTimer' = "fresh"
              /\ Number(ready', "reconnect") = Number(q, "reconnect") + p["reconnect"]
         /\ ~isReconnect => UNCHANGED <<reconnectFlag, rcTimer>>
         /\ ~isReconnect \/ ~ReconnectArms =>
              /\ pending' = p /\ Number(ready', "reconnect") = Number(q, "reconnect")
              /\ rcTimer' = rcTimer
  <1>1. PICK r \in Seq(Handler) : r = q \o ClosePosts
    BY NumberClose, NumberConcat
  <1>2. \A k \in Kind : Number(r, k) = Number(q, k) + IF k = "doClose" /\ ~closed THEN 1 ELSE 0
    <2>1. ASSUME NEW k \in Kind
          PROVE  Number(r, k) = Number(q, k) + IF k = "doClose" /\ ~closed THEN 1 ELSE 0
      <3>1. ClosePosts \in Seq(Handler)
        BY NumberClose
      <3>2. Number(q \o ClosePosts, k) = Number(q, k) + Number(ClosePosts, k)
        BY <3>1, NumberConcat
      <3>3. Number(ClosePosts, k) = IF k = "doClose" /\ ~closed THEN 1 ELSE 0
        BY NumberClose
      <3> QED
        BY <1>1, <3>2, <3>3
    <2> QED
      BY <2>1
  <1>3. \A k \in Kind : Number(q, k) \in Nat /\ Number(r, k) \in Nat
    BY NumberType
  <1>4. /\ \A k \in Kind : k # "doClose" => Number(r, k) = Number(q, k)
        /\ Number(r, "doClose") = Number(q, "doClose") + IF closed THEN 0 ELSE 1
    BY <1>2, <1>3, Kinds, SMTT(30)
  <1>5. stopped' /\ closed'
    BY DEF Disconnect
  <1>6. CASE isReconnect
    <2>1. startReconnect(p, r)
      BY <1>1, <1>6 DEF Disconnect
    <2>2. /\ ready' \in Seq(Handler) /\ pending' \in [Op -> Nat] /\ reconnectFlag' = 1
          /\ \A k \in Op : k # "reconnect" => pending'[k] = p[k]
      BY <2>1, ReconnectEffect
    <2>3. CASE ReconnectArms
      <3>1. /\ pending'["reconnect"] = 1 /\ rcTimer' = "fresh"
            /\ \A k \in Kind :
                 Number(ready', k) = Number(r, k) + IF k = "reconnect" THEN p["reconnect"] ELSE 0
        BY <2>1, <2>3, ReconnectEffect
      <3>2. \A k \in Kind : k # "reconnect" => Number(ready', k) = Number(r, k)
        BY <1>3, <3>1
      <3>3. Number(ready', "reconnect") = Number(r, "reconnect") + p["reconnect"]
        BY <3>1, Kinds
      <3> QED
        BY <1>4, <1>5, <1>6, <2>2, <2>3, <3>1, <3>2, <3>3, Kinds
    <2>4. CASE ~ReconnectArms
      <3>1. pending' = p /\ ready' = r /\ rcTimer' = rcTimer
        BY <2>1, <2>4, ReconnectEffect
      <3> QED
        BY <1>4, <1>5, <1>6, <2>2, <2>4, <3>1, Kinds
    <2> QED
      BY <2>3, <2>4
  <1>7. CASE ~isReconnect
    <2>1. pending' = p /\ ready' = r /\ UNCHANGED <<reconnectFlag, rcTimer>>
      BY <1>1, <1>7 DEF Disconnect
    <2> QED
      BY <1>4, <1>5, <1>7, <2>1, Kinds
  <1> QED
    BY <1>6, <1>7

(* A connection that breaks is then closing, on operations p and handlers  *)
(* q that hold no more writes and waits than before.                       *)
LEMMA BreaksLive ==
  ASSUME ClientTypeOK, PhaseInv, ~stopped,
         NEW p \in [Op -> Nat], NEW q \in Seq(Handler), Disconnect(p, q),
         p["reconnect"] = pending["reconnect"], p["connect"] = pending["connect"],
         p["write"] + Number(q, "write") <= 1, p["heartbeat"] + Number(q, "heartbeat") <= 1,
         Number(q, "doClose") = Here["doClose"], Number(q, "reconnect") = Here["reconnect"],
         Number(q, "connect") = Here["connect"]
  PROVE  PhaseInv'
  <1>1. /\ Here \in [Kind -> Nat] /\ Under \in [Op -> Nat] /\ pending \in [Op -> Nat]
        /\ \A op \in Op : Under[op] = pending[op] + Here[op]
    BY HereType DEF ClientTypeOK
  <1>2. /\ \A k \in Kind : Here'[k] = Number(ready', k)
        /\ \A k \in Op : Under'[k] = pending'[k] + Here'[k]
    BY DEF Here, Under, Kind
  <1>3. stopped' /\ closed'
    BY DisconnectEffect
  <1>4. OneEach'
    <2>1. /\ pending'["write"] = p["write"] /\ pending'["heartbeat"] = p["heartbeat"]
          /\ Here'["write"] = Number(q, "write") /\ Here'["heartbeat"] = Number(q, "heartbeat")
      BY <1>2, DisconnectEffect, Kinds
    <2> QED
      BY <1>2, <1>3, <2>1, Kinds DEF OneEach
  <1>5. /\ Here'["doClose"] = Here["doClose"] + IF closed THEN 0 ELSE 1
        /\ Here'["connect"] = Here["connect"] /\ pending'["connect"] = pending["connect"]
    BY <1>2, DisconnectEffect, Kinds
  <1>6. Under["connect"] = 0 /\ Under'["connect"] = 0
    <2>1. Under["connect"] = 0
      BY DEF PhaseInv, Connected, Closing, Closed, Connecting
    <2> QED
      BY <1>1, <1>2, <1>5, <2>1, Kinds
  <1>7. Here'["doClose"] = 1
    BY <1>1, <1>5 DEF PhaseInv, Connected, Closing, Closed, Connecting
  <1>8. Here'["reconnect"] = 0 /\ pending'["reconnect"] = reconnectFlag'
        /\ (reconnectFlag' = 1 => rcTimer' = "fresh")
    <2>1. CASE Connected
      <3>1. pending["reconnect"] = 0 /\ Here["reconnect"] = 0 /\ ReconnectArms
        <4>1. /\ pending["reconnect"] \in Nat /\ Here["reconnect"] \in Nat
              /\ Under["reconnect"] = pending["reconnect"] + Here["reconnect"]
          BY <1>1, Kinds
        <4>2. Under["reconnect"] = 0 /\ ReconnectArms
          BY <2>1 DEF Connected, ReconnectArms
        <4> QED
          BY <4>1, <4>2
      <3>2. CASE isReconnect
        <4>1. /\ reconnectFlag' = 1 /\ pending'["reconnect"] = 1 /\ rcTimer' = "fresh"
              /\ Number(ready', "reconnect") = Number(q, "reconnect") + p["reconnect"]
          BY <3>1, <3>2, DisconnectEffect
        <4>2. Here'["reconnect"] = Number(ready', "reconnect")
          BY <1>2, Kinds
        <4>3. p["reconnect"] = 0 /\ Number(q, "reconnect") = 0
          BY <3>1
        <4> QED
          BY <4>1, <4>2, <4>3
      <3>3. CASE ~isReconnect
        <4>1. /\ reconnectFlag' = reconnectFlag /\ pending' = p
              /\ Number(ready', "reconnect") = Number(q, "reconnect")
          BY <3>3, DisconnectEffect
        <4> QED
          BY <1>2, <2>1, <3>1, <4>1, Kinds DEF Connected
      <3> QED
        BY <3>2, <3>3
    <2>2. CASE Closing
      <3>1. reconnectFlag = 1 /\ rcTimer = "fresh" /\ ~ReconnectArms
        BY <2>2 DEF Closing, ReconnectArms
      <3>2. /\ reconnectFlag' = 1 /\ pending' = p /\ rcTimer' = rcTimer
            /\ Number(ready', "reconnect") = Number(q, "reconnect")
        BY <3>1, DisconnectEffect
      <3> QED
        BY <1>2, <2>2, <3>1, <3>2, Kinds DEF Closing
    <2> QED
      BY <2>1, <2>2 DEF PhaseInv, Closed, Connecting
  <1> QED
    BY <1>3, <1>4, <1>6, <1>7, <1>8 DEF PhaseInv, Closing

(***************************************************************************)
(* The handlers                                                            *)
(***************************************************************************)

(* Only the live phases have a handler that runs while not stopped, and    *)
(* they outlast a handler that moves reads, writes and waits about.        *)
LEMMA StaysLive ==
  ASSUME ClientTypeOK, PhaseInv, ~stopped, UNCHANGED <<flagVars, rcTimer>>,
         Here'["doClose"] = Here["doClose"], Here'["connect"] = Here["connect"],
         Here'["reconnect"] = Here["reconnect"],
         pending'["connect"] = pending["connect"], pending'["reconnect"] = pending["reconnect"],
         OneEach'
  PROVE  PhaseInv'
  <1>1. Connected \/ Closing
    BY DEF PhaseInv, Closed, Connecting
  <1>2. /\ Under'["connect"] = Under["connect"] /\ Under'["reconnect"] = Under["reconnect"]
    BY Kinds DEF Under
  <1>3. Connected' \/ Closing'
    BY <1>1, <1>2 DEF Connected, Closing, flagVars
  <1> QED
    BY <1>3 DEF PhaseInv

(* The handlers of a live connection that break nothing. *)
LEMMA LiveHandlerKeeps ==
  ASSUME ClientTypeOK, PhaseInv, ~stopped,
         startWrite \/ handleWriteOk \/ checkHeartbeatEarly \/ checkHeartbeatSends
           \/ (handleReadBodyOk /\ longs' = longs)
  PROVE  PhaseInv'
  <1>1. /\ Here \in [Kind -> Nat] /\ pending \in [Op -> Nat] /\ Under \in [Op -> Nat]
        /\ \A op \in Op : Under[op] = pending[op] + Here[op]
        /\ \A op \in Op : Under'[op] = pending'[op] + Here'[op]
    BY HereType DEF ClientTypeOK, Under
  <1>2. /\ Under["write"] <= 1 /\ Under["heartbeat"] <= 1
        /\ Under["readHeader"] + Under["readBody"] = 1
        /\ Under["write"] = 1 <=> writeMsgs > 0
        /\ writeMsgs >= 0 /\ writeMsgs \in Int
    BY DEF PhaseInv, OneEach, ClientTypeOK
  <1>3. CASE startWrite
    <2>1. /\ ready # <<>> /\ Head(ready).op = "startWrite" /\ ready' = Tail(ready)
          /\ writeMsgs' = writeMsgs + 1 /\ UNCHANGED <<flagVars, rcTimer>>
          /\ pending' = IF writeMsgs = 0 THEN Start(pending, "write") ELSE pending
      BY <1>3 DEF startWrite, Runs, timerVars
    <2>2. \A k \in Op : Here'[k] = Here[k] /\ Here'["doClose"] = Here["doClose"]
      BY <2>1, RunsOnly, Kinds
    <2>3. /\ pending'["write"] = pending["write"] + IF writeMsgs = 0 THEN 1 ELSE 0
          /\ \A k \in Op : k # "write" => pending'[k] = pending[k]
      BY <1>1, <2>1, Kinds DEF Start
    <2>4. /\ Under'["write"] = Under["write"] + IF writeMsgs = 0 THEN 1 ELSE 0
          /\ \A k \in Op : k # "write" => Under'[k] = Under[k]
      BY <1>1, <2>2, <2>3, Kinds
    <2>5. OneEach'
      <3>1. Under["write"] \in Nat
        BY <1>1, Kinds
      <3> QED
        BY <1>2, <2>1, <2>4, <3>1, Kinds DEF OneEach, flagVars
    <2> QED
      BY <2>1, <2>2, <2>3, <2>5, StaysLive, Kinds
  <1>4. CASE handleWriteOk
    <2>1. /\ ready # <<>> /\ Head(ready).op = "write" /\ ready' = Tail(ready)
          /\ writeMsgs' = writeMsgs - 1 /\ UNCHANGED <<flagVars, rcTimer>>
          /\ pending' = IF writeMsgs' # 0 THEN Start(pending, "write") ELSE pending
      BY <1>4 DEF handleWriteOk, Runs, timerVars
    <2>2. /\ \A k \in Kind : k # "write" => Here'[k] = Here[k]
          /\ Here'["write"] = Here["write"] - 1 /\ Here["write"] > 0
      BY <2>1, RunsOnly, Kinds
    <2>3. /\ pending'["write"] = pending["write"] + IF writeMsgs' # 0 THEN 1 ELSE 0
          /\ \A k \in Op : k # "write" => pending'[k] = pending[k]
      BY <1>1, <2>1, Kinds DEF Start
    <2>4. \A k \in Op : k # "write" => Under'[k] = Under[k]
      BY <1>1, <2>2, <2>3, Kinds
    <2>5. /\ pending["write"] \in Nat /\ Here["write"] \in Nat
          /\ Under["write"] = pending["write"] + Here["write"]
          /\ Under'["write"] = pending'["write"] + Here'["write"]
      BY <1>1, Kinds
    <2>6. OneEach'
      BY <1>2, <2>1, <2>2, <2>3, <2>4, <2>5, Kinds DEF OneEach, flagVars
    <2> QED
      BY <2>1, <2>2, <2>3, <2>6, StaysLive, Kinds
  <1>5. CASE checkHeartbeatEarly
    <2>1. /\ ready # <<>> /\ Head(ready).op = "heartbeat" /\ ready' = Tail(ready)
          /\ pending' = Start(pending, "heartbeat")
          /\ UNCHANGED <<flagVars, rcTimer, writeMsgs>>
      BY <1>5 DEF checkHeartbeatEarly, Runs, timerVars
    <2>2. /\ \A k \in Kind : k # "heartbeat" => Here'[k] = Here[k]
          /\ Here'["heartbeat"] = Here["heartbeat"] - 1
      BY <2>1, RunsOnly, Kinds
    <2>3. /\ pending'["heartbeat"] = pending["heartbeat"] + 1
          /\ \A k \in Op : k # "heartbeat" => pending'[k] = pending[k]
      BY <1>1, <2>1, Kinds DEF Start
    <2>4. \A k \in Op : k # "heartbeat" => Under'[k] = Under[k]
      BY <1>1, <2>2, <2>3, Kinds
    <2>5. Under'["heartbeat"] = Under["heartbeat"]
      <3>1. /\ pending["heartbeat"] \in Nat /\ Here["heartbeat"] \in Nat
            /\ Under["heartbeat"] = pending["heartbeat"] + Here["heartbeat"]
            /\ Under'["heartbeat"] = pending'["heartbeat"] + Here'["heartbeat"]
        BY <1>1, Kinds
      <3> QED
        BY <2>2, <2>3, <3>1
    <2>6. OneEach'
      BY <1>2, <2>1, <2>4, <2>5, Kinds DEF OneEach, flagVars
    <2> QED
      BY <2>1, <2>2, <2>3, <2>6, StaysLive, Kinds
  <1>6. CASE checkHeartbeatSends
    <2> DEFINE w == WritePosts(Tail(ready))
               a == AbortedN("heartbeat", pending["heartbeat"])
    <2>1. /\ ready # <<>> /\ Head(ready).op = "heartbeat"
          /\ ready' = (Tail(ready) \o w) \o a
          /\ pending' = Rearm(pending, "heartbeat")
          /\ UNCHANGED <<flagVars, rcTimer, writeMsgs>>
      BY <1>6 DEF checkHeartbeatSends, Runs
    <2>2. /\ w \in Seq(Handler) /\ a \in Seq(Handler)
          /\ \A k \in Kind : k # "startWrite" => Number(w, k) = 0
          /\ \A k \in Kind : Number(a, k) = IF k = "heartbeat" THEN pending["heartbeat"] ELSE 0
      BY <1>1, NumberWrites, NumberAborted, Kinds
    <2> HIDE DEF w, a
    <2>3. PICK r \in Seq(Handler) : r = w \o a
      BY <2>2, NumberConcat
    <2>4. ready' = Tail(ready) \o r
      <3>1. Tail(ready) \in Seq(Handler)
        BY <2>1, NumberTail DEF ClientTypeOK
      <3> QED
        BY <2>1, <2>2, <2>3, <3>1, ConcatAssociative, SMTT(30)
    <2>5. \A k \in Kind : Number(r, k) = Number(w, k) + Number(a, k)
      BY <2>2, <2>3, NumberConcat
    <2>6. \A k \in Kind : Here'[k] = Here[k] - (IF Head(ready).op = k THEN 1 ELSE 0) + Number(r, k)
      BY <2>1, <2>4, RunsEffect
    <2>7. /\ \A k \in Op : k # "heartbeat" => Here'[k] = Here[k]
          /\ Here'["doClose"] = Here["doClose"]
          /\ Here'["heartbeat"] = Here["heartbeat"] - 1 + pending["heartbeat"]
      <3>1. \A k \in Kind : k \notin {"heartbeat", "startWrite"} => Number(r, k) = 0
        BY <2>2, <2>5
      <3>2. Number(r, "heartbeat") = pending["heartbeat"]
        <4>1. pending["heartbeat"] \in Nat
          BY <1>1, Kinds
        <4> QED
          BY <2>2, <2>5, <4>1, Kinds
      <3>3. \A k \in Kind : k \notin {"heartbeat", "startWrite"} => Here'[k] = Here[k]
        BY <1>1, <2>1, <2>6, <3>1
      <3>4. Here'["heartbeat"] = Here["heartbeat"] - 1 + pending["heartbeat"]
        BY <2>1, <2>6, <3>2, Kinds
      <3> QED
        BY <3>3, <3>4, Kinds
    <2>8. /\ pending'["heartbeat"] = 1
          /\ \A k \in Op : k # "heartbeat" => pending'[k] = pending[k]
      BY <1>1, <2>1, Kinds DEF Rearm
    <2>9. \A k \in Op : k # "heartbeat" => Under'[k] = Under[k]
      BY <1>1, <2>7, <2>8, Kinds, ZenonT(30)
    <2>10. Under'["heartbeat"] = Under["heartbeat"]
      <3>1. /\ pending["heartbeat"] \in Nat /\ Here["heartbeat"] \in Nat
            /\ Under["heartbeat"] = pending["heartbeat"] + Here["heartbeat"]
            /\ Under'["heartbeat"] = pending'["heartbeat"] + Here'["heartbeat"]
        BY <1>1, Kinds
      <3> QED
        BY <2>7, <2>8, <3>1
    <2>11. OneEach'
      BY <1>2, <2>1, <2>9, <2>10, Kinds DEF OneEach, flagVars
    <2> QED
      BY <2>1, <2>7, <2>8, <2>11, StaysLive, Kinds
  <1>7. CASE handleReadBodyOk /\ longs' = longs
    <2>1. /\ ready # <<>> /\ Head(ready).op = "readBody" /\ ready' = Tail(ready)
          /\ pending' = Start(pending, "readHeader")
          /\ UNCHANGED <<flagVars, rcTimer, writeMsgs>>
      BY <1>7 DEF handleReadBodyOk, Runs, ClientTypeOK
    <2>2. /\ \A k \in Kind : k # "readBody" => Here'[k] = Here[k]
          /\ Here'["readBody"] = Here["readBody"] - 1
      BY <2>1, RunsOnly, Kinds
    <2>3. /\ pending'["readHeader"] = pending["readHeader"] + 1
          /\ \A k \in Op : k # "readHeader" => pending'[k] = pending[k]
      BY <1>1, <2>1, Kinds DEF Start
    <2>4. \A k \in Op : k \notin {"readHeader", "readBody"} => Under'[k] = Under[k]
      BY <1>1, <2>2, <2>3, Kinds
    <2>5. Under'["readHeader"] + Under'["readBody"] = 1
      <3>1. /\ pending["readHeader"] \in Nat /\ Here["readHeader"] \in Nat
            /\ pending["readBody"] \in Nat /\ Here["readBody"] \in Nat
            /\ Under["readHeader"] = pending["readHeader"] + Here["readHeader"]
            /\ Under["readBody"] = pending["readBody"] + Here["readBody"]
            /\ Under'["readHeader"] = pending'["readHeader"] + Here'["readHeader"]
            /\ Under'["readBody"] = pending'["readBody"] + Here'["readBody"]
            /\ Here'["readHeader"] = Here["readHeader"]
            /\ pending'["readBody"] = pending["readBody"]
        BY <1>1, <2>2, <2>3, Kinds
      <3> QED
        BY <1>2, <2>2, <2>3, <3>1
    <2>6. OneEach'
      BY <1>2, <2>1, <2>4, <2>5, Kinds DEF OneEach, flagVars
    <2> QED
      BY <2>1, <2>2, <2>3, <2>6, StaysLive, Kinds
  <1> QED
    BY <1>3, <1>4, <1>5, <1>6, <1>7

(* The queue without the handler that runs. *)
LEMMA TailCounts ==
  ASSUME ClientTypeOK, ready # <<>>
  PROVE  /\ Tail(ready) \in Seq(Handler)
         /\ \A k \in Kind : Number(Tail(ready), k) = IF Head(ready).op = k THEN Here[k] - 1 ELSE Here[k]
  <1>1. ready \in Seq(Handler) /\ Tail(ready) \in Seq(Handler)
    BY NumberTail DEF ClientTypeOK
  <1>2. ASSUME NEW k \in Kind
        PROVE  Number(Tail(ready), k) = IF Head(ready).op = k THEN Here[k] - 1 ELSE Here[k]
    <2>1. /\ Number(ready, k) = Number(Tail(ready), k) + (IF Head(ready).op = k THEN 1 ELSE 0)
          /\ Number(Tail(ready), k) \in Nat /\ Here[k] = Number(ready, k)
      BY <1>1, NumberTail, NumberType, HereType
    <2> QED
      BY <2>1
  <1> QED
    BY <1>1, <1>2

(* A failed read or write, or a bad header. *)
LEMMA BreakKeeps ==
  ASSUME ClientTypeOK, PhaseInv, TransferFails \/ handleReadHeaderOk
  PROVE  PhaseInv'
  <1>1. /\ Here \in [Kind -> Nat] /\ pending \in [Op -> Nat] /\ Under \in [Op -> Nat]
        /\ \A op \in Op : Under[op] = pending[op] + Here[op]
        /\ \A op \in Op : Under'[op] = pending'[op] + Here'[op]
    BY HereType DEF ClientTypeOK, Under
  <1>2. /\ ~stopped /\ ready # <<>> /\ Head(ready).op \in {"readHeader", "readBody", "write"}
    BY DEF TransferFails, handleReadHeaderOk, Runs
  <1>3. /\ Under["write"] <= 1 /\ Under["heartbeat"] <= 1
        /\ Under["readHeader"] + Under["readBody"] = 1
        /\ Under["write"] = 1 <=> writeMsgs > 0
        /\ writeMsgs >= 0
    BY <1>2 DEF PhaseInv, OneEach
  <1>4. /\ Tail(ready) \in Seq(Handler)
        /\ Number(Tail(ready), "doClose") = Here["doClose"]
        /\ Number(Tail(ready), "reconnect") = Here["reconnect"]
        /\ Number(Tail(ready), "connect") = Here["connect"]
        /\ Number(Tail(ready), "heartbeat") = Here["heartbeat"]
        /\ Number(Tail(ready), "write") <= Here["write"]
        /\ Number(Tail(ready), "write") \in Nat
    <2>1. Number(Tail(ready), "write") \in Nat /\ Tail(ready) \in Seq(Handler)
      BY <1>2, TailCounts, NumberType
    <2>2. /\ Number(Tail(ready), "doClose") = Here["doClose"]
          /\ Number(Tail(ready), "reconnect") = Here["reconnect"]
          /\ Number(Tail(ready), "connect") = Here["connect"]
          /\ Number(Tail(ready), "heartbeat") = Here["heartbeat"]
      BY <1>2, TailCounts, Kinds
    <2>3. Number(Tail(ready), "write") <= Here["write"]
      <3>1. /\ Number(Tail(ready), "write") = IF Head(ready).op = "write" THEN Here["write"] - 1
                                              ELSE Here["write"]
            /\ Here["write"] \in Nat
        BY <1>1, <1>2, TailCounts, Kinds
      <3> QED
        BY <3>1
    <2> QED
      BY <2>1, <2>2, <2>3
  <1>5. ASSUME NEW p \in [Op -> Nat], Disconnect(p, Tail(ready)),
               p["reconnect"] = pending["reconnect"], p["connect"] = pending["connect"],
               p["write"] = pending["write"], p["heartbeat"] = pending["heartbeat"]
        PROVE  PhaseInv'
    <2>1. /\ p["write"] + Number(Tail(ready), "write") <= 1
          /\ p["heartbeat"] + Number(Tail(ready), "heartbeat") <= 1
      <3>1. /\ pending["write"] \in Nat /\ pending["heartbeat"] \in Nat
            /\ Here["write"] \in Nat /\ Here["heartbeat"] \in Nat
            /\ Under["write"] = pending["write"] + Here["write"]
            /\ Under["heartbeat"] = pending["heartbeat"] + Here["heartbeat"]
        BY <1>1, Kinds
      <3> QED
        BY <1>3, <1>4, <1>5, <3>1
    <2> QED
      BY <1>2, <1>4, <1>5, <2>1, BreaksLive
  <1>6. CASE TransferFails
    BY <1>1, <1>5, <1>6 DEF TransferFails
  <1>7. CASE handleReadHeaderOk
    <2>1. PICK bad \in BOOLEAN :
            IF bad THEN Disconnect(Start(pending, "readBody"), Tail(ready))
            ELSE /\ pending' = Start(pending, "readBody") /\ ready' = Tail(ready)
                 /\ UNCHANGED <<flagVars, rcTimer>>
      BY <1>7 DEF handleReadHeaderOk
    <2>2. writeMsgs' = writeMsgs /\ Head(ready).op = "readHeader"
      BY <1>7 DEF handleReadHeaderOk, Runs
    <2>3. PICK p \in [Op -> Nat] :
            /\ p = Start(pending, "readBody")
            /\ p["readBody"] = pending["readBody"] + 1
            /\ \A k \in Op : k # "readBody" => p[k] = pending[k]
      <3> DEFINE f == Start(pending, "readBody")
      <3>1. /\ f \in [Op -> Nat] /\ f["readBody"] = pending["readBody"] + 1
            /\ \A k \in Op : k # "readBody" => f[k] = pending[k]
        BY <1>1, Kinds DEF Start
      <3> QED
        BY <3>1
    <2>4. CASE bad
      BY <1>5, <2>1, <2>3, <2>4, Kinds
    <2>5. CASE ~bad
      <3>1. pending' = p /\ ready' = Tail(ready) /\ UNCHANGED <<flagVars, rcTimer>>
        BY <2>1, <2>3, <2>5
      <3>2. /\ \A k \in Kind : k # "readHeader" => Here'[k] = Here[k]
            /\ Here'["readHeader"] = Here["readHeader"] - 1
        BY <1>2, <2>2, <3>1, RunsOnly, Kinds
      <3>3. \A k \in Op : k \notin {"readHeader", "readBody"} => Under'[k] = Under[k]
        BY <1>1, <2>3, <3>1, <3>2, Kinds, ZenonT(30)
      <3>4. Under'["readHeader"] + Under'["readBody"] = 1
        <4>1. /\ pending["readHeader"] \in Nat /\ Here["readHeader"] \in Nat
              /\ pending["readBody"] \in Nat /\ Here["readBody"] \in Nat
              /\ Under["readHeader"] = pending["readHeader"] + Here["readHeader"]
              /\ Under["readBody"] = pending["readBody"] + Here["readBody"]
              /\ Under'["readHeader"] = pending'["readHeader"] + Here'["readHeader"]
              /\ Under'["readBody"] = pending'["readBody"] + Here'["readBody"]
              /\ Here'["readBody"] = Here["readBody"]
              /\ pending'["readHeader"] = pending["readHeader"]
          BY <1>1, <2>3, <3>1, <3>2, Kinds
        <4>2. /\ pending'["readBody"] = pending["readBody"] + 1
              /\ Here'["readHeader"] = Here["readHeader"] - 1
          BY <2>3, <3>1, <3>2
        <4> QED
          BY <1>3, <4>1, <4>2
      <3>5. OneEach'
        BY <1>2, <1>3, <2>2, <3>1, <3>3, <3>4, Kinds DEF OneEach, flagVars
      <3> QED
        BY <1>2, <2>3, <3>1, <3>2, <3>5, StaysLive, Kinds
    <2> QED
      BY <2>4, <2>5
  <1> QED
    BY <1>6, <1>7

(* A handler left over when the connection was closed. *)
LEMMA LeftOverKeeps ==
  ASSUME ClientTypeOK, PhaseInv, ReturnsIfStopped
  PROVE  PhaseInv'
  <1>1. /\ Here \in [Kind -> Nat] /\ pending \in [Op -> Nat] /\ Under \in [Op -> Nat]
        /\ \A op \in Op : Under[op] = pending[op] + Here[op]
        /\ \A op \in Op : Under'[op] = pending'[op] + Here'[op]
    BY HereType DEF ClientTypeOK, Under
  <1>2. /\ stopped /\ ready # <<>> /\ ready' = Tail(ready)
        /\ Head(ready).op \in {"readHeader", "readBody", "write", "startWrite", "heartbeat"}
        /\ UNCHANGED <<flagVars, rcTimer, writeMsgs, pending>>
    BY DEF ReturnsIfStopped, timerVars
  <1>3. /\ Here' \in [Kind -> Nat] /\ Head(ready).op \in Kind /\ Here[Head(ready).op] > 0
        /\ \A op \in Kind : Here'[op] = IF Head(ready).op = op THEN Here[op] - 1 ELSE Here[op]
    BY <1>2, RunsOnly
  <1>4. /\ Here'["doClose"] = Here["doClose"] /\ Here'["connect"] = Here["connect"]
        /\ Here'["reconnect"] = Here["reconnect"]
        /\ Under'["connect"] = Under["connect"] /\ Under'["reconnect"] = Under["reconnect"]
    BY <1>1, <1>2, <1>3, Kinds
  <1>5. \A op \in Kind : Here'[op] <= Here[op]
    <2>1. \A op \in Kind : Here[op] \in Nat
      BY <1>1
    <2> QED
      BY <1>3, <2>1
  <1>6. OneEach'
    <2>1. ASSUME NEW k \in Op PROVE Under'[k] \in Nat /\ Under[k] \in Nat /\ Under'[k] <= Under[k]
      <3>1. /\ k \in Kind /\ pending[k] \in Nat /\ Here[k] \in Nat /\ Here'[k] \in Nat
            /\ Here'[k] <= Here[k] /\ pending'[k] = pending[k]
            /\ Under[k] = pending[k] + Here[k] /\ Under'[k] = pending'[k] + Here'[k]
        BY <1>1, <1>2, <1>3, <1>5 DEF Kind
      <3> QED
        BY <3>1
    <2>2. /\ Under'["write"] \in Nat /\ Under'["heartbeat"] \in Nat
          /\ Under["write"] \in Nat /\ Under["heartbeat"] \in Nat
          /\ Under'["write"] <= Under["write"] /\ Under'["heartbeat"] <= Under["heartbeat"]
      BY <2>1, Kinds
    <2> QED
      BY <1>2, <2>1, <2>2 DEF PhaseInv, OneEach, flagVars
  <1>7. ~Connecting
    <2>1. \A op \in Kind : op # "connect" => Here[op] = 0 \/ ~Connecting
      <3> SUFFICES ASSUME NEW op \in Kind, op # "connect", Connecting PROVE Here[op] = 0
        OBVIOUS
      <3>1. CASE op \in Posted
        BY <3>1 DEF Connecting
      <3>2. CASE op \in Op
        <4>1. Under[op] = 0 /\ pending[op] \in Nat /\ Here[op] \in Nat
          BY <1>1, <3>2 DEF Connecting
        <4> QED
          BY <1>1, <3>2, <4>1
      <3> QED
        BY <3>1, <3>2 DEF Kind
    <2> QED
      BY <1>2, <1>3, <2>1
  <1>8. Closing => Closing'
    BY <1>2, <1>4 DEF Closing, flagVars
  <1>9. Closed => Closed'
    <2> SUFFICES ASSUME Closed PROVE Closed'
      OBVIOUS
    <2>1. ~(Here["reconnect"] = 1 \/ (pending["reconnect"] = 1 /\ rcTimer = "running"))
      BY <1>2, <1>3 DEF Closed
    <2> QED
      BY <1>2, <1>4, <2>1 DEF Closed, flagVars
  <1> QED
    BY <1>2, <1>6, <1>7, <1>8, <1>9 DEF PhaseInv, Connected

(* Only Connecting has a connection attempt: then nothing else is there.   *)
LEMMA AttemptAlone ==
  ASSUME ClientTypeOK, PhaseInv, Runs("connect")
  PROVE  /\ Connecting /\ ready # <<>>
         /\ \A k \in Op : pending[k] = 0
         /\ \A k \in Kind : Number(Tail(ready), k) = 0
  <1>1. /\ Here \in [Kind -> Nat] /\ pending \in [Op -> Nat]
        /\ \A op \in Op : Under[op] = pending[op] + Here[op]
    BY HereType DEF ClientTypeOK
  <1>2. /\ ready # <<>> /\ Head(ready).op = "connect" /\ Tail(ready) \in Seq(Handler)
        /\ \A k \in Kind : Number(Tail(ready), k) = IF "connect" = k THEN Here[k] - 1 ELSE Here[k]
    BY TailCounts DEF Runs
  <1>3. Number(Tail(ready), "connect") \in Nat /\ Number(Tail(ready), "connect") = Here["connect"] - 1
    BY <1>2, NumberType, Kinds
  <1>4. pending["connect"] \in Nat /\ Here["connect"] \in Nat /\ Under["connect"] = pending["connect"] + Here["connect"]
    BY <1>1, Kinds
  <1>5. Connecting
    <2>1. Under["connect"] > 0
      BY <1>3, <1>4
    <2> QED
      BY <2>1 DEF PhaseInv, Connected, Closing, Closed
  <1>6. pending["connect"] = 0 /\ Here["connect"] = 1
    <2>1. Under["connect"] = 1
      BY <1>5 DEF Connecting
    <2> QED
      BY <1>3, <1>4, <2>1
  <1>7. ASSUME NEW k \in Op, k # "connect" PROVE pending[k] = 0 /\ Here[k] = 0
    <2>1. Under[k] = 0 /\ Under[k] = pending[k] + Here[k] /\ pending[k] \in Nat /\ Here[k] \in Nat
      BY <1>1, <1>5, <1>7 DEF Connecting, Kind
    <2> QED
      BY <2>1
  <1>8. \A k \in Posted : Here[k] = 0
    BY <1>5 DEF Connecting
  <1>9. \A k \in Kind : k # "connect" => Here[k] = 0
    BY <1>7, <1>8 DEF Kind
  <1> QED
    BY <1>2, <1>5, <1>6, <1>7, <1>9

LEMMA ConnectKeeps ==
  ASSUME ClientTypeOK, PhaseInv, handleConnectOk \/ handleConnectFail
  PROVE  PhaseInv'
  <1>0. Runs("connect")
    BY DEF handleConnectOk, handleConnectFail
  <1>1. /\ Connecting /\ ready # <<>> /\ Tail(ready) \in Seq(Handler)
        /\ \A k \in Op : pending[k] = 0
        /\ \A k \in Kind : Number(Tail(ready), k) = 0
    BY <1>0, AttemptAlone, TailCounts
  <1>2. /\ \A k \in Kind : Here'[k] = Number(ready', k)
        /\ \A k \in Op : Under'[k] = pending'[k] + Here'[k]
        /\ pending \in [Op -> Nat]
    BY DEF Here, Under, Kind, ClientTypeOK
  <1>3. CASE handleConnectOk
    <2> DEFINE w == WritePosts(Tail(ready))
               a == AbortedN("heartbeat", pending["heartbeat"])
    <2>1. /\ ready' = (Tail(ready) \o w) \o a
          /\ pending' = Rearm(Start(pending, "readHeader"), "heartbeat")
          /\ ~stopped' /\ ~closed' /\ reconnectFlag' = 0 /\ writeMsgs' = writeMsgs
      BY <1>3 DEF handleConnectOk
    <2>2. w \in Seq(Handler) /\ \A k \in Kind : k # "startWrite" => Number(w, k) = 0
      BY NumberWrites
    <2>3. a \in Seq(Handler) /\ \A k \in Kind : Number(a, k) = 0
      <3>1. pending["heartbeat"] = 0
        BY <1>1, Kinds
      <3>2. /\ a \in Seq(Handler)
            /\ \A k \in Kind : Number(a, k) = IF k = "heartbeat" THEN pending["heartbeat"] ELSE 0
        BY <3>1, NumberAborted, Kinds
      <3> QED
        BY <3>1, <3>2
    <2> HIDE DEF w, a
    <2>4. /\ Tail(ready) \o w \in Seq(Handler)
          /\ \A k \in Kind : Number(Tail(ready) \o w, k) = Number(Tail(ready), k) + Number(w, k)
      BY <1>1, <2>2, NumberConcat
    <2>5. \A k \in Kind : Number(ready', k) = Number(Tail(ready) \o w, k) + Number(a, k)
      BY <2>1, <2>3, <2>4, NumberConcat
    <2>6. \A k \in Kind : k # "startWrite" => Here'[k] = 0
      BY <1>1, <1>2, <2>2, <2>3, <2>4, <2>5
    <2>7. /\ pending'["readHeader"] = 1 /\ pending'["heartbeat"] = 1
          /\ \A k \in Op : k \notin {"readHeader", "heartbeat"} => pending'[k] = 0
      BY <1>1, <1>2, <2>1, Kinds DEF Rearm, Start
    <2>8. /\ Under'["readHeader"] = 1 /\ Under'["heartbeat"] = 1
          /\ \A k \in Op : k \notin {"readHeader", "heartbeat"} => Under'[k] = 0
      BY <1>2, <2>6, <2>7, Kinds
    <2>9. Connected'
      BY <2>1, <2>6, <2>8, Kinds DEF Connected
    <2>10. OneEach'
      BY <1>1, <2>1, <2>8, Kinds DEF OneEach, Connecting
    <2> QED
      BY <2>9, <2>10 DEF PhaseInv
  <1>4. CASE handleConnectFail
    <2>1. PICK p, q :
            /\ p = IF ~Head(ready).ok THEN WithoutSocketOps(pending) ELSE pending
            /\ q = Tail(ready) \o (IF ~Head(ready).ok THEN SocketAborts(pending) ELSE <<>>)
            /\ Disconnect(p, q) /\ writeMsgs' = writeMsgs
      BY <1>4 DEF handleConnectFail
    <2>2. p \in [Op -> Nat] /\ \A k \in Op : p[k] = 0
      BY <1>1, <1>2, <2>1 DEF WithoutSocketOps
    <2>3. q \in Seq(Handler) /\ \A k \in Kind : Number(q, k) = 0
      <3>1. PICK r \in Seq(Handler) :
              /\ r = IF ~Head(ready).ok THEN SocketAborts(pending) ELSE <<>>
              /\ \A k \in Kind : Number(r, k) = 0
        <4>1. CASE ~Head(ready).ok
          <5>1. /\ SocketAborts(pending) \in Seq(Handler)
                /\ \A k \in Kind :
                     Number(SocketAborts(pending), k) = IF k \in SocketOps THEN pending[k] ELSE 0
            BY <1>2, NumberSocket, Kinds
          <5>2. \A k \in SocketOps : pending[k] = 0
            BY <1>1, Kinds DEF SocketOps
          <5> QED
            BY <4>1, <5>1, <5>2
        <4>2. CASE Head(ready).ok
          BY <4>2, NumberEmpty
        <4> QED
          BY <4>1, <4>2
      <3>2. q = Tail(ready) \o r
        BY <2>1, <3>1
      <3>3. /\ q \in Seq(Handler)
            /\ \A k \in Kind : Number(q, k) = Number(Tail(ready), k) + Number(r, k)
        BY <1>1, <3>2, NumberConcat
      <3> QED
        BY <1>1, <3>1, <3>3
    <2>4. /\ stopped' /\ closed' /\ writeMsgs' = 0
          /\ \A k \in Op : k # "reconnect" => pending'[k] = 0
          /\ \A k \in Kind : k \notin {"reconnect", "doClose"} => Here'[k] = 0
          /\ Here'["doClose"] = IF closed THEN 0 ELSE 1
      <3>1. /\ stopped' /\ closed'
            /\ \A k \in Op : k # "reconnect" => pending'[k] = p[k]
            /\ \A k \in Kind : k \notin {"reconnect", "doClose"} => Number(ready', k) = Number(q, k)
            /\ Number(ready', "doClose") = Number(q, "doClose") + IF closed THEN 0 ELSE 1
        BY <2>1, <2>2, <2>3, DisconnectEffect
      <3>2. writeMsgs' = 0
        BY <1>1, <2>1 DEF Connecting
      <3> QED
        BY <1>2, <2>2, <2>3, <3>1, <3>2, Kinds
    <2>5. \A k \in Op : k # "reconnect" => Under'[k] = 0
      BY <1>2, <2>4, Kinds
    <2>6. OneEach'
      BY <2>4, <2>5, Kinds DEF OneEach
    <2>7. /\ Here'["reconnect"] = 0
          /\ isReconnect /\ ReconnectArms =>
               pending'["reconnect"] = 1 /\ rcTimer' = "fresh" /\ reconnectFlag' = 1
          /\ ~isReconnect \/ ~ReconnectArms => pending'["reconnect"] = 0
          /\ ~isReconnect => reconnectFlag' = reconnectFlag
      <3>1. /\ isReconnect => reconnectFlag' = 1
            /\ isReconnect /\ ReconnectArms =>
                 /\ pending'["reconnect"] = 1 /\ rcTimer' = "fresh"
                 /\ Number(ready', "reconnect") = Number(q, "reconnect") + p["reconnect"]
            /\ ~isReconnect => reconnectFlag' = reconnectFlag
            /\ ~isReconnect \/ ~ReconnectArms =>
                 /\ pending' = p /\ Number(ready', "reconnect") = Number(q, "reconnect")
        BY <2>1, <2>2, <2>3, DisconnectEffect
      <3>2. p["reconnect"] = 0 /\ Number(q, "reconnect") = 0
        BY <2>2, <2>3, Kinds
      <3>3. Here'["reconnect"] = Number(ready', "reconnect")
        BY <1>2, Kinds
      <3> QED
        BY <3>1, <3>2, <3>3
    <2>8. Under'["reconnect"] = pending'["reconnect"]
      <3>1. Under'["reconnect"] = pending'["reconnect"] + Here'["reconnect"]
        BY <1>2, Kinds
      <3> QED
        BY <2>7, <3>1
    <2>9. CASE ~closed
      <3>1. reconnectFlag = 0 /\ ReconnectArms
        BY <1>1, <2>9 DEF Connecting, ReconnectArms
      <3> QED
        BY <2>4, <2>5, <2>6, <2>7, <2>9, <3>1, Kinds DEF PhaseInv, Closing
    <2>10. CASE closed
      <3>1. \A op \in {"readHeader", "readBody", "write", "heartbeat"} : pending'[op] = 0
        BY <2>4, Kinds
      <3>2. Here'["doClose"] = 0 /\ \A op \in Kind \ {"reconnect"} : Here'[op] = 0
        BY <2>4, <2>10, Kinds
      <3>3. pending'["reconnect"] \in {0, 1} /\ (pending'["reconnect"] = 1 => rcTimer' = "fresh")
        BY <2>7
      <3>4. Closed'
        BY <2>4, <2>5, <2>7, <2>8, <3>1, <3>2, <3>3, Kinds DEF Closed
      <3> QED
        BY <2>6, <3>4 DEF PhaseInv
    <2> QED
      BY <2>9, <2>10
  <1> QED
    BY <1>3, <1>4

(* The reconnect timer's handler finds a closed connection at rest. *)
LEMMA ReconnectKeeps ==
  ASSUME ClientTypeOK, PhaseInv, doReconnect
  PROVE  PhaseInv'
  <1>1. /\ Here \in [Kind -> Nat] /\ pending \in [Op -> Nat]
        /\ \A op \in Op : Under[op] = pending[op] + Here[op]
        /\ \A k \in Op : Under'[k] = pending'[k] + Here'[k]
    BY HereType DEF ClientTypeOK, Under
  <1>2. /\ ready # <<>> /\ Head(ready).op = "reconnect"
        /\ ready' = Tail(ready) \o SocketAborts(pending)
        /\ pending' = Start(WithoutSocketOps(pending), "connect")
        /\ UNCHANGED <<flagVars, writeMsgs>>
    BY DEF doReconnect, Runs
  <1>3. /\ SocketAborts(pending) \in Seq(Handler)
        /\ \A k \in Kind : Number(SocketAborts(pending), k) = IF k \in SocketOps THEN pending[k] ELSE 0
    BY <1>1, NumberSocket, Kinds
  <1>4. /\ Here["reconnect"] > 0
        /\ \A k \in Kind : Here'[k] = Here[k] - (IF Head(ready).op = k THEN 1 ELSE 0)
                                       + Number(SocketAborts(pending), k)
    BY <1>2, <1>3, RunsEffect
  <1>5. /\ pending["reconnect"] \in Nat /\ Here["reconnect"] \in Nat
        /\ Under["reconnect"] = pending["reconnect"] + Here["reconnect"]
    BY <1>1, Kinds
  <1>6. Closed
    <2>1. Under["reconnect"] > 0
      BY <1>4, <1>5
    <2> QED
      BY <1>4, <2>1, Kinds DEF PhaseInv, Connected, Closing, Connecting
  <1>7. pending["reconnect"] = 0 /\ Here["reconnect"] = 1
    <2>1. Under["reconnect"] <= 1
      BY <1>6 DEF Closed
    <2> QED
      BY <1>4, <1>5, <2>1
  <1>8. \A k \in Kind : k # "reconnect" => Here[k] = 0
    BY <1>6, <1>7 DEF Closed
  <1>9. pending["connect"] = 0
    <2>1. /\ pending["connect"] \in Nat /\ Here["connect"] \in Nat
          /\ Under["connect"] = pending["connect"] + Here["connect"]
      BY <1>1, Kinds
    <2>2. Under["connect"] = 0
      BY <1>6 DEF Closed
    <2> QED
      BY <2>1, <2>2
  <1>10. \A k \in Op : pending[k] = 0
    BY <1>6, <1>7, <1>9, Kinds DEF Closed
  <1>11. \A k \in Kind : Here'[k] = 0
    <2>1. \A k \in Kind : Number(SocketAborts(pending), k) = 0
      BY <1>3, <1>10, Kinds DEF SocketOps
    <2> QED
      BY <1>2, <1>4, <1>7, <1>8, <2>1
  <1>12. pending'["connect"] = 1 /\ \A k \in Op : k # "connect" => pending'[k] = 0
    BY <1>1, <1>2, <1>10, Kinds DEF Start, WithoutSocketOps, SocketOps
  <1>13. Under'["connect"] = 1 /\ \A k \in Op : k # "connect" => Under'[k] = 0
    BY <1>1, <1>11, <1>12, Kinds
  <1>14. Connecting'
    BY <1>2, <1>6, <1>11, <1>13, Kinds DEF Connecting, Closed, flagVars
  <1>15. OneEach'
    BY <1>2, <1>6, <1>13, Kinds DEF OneEach, Closed, flagVars
  <1> QED
    BY <1>14, <1>15 DEF PhaseInv

(* The third lost response: the client closes and arms the timer, but is   *)
(* not stopped until doClose runs.                                         *)
LEMMA GivesUpKeeps ==
  ASSUME ClientTypeOK, PhaseInv, checkHeartbeatGivesUp
  PROVE  PhaseInv'
  <1>1. /\ Here \in [Kind -> Nat] /\ pending \in [Op -> Nat] /\ Under \in [Op -> Nat]
        /\ \A op \in Op : Under[op] = pending[op] + Here[op]
        /\ \A k \in Op : Under'[k] = pending'[k] + Here'[k]
        /\ \A k \in Kind : Here'[k] = Number(ready', k)
    BY HereType DEF ClientTypeOK, Under, Here, Kind
  <1> DEFINE a == AbortedN("heartbeat", pending["heartbeat"])
             p == Rearm(pending, "heartbeat")
             q == (Tail(ready) \o ClosePosts) \o a
  <1>2. /\ ready # <<>> /\ Head(ready).op = "heartbeat" /\ ~stopped /\ ~stopped' /\ closed'
        /\ startReconnect(p, q) /\ writeMsgs' = writeMsgs
    BY DEF checkHeartbeatGivesUp, Runs
  <1>3. /\ Tail(ready) \in Seq(Handler)
        /\ \A k \in Kind : Number(Tail(ready), k) = IF "heartbeat" = k THEN Here[k] - 1 ELSE Here[k]
    BY <1>2, TailCounts
  <1>4. /\ ClosePosts \in Seq(Handler) /\ a \in Seq(Handler)
        /\ \A k \in Kind : Number(ClosePosts, k) = IF k = "doClose" /\ ~closed THEN 1 ELSE 0
        /\ \A k \in Kind : Number(a, k) = IF k = "heartbeat" THEN pending["heartbeat"] ELSE 0
    <2>1. /\ ClosePosts \in Seq(Handler)
          /\ \A k \in Kind : Number(ClosePosts, k) = IF k = "doClose" /\ ~closed THEN 1 ELSE 0
      BY NumberClose
    <2>2. "heartbeat" \in Op /\ pending["heartbeat"] \in Nat
      BY <1>1, Kinds
    <2>3. /\ a \in Seq(Handler)
          /\ \A k \in Kind : Number(a, k) = IF k = "heartbeat" THEN pending["heartbeat"] ELSE 0
      BY <2>2, NumberAborted
    <2> QED
      BY <2>1, <2>3
  <1>5. /\ p \in [Op -> Nat] /\ p["heartbeat"] = 1
        /\ \A k \in Op : k # "heartbeat" => p[k] = pending[k]
    BY <1>1, Kinds DEF Rearm
  <1> HIDE DEF a, p
  <1>6. /\ Tail(ready) \o ClosePosts \in Seq(Handler)
        /\ \A k \in Kind :
             Number(Tail(ready) \o ClosePosts, k) = Number(Tail(ready), k) + Number(ClosePosts, k)
    BY <1>3, <1>4, NumberConcat, ZenonT(30)
  <1>7. /\ q \in Seq(Handler)
        /\ \A k \in Kind : Number(q, k) = Number(Tail(ready) \o ClosePosts, k) + Number(a, k)
    <2>1. PICK t \in Seq(Handler) : t = Tail(ready) \o ClosePosts
      BY <1>6
    <2>2. /\ t \o a \in Seq(Handler)
          /\ \A k \in Kind : Number(t \o a, k) = Number(t, k) + Number(a, k)
      BY <1>4, NumberConcat
    <2> QED
      BY <2>1, <2>2
  <1> HIDE DEF q
  <1>8. /\ \A k \in Kind : k \notin {"heartbeat", "doClose"} => Number(q, k) = Here[k]
        /\ Number(q, "doClose") = Here["doClose"] + IF closed THEN 0 ELSE 1
        /\ Number(q, "heartbeat") = Here["heartbeat"] - 1 + pending["heartbeat"]
    <2>1. ASSUME NEW k \in Kind, k \notin {"heartbeat", "doClose"} PROVE Number(q, k) = Here[k]
      <3>1. Number(Tail(ready), k) = Here[k] /\ Number(ClosePosts, k) = 0 /\ Number(a, k) = 0
        BY <1>3, <1>4, <2>1
      <3>2. Here[k] \in Nat
        BY <1>1
      <3> QED
        BY <1>6, <1>7, <3>1, <3>2
    <2>2. Number(q, "doClose") = Here["doClose"] + IF closed THEN 0 ELSE 1
      <3>1. /\ Number(Tail(ready), "doClose") = Here["doClose"]
            /\ Number(ClosePosts, "doClose") = IF closed THEN 0 ELSE 1
            /\ Number(a, "doClose") = 0 /\ Here["doClose"] \in Nat
            /\ Number(q, "doClose") = Number(Tail(ready) \o ClosePosts, "doClose") + Number(a, "doClose")
            /\ Number(Tail(ready) \o ClosePosts, "doClose")
                 = Number(Tail(ready), "doClose") + Number(ClosePosts, "doClose")
        BY <1>1, <1>3, <1>4, <1>6, <1>7, Kinds
      <3> QED
        BY <3>1
    <2>3. Number(q, "heartbeat") = Here["heartbeat"] - 1 + pending["heartbeat"]
      <3>1. /\ Number(Tail(ready), "heartbeat") = Here["heartbeat"] - 1
            /\ Number(ClosePosts, "heartbeat") = 0
            /\ Number(a, "heartbeat") = pending["heartbeat"]
            /\ Here["heartbeat"] \in Nat /\ pending["heartbeat"] \in Nat
            /\ Number(q, "heartbeat")
                 = Number(Tail(ready) \o ClosePosts, "heartbeat") + Number(a, "heartbeat")
            /\ Number(Tail(ready) \o ClosePosts, "heartbeat")
                 = Number(Tail(ready), "heartbeat") + Number(ClosePosts, "heartbeat")
        BY <1>1, <1>3, <1>4, <1>6, <1>7, Kinds
      <3> QED
        BY <3>1
    <2> QED
      BY <2>1, <2>2, <2>3
  <1>9. /\ reconnectFlag' = 1 /\ \A k \in Op : k # "reconnect" => pending'[k] = p[k]
        /\ ReconnectArms =>
             /\ pending'["reconnect"] = 1 /\ rcTimer' = "fresh"
             /\ \A k \in Kind :
                  Number(ready', k) = Number(q, k) + IF k = "reconnect" THEN p["reconnect"] ELSE 0
        /\ ~ReconnectArms => pending' = p /\ ready' = q /\ rcTimer' = rcTimer
    BY <1>2, <1>5, <1>7, ReconnectEffect
  <1>10. Connected \/ Closing
    BY <1>2 DEF PhaseInv, Closed, Connecting
  <1>11. \A k \in Kind : k # "reconnect" => Number(ready', k) = Number(q, k)
    <2>1. \A k \in Kind : Number(q, k) \in Nat
      BY <1>7, NumberType
    <2> QED
      BY <1>9, <2>1
  <1>12. /\ pending["reconnect"] \in Nat /\ Here["reconnect"] \in Nat
         /\ Under["reconnect"] = pending["reconnect"] + Here["reconnect"]
    BY <1>1, Kinds
  <1>13. Here'["reconnect"] = 0 /\ pending'["reconnect"] = 1 /\ rcTimer' = "fresh"
    <2>1. CASE Connected
      <3>1. ReconnectArms /\ Under["reconnect"] = 0
        BY <2>1 DEF Connected, ReconnectArms
      <3>2. pending["reconnect"] = 0 /\ Here["reconnect"] = 0
        BY <1>12, <3>1
      <3>3. Number(ready', "reconnect") = Number(q, "reconnect") + p["reconnect"]
        BY <1>9, <3>1, Kinds
      <3>4. Number(q, "reconnect") = 0 /\ p["reconnect"] = 0
        BY <1>5, <1>8, <3>2, Kinds
      <3>5. Here'["reconnect"] = Number(ready', "reconnect")
        BY <1>1, Kinds
      <3> QED
        BY <1>9, <3>1, <3>3, <3>4, <3>5
    <2>2. CASE Closing
      <3>1. /\ ~ReconnectArms /\ rcTimer = "fresh" /\ pending["reconnect"] = 1
            /\ Here["reconnect"] = 0
        BY <1>2, <2>2 DEF Closing, ReconnectArms
      <3>2. pending' = p /\ ready' = q /\ rcTimer' = rcTimer
        BY <1>9, <3>1
      <3>3. p["reconnect"] = 1 /\ Number(q, "reconnect") = 0
        BY <1>5, <1>8, <3>1, Kinds
      <3> QED
        BY <1>1, <3>1, <3>2, <3>3, Kinds
    <2> QED
      BY <1>10, <2>1, <2>2
  <1>14. /\ \A k \in Op : k \notin {"reconnect", "heartbeat"} => Under'[k] = Under[k]
    BY <1>1, <1>5, <1>8, <1>9, <1>11, Kinds
  <1>15. Under'["heartbeat"] = Under["heartbeat"]
    <2>1. /\ pending["heartbeat"] \in Nat /\ Here["heartbeat"] \in Nat
          /\ Under["heartbeat"] = pending["heartbeat"] + Here["heartbeat"]
          /\ Under'["heartbeat"] = pending'["heartbeat"] + Here'["heartbeat"]
          /\ pending'["heartbeat"] = 1
          /\ Here'["heartbeat"] = Here["heartbeat"] - 1 + pending["heartbeat"]
      BY <1>1, <1>5, <1>8, <1>9, <1>11, Kinds
    <2> QED
      BY <2>1
  <1>16. OneEach'
    BY <1>2, <1>14, <1>15, Kinds DEF PhaseInv, OneEach
  <1>17. Here'["doClose"] = 1
    <2>1. Here'["doClose"] = Here["doClose"] + IF closed THEN 0 ELSE 1
      BY <1>1, <1>8, <1>11, Kinds
    <2> QED
      BY <1>10, <2>1 DEF Connected, Closing
  <1>18. Closing'
    <2>1. Under'["connect"] = Under["connect"] /\ Under["connect"] = 0
      BY <1>10, <1>14, Kinds DEF Connected, Closing
    <2> QED
      BY <1>2, <1>9, <1>13, <1>17, <2>1 DEF Closing
  <1> QED
    BY <1>16, <1>18 DEF PhaseInv

LEMMA CloseKeeps ==
  ASSUME ClientTypeOK, PhaseInv, doClose
  PROVE  PhaseInv'
  <1>1. /\ Here \in [Kind -> Nat] /\ pending \in [Op -> Nat] /\ Under \in [Op -> Nat]
        /\ \A op \in Op : Under[op] = pending[op] + Here[op]
        /\ \A k \in Op : Under'[k] = pending'[k] + Here'[k]
    BY HereType DEF ClientTypeOK, Under
  <1> DEFINE b == SocketAborts(pending)
             a == AbortedN("heartbeat", pending["heartbeat"])
  <1>2. /\ ready # <<>> /\ Head(ready).op = "doClose"
        /\ ready' = (Tail(ready) \o b) \o a
        /\ pending' = [WithoutSocketOps(pending) EXCEPT !["heartbeat"] = 0]
        /\ stopped' /\ writeMsgs' = 0 /\ UNCHANGED <<closed, reconnectFlag, rcTimer>>
    BY DEF doClose, Runs, timerVars
  <1>3. /\ b \in Seq(Handler) /\ a \in Seq(Handler)
        /\ \A k \in Kind : Number(b, k) = IF k \in SocketOps THEN pending[k] ELSE 0
        /\ \A k \in Kind : Number(a, k) = IF k = "heartbeat" THEN pending["heartbeat"] ELSE 0
    <2>1. /\ b \in Seq(Handler)
          /\ \A k \in Kind : Number(b, k) = IF k \in SocketOps THEN pending[k] ELSE 0
      BY <1>1, NumberSocket, Kinds
    <2>2. "heartbeat" \in Op /\ pending["heartbeat"] \in Nat
      BY <1>1, Kinds
    <2>3. /\ a \in Seq(Handler)
          /\ \A k \in Kind : Number(a, k) = IF k = "heartbeat" THEN pending["heartbeat"] ELSE 0
      BY <2>2, NumberAborted
    <2> QED
      BY <2>1, <2>3
  <1> HIDE DEF a, b
  <1>4. PICK r \in Seq(Handler) : r = b \o a
    BY <1>3, NumberConcat
  <1>5. ready' = Tail(ready) \o r
    <2>1. Tail(ready) \in Seq(Handler)
      BY <1>2, NumberTail DEF ClientTypeOK
    <2> QED
      BY <1>2, <1>3, <1>4, <2>1, ConcatAssociative, SMTT(30)
  <1>6. \A k \in Kind : Number(r, k) = Number(b, k) + Number(a, k)
    BY <1>3, <1>4, NumberConcat
  <1>7. /\ Here["doClose"] > 0
        /\ \A k \in Kind : Here'[k] = Here[k] - (IF "doClose" = k THEN 1 ELSE 0) + Number(r, k)
    BY <1>2, <1>5, RunsEffect
  <1>8. Closing
    BY <1>7, Kinds DEF PhaseInv, Connected, Closed, Connecting
  <1>9. /\ Number(r, "doClose") = 0 /\ Number(r, "reconnect") = 0
        /\ \A k \in SocketOps \union {"heartbeat"} : Number(r, k) = pending[k]
    <2>1. ASSUME NEW k \in SocketOps PROVE Number(r, k) = pending[k]
      <3>1. k \in Kind /\ k # "heartbeat" /\ pending[k] \in Nat
        BY <1>1, Kinds DEF SocketOps
      <3> QED
        BY <1>3, <1>6, <3>1
    <2>2. Number(r, "heartbeat") = pending["heartbeat"]
      <3>1. /\ "heartbeat" \in Kind /\ "heartbeat" \notin SocketOps /\ pending["heartbeat"] \in Nat
        BY <1>1, Kinds DEF SocketOps
      <3> QED
        BY <1>3, <1>6, <3>1
    <2>3. Number(r, "doClose") = 0 /\ Number(r, "reconnect") = 0
      BY <1>3, <1>6, Kinds DEF SocketOps
    <2> QED
      BY <2>1, <2>2, <2>3
  <1>10. /\ \A k \in SocketOps \union {"heartbeat"} : pending'[k] = 0
         /\ pending'["reconnect"] = pending["reconnect"]
    BY <1>1, <1>2, Kinds DEF WithoutSocketOps, SocketOps
  <1>11. \A k \in SocketOps \union {"heartbeat"} : Under'[k] = Under[k]
    <2>1. ASSUME NEW k \in SocketOps \union {"heartbeat"} PROVE Under'[k] = Under[k]
      <3>1. /\ k \in Op /\ k \in Kind /\ k # "doClose" /\ pending[k] \in Nat /\ Here[k] \in Nat
        BY <1>1, Kinds DEF SocketOps
      <3>2. Here'[k] = Here[k] + pending[k] /\ pending'[k] = 0
        BY <1>7, <1>9, <1>10, <3>1
      <3> QED
        BY <1>1, <3>1, <3>2
    <2> QED
      BY <2>1
  <1>12. Here'["doClose"] = 0 /\ Here'["reconnect"] = 0
    <2>1. Here["doClose"] = 1 /\ Here["reconnect"] = 0
      BY <1>8 DEF Closing
    <2> QED
      BY <1>7, <1>9, <2>1, Kinds
  <1>13. pending["reconnect"] \in {0, 1} /\ (pending["reconnect"] = 1 => rcTimer = "fresh")
    BY <1>8 DEF Closing, ClientTypeOK
  <1>14. Under'["reconnect"] <= 1
    <2>1. Under'["reconnect"] = pending'["reconnect"] + Here'["reconnect"]
      BY <1>1, Kinds
    <2> QED
      BY <1>10, <1>12, <1>13, <2>1
  <1>15. Under'["connect"] = 0
    BY <1>8, <1>11 DEF Closing, SocketOps
  <1>16. Closed'
    <2>1. closed
      BY <1>8 DEF Closing
    <2>2. \A op \in {"readHeader", "readBody", "write", "heartbeat"} : pending'[op] = 0
      BY <1>10 DEF SocketOps
    <2>3. ~(Here'["reconnect"] = 1 \/ (pending'["reconnect"] = 1 /\ rcTimer' = "running"))
      BY <1>2, <1>10, <1>12, <1>13
    <2> QED
      BY <1>2, <1>10, <1>12, <1>13, <1>14, <1>15, <2>1, <2>2, <2>3 DEF Closed
  <1>17. OneEach'
    BY <1>2, <1>11 DEF PhaseInv, OneEach, SocketOps
  <1> QED
    BY <1>16, <1>17 DEF PhaseInv

(***************************************************************************)
(* Types                                                                   *)
(***************************************************************************)

(* What a handler appends is a sequence of handlers. *)
LEMMA AppendedType ==
  ASSUME ClientTypeOK, ready # <<>>, NEW r \in Seq(Handler), NEW t \in Seq(Handler)
  PROVE  /\ Tail(ready) \in Seq(Handler) /\ Tail(ready) \o r \in Seq(Handler)
         /\ (Tail(ready) \o r) \o t \in Seq(Handler)
  <1>1. Tail(ready) \in Seq(Handler)
    BY NumberTail DEF ClientTypeOK
  <1>2. PICK q \in Seq(Handler) : q = Tail(ready) \o r
    BY <1>1, NumberConcat
  <1>3. q \o t \in Seq(Handler)
    BY NumberConcat
  <1> QED
    BY <1>1, <1>2, <1>3

LEMMA DisconnectType ==
  ASSUME ClientTypeOK, NEW p \in [Op -> Nat], NEW q \in Seq(Handler), Disconnect(p, q),
         writeMsgs' = writeMsgs, longs' = longs
  PROVE  ClientTypeOK'
  <1>1. /\ ready' \in Seq(Handler) /\ pending' \in [Op -> Nat]
        /\ stopped' \in BOOLEAN /\ closed' \in BOOLEAN
    <2>1. ready' \in Seq(Handler) /\ pending' \in [Op -> Nat]
      BY DisconnectEffect
    <2> QED
      BY <2>1 DEF Disconnect
  <1>2. reconnectFlag' \in {0, 1} /\ rcTimer' \in TimerState
    BY DEF Disconnect, startReconnect, ClientTypeOK, TimerState
  <1> QED
    BY <1>1, <1>2 DEF ClientTypeOK

LEMMA TypeKept ==
  ASSUME ClientTypeOK, Next
  PROVE  ClientTypeOK'
  <1>1. pending \in [Op -> Nat] /\ ready \in Seq(Handler) /\ longs \in Nat /\ writeMsgs \in Int
    BY DEF ClientTypeOK
  <1>2. ASSUME Environment PROVE ClientTypeOK'
    <2>1. ASSUME NEW ok \in BOOLEAN, ConnectCompletes(ok) PROVE ClientTypeOK'
      <3>1. ready' \in Seq(Handler) /\ pending' \in [Op -> Nat]
        BY <2>1, CompleteEffect, Kinds DEF ConnectCompletes
      <3> QED
        BY <2>1, <3>1 DEF ConnectCompletes, ClientTypeOK, flagVars, timerVars
    <2>2. ASSUME NEW op \in {"readHeader", "readBody", "write"}, NEW ok \in BOOLEAN,
                 TransferCompletes(op, ok)
          PROVE  ClientTypeOK'
      <3>1. ready' \in Seq(Handler) /\ pending' \in [Op -> Nat]
        BY <2>2, CompleteEffect, Kinds DEF TransferCompletes
      <3> QED
        BY <2>2, <3>1 DEF TransferCompletes, ClientTypeOK, flagVars, timerVars
    <2>3. CASE TimePasses
      BY <2>3 DEF TimePasses, ClientTypeOK, flagVars, TimerState
    <2>4. CASE HeartbeatExpires
      <3>1. ready' \in Seq(Handler) /\ pending' \in [Op -> Nat]
        BY <2>4, WaitsEffect, Kinds DEF HeartbeatExpires
      <3> QED
        BY <2>4, <3>1 DEF HeartbeatExpires, ClientTypeOK, flagVars
    <2>5. CASE ReconnectExpires
      <3>1. ready' \in Seq(Handler) /\ pending' \in [Op -> Nat]
        BY <2>5, WaitsEffect, Kinds DEF ReconnectExpires
      <3> QED
        BY <2>5, <3>1 DEF ReconnectExpires, ClientTypeOK, flagVars, TimerState
    <2>6. CASE Write
      <3>1. ready' \in Seq(Handler)
        BY <1>1, <2>6, NumberWrites, NumberConcat DEF Write
      <3> QED
        BY <2>6, <3>1 DEF Write, ClientTypeOK, flagVars, timerVars
    <2> QED
      BY <1>2, <2>1, <2>2, <2>3, <2>4, <2>5, <2>6 DEF Environment
  <1>3. ASSUME RunHandler PROVE ClientTypeOK'
    <2>0. ready # <<>> /\ Tail(ready) \in Seq(Handler)
      <3>1. ready # <<>>
        BY <1>3 DEF RunHandler, Runs, ReturnsIfStopped, handleConnectOk, handleConnectFail,
                    doReconnect, handleReadHeaderOk, handleReadBodyOk, startWrite, handleWriteOk,
                    TransferFails, checkHeartbeatEarly, checkHeartbeatSends,
                    checkHeartbeatGivesUp, doClose
      <3> QED
        BY <3>1, NumberTail DEF ClientTypeOK
    <2>1. /\ Start(pending, "write") \in [Op -> Nat]
          /\ Start(pending, "readHeader") \in [Op -> Nat]
          /\ Start(pending, "readBody") \in [Op -> Nat]
          /\ Start(pending, "heartbeat") \in [Op -> Nat]
          /\ Rearm(pending, "heartbeat") \in [Op -> Nat]
          /\ Rearm(Start(pending, "readHeader"), "heartbeat") \in [Op -> Nat]
          /\ WithoutSocketOps(pending) \in [Op -> Nat]
      BY <1>1, SMTT(30) DEF Start, Rearm, WithoutSocketOps, Op
    <2>2. /\ WritePosts(Tail(ready)) \in Seq(Handler) /\ ClosePosts \in Seq(Handler)
          /\ SocketAborts(pending) \in Seq(Handler)
      BY <1>1, NumberWrites, NumberClose, NumberSocket, Kinds
    <2>3. AbortedN("heartbeat", pending["heartbeat"]) \in Seq(Handler)
      <3>1. "heartbeat" \in Op /\ pending["heartbeat"] \in Nat
        BY <1>1, Kinds
      <3> QED
        BY <3>1, NumberAborted
    <2>4. CASE ReturnsIfStopped
      BY <2>0, <2>4 DEF ReturnsIfStopped, ClientTypeOK, flagVars, timerVars
    <2>5. CASE handleConnectOk
      <3>1. ready' \in Seq(Handler)
        BY <2>0, <2>2, <2>3, <2>5, AppendedType DEF handleConnectOk
      <3> QED
        BY <2>1, <2>5, <3>1 DEF handleConnectOk, ClientTypeOK
    <2>6. CASE handleConnectFail
      <3>1. PICK p, q :
              /\ p = IF ~Head(ready).ok THEN WithoutSocketOps(pending) ELSE pending
              /\ q = Tail(ready) \o (IF ~Head(ready).ok THEN SocketAborts(pending) ELSE <<>>)
              /\ Disconnect(p, q) /\ writeMsgs' = writeMsgs /\ longs' = longs
        BY <2>6 DEF handleConnectFail
      <3>2. PICK r \in Seq(Handler) : r = IF ~Head(ready).ok THEN SocketAborts(pending) ELSE <<>>
        BY <2>2, NumberEmpty
      <3>3. p \in [Op -> Nat] /\ q \in Seq(Handler)
        BY <1>1, <2>0, <2>1, <3>1, <3>2, NumberConcat
      <3> QED
        BY <3>1, <3>3, DisconnectType
    <2>7. CASE doReconnect
      <3>1. ready' \in Seq(Handler)
        BY <2>0, <2>2, <2>7, NumberConcat DEF doReconnect
      <3>2. pending' \in [Op -> Nat]
        <4>1. PICK p \in [Op -> Nat] : p = WithoutSocketOps(pending)
          BY <2>1
        <4>2. pending' = [p EXCEPT !["connect"] = p["connect"] + 1] /\ p["connect"] + 1 \in Nat
          BY <2>7, <4>1 DEF doReconnect, Start, Op
        <4> QED
          BY <4>2
      <3> QED
        BY <2>7, <3>1, <3>2 DEF doReconnect, ClientTypeOK, flagVars, timerVars
    <2>8. CASE handleReadHeaderOk
      <3>1. /\ writeMsgs' = writeMsgs /\ longs' = longs
            /\ \/ Disconnect(Start(pending, "readBody"), Tail(ready))
               \/ /\ pending' = Start(pending, "readBody") /\ ready' = Tail(ready)
                  /\ UNCHANGED <<flagVars, rcTimer>>
        BY <2>8 DEF handleReadHeaderOk
      <3>2. CASE Disconnect(Start(pending, "readBody"), Tail(ready))
        BY <2>0, <2>1, <3>1, <3>2, DisconnectType
      <3>3. CASE /\ pending' = Start(pending, "readBody") /\ ready' = Tail(ready)
                 /\ UNCHANGED <<flagVars, rcTimer>>
        BY <2>0, <2>1, <3>1, <3>3 DEF ClientTypeOK, flagVars
      <3> QED
        BY <3>1, <3>2, <3>3
    <2>9. CASE handleReadBodyOk
      <3>1. longs' \in Nat /\ rcTimer' \in TimerState
        BY <1>1, <2>9 DEF handleReadBodyOk, ClientTypeOK, TimerState
      <3> QED
        BY <2>0, <2>1, <2>9, <3>1 DEF handleReadBodyOk, ClientTypeOK, flagVars
    <2>10. CASE startWrite
      <3>1. writeMsgs' \in Int /\ pending' \in [Op -> Nat]
        BY <1>1, <2>1, <2>10 DEF startWrite
      <3> QED
        BY <2>0, <2>10, <3>1 DEF startWrite, ClientTypeOK, flagVars, timerVars
    <2>11. CASE handleWriteOk
      <3>1. writeMsgs' \in Int /\ pending' \in [Op -> Nat]
        BY <1>1, <2>1, <2>11 DEF handleWriteOk
      <3> QED
        BY <2>0, <2>11, <3>1 DEF handleWriteOk, ClientTypeOK, flagVars, timerVars
    <2>12. CASE TransferFails
      BY <1>1, <2>0, <2>12, DisconnectType DEF TransferFails
    <2>13. CASE checkHeartbeatEarly
      BY <2>0, <2>1, <2>13 DEF checkHeartbeatEarly, ClientTypeOK, flagVars, timerVars
    <2>14. CASE checkHeartbeatSends
      <3>1. ready' \in Seq(Handler)
        BY <2>0, <2>2, <2>3, <2>14, AppendedType DEF checkHeartbeatSends
      <3> QED
        BY <2>1, <2>14, <3>1 DEF checkHeartbeatSends, ClientTypeOK, flagVars
    <2>15. CASE checkHeartbeatGivesUp
      <3>1. PICK q \in Seq(Handler) :
              q = Tail(ready) \o ClosePosts \o AbortedN("heartbeat", pending["heartbeat"])
        BY <2>0, <2>2, <2>3, AppendedType
      <3>2. /\ startReconnect(Rearm(pending, "heartbeat"), q)
            /\ closed' = TRUE /\ UNCHANGED <<stopped, writeMsgs, longs>>
        BY <2>15, <3>1 DEF checkHeartbeatGivesUp
      <3>3. ready' \in Seq(Handler) /\ pending' \in [Op -> Nat] /\ reconnectFlag' = 1
        BY <2>1, <3>2, ReconnectEffect
      <3>4. rcTimer' \in TimerState
        BY <3>2 DEF startReconnect, ClientTypeOK, TimerState
      <3> QED
        BY <3>2, <3>3, <3>4 DEF ClientTypeOK
    <2>16. CASE doClose
      <3>1. ready' \in Seq(Handler)
        BY <2>0, <2>2, <2>3, <2>16, AppendedType DEF doClose
      <3>2. pending' \in [Op -> Nat]
        BY <2>1, <2>16 DEF doClose, Op
      <3> QED
        BY <2>16, <3>1, <3>2 DEF doClose, ClientTypeOK, timerVars
    <2> QED
      BY <1>3, <2>4, <2>5, <2>6, <2>7, <2>8, <2>9, <2>10, <2>11, <2>12, <2>13, <2>14, <2>15, <2>16
         DEF RunHandler
  <1> QED
    BY <1>2, <1>3 DEF Next

(***************************************************************************)
(* The next attempt to reconnect                                           *)
(***************************************************************************)

(* What runs first, and what is posted at the end, does not disturb an     *)
(* attempt that comes after every doClose.                                 *)
LEMMA BehindTail ==
  ASSUME NEW q \in Seq(Handler), q # <<>>, Behind(q)
  PROVE  Behind(Tail(q))
  <1>1. /\ Len(q) \in Nat /\ DOMAIN q = 1..Len(q)
        /\ Tail(q) \in Seq(Handler) /\ DOMAIN Tail(q) = 1..(Len(q) - 1)
        /\ \A i \in 1..(Len(q) - 1) : Tail(q)[i] = q[i + 1]
    <2>1. Len(q) \in Nat /\ DOMAIN q = 1..Len(q)
      BY LenProperties
    <2>2. Tail(q) \in Seq(Handler) /\ Len(Tail(q)) = Len(q) - 1
      BY HeadTailProperties
    <2>3. \A i \in 1..Len(Tail(q)) : Tail(q)[i] = q[i + 1]
      BY HeadTailProperties
    <2>4. DOMAIN Tail(q) = 1..Len(Tail(q))
      BY <2>2, LenProperties
    <2> QED
      BY <2>1, <2>2, <2>3, <2>4
  <1>2. SUFFICES ASSUME NEW i \in 1..(Len(q) - 1), Tail(q)[i].op = "doClose"
                 PROVE  \E j \in 1..(Len(q) - 1) : i < j /\ Tail(q)[j].op = "reconnect"
    BY <1>1 DEF Behind
  <1>3. i + 1 \in 1..Len(q) /\ q[i + 1].op = "doClose"
    BY <1>1, <1>2
  <1>4. PICK j \in 1..Len(q) : i + 1 < j /\ q[j].op = "reconnect"
    BY <1>1, <1>3 DEF Behind
  <1>5. j - 1 \in 1..(Len(q) - 1) /\ i < j - 1 /\ Tail(q)[j - 1] = q[(j - 1) + 1] /\ (j - 1) + 1 = j
    BY <1>1, <1>4
  <1> QED
    BY <1>4, <1>5

LEMMA BehindConcat ==
  ASSUME NEW q \in Seq(Handler), Behind(q),
         NEW r \in Seq(Handler), Number(r, "doClose") = 0
  PROVE  Behind(q \o r)
  <1>1. /\ Len(q) \in Nat /\ Len(r) \in Nat
        /\ DOMAIN q = 1..Len(q) /\ DOMAIN r = 1..Len(r)
        /\ DOMAIN (q \o r) = 1..(Len(q) + Len(r))
        /\ \A i \in 1..(Len(q) + Len(r)) :
             (q \o r)[i] = IF i <= Len(q) THEN q[i] ELSE r[i - Len(q)]
    BY LenProperties, ConcatProperties
  <1>2. \A i \in 1..Len(r) : r[i].op # "doClose"
    BY <1>1, NumberType
  <1>3. SUFFICES ASSUME NEW i \in 1..(Len(q) + Len(r)), (q \o r)[i].op = "doClose"
                 PROVE  \E j \in 1..(Len(q) + Len(r)) : i < j /\ (q \o r)[j].op = "reconnect"
    BY <1>1 DEF Behind
  <1>4. i \in 1..Len(q) /\ q[i].op = "doClose"
    <2>1. ASSUME i > Len(q) PROVE FALSE
      <3>1. i - Len(q) \in 1..Len(r) /\ (q \o r)[i] = r[i - Len(q)]
        BY <1>1, <2>1
      <3> QED
        BY <1>2, <1>3, <3>1
    <2> QED
      BY <1>1, <1>3, <2>1
  <1>5. PICK j \in 1..Len(q) : i < j /\ q[j].op = "reconnect"
    BY <1>1, <1>4 DEF Behind
  <1>6. j \in 1..(Len(q) + Len(r)) /\ (q \o r)[j] = q[j]
    BY <1>1, <1>5
  <1> QED
    BY <1>5, <1>6

(* An attempt whose wait is over joins the queue at its end. *)
LEMMA BehindAll ==
  ASSUME NEW q \in Seq(Handler), NEW r \in Seq(Handler), Len(r) > 0,
         \A i \in 1..Len(r) : r[i].op = "reconnect"
  PROVE  Behind(q \o r)
  <1> DEFINE n == Len(q) + Len(r)
  <1>1. /\ Len(q) \in Nat /\ Len(r) \in Nat /\ DOMAIN (q \o r) = 1..n
        /\ \A i \in 1..n : (q \o r)[i] = IF i <= Len(q) THEN q[i] ELSE r[i - Len(q)]
    BY LenProperties, ConcatProperties
  <1>2. n \in 1..n /\ (q \o r)[n].op = "reconnect"
    <2>1. n \in 1..n /\ ~(n <= Len(q)) /\ n - Len(q) = Len(r) /\ Len(r) \in 1..Len(r)
      BY <1>1
    <2>2. (q \o r)[n] = r[n - Len(q)]
      BY <1>1, <2>1
    <2> QED
      BY <2>1, <2>2
  <1>3. ASSUME NEW i \in 1..n, (q \o r)[i].op = "doClose"
        PROVE  i < n
    BY <1>1, <1>2, <1>3
  <1> QED
    BY <1>1, <1>2, <1>3 DEF Behind

(* A doClose at the head has an attempt behind it. *)
LEMMA BehindHead ==
  ASSUME ClientTypeOK, Behind(ready), Runs("doClose")
  PROVE  Here["reconnect"] > 0
  <1>1. ready \in Seq(Handler) /\ Len(ready) \in Nat /\ DOMAIN ready = 1..Len(ready)
    BY LenProperties DEF ClientTypeOK
  <1>2. 1 \in DOMAIN ready /\ ready[1].op = "doClose"
    BY <1>1 DEF Runs
  <1>3. \E j \in DOMAIN ready : ready[j].op = "reconnect"
    BY <1>2 DEF Behind
  <1>4. Number(ready, "reconnect") # 0 /\ Number(ready, "reconnect") \in Nat
    BY <1>1, <1>3, NumberType
  <1> QED
    BY <1>4, HereType, Kinds

(* A step that leaves the wait alone and posts no doClose.                 *)
LEMMA Undisturbed ==
  ASSUME ClientTypeOK, TimerKept, AttemptBehind,
         NEW r \in Seq(Handler), Number(r, "doClose") = 0,
         \/ ready' = ready \o r
         \/ ready # <<>> /\ ready' = Tail(ready) \o r,
         pending'["reconnect"] = pending["reconnect"],
         reconnectFlag' \in {0, reconnectFlag}, rcTimer' \in {rcTimer, "expired"}
  PROVE  TimerKept' /\ AttemptBehind'
  <1>1. TimerKept'
    BY DEF TimerKept
  <1>2. ASSUME Behind(ready) PROVE Behind(ready')
    <2>1. ready \in Seq(Handler)
      BY DEF ClientTypeOK
    <2>2. CASE ready' = ready \o r
      BY <1>2, <2>1, <2>2, BehindConcat
    <2>3. CASE ready # <<>> /\ ready' = Tail(ready) \o r
      <3>1. Tail(ready) \in Seq(Handler) /\ Behind(Tail(ready))
        BY <1>2, <2>1, <2>3, BehindTail, NumberTail
      <3> QED
        BY <2>3, <3>1, BehindConcat
    <2> QED
      BY <2>2, <2>3
  <1> QED
    BY <1>1, <1>2 DEF AttemptBehind

(* The same when nothing is posted. *)
LEMMA UndisturbedRun ==
  ASSUME ClientTypeOK, TimerKept, AttemptBehind, ready # <<>>, ready' = Tail(ready),
         pending'["reconnect"] = pending["reconnect"],
         reconnectFlag' \in {0, reconnectFlag}, rcTimer' \in {rcTimer, "expired"}
  PROVE  TimerKept' /\ AttemptBehind'
  <1>1. PICK r \in Seq(Handler) : r = <<>> /\ Number(r, "doClose") = 0
    BY NumberEmpty
  <1>2. Tail(ready) \in Seq(Handler)
    BY NumberTail DEF ClientTypeOK
  <1>3. ready' = Tail(ready) \o r
    BY <1>1, <1>2, ConcatEmptySeq
  <1> QED
    BY <1>1, <1>3, Undisturbed

(* An attempt is stored when one is waiting, connecting or about to.       *)
LEMMA Stored ==
  ASSUME ClientTypeOK',
         \/ pending'["reconnect"] > 0 \/ Here'["reconnect"] > 0
         \/ pending'["connect"] > 0 \/ Here'["connect"] > 0
  PROVE  AttemptStored'
  <1>1. pending' \in [Op -> Nat] /\ ready' \in Seq(Handler)
    BY DEF ClientTypeOK
  <1>2. Number(ready', "reconnect") \in Nat /\ Number(ready', "connect") \in Nat
    BY <1>1, NumberType
  <1>3. /\ Here'["reconnect"] = Number(ready', "reconnect")
        /\ Here'["connect"] = Number(ready', "connect")
    BY Kinds DEF Here
  <1>4. /\ Under'["reconnect"] = pending'["reconnect"] + Here'["reconnect"]
        /\ Under'["connect"] = pending'["connect"] + Here'["connect"]
    BY Kinds DEF Under
  <1>5. pending'["reconnect"] \in Nat /\ pending'["connect"] \in Nat
    BY <1>1, Kinds
  <1> QED
    BY <1>2, <1>3, <1>4, <1>5 DEF AttemptStored

(* startReconnect leaves a wait behind, armed now or earlier. *)
LEMMA ArmedKeeps ==
  ASSUME ClientTypeOK', TimerKept, NEW p \in [Op -> Nat], NEW q \in Seq(Handler),
         startReconnect(p, q), p["reconnect"] = pending["reconnect"], ClientTypeOK
  PROVE  TimerKept' /\ AttemptBehind' /\ AttemptStored'
  <1>1. pending'["reconnect"] > 0
    <2>1. CASE ReconnectArms
      <3>1. pending'["reconnect"] = 1
        BY <2>1, ReconnectEffect
      <3> QED
        BY <3>1
    <2>2. CASE ~ReconnectArms
      <3>1. pending' = p
        BY <2>2, ReconnectEffect
      <3>2. pending["reconnect"] > 0
        BY <2>2 DEF ReconnectArms, TimerKept, ClientTypeOK
      <3> QED
        BY <3>1, <3>2
    <2> QED
      BY <2>1, <2>2
  <1> QED
    BY <1>1, Stored DEF TimerKept, AttemptBehind

(* Nor does a broken connection lose the attempt. *)
LEMMA DisconnectStores ==
  ASSUME ClientTypeOK, ClientTypeOK', TimerKept, NEW p \in [Op -> Nat], NEW q \in Seq(Handler),
         Disconnect(p, q), p["reconnect"] = pending["reconnect"]
  PROVE  TimerKept' /\ AttemptBehind' /\ AttemptStored'
  <1>1. CASE isReconnect
    <2>1. PICK r \in Seq(Handler) : r = q \o ClosePosts
      BY NumberClose, NumberConcat
    <2>2. startReconnect(p, r)
      BY <1>1, <2>1 DEF Disconnect
    <2> QED
      BY <2>2, ArmedKeeps
  <1>2. CASE ~isReconnect
    <2>1. pending' = p /\ UNCHANGED <<reconnectFlag, rcTimer>>
      BY <1>2 DEF Disconnect
    <2> QED
      BY <1>2, <2>1 DEF TimerKept, AttemptBehind, AttemptStored
  <1> QED
    BY <1>1, <1>2

(* What is added at the end of a queue in two parts. *)
LEMMA AbortsAfter ==
  ASSUME ClientTypeOK, ready # <<>>, NEW r \in Seq(Handler), Number(r, "doClose") = 0
  PROVE  \E s \in Seq(Handler) :
           /\ s = r \o AbortedN("heartbeat", pending["heartbeat"])
           /\ (Tail(ready) \o r) \o AbortedN("heartbeat", pending["heartbeat"]) = Tail(ready) \o s
           /\ Number(s, "doClose") = 0
  <1>1. pending["heartbeat"] \in Nat /\ Tail(ready) \in Seq(Handler)
    BY NumberTail, Kinds DEF ClientTypeOK
  <1>2. PICK n \in Nat : n = pending["heartbeat"]
    BY <1>1
  <1>3. /\ AbortedN("heartbeat", n) \in Seq(Handler)
        /\ Number(AbortedN("heartbeat", n), "doClose") = 0
    BY NumberAborted, Kinds
  <1>4. PICK t \in Seq(Handler) : t = AbortedN("heartbeat", n) /\ Number(t, "doClose") = 0
    BY <1>3
  <1>5. r \o t \in Seq(Handler) /\ Number(r \o t, "doClose") = 0
    BY <1>4, NumberConcat
  <1>6. (Tail(ready) \o r) \o t = Tail(ready) \o (r \o t)
    BY <1>1, ConcatAssociative, SMTT(30)
  <1> QED
    BY <1>2, <1>4, <1>5, <1>6

LEMMA HeartbeatPosts ==
  ASSUME ClientTypeOK, ready # <<>>
  PROVE  \E s \in Seq(Handler) :
           /\ s = WritePosts(Tail(ready)) \o AbortedN("heartbeat", pending["heartbeat"])
           /\ (Tail(ready) \o WritePosts(Tail(ready)))
                \o AbortedN("heartbeat", pending["heartbeat"]) = Tail(ready) \o s
           /\ Number(s, "doClose") = 0
  <1>1. PICK r \in Seq(Handler) : r = WritePosts(Tail(ready)) /\ Number(r, "doClose") = 0
    BY NumberWrites
  <1> QED
    BY <1>1, AbortsAfter

LEMMA RecoveryKept ==
  ASSUME ClientTypeOK, ClientTypeOK', TimerKept, AttemptBehind, AttemptStored, Next
  PROVE  TimerKept' /\ AttemptBehind' /\ AttemptStored'
  <1>1. pending \in [Op -> Nat] /\ ready \in Seq(Handler)
    BY DEF ClientTypeOK
  <1>2. /\ Here \in [Kind -> Nat] /\ Under \in [Op -> Nat]
        /\ \A op \in Op : Under[op] = pending[op] + Here[op]
    BY HereType
  (* What the environment completes stays under way. *)
  <1>3. ASSUME NEW op \in Op, NEW ok \in BOOLEAN, Complete(op, ok), op # "reconnect",
               UNCHANGED <<flagVars, rcTimer>>
        PROVE  TimerKept' /\ AttemptBehind' /\ AttemptStored'
    <2>1. PICK h \in Handler : h = [op |-> op, ok |-> ok] /\ h.op = op
      BY HandlerType
    <2>2. op # "doClose"
      BY Kinds
    <2>3. PICK r \in Seq(Handler) : r = <<h>> /\ Number(r, "doClose") = 0
      BY <2>1, <2>2, NumberOne
    <2>4. ready' = ready \o r
      <3>1. ready' = Append(ready, h)
        BY <2>1, <1>3 DEF Complete
      <3>2. Append(ready, h) = ready \o <<h>>
        BY <1>1, AppendIsConcat
      <3> QED
        BY <2>3, <3>1, <3>2
    <2>5. pending'["reconnect"] = pending["reconnect"]
      BY <1>1, <1>3, Kinds DEF Complete
    <2>6. TimerKept' /\ AttemptBehind'
      BY <1>3, <2>3, <2>4, <2>5, Undisturbed DEF flagVars
    <2>7. AttemptStored'
      <3>1. Under' = Under
        BY <1>3, CompleteEffect
      <3> QED
        BY <1>3, <3>1 DEF AttemptStored, flagVars
    <2> QED
      BY <2>6, <2>7
  <1>4. ASSUME NEW ok \in BOOLEAN, ConnectCompletes(ok)
        PROVE  TimerKept' /\ AttemptBehind' /\ AttemptStored'
    <2>1. Complete("connect", ok) /\ UNCHANGED <<flagVars, rcTimer>> /\ "connect" \in Op
      BY <1>4, Kinds DEF ConnectCompletes, timerVars
    <2> QED
      BY <1>3, <2>1
  <1>5. ASSUME NEW op \in {"readHeader", "readBody", "write"}, NEW ok \in BOOLEAN,
               TransferCompletes(op, ok)
        PROVE  TimerKept' /\ AttemptBehind' /\ AttemptStored'
    <2>1. Complete(op, ok) /\ UNCHANGED <<flagVars, rcTimer>> /\ op \in Op /\ op # "reconnect"
      BY <1>5, Kinds DEF TransferCompletes, timerVars
    <2> QED
      BY <1>3, <2>1
  <1>6. CASE TimePasses
    <2>1. /\ UNCHANGED <<flagVars, pending, ready>>
          /\ rcTimer' = IF rcTimer = "fresh" THEN "running" ELSE rcTimer
      BY <1>6 DEF TimePasses
    <2>2. Under' = Under
      BY <2>1 DEF Under, Here
    <2> QED
      BY <2>1, <2>2 DEF flagVars, TimerKept, AttemptBehind, AttemptStored
  <1>7. CASE HeartbeatExpires
    <2>1. WaitsComplete("heartbeat") /\ UNCHANGED <<flagVars, rcTimer>>
      BY <1>7 DEF HeartbeatExpires
    <2>2. PICK n \in Nat : n = pending["heartbeat"]
      BY <1>1, Kinds
    <2>3. PICK h \in Handler : h = Done("heartbeat") /\ h.op = "heartbeat"
      BY HandlerType, Kinds
    <2>4. PICK r \in Seq(Handler) : r = [i \in 1..n |-> h] /\ Number(r, "doClose") = 0
      BY <2>3, NumberAlike
    <2>5. ready' = ready \o r /\ pending'["reconnect"] = pending["reconnect"]
      BY <1>1, <2>1, <2>2, <2>3, <2>4, Kinds DEF WaitsComplete
    <2>6. Under' = Under
      BY <2>1, WaitsEffect, Kinds
    <2>7. TimerKept' /\ AttemptBehind'
      BY <2>1, <2>4, <2>5, Undisturbed DEF flagVars
    <2> QED
      BY <2>1, <2>6, <2>7 DEF AttemptStored, flagVars
  <1>8. CASE ReconnectExpires
    <2>1. WaitsComplete("reconnect") /\ UNCHANGED flagVars /\ rcTimer' = "expired"
      BY <1>8 DEF ReconnectExpires
    <2>2. PICK n \in Nat : n = pending["reconnect"]
      BY <1>1, Kinds
    <2>3. PICK h \in Handler : h = Done("reconnect") /\ h.op = "reconnect"
      BY HandlerType, Kinds
    <2>4. PICK r \in Seq(Handler) : r = [i \in 1..n |-> h]
      BY <2>3, NumberAlike
    <2>5. n > 0 /\ ready' = ready \o r
      BY <2>1, <2>2, <2>3, <2>4 DEF WaitsComplete
    <2>6. Len(r) = n /\ \A i \in 1..Len(r) : r[i].op = "reconnect"
      BY <2>3, <2>4
    <2>7. Behind(ready')
      BY <1>1, <2>5, <2>6, BehindAll
    <2>8. Under' = Under
      BY <2>1, WaitsEffect, Kinds
    <2> QED
      BY <2>1, <2>7, <2>8 DEF flagVars, TimerKept, AttemptBehind, AttemptStored
  <1>9. CASE Write
    <2>1. /\ ready' = ready \o WritePosts(ready) /\ ~stopped
          /\ UNCHANGED <<flagVars, rcTimer, pending>>
      BY <1>9 DEF Write, timerVars
    <2>2. WritePosts(ready) \in Seq(Handler) /\ Number(WritePosts(ready), "doClose") = 0
      BY NumberWrites
    <2>3. TimerKept' /\ AttemptBehind'
      BY <2>1, <2>2, Undisturbed DEF flagVars
    <2> QED
      BY <2>1, <2>3 DEF AttemptStored, flagVars
  (* Handlers left over from before stopped return at once. *)
  <1>10. CASE ReturnsIfStopped
    <2>1. /\ ready # <<>> /\ ready' = Tail(ready) /\ UNCHANGED <<flagVars, rcTimer, pending>>
          /\ Head(ready).op \notin {"connect", "reconnect"}
      BY <1>10 DEF ReturnsIfStopped, timerVars
    <2>2. Here'["connect"] = Here["connect"] /\ Here'["reconnect"] = Here["reconnect"]
      BY <2>1, RunsOnly, Kinds
    <2>3. Under'["connect"] = Under["connect"] /\ Under'["reconnect"] = Under["reconnect"]
      BY <2>1, <2>2, Kinds DEF Under
    <2>4. TimerKept' /\ AttemptBehind'
      BY <2>1, UndisturbedRun DEF flagVars
    <2> QED
      BY <2>1, <2>3, <2>4 DEF AttemptStored, flagVars
  (* Handlers that run on a live connection. *)
  <1>11. CASE handleConnectOk
    <2>1. /\ ready # <<>> /\ stopped' = FALSE /\ reconnectFlag' = 0 /\ rcTimer' = rcTimer
          /\ pending' = [[pending EXCEPT !["readHeader"] = @ + 1] EXCEPT !["heartbeat"] = 1]
          /\ ready' = (Tail(ready) \o WritePosts(Tail(ready)))
                        \o AbortedN("heartbeat", pending["heartbeat"])
      BY <1>11 DEF handleConnectOk, Runs, Start, Rearm
    <2>2. pending'["reconnect"] = pending["reconnect"]
      BY <1>1, <2>1, Kinds
    <2>3. PICK r \in Seq(Handler) :
            /\ r = WritePosts(Tail(ready)) \o AbortedN("heartbeat", pending["heartbeat"])
            /\ ready' = Tail(ready) \o r /\ Number(r, "doClose") = 0
      BY <2>1, HeartbeatPosts
    <2>4. TimerKept' /\ AttemptBehind'
      BY <2>1, <2>2, <2>3, Undisturbed
    <2> QED
      BY <2>1, <2>4 DEF AttemptStored
  <1>12. CASE checkHeartbeatSends
    <2>1. /\ ready # <<>> /\ ~stopped /\ UNCHANGED flagVars /\ rcTimer' = rcTimer
          /\ pending' = [pending EXCEPT !["heartbeat"] = 1]
          /\ ready' = (Tail(ready) \o WritePosts(Tail(ready)))
                        \o AbortedN("heartbeat", pending["heartbeat"])
      BY <1>12 DEF checkHeartbeatSends, Runs, Rearm
    <2>2. pending'["reconnect"] = pending["reconnect"]
      BY <1>1, <2>1, Kinds
    <2>3. PICK r \in Seq(Handler) :
            /\ r = WritePosts(Tail(ready)) \o AbortedN("heartbeat", pending["heartbeat"])
            /\ ready' = Tail(ready) \o r /\ Number(r, "doClose") = 0
      BY <2>1, HeartbeatPosts
    <2>4. TimerKept' /\ AttemptBehind'
      BY <2>1, <2>2, <2>3, Undisturbed DEF flagVars
    <2> QED
      BY <2>1, <2>4 DEF AttemptStored, flagVars
  <1>13. ASSUME startWrite \/ handleWriteOk \/ checkHeartbeatEarly \/ handleReadBodyOk
         PROVE  TimerKept' /\ AttemptBehind' /\ AttemptStored'
    <2>1. /\ ready # <<>> /\ ready' = Tail(ready) /\ ~stopped /\ UNCHANGED flagVars
          /\ rcTimer' \in {rcTimer, "expired"}
      BY <1>13 DEF startWrite, handleWriteOk, checkHeartbeatEarly, handleReadBodyOk, Runs, timerVars
    <2>2. \E op \in {"write", "heartbeat", "readHeader"} :
            pending' = [pending EXCEPT ![op] = @ + 1] \/ pending' = pending
      BY <1>13 DEF startWrite, handleWriteOk, checkHeartbeatEarly, handleReadBodyOk, Start
    <2>3. pending'["reconnect"] = pending["reconnect"]
      BY <1>1, <2>2, Kinds
    <2>4. TimerKept' /\ AttemptBehind'
      BY <2>1, <2>3, UndisturbedRun DEF flagVars
    <2> QED
      BY <2>1, <2>4 DEF AttemptStored, flagVars
  (* Handlers that find the connection broken. *)
  <1>14. CASE handleReadHeaderOk
    <2>1. PICK p \in [Op -> Nat] : p = Start(pending, "readBody") /\ p["reconnect"] = pending["reconnect"]
      <3>1. /\ Start(pending, "readBody") \in [Op -> Nat]
            /\ Start(pending, "readBody")["reconnect"] = pending["reconnect"]
        BY <1>1, Kinds DEF Start
      <3> QED
        BY <3>1
    <2>2. /\ ready # <<>> /\ ~stopped
          /\ \/ Disconnect(p, Tail(ready))
             \/ pending' = p /\ ready' = Tail(ready) /\ UNCHANGED <<flagVars, rcTimer>>
      BY <1>14, <2>1 DEF handleReadHeaderOk, Runs
    <2>3. CASE Disconnect(p, Tail(ready))
      <3>1. Tail(ready) \in Seq(Handler)
        BY <1>1, <2>2, NumberTail
      <3> QED
        BY <2>1, <2>3, <3>1, DisconnectStores
    <2>4. CASE pending' = p /\ ready' = Tail(ready) /\ UNCHANGED <<flagVars, rcTimer>>
      <3>1. TimerKept' /\ AttemptBehind'
        BY <2>1, <2>2, <2>4, UndisturbedRun DEF flagVars
      <3> QED
        BY <2>2, <2>4, <3>1 DEF AttemptStored, flagVars
    <2> QED
      BY <2>2, <2>3, <2>4
  <1>15. CASE TransferFails
    <2>1. ready # <<>> /\ Disconnect(pending, Tail(ready))
      BY <1>15 DEF TransferFails, Runs
    <2>2. Tail(ready) \in Seq(Handler)
      BY <1>1, <2>1, NumberTail
    <2> QED
      BY <1>1, <2>1, <2>2, DisconnectStores
  <1>16. CASE handleConnectFail
    <2>0. ready # <<>>
      BY <1>16 DEF handleConnectFail, Runs
    <2>1. PICK p \in [Op -> Nat] :
            /\ p = IF ~Head(ready).ok THEN WithoutSocketOps(pending) ELSE pending
            /\ p["reconnect"] = pending["reconnect"]
      <3>1. /\ WithoutSocketOps(pending) \in [Op -> Nat]
            /\ WithoutSocketOps(pending)["reconnect"] = pending["reconnect"]
        BY <1>1, Kinds DEF WithoutSocketOps, SocketOps
      <3> QED
        BY <1>1, <3>1
    <2>2. PICK r \in Seq(Handler) : r = IF ~Head(ready).ok THEN SocketAborts(pending) ELSE <<>>
      BY <1>1, NumberSocket, NumberEmpty, Kinds
    <2>3. PICK q \in Seq(Handler) : q = Tail(ready) \o r
      BY <1>1, <2>0, NumberTail, NumberConcat
    <2>4. Disconnect(p, q)
      BY <1>16, <2>1, <2>2, <2>3 DEF handleConnectFail
    <2> QED
      BY <2>1, <2>4, DisconnectStores
  <1>17. CASE checkHeartbeatGivesUp
    <2>0. ready # <<>> /\ Tail(ready) \in Seq(Handler)
      BY <1>1, <1>17, NumberTail DEF checkHeartbeatGivesUp, Runs
    <2>1. PICK p \in [Op -> Nat] :
            p = Rearm(pending, "heartbeat") /\ p["reconnect"] = pending["reconnect"]
      <3>1. /\ Rearm(pending, "heartbeat") \in [Op -> Nat]
            /\ Rearm(pending, "heartbeat")["reconnect"] = pending["reconnect"]
        BY <1>1, Kinds DEF Rearm
      <3> QED
        BY <3>1
    <2>2. AbortedN("heartbeat", pending["heartbeat"]) \in Seq(Handler) /\ ClosePosts \in Seq(Handler)
      BY <1>1, NumberAborted, NumberClose, Kinds
    <2>3. PICK q \in Seq(Handler) :
            q = Tail(ready) \o ClosePosts \o AbortedN("heartbeat", pending["heartbeat"])
      BY <2>0, <2>2, AppendedType
    <2>4. startReconnect(p, q)
      BY <1>17, <2>1, <2>3 DEF checkHeartbeatGivesUp
    <2> QED
      BY <2>1, <2>4, ArmedKeeps
  (* The attempt begins. *)
  <1>18. CASE doReconnect
    <2>1. /\ ready # <<>> /\ UNCHANGED <<flagVars, rcTimer>>
          /\ pending' = Start(WithoutSocketOps(pending), "connect")
          /\ ready' = Tail(ready) \o SocketAborts(pending)
      BY <1>18 DEF doReconnect, Runs, timerVars
    <2>2. pending'["reconnect"] = pending["reconnect"] /\ pending'["connect"] = 1
      BY <1>1, <2>1, Kinds DEF Start, WithoutSocketOps, SocketOps
    <2>3. SocketAborts(pending) \in Seq(Handler) /\ Number(SocketAborts(pending), "doClose") = 0
      BY <1>1, NumberSocket, Kinds DEF SocketOps
    <2>4. TimerKept' /\ AttemptBehind'
      BY <2>1, <2>2, <2>3, Undisturbed DEF flagVars
    <2>5. AttemptStored'
      BY <2>2, Stored
    <2> QED
      BY <2>4, <2>5
  (* Only doClose takes operations away, and an attempt is behind it. *)
  <1>19. CASE doClose
    <2>1. /\ ready # <<>> /\ UNCHANGED <<reconnectFlag, rcTimer>> /\ Runs("doClose")
          /\ pending' = [WithoutSocketOps(pending) EXCEPT !["heartbeat"] = 0]
          /\ ready' = (Tail(ready) \o SocketAborts(pending))
                        \o AbortedN("heartbeat", pending["heartbeat"])
      BY <1>19 DEF doClose, Runs, timerVars
    <2>2. pending'["reconnect"] = pending["reconnect"]
      BY <1>1, <2>1, Kinds DEF WithoutSocketOps, SocketOps
    <2>3. SocketAborts(pending) \in Seq(Handler) /\ Number(SocketAborts(pending), "doClose") = 0
      BY <1>1, NumberSocket, Kinds DEF SocketOps
    <2>4. PICK r \in Seq(Handler) :
            /\ r = SocketAborts(pending) \o AbortedN("heartbeat", pending["heartbeat"])
            /\ ready' = Tail(ready) \o r /\ Number(r, "doClose") = 0
      BY <2>1, <2>3, AbortsAfter
    <2>5. TimerKept' /\ AttemptBehind'
      BY <2>1, <2>2, <2>4, Undisturbed
    <2>6. AttemptStored'
      <3>1. CASE ~isReconnect
        BY <3>1 DEF AttemptStored
      <3>2. CASE pending["reconnect"] > 0
        BY <2>2, <3>2, Stored
      <3>3. CASE Behind(ready)
        <4>1. Here["reconnect"] > 0
          BY <2>1, <3>3, BehindHead
        <4>2. /\ Here'["reconnect"]
                   = Here["reconnect"] - (IF Head(ready).op = "reconnect" THEN 1 ELSE 0)
                       + Number(r, "reconnect")
              /\ Number(r, "reconnect") \in Nat
          BY <2>1, <2>4, RunsEffect, NumberType, Kinds
        <4>3. Here'["reconnect"] > 0
          BY <1>2, <2>1, <4>1, <4>2, Kinds, SMTT(30) DEF Runs
        <4> QED
          BY <4>3, Stored
      <3> QED
        BY <3>1, <3>2, <3>3 DEF AttemptBehind
    <2> QED
      BY <2>5, <2>6
  <1> QED
    BY <1>4, <1>5, <1>6, <1>7, <1>8, <1>9, <1>10, <1>11, <1>12, <1>13, <1>14, <1>15, <1>16, <1>17,
       <1>18, <1>19 DEF Next, RunHandler, Environment

(***************************************************************************)
(* The theorems                                                            *)
(***************************************************************************)

LEMMA InitCounts ==
  ASSUME Init
  PROVE  /\ ClientTypeOK
         /\ \A k \in Kind : Here[k] = 0
         /\ Under["connect"] = 1 /\ \A k \in Op : k # "connect" => Under[k] = 0
  <1>1. ClientTypeOK
    <2>1. pending \in [Op -> Nat] /\ ready \in Seq(Handler)
      BY NumberEmpty DEF Init
    <2>2. /\ stopped = TRUE /\ closed = FALSE /\ reconnectFlag = 0
          /\ writeMsgs = 0 /\ longs = 0 /\ rcTimer = "unset"
      BY DEF Init
    <2>3. "unset" \in TimerState
      BY DEF TimerState
    <2>4. stopped \in BOOLEAN /\ closed \in BOOLEAN
      BY <2>2
    <2>5. /\ reconnectFlag \in {0, 1} /\ writeMsgs \in Int /\ longs \in Nat
          /\ rcTimer \in TimerState
      BY <2>2, <2>3
    <2> QED
      BY <2>1, <2>4, <2>5 DEF ClientTypeOK
  <1>2. \A k \in Kind : Here[k] = 0
    BY <1>1, HereType, NumberEmpty DEF Init
  <1>3. \A k \in Op : pending[k] = IF k = "connect" THEN 1 ELSE 0
    BY DEF Init
  <1> QED
    BY <1>1, <1>2, <1>3, HereType, Kinds

LEMMA PhaseKept ==
  ASSUME ClientTypeOK, PhaseInv, Next, longs' = longs
  PROVE  PhaseInv'
  <1>1. CASE Environment
    BY <1>1, EnvironmentKeeps
  <1>2. CASE ReturnsIfStopped
    BY <1>2, LeftOverKeeps
  <1>3. CASE handleConnectOk \/ handleConnectFail
    BY <1>3, ConnectKeeps
  <1>4. CASE doReconnect
    BY <1>4, ReconnectKeeps
  <1>5. CASE TransferFails \/ handleReadHeaderOk
    BY <1>5, BreakKeeps
  <1>6. CASE startWrite \/ handleWriteOk \/ checkHeartbeatEarly \/ checkHeartbeatSends
               \/ handleReadBodyOk
    <2>1. ~stopped
      BY <1>6 DEF startWrite, handleWriteOk, checkHeartbeatEarly, checkHeartbeatSends,
                  handleReadBodyOk
    <2> QED
      BY <1>6, <2>1, LiveHandlerKeeps
  <1>7. CASE checkHeartbeatGivesUp
    BY <1>7, GivesUpKeeps
  <1>8. CASE doClose
    BY <1>8, CloseKeeps
  <1> QED
    BY <1>1, <1>2, <1>3, <1>4, <1>5, <1>6, <1>7, <1>8 DEF Next, RunHandler

(* The phases of a connection hold for any bounds and however long         *)
(* message handlers take, as long as none has outlasted a reconnect wait.  *)
THEOREM PromptInvariant == Spec => []PromptInv
  <1>1. Init => PromptInv
    <2> SUFFICES ASSUME Init PROVE PromptInv
      OBVIOUS
    <2>1. Connecting
      BY InitCounts, Kinds DEF Init, Connecting
    <2>2. OneEach
      <3>1. Under["write"] = 0 /\ Under["heartbeat"] = 0 /\ stopped
        BY InitCounts, Kinds DEF Init
      <3> QED
        BY <3>1 DEF OneEach
    <2> QED
      BY <2>1, <2>2, InitCounts DEF PromptInv, PhaseInv
  <1>2. PromptInv /\ [Next]_vars => PromptInv'
    <2> SUFFICES ASSUME PromptInv, [Next]_vars PROVE PromptInv'
      OBVIOUS
    <2>1. CASE UNCHANGED vars
      <3>1. ClientTypeOK'
        BY <2>1 DEF vars, flagVars, timerVars, PromptInv, ClientTypeOK
      <3>2. /\ Here' = Here /\ Under' = Under /\ pending' = pending
            /\ UNCHANGED <<flagVars, rcTimer, writeMsgs, longs>>
        BY <2>1 DEF vars, timerVars, Here, Under
      <3>3. PhaseInv => PhaseInv'
        BY <3>2 DEF PhaseInv, OneEach, Connected, Closing, Closed, Connecting, flagVars
      <3> QED
        BY <3>1, <3>2, <3>3 DEF PromptInv, Prompt
    <2>2. CASE Next
      <3>1. ClientTypeOK'
        BY <2>2, TypeKept DEF PromptInv
      <3>2. ASSUME Prompt' PROVE PhaseInv'
        <4>1. longs' = longs \/ longs' = longs + 1
          BY <2>2 DEF Next, RunHandler, Environment, timerVars, ReturnsIfStopped, handleConnectOk,
                      handleConnectFail, doReconnect, handleReadHeaderOk, handleReadBodyOk,
                      startWrite, handleWriteOk, TransferFails, checkHeartbeatEarly,
                      checkHeartbeatSends, checkHeartbeatGivesUp, doClose, ConnectCompletes,
                      TransferCompletes, TimePasses, HeartbeatExpires, ReconnectExpires, Write
        <4>2. longs' = longs /\ Prompt
          BY <3>2, <4>1 DEF Prompt, PromptInv, ClientTypeOK
        <4> QED
          BY <2>2, <4>2, PhaseKept DEF PromptInv
      <3> QED
        BY <3>1, <3>2 DEF PromptInv
    <2> QED
      BY <2>1, <2>2
  <1> QED
    BY <1>1, <1>2, PTL DEF Spec

(* Never two writes at once, and one exactly when something is to write,    *)
(* as long as no message handler has outlasted a reconnect wait.           *)
THEOREM WriteDisciplineAlways == Spec => []WriteDiscipline
  <1>1. PromptInv => WriteDiscipline
    <2> SUFFICES ASSUME PromptInv, Prompt
                 PROVE  /\ Count("write") <= 1
                        /\ ~stopped => (Count("write") = 1 <=> writeMsgs > 0)
      BY DEF WriteDiscipline
    <2>1. Count("write") = Under["write"]
      BY HereType, Kinds DEF PromptInv
    <2> QED
      BY <2>1 DEF PromptInv, PhaseInv, OneEach
  <1> QED
    BY <1>1, PromptInvariant, PTL

(* A live connection is read by exactly one operation, as long as no       *)
(* message handler has outlasted a reconnect wait.                         *)
THEOREM OneReaderAlways == Spec => []OneReader
  <1>1. PromptInv => OneReader
    <2> SUFFICES ASSUME PromptInv, Prompt, ~stopped
                 PROVE  Count("readHeader") + Count("readBody") = 1
      BY DEF OneReader
    <2>1. Count("readHeader") = Under["readHeader"] /\ Count("readBody") = Under["readBody"]
      BY HereType, Kinds DEF PromptInv
    <2> QED
      BY <2>1 DEF PromptInv, PhaseInv, OneEach
  <1> QED
    BY <1>1, PromptInvariant, PTL

(* However often the client reconnects, one heartbeat chain is left, as    *)
(* long as no message handler has outlasted a reconnect wait.              *)
THEOREM OneHeartbeatChainAlways == Spec => []OneHeartbeatChain
  <1>1. PromptInv => OneHeartbeatChain
    <2>1. PromptInv => Count("heartbeat") = Under["heartbeat"]
      BY HereType, Kinds DEF PromptInv
    <2> QED
      BY <2>1 DEF OneHeartbeatChain, PromptInv, PhaseInv, OneEach
  <1> QED
    BY <1>1, PromptInvariant, PTL

(* The attempts of a client that is to reconnect, for any bounds and also  *)
(* when handlers outlast the reconnect interval.                           *)
THEOREM RecoveryInvariant == Spec => []RecoveryInv
  <1>1. Init => RecoveryInv
    <2> SUFFICES ASSUME Init PROVE RecoveryInv
      OBVIOUS
    <2>1. ClientTypeOK /\ Under["connect"] = 1
      BY InitCounts
    <2>2. TimerKept /\ Behind(ready)
      BY DEF Init, TimerKept, Behind
    <2> QED
      BY <2>1, <2>2 DEF RecoveryInv, AttemptBehind, AttemptStored
  <1>2. RecoveryInv /\ [Next]_vars => RecoveryInv'
    <2> SUFFICES ASSUME RecoveryInv, [Next]_vars PROVE RecoveryInv'
      OBVIOUS
    <2>1. CASE UNCHANGED vars
      <3>1. /\ Under' = Under
            /\ UNCHANGED <<stopped, closed, reconnectFlag, rcTimer, writeMsgs, longs, pending, ready>>
        BY <2>1 DEF vars, flagVars, timerVars, Here, Under
      <3>2. ClientTypeOK'
        BY <3>1 DEF RecoveryInv, ClientTypeOK
      <3> QED
        BY <3>1, <3>2 DEF RecoveryInv, TimerKept, AttemptBehind, AttemptStored
    <2>2. CASE Next
      BY <2>2, TypeKept, RecoveryKept DEF RecoveryInv
    <2> QED
      BY <2>1, <2>2
  <1> QED
    BY <1>1, <1>2, PTL DEF Spec

(* A client configured to reconnect and not connected always has the next  *)
(* attempt in store: startReconnect either arms the timer or finds an      *)
(* attempt that no doClose will take away.                                 *)
THEOREM RecoveryPendingAlways == Spec => []RecoveryPending
  <1>1. RecoveryInv => RecoveryPending
    <2> SUFFICES ASSUME RecoveryInv, isReconnect, stopped
                 PROVE  Outstanding("reconnect") \/ Outstanding("connect")
      BY DEF RecoveryPending
    <2>1. /\ ready \in Seq(Handler) /\ pending \in [Op -> Nat] /\ Here \in [Kind -> Nat]
          /\ \A op \in Op : Under[op] = pending[op] + Here[op] /\ Here[op] = Number(ready, op)
      BY HereType, Kinds DEF RecoveryInv, ClientTypeOK
    <2>2. ASSUME NEW op \in Op, Under[op] > 0 PROVE Outstanding(op)
      <3>1. pending[op] \in Nat /\ Here[op] \in Nat
        BY <2>1 DEF Kind
      <3>2. Number(ready, op) = 0 => Under[op] = pending[op]
        BY <2>1, <2>2, <3>1
      <3>3. Number(ready, op) # 0 => Queued(op) # {}
        <4>1. Number(ready, op) = 0 <=> \A i \in DOMAIN ready : ready[i].op # op
          BY <2>1, NumberType
        <4> QED
          BY <4>1 DEF Queued
      <3> QED
        BY <2>2, <3>1, <3>2, <3>3 DEF Outstanding
    <2>3. Under["reconnect"] > 0 \/ Under["connect"] > 0
      BY DEF RecoveryInv, AttemptStored
    <2> QED
      BY <2>2, <2>3, Kinds
  <1> QED
    BY <1>1, RecoveryInvariant, PTL

=============================================================================
