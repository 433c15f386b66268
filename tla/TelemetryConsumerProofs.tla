---------------------- MODULE TelemetryConsumerProofs ----------------------
(***************************************************************************)
(* Proofs about TelemetryConsumer, for any finite set of messages, any     *)
(* batch size, prefetch window, retry limit and number of faults.          *)
(***************************************************************************)
EXTENDS TelemetryConsumer, FiniteSetTheorems, TLAPS

(* What makes TypeOK inductive: the sets whose sizes are taken are finite. *)
TypeInv ==
    /\ TypeOK
    /\ IsFiniteSet(unacked) /\ IsFiniteSet(buffer) /\ IsFiniteSet(batch)

(* rows never go down, and the rows of a batch that is stored are there.   *)
LEMMA StoredGrows ==
  ASSUME TypeInv
  PROVE  /\ Stored \in [Messages -> 0 .. MaxRows]
         /\ \A m \in Messages : rows[m] <= Stored[m]
         /\ \A d \in batch : Stored[d.id] > 0
  <1> DEFINE of(m) == {d \in batch : d.id = m}
             n(m) == rows[m] + Cardinality(of(m))
  <1>1. \A m \in Messages : IsFiniteSet(of(m))
    BY FS_Subset DEF TypeInv
  <1>2. \A m \in Messages : Cardinality(of(m)) \in Nat /\ (of(m) # {} => Cardinality(of(m)) > 0)
    BY <1>1, FS_CardinalityType, FS_EmptySet
  <1>3. \A m \in Messages : rows[m] \in 0 .. MaxRows
    BY DEF TypeInv, TypeOK
  <1>4. \A m \in Messages : Stored[m] = IF n(m) <= MaxRows THEN n(m) ELSE MaxRows
    BY DEF Stored
  <1>5. \A m \in Messages : n(m) \in Nat /\ n(m) >= rows[m] /\ (of(m) # {} => n(m) > 0)
    BY <1>2, <1>3, BoundAssumption
  <1> HIDE DEF n, of
  <1>6. \A m \in Messages : /\ Stored[m] \in 0 .. MaxRows /\ rows[m] <= Stored[m]
                            /\ of(m) # {} => Stored[m] > 0
    BY <1>3, <1>4, <1>5, BoundAssumption
  <1>7. Stored \in [Messages -> 0 .. MaxRows]
    BY <1>6 DEF Stored
  <1>8. ASSUME NEW d \in batch PROVE Stored[d.id] > 0
    <2>1. d.id \in Messages
      BY DEF TypeInv, TypeOK, Delivery
    <2>2. of(d.id) # {}
      BY DEF of
    <2> QED
      BY <1>6, <2>1, <2>2
  <1> QED
    BY <1>6, <1>7, <1>8

(* What goes back to the queue is found there.                             *)
LEMMA RequeueKeeps ==
  ASSUME TypeInv, Requeue
  PROVE  /\ ready' \in [Copy -> Nat]
         /\ \A c \in Copy : ready[c] <= ready'[c]
         /\ \A d \in unacked : CopyOf(d) \in Copy /\ ready'[CopyOf(d)] > 0
  <1> DEFINE of(c) == {d \in unacked : CopyOf(d) = c}
  <1>1. \A c \in Copy : IsFiniteSet(of(c))
    BY FS_Subset DEF TypeInv
  <1>2. \A c \in Copy : Cardinality(of(c)) \in Nat /\ (of(c) # {} => Cardinality(of(c)) > 0)
    BY <1>1, FS_CardinalityType, FS_EmptySet
  <1>3. ready' = [c \in Copy |-> ready[c] + Cardinality(of(c))]
    BY DEF Requeue
  <1>4. \A c \in Copy : ready[c] \in Nat
    BY DEF TypeInv, TypeOK
  <1>5. \A d \in unacked : CopyOf(d) \in Copy /\ of(CopyOf(d)) # {}
    BY DEF CopyOf, Copy, TypeInv, TypeOK, Delivery
  <1> HIDE DEF of
  <1>6. \A c \in Copy : /\ ready'[c] \in Nat /\ ready[c] <= ready'[c]
                        /\ of(c) # {} => ready'[c] > 0
    BY <1>2, <1>3, <1>4
  <1>7. ready' \in [Copy -> Nat]
    BY <1>3, <1>6
  <1> QED
    BY <1>5, <1>6, <1>7

(* flushBatch only moves deliveries from the buffer to the batch.          *)
LEMMA FlushMoves ==
  ASSUME NEW b, NEW t \in BOOLEAN, FlushBatch(b, t)
  PROVE  /\ batch' \cup buffer' = batch \cup b
         /\ batch \cap b = {} => batch' \cap buffer' = {}
         /\ timer' \in BOOLEAN
  <1>1. Oldest(b) \subseteq b
    BY DEF Oldest
  <1> QED
    BY <1>1 DEF FlushBatch

LEMMA TypeInitial == Init => TypeInv
  <1>1. 0 \in 0 .. MaxFaults /\ 0 \in 0 .. MaxRows
    BY BoundAssumption
  <1>2. /\ [c \in Copy |-> 0] \in [Copy -> Nat]
        /\ [m \in Messages |-> 0] \in [Messages -> 0 .. MaxRows]
        /\ [k \in AllFaults |-> 0] \in [AllFaults -> 0 .. MaxFaults]
    BY <1>1
  <1>3. Init => timer \in BOOLEAN /\ immediate \in BOOLEAN /\ closing \in BOOLEAN
    BY Zenon DEF Init
  <1>4. ASSUME Init PROVE TypeOK
    BY <1>1, <1>2, <1>3, <1>4 DEF Init, TypeOK
  <1> QED
    BY <1>4, FS_EmptySet DEF Init, TypeInv

LEMMA TypeDie ==
  ASSUME TypeInv, Die, faults' \in [AllFaults -> 0 .. MaxFaults]
  PROVE  TypeInv'
  <1>1. rows' \in [Messages -> 0 .. MaxRows]
    BY StoredGrows DEF Die, TypeInv, TypeOK
  <1>2. ready' \in [Copy -> Nat]
    BY RequeueKeeps DEF Die
  <1>a. timer' \in BOOLEAN /\ immediate' \in BOOLEAN /\ closing' \in BOOLEAN
    BY Zenon DEF Die
  <1>3. TypeOK'
    BY <1>1, <1>2, <1>a DEF Die, Requeue, TypeInv, TypeOK
  <1>4. unacked' = {} /\ buffer' = {} /\ batch' = {}
    BY DEF Die, Requeue
  <1> QED
    BY <1>3, <1>4, FS_EmptySet DEF TypeInv

LEMMA FaultCounted ==
  ASSUME TypeInv, NEW k, Fault(k)
  PROVE  faults' \in [AllFaults -> 0 .. MaxFaults]
  <1>1. k \in AllFaults /\ faults \in [AllFaults -> 0 .. MaxFaults]
    BY FaultAssumption DEF Fault, TypeInv, TypeOK
  <1>2. faults[k] + 1 \in 0 .. MaxFaults
    BY <1>1, BoundAssumption DEF Fault
  <1>3. faults' = [faults EXCEPT ![k] = faults[k] + 1]
    BY DEF Fault
  <1> QED
    BY <1>1, <1>2, <1>3

(* A frame for a delivery of the batch.                                    *)
LEMMA FrameTyped ==
  ASSUME NEW d \in Delivery, NEW op \in {"ack", "publish", "reject"}
  PROVE  FrameFor(d, op) \in Frame
  BY DEF Delivery, Frame, FrameFor

(* One copy more in the queue.                                             *)
LEMMA OneMore ==
  ASSUME NEW q \in [Copy -> Nat], NEW c
  PROVE  /\ [q EXCEPT ![c] = @ + 1] \in [Copy -> Nat]
         /\ \A e \in Copy : q[e] <= [q EXCEPT ![c] = @ + 1][e]
         /\ c \in Copy => [q EXCEPT ![c] = @ + 1][c] > 0
  <1> DEFINE r == [q EXCEPT ![c] = @ + 1]
  <1>1. r = [e \in Copy |-> IF e = c THEN q[c] + 1 ELSE q[e]]
    OBVIOUS
  <1>2. \A e \in Copy : q[e] \in Nat
    OBVIOUS
  <1> HIDE DEF r
  <1>3. \A e \in Copy : r[e] = IF e = c THEN q[e] + 1 ELSE q[e]
    BY <1>1
  <1>4. \A e \in Copy : r[e] \in Nat /\ q[e] <= r[e] /\ (e = c => r[e] > 0)
    BY <1>2, <1>3
  <1>5. r \in [Copy -> Nat]
    BY <1>1, <1>4
  <1> QED
    BY <1>4, <1>5 DEF r

LEMMA TypeNext == TypeInv /\ [Next]_vars => TypeInv'
  <1> SUFFICES ASSUME TypeInv, [Next]_vars PROVE TypeInv'
    OBVIOUS
  <1> USE DEF brokerVars, lifeVars, flushVars
  <1>1. ASSUME NEW m \in Messages, Publish(m) PROVE TypeInv'
    <2>1. ready' \in [Copy -> Nat]
      BY <1>1, OneMore DEF Publish, TypeInv, TypeOK
    <2> QED
      BY <1>1, <2>1 DEF Publish, TypeInv, TypeOK
  <1>2. CASE Boot \/ Reconnect
    BY <1>2, FS_EmptySet DEF Boot, Reconnect, Start, TypeInv, TypeOK
  <1>3. CASE BootFails
    BY <1>3 DEF BootFails, TypeInv, TypeOK
  <1>4. ASSUME NEW c \in Copy, Deliver(c) PROVE TypeInv'
    <2> DEFINE d == [tag |-> nextTag, id |-> c.id, retries |-> c.retries]
               b == buffer \cup {d}
    <2>1. d \in Delivery
      BY DEF Copy, Delivery, TypeInv, TypeOK
    <2>2. unacked' = unacked \cup {d}
      BY <1>4 DEF Deliver
    <2>3. batch' \cup buffer' = batch \cup b /\ timer' \in BOOLEAN
      <3>1. CASE Cardinality(b) >= MaxSize
        <4>1. FlushBatch(b, timer)
          BY <1>4, <3>1 DEF Deliver
        <4> HIDE DEF b
        <4> QED
          BY <4>1, FlushMoves DEF TypeInv, TypeOK
      <3>2. CASE ~(Cardinality(b) >= MaxSize)
        BY <1>4, <3>2 DEF Deliver, TypeInv, TypeOK
      <3> QED
        BY <3>1, <3>2
    <2>4. IsFiniteSet(unacked') /\ IsFiniteSet(batch \cup b)
      <3>1. IsFiniteSet({d})
        BY FS_Singleton
      <3>2. IsFiniteSet(b)
        BY <3>1, FS_Union DEF TypeInv
      <3> QED
        BY <2>2, <3>1, <3>2, FS_Union DEF TypeInv
    <2>5. IsFiniteSet(buffer') /\ IsFiniteSet(batch')
      <3>1. buffer' \subseteq batch \cup b /\ batch' \subseteq batch \cup b
        BY <2>3
      <3> QED
        BY <2>4, <3>1, FS_Subset
    <2>6. /\ unacked' \subseteq Delivery
          /\ buffer' \subseteq Delivery
          /\ batch' \subseteq Delivery
      BY <2>1, <2>2, <2>3 DEF TypeInv, TypeOK
    <2>7. ready' \in [Copy -> Nat] /\ nextTag' \in Nat \ {0}
      BY <1>4 DEF Deliver, TypeInv, TypeOK
    <2> HIDE DEF d, b
    <2> QED
      BY <1>4, <2>3, <2>4, <2>5, <2>6, <2>7 DEF Deliver, TypeInv, TypeOK
  <1>5. CASE TimerFires \/ ImmediateRuns
    <2>1. PICK t \in BOOLEAN : FlushBatch(buffer, t)
      BY <1>5 DEF TimerFires, ImmediateRuns, TypeInv, TypeOK
    <2>2. batch' \cup buffer' = batch \cup buffer /\ timer' \in BOOLEAN
      BY <2>1, FlushMoves
    <2>3. IsFiniteSet(buffer') /\ IsFiniteSet(batch')
      <3>1. IsFiniteSet(batch \cup buffer)
        BY FS_Union DEF TypeInv
      <3>2. buffer' \subseteq batch \cup buffer /\ batch' \subseteq batch \cup buffer
        BY <2>2
      <3> QED
        BY <3>1, <3>2, FS_Subset
    <2>4. buffer' \subseteq Delivery /\ batch' \subseteq Delivery
      BY <2>2 DEF TypeInv, TypeOK
    <2> QED
      BY <1>5, <2>2, <2>3, <2>4 DEF TimerFires, ImmediateRuns, TypeInv, TypeOK
  <1>6. CASE InsertSucceeds \/ InsertFails
    <2>1. rows' \in [Messages -> 0 .. MaxRows]
      BY <1>6, StoredGrows DEF InsertSucceeds, InsertFails, TypeInv, TypeOK
    <2>2. \A d \in batch : FrameFor(d, "ack") \in Frame /\ FrameFor(d, RetryOp(d)) \in Frame
      BY FrameTyped DEF RetryOp, TypeInv, TypeOK
    <2>3. outbox' \subseteq Frame
      BY <1>6, <2>2 DEF InsertSucceeds, InsertFails, TypeInv, TypeOK
    <2>4. faults' \in [AllFaults -> 0 .. MaxFaults]
      BY <1>6, FaultCounted DEF InsertSucceeds, InsertFails, TypeInv, TypeOK
    <2> QED
      BY <1>6, <2>1, <2>3, <2>4, FS_EmptySet DEF InsertSucceeds, InsertFails, TypeInv, TypeOK
  <1>7. CASE InsertEndsClosed \/ Closed
    <2>1. Die /\ UNCHANGED faults
      BY <1>7 DEF InsertEndsClosed, Closed
    <2> QED
      BY <2>1, TypeDie DEF TypeInv, TypeOK
  <1>8. ASSUME NEW f \in outbox, ReadPublish(f) PROVE TypeInv'
    <2>1. FrameFor(f, "ack") \in Frame
      BY DEF TypeInv, TypeOK, Frame, FrameFor
    <2>2. ready' \in [Copy -> Nat]
      BY <1>8, OneMore DEF ReadPublish, TypeInv, TypeOK
    <2> QED
      BY <1>8, <2>1, <2>2 DEF ReadPublish, TypeInv, TypeOK
  <1>9. ASSUME NEW f \in outbox, ReadSettle(f) PROVE TypeInv'
    <2>1. IsFiniteSet(unacked')
      BY <1>9, FS_Subset DEF ReadSettle, TypeInv
    <2>2. \A d \in unacked : d.id \in Messages
      BY DEF TypeInv, TypeOK, Delivery
    <2> QED
      BY <1>9, <2>1, <2>2 DEF ReadSettle, TypeInv, TypeOK
  <1>10. ASSUME NEW f \in outbox, ReadUnknownTag(f) PROVE TypeInv'
    BY <1>10, TypeDie DEF ReadUnknownTag, TypeInv, TypeOK
  <1>11. CASE ConnectionCloses
    BY <1>11, FaultCounted, RequeueKeeps, FS_EmptySet
       DEF ConnectionCloses, Requeue, TypeInv, TypeOK
  <1>12. CASE Crash
    BY <1>12, FaultCounted, TypeDie DEF Crash
  <1>13. CASE Close
    BY <1>13, FaultCounted DEF Close, TypeInv, TypeOK
  <1>14. CASE UNCHANGED vars
    BY <1>14 DEF vars, TypeInv, TypeOK
  <1> QED
    BY <1>1, <1>2, <1>3, <1>4, <1>5, <1>6, <1>7, <1>8, <1>9, <1>10, <1>11, <1>12,
       <1>13, <1>14 DEF Next, ReadFrame

(* Every variable keeps its type, whatever fails.                          *)
THEOREM TypeCorrect == Spec => []TypeOK
  <1>1. TypeInv => TypeOK
    BY DEF TypeInv
  <1> QED
    BY <1>1, TypeInitial, TypeNext, PTL DEF Spec

-----------------------------------------------------------------------------
(* No message is lost.  The invariant says why: the writer's memory only   *)
(* names deliveries the broker still holds, each once; a retry is on its   *)
(* way only if it reaches the queue; and an acknowledgement is on its way  *)
(* only for a message that is stored, was given up, or has a copy in the   *)
(* broker that was retried more often.                                     *)

NoLostLink == "connection" \notin Faults
RetryRoutes == RoutingKey = QueueName \/ {"insert", "reply"} \cap Faults = {}

(* A retry that is written reaches the queue.                              *)
Routes == RetryRoutes => RoutingKey = QueueName

LinkInv ==
    /\ state # "closed"
    /\ state # "connected" => unacked = {} /\ buffer = {} /\ batch = {} /\ outbox = {}

TagInv ==
    /\ \A d \in unacked : d.tag < nextTag
    /\ \A d, e \in unacked : d.tag = e.tag => d = e
    /\ batch \subseteq unacked /\ buffer \subseteq unacked
    /\ batch \cap buffer = {}
    /\ \A f \in outbox : \E d \in unacked :
          /\ d.tag = f.tag /\ d.id = f.id /\ d.retries = f.retries
          /\ d \notin batch /\ d \notin buffer
    /\ \A f, g \in outbox : f.tag = g.tag => f = g
    /\ \A f \in outbox : f.op = "publish" => f.retries < MaxRetries /\ Routes

(* A copy of m retried at least r times is in the broker.                  *)
Kept(m, r) ==
    \/ \E c \in Copy : c.id = m /\ c.retries >= r /\ ready[c] > 0
    \/ \E d \in unacked : d.id = m /\ d.retries >= r

(* No copy of m is needed any more, or retries miss the queue anyway.      *)
Done(m) == rows[m] > 0 \/ m \in dropped \/ ~RetryRoutes

SafeInv ==
    /\ \A m \in published : Done(m) \/ Kept(m, 0)
    /\ \A f \in outbox : f.op = "ack" => Done(f.id) \/ Kept(f.id, f.retries + 1)

IInv == TypeInv /\ LinkInv /\ TagInv /\ SafeInv

LEMMA SafeInitial == Init => IInv
  <1>1. Init => TypeInv
    BY TypeInitial
  <1>2. Init => LinkInv
    BY DEF Init, LinkInv
  <1>3. Init => TagInv
    BY DEF Init, TagInv
  <1>4. Init => SafeInv
    BY DEF Init, SafeInv
  <1> QED
    BY <1>1, <1>2, <1>3, <1>4 DEF IInv

(* A step that takes no copy away and undoes nothing keeps what is safe.   *)
LEMMA KeptStays ==
  ASSUME TypeInv, TypeInv',
         \A c \in Copy : ready[c] > 0 => ready'[c] > 0 \/ \E e \in unacked' : CopyOf(e) = c,
         \A d \in unacked : d \in unacked' \/ (CopyOf(d) \in Copy /\ ready'[CopyOf(d)] > 0),
         NEW m, NEW r, Kept(m, r)
  PROVE  Kept(m, r)'
  <1>1. CASE \E c \in Copy : c.id = m /\ c.retries >= r /\ ready[c] > 0
    <2>1. PICK c \in Copy : c.id = m /\ c.retries >= r /\ ready[c] > 0
      BY <1>1
    <2>2. CASE ready'[c] > 0
      BY <2>1, <2>2 DEF Kept
    <2>3. ASSUME NEW e \in unacked', CopyOf(e) = c PROVE Kept(m, r)'
      BY <2>1, <2>3 DEF Kept, CopyOf
    <2> QED
      BY <2>1, <2>2, <2>3
  <1>2. CASE \E d \in unacked : d.id = m /\ d.retries >= r
    <2>1. PICK d \in unacked : d.id = m /\ d.retries >= r
      BY <1>2
    <2>2. CASE d \in unacked'
      BY <2>1, <2>2 DEF Kept
    <2>3. CASE CopyOf(d) \in Copy /\ ready'[CopyOf(d)] > 0
      <3>1. CopyOf(d).id = m /\ CopyOf(d).retries >= r
        BY <2>1 DEF CopyOf
      <3> QED
        BY <2>3, <3>1 DEF Kept
    <2> QED
      BY <2>1, <2>2, <2>3
  <1> QED
    BY <1>1, <1>2 DEF Kept

LEMMA DoneStays ==
  ASSUME TypeInv, rows' \in {rows, Stored}, dropped \subseteq dropped',
         NEW m \in Messages, Done(m)
  PROVE  Done(m)'
  <1>1. rows[m] > 0 => rows'[m] > 0
    <2>1. rows[m] <= Stored[m] /\ rows[m] \in Nat /\ Stored[m] \in Nat
      BY StoredGrows DEF TypeInv, TypeOK
    <2> QED
      BY <2>1
  <1> QED
    BY <1>1 DEF Done, RetryRoutes

(* The writer ends: the broker has everything back.                        *)
LEMMA SafeDie ==
  ASSUME IInv, Die, TypeInv'
  PROVE  IInv'
  <1>1. unacked' = {} /\ buffer' = {} /\ batch' = {} /\ outbox' = {} /\ state' = "down"
    BY DEF Die, Requeue
  <1>2. LinkInv' /\ TagInv'
    BY <1>1 DEF LinkInv, TagInv
  <1>3. /\ \A c \in Copy : ready[c] > 0 => ready'[c] > 0
        /\ \A d \in unacked : CopyOf(d) \in Copy /\ ready'[CopyOf(d)] > 0
    <2>1. /\ ready' \in [Copy -> Nat] /\ ready \in [Copy -> Nat]
          /\ \A c \in Copy : ready[c] <= ready'[c]
          /\ \A d \in unacked : CopyOf(d) \in Copy /\ ready'[CopyOf(d)] > 0
      BY RequeueKeeps DEF IInv, Die, TypeInv, TypeOK
    <2>2. \A c \in Copy : ready[c] \in Nat /\ ready'[c] \in Nat
      BY <2>1
    <2> QED
      BY <2>1, <2>2
  <1>4. ASSUME NEW m \in published PROVE Done(m)' \/ Kept(m, 0)'
    <2>1. m \in Messages
      BY DEF IInv, TypeInv, TypeOK
    <2>2. Done(m) => Done(m)'
      BY <2>1, DoneStays DEF IInv, Die
    <2>3. Kept(m, 0) => Kept(m, 0)'
      BY <1>3, KeptStays DEF IInv
    <2> QED
      BY <2>2, <2>3 DEF IInv, SafeInv
  <1>5. SafeInv'
    BY <1>1, <1>4 DEF SafeInv, Die
  <1> QED
    BY <1>2, <1>5 DEF IInv

LEMMA SafeNext ==
  ASSUME NoLostLink
  PROVE  IInv /\ [Next]_vars => IInv'
  <1> SUFFICES ASSUME IInv, [Next]_vars PROVE IInv'
    OBVIOUS
  <1> USE DEF brokerVars, lifeVars, flushVars, RetryRoutes, Routes
  <1>t. TypeInv /\ TypeInv'
    BY TypeNext DEF IInv
  <1>m. published \subseteq Messages /\ \A f \in outbox : f.id \in Messages /\ f.retries \in Nat
    BY <1>t DEF TypeInv, TypeOK, Frame
  <1>n. \A c \in Copy : ready[c] \in Nat /\ ready'[c] \in Nat
    BY <1>t DEF TypeInv, TypeOK
  (* The steps that leave the broker's copies and the outcomes alone.      *)
  <1>q. ASSUME UNCHANGED <<ready, unacked, rows, dropped, published, outbox>>
        PROVE  SafeInv'
    BY <1>q DEF IInv, SafeInv, Done, Kept
  <1>1. ASSUME NEW m \in Messages, Publish(m) PROVE IInv'
    <2> DEFINE c == [id |-> m, retries |-> 0]
    <2>0. c \in Copy /\ c.id = m /\ c.retries = 0
      BY BoundAssumption DEF Copy
    <2>1. /\ \A e \in Copy : ready[e] <= ready'[e]
          /\ ready'[c] > 0
      BY <1>1, <1>t, <2>0, OneMore DEF Publish, TypeInv, TypeOK
    <2>2. /\ \A e \in Copy : ready[e] > 0 => ready'[e] > 0
          /\ unacked' = unacked /\ outbox' = outbox
          /\ rows' = rows /\ dropped' = dropped /\ published' = published \cup {m}
      BY <1>1, <1>n, <2>1 DEF Publish
    <2>3. Kept(m, 0)'
      BY <2>0, <2>1 DEF Kept
    <2>4. \A i, r : Kept(i, r) => Kept(i, r)'
      BY <1>t, <2>2, KeptStays
    <2>5. SafeInv'
      BY <2>2, <2>3, <2>4 DEF IInv, SafeInv, Done
    <2> HIDE DEF c
    <2> QED
      BY <1>1, <1>t, <2>5 DEF Publish, IInv, LinkInv, TagInv
  <1>2. CASE Boot \/ Reconnect
    <2>1. Boot
      BY <1>2 DEF Reconnect, IInv, LinkInv
    <2>2. /\ UNCHANGED <<ready, unacked, rows, dropped, published, outbox, batch, nextTag>>
          /\ buffer' = {} /\ state' = "connected" /\ unacked = {} /\ batch = {} /\ outbox = {}
      BY <2>1 DEF Boot, Start, IInv, LinkInv
    <2>3. LinkInv' /\ TagInv'
      BY <2>2 DEF IInv, LinkInv, TagInv
    <2> QED
      BY <1>q, <1>t, <2>2, <2>3 DEF IInv
  <1>3. CASE BootFails
    <2>1. LinkInv' /\ TagInv'
      BY <1>3 DEF BootFails, IInv, LinkInv, TagInv
    <2> QED
      BY <1>3, <1>q, <1>t, <2>1 DEF BootFails, IInv
  <1>4. ASSUME NEW c \in Copy, Deliver(c) PROVE IInv'
    <2> DEFINE d == [tag |-> nextTag, id |-> c.id, retries |-> c.retries]
               b == buffer \cup {d}
    <2>1. d.tag = nextTag /\ CopyOf(d) = c /\ nextTag \in Nat
      BY <1>t DEF Copy, CopyOf, TypeInv, TypeOK
    <2>2. /\ unacked' = unacked \cup {d} /\ nextTag' = nextTag + 1
          /\ UNCHANGED <<published, state, rows, dropped, outbox>>
          /\ state = "connected"
      BY <1>4 DEF Deliver
    <2>3. d \notin unacked
      BY <2>1, <1>t DEF IInv, TagInv, TypeInv, TypeOK, Delivery
    <2>4. batch' \cup buffer' = batch \cup b /\ (batch \cap b = {} => batch' \cap buffer' = {})
      <3>1. CASE Cardinality(b) >= MaxSize
        <4>1. FlushBatch(b, timer)
          BY <1>4, <3>1 DEF Deliver
        <4> HIDE DEF b
        <4> QED
          BY <1>t, <4>1, FlushMoves DEF TypeInv, TypeOK
      <3>2. CASE ~(Cardinality(b) >= MaxSize)
        BY <1>4, <3>2 DEF Deliver
      <3> QED
        BY <3>1, <3>2
    <2>5. batch \cap b = {}
      BY <2>3 DEF IInv, TagInv
    <2>6. \A e \in Copy : ready[e] > 0 => ready'[e] > 0 \/ CopyOf(d) = e
      BY <1>4, <1>t, <2>1 DEF Deliver, TypeInv, TypeOK
    <2> HIDE DEF d
    <2>7. LinkInv'
      BY <2>2 DEF IInv, LinkInv
    <2>8. TagInv'
      <3>1. /\ \A e \in unacked' : e.tag < nextTag'
            /\ \A e, g \in unacked' : e.tag = g.tag => e = g
        <4>1. \A e \in unacked : e.tag \in Nat /\ e.tag < nextTag
          BY <1>t DEF IInv, TagInv, TypeInv, TypeOK, Delivery
        <4>2. \A e, g \in unacked : e.tag = g.tag => e = g
          BY DEF IInv, TagInv
        <4> QED
          BY <2>1, <2>2, <4>1, <4>2
      <3>2. /\ batch' \subseteq unacked' /\ buffer' \subseteq unacked'
            /\ batch' \cap buffer' = {}
        BY <2>2, <2>4, <2>5 DEF IInv, TagInv
      <3>3. \A f \in outbox' : \E e \in unacked' :
               /\ e.tag = f.tag /\ e.id = f.id /\ e.retries = f.retries
               /\ e \notin batch' /\ e \notin buffer'
        BY <2>2, <2>3, <2>4 DEF IInv, TagInv
      <3>4. /\ \A f, g \in outbox' : f.tag = g.tag => f = g
            /\ \A f \in outbox' : f.op = "publish" => f.retries < MaxRetries /\ Routes
        BY <2>2 DEF IInv, TagInv
      <3> QED
        BY <3>1, <3>2, <3>3, <3>4 DEF TagInv
    <2>9. SafeInv'
      <3>1. \A i, r : Kept(i, r) => Kept(i, r)'
        BY <1>t, <2>2, <2>6, KeptStays
      <3> QED
        BY <2>2, <3>1 DEF IInv, SafeInv, Done
    <2> QED
      BY <1>t, <2>7, <2>8, <2>9 DEF IInv
  <1>5. CASE TimerFires \/ ImmediateRuns
    <2>1. PICK t \in BOOLEAN : FlushBatch(buffer, t)
      BY <1>5, <1>t DEF TimerFires, ImmediateRuns, TypeInv, TypeOK
    <2>2. batch' \cup buffer' = batch \cup buffer /\ batch' \cap buffer' = {}
      BY <2>1, FlushMoves DEF IInv, TagInv
    <2>3. UNCHANGED <<ready, unacked, rows, dropped, published, outbox, nextTag, state>>
      BY <1>5 DEF TimerFires, ImmediateRuns
    <2>4. LinkInv' /\ TagInv'
      BY <2>2, <2>3 DEF IInv, LinkInv, TagInv
    <2> QED
      BY <1>q, <1>t, <2>3, <2>4 DEF IInv
  <1>6. CASE InsertSucceeds \/ InsertFails
    <2>1. /\ rows' \in {rows, Stored} /\ state = "connected" /\ batch' = {}
          /\ UNCHANGED <<ready, unacked, nextTag, published, dropped, buffer, state>>
      BY <1>6 DEF InsertSucceeds, InsertFails
    <2>2. PICK F \in [batch -> {"ack", "publish", "reject"}] :
             /\ outbox' = outbox \cup {FrameFor(d, F[d]) : d \in batch}
             /\ \A d \in batch : F[d] = "ack" => rows' = Stored
             /\ \A d \in batch : F[d] = "publish" => d.retries < MaxRetries /\ Routes
      <3>1. CASE InsertSucceeds
        <4> DEFINE F == [d \in batch |-> "ack"]
        <4>1. F \in [batch -> {"ack", "publish", "reject"}] /\ \A d \in batch : F[d] = "ack"
          OBVIOUS
        <4>2. outbox' = outbox \cup {FrameFor(d, "ack") : d \in batch} /\ rows' = Stored
          BY <3>1 DEF InsertSucceeds
        <4>3. {FrameFor(d, F[d]) : d \in batch} = {FrameFor(d, "ack") : d \in batch}
          BY <4>1
        <4> HIDE DEF F
        <4> QED
          BY <4>1, <4>2, <4>3
      <3>2. CASE InsertFails
        <4> DEFINE F == [d \in batch |-> RetryOp(d)]
        <4>1. /\ F \in [batch -> {"ack", "publish", "reject"}]
              /\ \A d \in batch : F[d] = RetryOp(d)
          BY DEF RetryOp
        <4>2. outbox' = outbox \cup {FrameFor(d, RetryOp(d)) : d \in batch}
          BY <3>2 DEF InsertFails
        <4>3. Routes
          BY <3>2 DEF InsertFails, Routes, RetryRoutes, Fault
        <4>4. {FrameFor(d, F[d]) : d \in batch} = {FrameFor(d, RetryOp(d)) : d \in batch}
          BY <4>1
        <4>5. \A d \in batch : /\ F[d] # "ack"
                               /\ F[d] = "publish" => d.retries < MaxRetries
          BY <4>1 DEF RetryOp
        <4> HIDE DEF F
        <4> QED
          BY <4>1, <4>2, <4>3, <4>4, <4>5
      <3> QED
        BY <1>6, <3>1, <3>2
    <2>3. \A d \in batch : /\ FrameFor(d, F[d]).tag = d.tag
                           /\ FrameFor(d, F[d]).id = d.id
                           /\ FrameFor(d, F[d]).retries = d.retries
                           /\ FrameFor(d, F[d]).op = F[d]
      BY DEF FrameFor
    <2>4. \A f \in outbox' \ outbox : \E d \in batch :
             f.tag = d.tag /\ f.id = d.id /\ f.retries = d.retries /\ f.op = F[d]
                /\ f = FrameFor(d, F[d])
      BY <2>2, <2>3
    <2>5. LinkInv'
      BY <2>1 DEF IInv, LinkInv
    <2>6. TagInv'
      <3>0. /\ batch \subseteq unacked /\ buffer \subseteq unacked /\ batch \cap buffer = {}
            /\ \A d, e \in unacked : d.tag = e.tag => d = e
            /\ \A f \in outbox : \E d \in unacked :
                  /\ d.tag = f.tag /\ d.id = f.id /\ d.retries = f.retries
                  /\ d \notin batch /\ d \notin buffer
        BY DEF IInv, TagInv
      <3>1. \A f \in outbox' : \E d \in unacked' :
               /\ d.tag = f.tag /\ d.id = f.id /\ d.retries = f.retries
               /\ d \notin batch' /\ d \notin buffer'
        <4>1. ASSUME NEW f \in outbox' \ outbox
              PROVE  \E d \in unacked' :
                        /\ d.tag = f.tag /\ d.id = f.id /\ d.retries = f.retries
                        /\ d \notin batch' /\ d \notin buffer'
          <5>1. PICK d \in batch : f.tag = d.tag /\ f.id = d.id /\ f.retries = d.retries
            BY <2>4, <4>1
          <5> QED
            BY <2>1, <3>0, <5>1
        <4> QED
          BY <2>1, <3>0, <4>1
      <3>2. ASSUME NEW f \in outbox', NEW g \in outbox', f.tag = g.tag PROVE f = g
        <4>1. CASE f \in outbox /\ g \in outbox
          BY <3>2, <4>1 DEF IInv, TagInv
        <4>2. ASSUME NEW x \in outbox, NEW y \in outbox' \ outbox PROVE x.tag # y.tag
          <5>1. PICK d \in batch : y.tag = d.tag
            BY <2>4
          <5>2. PICK e \in unacked : e.tag = x.tag /\ e \notin batch
            BY <3>0
          <5> QED
            BY <3>0, <5>1, <5>2
        <4>3. CASE f \notin outbox /\ g \notin outbox
          <5>1. PICK d \in batch : f.tag = d.tag /\ f = FrameFor(d, F[d])
            BY <2>4, <4>3
          <5>2. PICK e \in batch : g.tag = e.tag /\ g = FrameFor(e, F[e])
            BY <2>4, <4>3
          <5>3. d = e
            BY <3>0, <3>2, <5>1, <5>2
          <5> QED
            BY <5>1, <5>2, <5>3
        <4> QED
          BY <3>2, <4>1, <4>2, <4>3
      <3>3. \A f \in outbox' : f.op = "publish" => f.retries < MaxRetries /\ Routes
        <4>1. \A f \in outbox' \ outbox : f.op = "publish" => f.retries < MaxRetries /\ Routes
          BY <2>2, <2>4
        <4>2. \A f \in outbox : f.op = "publish" => f.retries < MaxRetries /\ Routes
          BY DEF IInv, TagInv
        <4> QED
          BY <4>1, <4>2
      <3>4. /\ \A d \in unacked' : d.tag < nextTag'
            /\ \A d, e \in unacked' : d.tag = e.tag => d = e
            /\ batch' \subseteq unacked' /\ buffer' \subseteq unacked'
            /\ batch' \cap buffer' = {}
        BY <2>1 DEF IInv, TagInv
      <3> QED
        BY <3>1, <3>2, <3>3, <3>4 DEF TagInv
    <2>7. SafeInv'
      <3>1. \A i, r : Kept(i, r) => Kept(i, r)'
        BY <2>1 DEF Kept
      <3>2. \A i \in Messages : Done(i) => Done(i)'
        BY <1>t, <2>1, DoneStays
      <3>3. ASSUME NEW f \in outbox' \ outbox, f.op = "ack" PROVE Done(f.id)'
        <4>1. PICK d \in batch : f.id = d.id /\ f.op = F[d]
          BY <2>4
        <4>2. rows' = Stored
          BY <2>2, <3>3, <4>1
        <4>3. Stored[d.id] > 0
          BY <1>t, StoredGrows
        <4> QED
          BY <4>1, <4>2, <4>3 DEF Done
      <3>4. \A i \in published' : Done(i)' \/ Kept(i, 0)'
        BY <1>m, <2>1, <3>1, <3>2 DEF IInv, SafeInv
      <3>5. \A f \in outbox : f.op = "ack" => Done(f.id)' \/ Kept(f.id, f.retries + 1)'
        BY <1>m, <3>1, <3>2 DEF IInv, SafeInv
      <3> QED
        BY <3>3, <3>4, <3>5 DEF SafeInv
    <2> QED
      BY <1>t, <2>5, <2>6, <2>7 DEF IInv
  <1>7. CASE InsertEndsClosed \/ Closed \/ Crash
    BY <1>7, <1>t, SafeDie DEF InsertEndsClosed, Closed, Crash
  <1>8. ASSUME NEW f \in outbox, state = "connected", ReadPublish(f) PROVE IInv'
    <2> DEFINE c == [id |-> f.id, retries |-> f.retries + 1]
               a == FrameFor(f, "ack")
    <2>0. /\ f.op = "publish" /\ f.retries < MaxRetries /\ Routes
          /\ f.id \in Messages /\ f.retries \in Nat
      BY <1>8, <1>m DEF ReadPublish, IInv, TagInv
    <2>1. c \in Copy /\ c.id = f.id /\ c.retries = f.retries + 1
      BY <2>0, BoundAssumption DEF Copy
    <2>2. a.tag = f.tag /\ a.id = f.id /\ a.retries = f.retries /\ a.op = "ack"
      BY DEF FrameFor
    <2>3. /\ \/ ready' = [ready EXCEPT ![c] = @ + 1]
             \/ UNCHANGED ready /\ ~RetryRoutes
          /\ outbox' = (outbox \ {f}) \cup {a}
          /\ UNCHANGED <<published, unacked, nextTag, state, buffer, batch, rows, dropped>>
      BY <1>8, <2>0 DEF ReadPublish
    <2>4. /\ ready'[c] > 0 \/ ~RetryRoutes
          /\ \A e \in Copy : ready[e] > 0 => ready'[e] > 0
      <3>1. CASE ready' = [ready EXCEPT ![c] = @ + 1]
        <4>1. ready'[c] > 0 /\ \A e \in Copy : ready[e] <= ready'[e]
          BY <1>t, <2>1, <3>1, OneMore DEF TypeInv, TypeOK
        <4> QED
          BY <1>n, <4>1
      <3> QED
        BY <2>3, <3>1
    <2> HIDE DEF c, a
    <2>5. LinkInv' /\ TagInv'
      <3>1. LinkInv'
        BY <1>8, <2>3 DEF IInv, LinkInv
      <3>2. \A x \in outbox' : \E d \in unacked' :
               /\ d.tag = x.tag /\ d.id = x.id /\ d.retries = x.retries
               /\ d \notin batch' /\ d \notin buffer'
        BY <2>2, <2>3 DEF IInv, TagInv
      <3>3. \A x, y \in outbox' : x.tag = y.tag => x = y
        BY <2>2, <2>3 DEF IInv, TagInv
      <3>4. \A x \in outbox' : x.op = "publish" => x.retries < MaxRetries /\ Routes
        BY <2>0, <2>2, <2>3 DEF IInv, TagInv
      <3>5. /\ \A d \in unacked' : d.tag < nextTag'
            /\ \A d, e \in unacked' : d.tag = e.tag => d = e
            /\ batch' \subseteq unacked' /\ buffer' \subseteq unacked'
            /\ batch' \cap buffer' = {}
        BY <2>3 DEF IInv, TagInv
      <3> QED
        BY <3>1, <3>2, <3>3, <3>4, <3>5 DEF TagInv
    <2>6. SafeInv'
      <3>1. \A i, r : Kept(i, r) => Kept(i, r)'
        BY <1>t, <2>3, <2>4, KeptStays
      <3>2. Kept(a.id, a.retries + 1)' \/ Done(a.id)'
        BY <2>0, <2>1, <2>2, <2>4 DEF Kept, Done
      <3>3. \A i : Done(i)' = Done(i)
        BY <2>3 DEF Done
      <3> QED
        BY <2>2, <2>3, <3>1, <3>2, <3>3 DEF IInv, SafeInv
    <2> QED
      BY <1>t, <2>5, <2>6 DEF IInv
  <1>9. ASSUME NEW f \in outbox, state = "connected", ReadSettle(f) PROVE IInv'
    <2>1. PICK d \in unacked : /\ d.tag = f.tag /\ d.id = f.id /\ d.retries = f.retries
                               /\ d \notin batch /\ d \notin buffer
      BY DEF IInv, TagInv
    <2>2. /\ unacked' = unacked \ {d}
          /\ outbox' = outbox \ {f}
          /\ dropped' = IF f.op = "reject" THEN dropped \cup {f.id} ELSE dropped
          /\ f.op \in {"ack", "reject"}
          /\ UNCHANGED <<published, ready, nextTag, state, buffer, batch, rows>>
      <3>1. \A e \in unacked : e.tag = f.tag <=> e = d
        BY <2>1 DEF IInv, TagInv
      <3> QED
        BY <1>9, <2>1, <3>1 DEF ReadSettle
    <2>3. LinkInv' /\ TagInv'
      <3>1. LinkInv'
        BY <1>9, <2>2 DEF IInv, LinkInv
      <3>2. \A x \in outbox' : \E e \in unacked' :
               /\ e.tag = x.tag /\ e.id = x.id /\ e.retries = x.retries
               /\ e \notin batch' /\ e \notin buffer'
        <4>1. ASSUME NEW x \in outbox'
              PROVE  \E e \in unacked' : /\ e.tag = x.tag /\ e.id = x.id /\ e.retries = x.retries
                                         /\ e \notin batch' /\ e \notin buffer'
          <5>1. x \in outbox /\ x # f
            BY <2>2
          <5>2. x.tag # f.tag
            BY <5>1 DEF IInv, TagInv
          <5>3. PICK e \in unacked : /\ e.tag = x.tag /\ e.id = x.id /\ e.retries = x.retries
                                     /\ e \notin batch /\ e \notin buffer
            BY <5>1 DEF IInv, TagInv
          <5> QED
            BY <2>1, <2>2, <5>2, <5>3
        <4> QED
          BY <4>1
      <3>3. /\ \A e \in unacked' : e.tag < nextTag'
            /\ \A e, g \in unacked' : e.tag = g.tag => e = g
            /\ batch' \subseteq unacked' /\ buffer' \subseteq unacked'
            /\ batch' \cap buffer' = {}
            /\ \A x, y \in outbox' : x.tag = y.tag => x = y
            /\ \A x \in outbox' : x.op = "publish" => x.retries < MaxRetries /\ Routes
        BY <2>1, <2>2 DEF IInv, TagInv
      <3> QED
        BY <3>1, <3>2, <3>3 DEF TagInv
    <2>4. d.retries \in Nat
      BY <1>t DEF TypeInv, TypeOK, Delivery
    <2>5. \A i, r : Kept(i, r) => Kept(i, r)' \/ (i = f.id /\ f.retries >= r)
      BY <2>1, <2>2 DEF Kept
    <2>6. \A i : Done(i) => Done(i)'
      BY <2>2 DEF Done
    <2>7. Done(f.id)' \/ Kept(f.id, f.retries + 1)'
      <3>1. CASE f.op = "reject"
        BY <2>2, <3>1 DEF Done
      <3>2. CASE f.op = "ack"
        <4>1. Done(f.id) \/ Kept(f.id, f.retries + 1)
          BY <3>2 DEF IInv, SafeInv
        <4>2. ~(f.retries >= f.retries + 1)
          BY <1>m
        <4> QED
          BY <2>5, <2>6, <4>1, <4>2
      <3> QED
        BY <2>2, <3>1, <3>2
    <2>8. ASSUME NEW r \in Nat, f.retries >= r, Kept(f.id, f.retries + 1)' PROVE Kept(f.id, r)'
      <3>1. \A c \in Copy : c.retries \in Nat
        BY DEF Copy
      <3>2. \A e \in unacked' : e.retries \in Nat
        BY <1>t DEF TypeInv, TypeOK, Delivery
      <3> QED
        BY <1>m, <2>8, <3>1, <3>2 DEF Kept
    <2>9. SafeInv'
      <3>1. ASSUME NEW i \in published' PROVE Done(i)' \/ Kept(i, 0)'
        <4>1. Done(i) \/ Kept(i, 0)
          BY <2>2 DEF IInv, SafeInv
        <4> QED
          BY <4>1, <2>5, <2>6, <2>7, <2>8
      <3>2. ASSUME NEW g \in outbox', g.op = "ack"
            PROVE  Done(g.id)' \/ Kept(g.id, g.retries + 1)'
        <4>1. g \in outbox /\ g.retries + 1 \in Nat
          BY <1>m, <2>2
        <4>2. Done(g.id) \/ Kept(g.id, g.retries + 1)
          BY <3>2, <4>1 DEF IInv, SafeInv
        <4> QED
          BY <4>1, <4>2, <2>5, <2>6, <2>7, <2>8
      <3> QED
        BY <3>1, <3>2 DEF SafeInv
    <2> QED
      BY <1>t, <2>3, <2>9 DEF IInv
  <1>10. ASSUME NEW f \in outbox, ReadUnknownTag(f) PROVE IInv'
    BY <1>10 DEF ReadUnknownTag, IInv, TagInv
  <1>11. CASE ConnectionCloses
    BY <1>11 DEF ConnectionCloses, Fault, NoLostLink
  <1>12. CASE Close
    <2>1. LinkInv' /\ TagInv'
      BY <1>12 DEF Close, IInv, LinkInv, TagInv
    <2> QED
      BY <1>12, <1>q, <1>t, <2>1 DEF Close, IInv
  <1>13. CASE UNCHANGED vars
    <2>1. LinkInv' /\ TagInv'
      BY <1>13 DEF vars, IInv, LinkInv, TagInv
    <2> QED
      BY <1>13, <1>q, <1>t, <2>1 DEF vars, IInv
  <1> QED
    BY <1>1, <1>2, <1>3, <1>4, <1>5, <1>6, <1>7, <1>8, <1>9, <1>10, <1>11, <1>12,
       <1>13 DEF Next, ReadFrame

LEMMA SafeImplies == IInv /\ RetryRoutes => Accounted
  BY DEF IInv, SafeInv, Accounted, Done, Kept, AtBroker

(* While no connection is lost under a running writer, and retries reach   *)
(* the queue or inserts do not fail, no published message is lost,         *)
(* whatever dies.                                                          *)
THEOREM AccountedCorrect ==
  ASSUME NoLostLink, RetryRoutes
  PROVE  Spec => []Accounted
  <1>1. IInv /\ [Next]_vars => IInv'
    BY SafeNext
  <1> QED
    BY <1>1, SafeInitial, SafeImplies, PTL DEF Spec

-----------------------------------------------------------------------------
(* No message is stored twice.  While nothing is hidden, a message that is *)
(* not settled has one copy, in the queue or delivered, and one that is    *)
(* settled has none: a delivery counts until its acknowledgement is        *)
(* written, because the retry's frame comes before it.                     *)

Untold(m) == rows[m] = 0 /\ m \notin dropped

Live(d) == \A f \in outbox : f.tag = d.tag => f.op # "ack"

OneCopy ==
    /\ \A c \in Copy : ready[c] <= 1 /\ (ready[c] > 0 => c.id \in published /\ Untold(c.id))
    /\ \A d \in unacked : Live(d) => d.id \in published /\ Untold(d.id)
    /\ \A c, e \in Copy : ready[c] > 0 /\ ready[e] > 0 /\ c.id = e.id => c = e
    /\ \A d, e \in unacked : Live(d) /\ Live(e) /\ d.id = e.id => d = e
    /\ \A d \in unacked, c \in Copy : Live(d) /\ ready[c] > 0 => d.id # c.id
    /\ \A m \in Messages \ published : Untold(m)
    /\ \A m \in Messages : rows[m] <= (IF m \in dropped THEN 0 ELSE 1)

OnceInv == Hidden = 0 => OneCopy

(* What was hidden stays so.                                               *)
LEMMA HiddenGrows ==
  ASSUME TypeInv, [Next]_vars, Hidden' = 0
  PROVE  /\ Hidden = 0
         /\ ~Fault("crash") /\ ~Fault("reply") /\ ~Fault("connection")
  <1>1. faults \in [AllFaults -> Nat]
    BY BoundAssumption DEF TypeInv, TypeOK
  <1>2. ASSUME NEW k, Fault(k)
        PROVE  /\ faults' \in [AllFaults -> Nat]
               /\ \A i \in AllFaults : faults[i] <= faults'[i]
               /\ faults'[k] > 0 /\ k \in AllFaults
    <2>1. k \in AllFaults /\ faults' = [faults EXCEPT ![k] = faults[k] + 1]
      BY <1>2, FaultAssumption DEF Fault
    <2>2. \A i \in AllFaults : faults'[i] = IF i = k THEN faults[i] + 1 ELSE faults[i]
      BY <1>1, <2>1
    <2>3. \A i \in AllFaults : faults[i] \in Nat
      BY <1>1
    <2> QED
      BY <1>1, <2>1, <2>2, <2>3
  <1>3. faults' = faults \/ \E k : Fault(k)
    BY DEF Next, vars, lifeVars, Publish, Boot, BootFails, Reconnect, Start, Deliver,
       TimerFires, ImmediateRuns, InsertSucceeds, InsertFails, InsertEndsClosed, ReadFrame,
       ReadPublish, ReadSettle, ReadUnknownTag, ConnectionCloses, Crash, Close, Closed
  <1>4. {"crash", "reply", "connection"} \subseteq AllFaults
    BY DEF AllFaults
  <1>5. \A i \in AllFaults : faults[i] \in Nat /\ faults'[i] \in Nat /\ faults[i] <= faults'[i]
    <2>1. CASE faults' = faults
      BY <1>1, <2>1
    <2>2. CASE \E k : Fault(k)
      BY <1>1, <1>2, <2>2
    <2> QED
      BY <1>3, <2>1, <2>2
  <1>6. /\ faults'["crash"] = 0 /\ faults'["reply"] = 0 /\ faults'["connection"] = 0
        /\ faults["crash"] = 0 /\ faults["reply"] = 0 /\ faults["connection"] = 0
    BY <1>4, <1>5 DEF Hidden
  <1>7. Hidden = 0
    BY <1>6 DEF Hidden
  <1> QED
    BY <1>2, <1>6, <1>7

(* The rows of a batch in which each message is once, and not yet stored.  *)
LEMMA StoredOneByOne ==
  ASSUME TypeInv,
         \A d, e \in batch : d.id = e.id => d = e,
         \A d \in batch : rows[d.id] = 0
  PROVE  \A m \in Messages :
            Stored[m] = IF \E d \in batch : d.id = m THEN 1 ELSE rows[m]
  <1> SUFFICES ASSUME NEW m \in Messages
               PROVE  Stored[m] = IF \E d \in batch : d.id = m THEN 1 ELSE rows[m]
    OBVIOUS
  <1> DEFINE of == {d \in batch : d.id = m}
             n == rows[m] + Cardinality(of)
  <1>1. Stored[m] = IF n <= MaxRows THEN n ELSE MaxRows
    BY DEF Stored
  <1>2. rows[m] \in 0 .. MaxRows
    BY DEF TypeInv, TypeOK
  <1>3. CASE \E d \in batch : d.id = m
    <2>1. PICK d \in batch : d.id = m
      BY <1>3
    <2>2. of = {d}
      BY <2>1
    <2>3. Cardinality(of) = 1
      BY <2>2, FS_Singleton
    <2>4. n = 1
      BY <2>1, <2>3
    <2> HIDE DEF n
    <2> QED
      BY <1>1, <1>3, <2>4, BoundAssumption
  <1>4. CASE ~\E d \in batch : d.id = m
    <2>1. of = {}
      BY <1>4
    <2>2. Cardinality(of) = 0
      BY <2>1, FS_EmptySet
    <2>3. n = rows[m]
      BY <1>2, <2>2, BoundAssumption
    <2> HIDE DEF n
    <2> QED
      BY <1>1, <1>2, <1>4, <2>3, BoundAssumption
  <1> QED
    BY <1>3, <1>4

(* What is one copy in the queue or delivered is one copy in the queue.    *)
LEMMA RequeueOnce ==
  ASSUME TypeInv, OneCopy, outbox = {}, Requeue
  PROVE  \A c \in Copy :
            ready'[c] = IF \E d \in unacked : CopyOf(d) = c THEN 1 ELSE ready[c]
  <1> SUFFICES ASSUME NEW c \in Copy
               PROVE  ready'[c] = IF \E d \in unacked : CopyOf(d) = c THEN 1 ELSE ready[c]
    OBVIOUS
  <1> DEFINE of == {d \in unacked : CopyOf(d) = c}
  <1>1. ready'[c] = ready[c] + Cardinality(of)
    BY DEF Requeue
  <1>2. ready[c] \in Nat
    BY DEF TypeInv, TypeOK
  <1>3. \A d \in unacked : Live(d)
    BY DEF Live
  <1>4. CASE \E d \in unacked : CopyOf(d) = c
    <2>1. PICK d \in unacked : CopyOf(d) = c
      BY <1>4
    <2>2. \A e \in of : e.id = d.id /\ e \in unacked
      BY <2>1 DEF CopyOf
    <2>3. of = {d}
      BY <1>3, <2>1, <2>2 DEF OneCopy
    <2>4. Cardinality(of) = 1
      BY <2>3, FS_Singleton
    <2>5. ~(ready[c] > 0)
      BY <1>3, <2>1 DEF OneCopy, CopyOf
    <2> HIDE DEF of
    <2> QED
      BY <1>1, <1>2, <1>4, <2>4, <2>5
  <1>5. CASE ~\E d \in unacked : CopyOf(d) = c
    <2>1. of = {}
      BY <1>5
    <2>2. Cardinality(of) = 0
      BY <2>1, FS_EmptySet
    <2> HIDE DEF of
    <2> QED
      BY <1>1, <1>2, <1>5, <2>2
  <1> QED
    BY <1>4, <1>5

LEMMA OnceInitial == Init => OnceInv
  <1> SUFFICES ASSUME Init PROVE OneCopy
    BY DEF OnceInv
  <1>1. \A c \in Copy : ready[c] = 0
    BY DEF Init
  <1>2. \A m \in Messages : rows[m] = 0 /\ m \notin dropped
    BY DEF Init
  <1> QED
    BY <1>1, <1>2 DEF Init, OneCopy, Untold

LEMMA OnceSame ==
  ASSUME OneCopy, UNCHANGED <<ready, unacked, outbox, rows, dropped, published>>
  PROVE  OneCopy'
  BY DEF OneCopy, Live, Untold

(* Every copy that appears comes from one that is gone by the same step.   *)
LEMMA OnceNext ==
  ASSUME NoLostLink
  PROVE  IInv /\ OnceInv /\ [Next]_vars => OnceInv'
  <1> SUFFICES ASSUME IInv, OnceInv, [Next]_vars, Hidden' = 0 PROVE OneCopy'
    BY DEF OnceInv
  <1> USE DEF brokerVars, lifeVars, flushVars
  <1>t. TypeInv /\ LinkInv /\ TagInv /\ TypeInv'
    BY TypeNext DEF IInv
  <1>h. Hidden = 0 /\ ~Fault("crash") /\ ~Fault("reply") /\ ~Fault("connection")
    BY <1>t, HiddenGrows
  <1>o. OneCopy
    BY <1>h DEF OnceInv
  <1>n. /\ \A c \in Copy : c.id \in Messages /\ ready[c] \in Nat
        /\ \A d \in unacked : d.id \in Messages
        /\ \A m \in Messages : rows[m] \in Nat
    <2>1. ready \in [Copy -> Nat] /\ unacked \subseteq Delivery
          /\ rows \in [Messages -> 0 .. MaxRows]
      BY <1>t DEF TypeInv, TypeOK
    <2>2. \A c \in Copy : c.id \in Messages /\ ready[c] \in Nat
      BY <2>1 DEF Copy
    <2>3. \A d \in unacked : d.id \in Messages
      BY <2>1 DEF Delivery
    <2>4. \A m \in Messages : rows[m] \in Nat
      BY <2>1, BoundAssumption
    <2> QED
      BY <2>2, <2>3, <2>4
  <1>1. ASSUME NEW m \in Messages, Publish(m) PROVE OneCopy'
    <2> DEFINE c == [id |-> m, retries |-> 0]
    <2>1. c \in Copy /\ c.id = m
      BY BoundAssumption DEF Copy
    <2>2. /\ m \notin published /\ published' = published \cup {m}
          /\ ready' = [ready EXCEPT ![c] = @ + 1]
          /\ UNCHANGED <<unacked, outbox, rows, dropped>>
      BY <1>1 DEF Publish
    <2>3. /\ Untold(m) /\ \A e \in Copy : e.id = m => ready[e] = 0
          /\ \A d \in unacked : Live(d) => d.id # m
      BY <1>n, <1>o, <2>2 DEF OneCopy
    <2> HIDE DEF c
    <2>4. \A e \in Copy : ready'[e] = IF e = c THEN 1 ELSE ready[e]
      BY <1>t, <2>1, <2>2, <2>3 DEF TypeInv, TypeOK
    <2> QED
      BY <1>o, <2>1, <2>2, <2>3, <2>4 DEF OneCopy, Live, Untold
  <1>2. CASE Boot \/ BootFails \/ Reconnect \/ TimerFires \/ ImmediateRuns \/ Close
    BY <1>2, <1>o, OnceSame DEF Boot, BootFails, Reconnect, Start, TimerFires, ImmediateRuns,
       Close
  <1>3. ASSUME NEW c \in Copy, Deliver(c) PROVE OneCopy'
    <2> DEFINE d == [tag |-> nextTag, id |-> c.id, retries |-> c.retries]
    <2>1. d.tag = nextTag /\ d.id = c.id
      OBVIOUS
    <2>2. /\ ready[c] > 0 /\ unacked' = unacked \cup {d}
          /\ ready' = [ready EXCEPT ![c] = @ - 1]
          /\ UNCHANGED <<published, rows, dropped, outbox>>
      BY <1>3 DEF Deliver
    <2> HIDE DEF d
    <2>3. ready[c] = 1
      BY <1>n, <1>o, <2>2 DEF OneCopy
    <2>4. \A e \in Copy : ready'[e] = IF e = c THEN 0 ELSE ready[e]
      BY <1>t, <2>2, <2>3 DEF TypeInv, TypeOK
    <2>5. \A e \in Copy : ready'[e] > 0 => ready[e] > 0 /\ e.id # c.id
      BY <1>o, <2>2, <2>4 DEF OneCopy
    <2>6. c.id \in published /\ Untold(c.id) /\ \A e \in unacked : Live(e) => e.id # c.id
      BY <1>o, <2>2 DEF OneCopy
    <2> QED
      <3>1. \A e \in Copy : ready'[e] <= 1 /\ (ready'[e] > 0 => ready[e] > 0)
        BY <1>o, <2>4, <2>5 DEF OneCopy
      <3>2. \A e : Live(e)' = Live(e)
        BY <2>2 DEF Live
      <3>3. \A e \in unacked' : e \in unacked \/ (e = d /\ e.id = c.id)
        BY <2>1, <2>2
      <3>4. \A m : Untold(m)' = Untold(m)
        BY <2>2 DEF Untold
      <3>5. \A e, g \in unacked' : Live(e)' /\ Live(g)' /\ e.id = g.id => e = g
        BY <1>o, <2>6, <3>2, <3>3 DEF OneCopy
      <3>6. \A e \in unacked', g \in Copy : Live(e)' /\ ready'[g] > 0 => e.id # g.id
        BY <1>o, <2>5, <3>2, <3>3 DEF OneCopy
      <3>7. \A e \in unacked' : Live(e)' => e.id \in published' /\ Untold(e.id)'
        BY <1>o, <2>2, <2>6, <3>2, <3>3, <3>4 DEF OneCopy
      <3> QED
        BY <1>o, <2>2, <3>1, <3>4, <3>5, <3>6, <3>7 DEF OneCopy
  <1>4. CASE InsertSucceeds
    <2>1. /\ rows' = Stored /\ outbox' = outbox \cup {FrameFor(d, "ack") : d \in batch}
          /\ UNCHANGED <<ready, unacked, published, dropped>>
      BY <1>4 DEF InsertSucceeds
    <2>2. batch \subseteq unacked /\ \A d \in batch : Live(d)
      <3>1. \A d \in batch : \A f \in outbox : f.tag # d.tag
        BY <1>t DEF TagInv
      <3> QED
        BY <1>t, <3>1 DEF TagInv, Live
    <2>3. \A m \in Messages : rows'[m] = IF \E d \in batch : d.id = m THEN 1 ELSE rows[m]
      <3>1. /\ \A d, e \in batch : d.id = e.id => d = e
            /\ \A d \in batch : rows[d.id] = 0 /\ d.id \notin dropped
        BY <1>o, <2>2 DEF OneCopy, Untold
      <3> QED
        BY <1>t, <2>1, <3>1, StoredOneByOne
    <2>4. \A d \in unacked : Live(d)' => Live(d) /\ d \notin batch
      <3>1. \A d \in batch : FrameFor(d, "ack") \in outbox' /\ FrameFor(d, "ack").tag = d.tag
                             /\ FrameFor(d, "ack").op = "ack"
        BY <2>1 DEF FrameFor
      <3> QED
        BY <2>1, <3>1 DEF Live
    <2>5. \A d \in unacked : Live(d)' => \A e \in batch : e.id # d.id
      BY <1>o, <2>2, <2>4 DEF OneCopy
    <2>6. \A c \in Copy : ready[c] > 0 => \A e \in batch : e.id # c.id
      BY <1>o, <2>2 DEF OneCopy
    <2>7. \A m \in Messages : (\A e \in batch : e.id # m) => (Untold(m)' = Untold(m))
      BY <2>1, <2>3 DEF Untold
    <2>8. \A e \in batch : e.id \in published /\ e.id \notin dropped
      BY <1>o, <2>2 DEF OneCopy, Untold
    <2>9. /\ \A c \in Copy : ready'[c] > 0 => Untold(c.id)'
          /\ \A d \in unacked' : Live(d)' => Untold(d.id)'
          /\ \A m \in Messages \ published' : Untold(m)'
      <3>1. \A c \in Copy : ready[c] > 0 => Untold(c.id)
        BY <1>o DEF OneCopy
      <3>2. \A d \in unacked : Live(d) => Untold(d.id)
        BY <1>o DEF OneCopy
      <3>3. \A m \in Messages \ published : Untold(m)
        BY <1>o DEF OneCopy
      <3> QED
        BY <1>n, <2>1, <2>4, <2>5, <2>6, <2>7, <2>8, <3>1, <3>2, <3>3
    <2>10. \A m \in Messages : rows'[m] <= (IF m \in dropped' THEN 0 ELSE 1)
      BY <1>n, <1>o, <2>1, <2>3, <2>8 DEF OneCopy
    <2> QED
      BY <1>o, <2>1, <2>4, <2>9, <2>10 DEF OneCopy
  <1>5. CASE InsertFails
    <2>1. /\ outbox' = outbox \cup {FrameFor(d, RetryOp(d)) : d \in batch}
          /\ UNCHANGED <<ready, unacked, published, dropped, rows>>
      BY <1>5, <1>h DEF InsertFails
    <2>2. \A d \in unacked : Live(d)' => Live(d)
      BY <2>1 DEF Live
    <2>3. \A m : Untold(m)' = Untold(m)
      BY <2>1 DEF Untold
    <2> QED
      BY <1>o, <2>1, <2>2, <2>3 DEF OneCopy
  <1>6. CASE InsertEndsClosed \/ ConnectionCloses \/ Crash
    BY <1>6, <1>h, <1>t DEF InsertEndsClosed, ConnectionCloses, Crash, LinkInv
  <1>7. ASSUME NEW f \in outbox, ReadPublish(f) PROVE OneCopy'
    <2> DEFINE c == [id |-> f.id, retries |-> f.retries + 1]
               a == FrameFor(f, "ack")
    <2>1. a.tag = f.tag /\ a.op = "ack" /\ c.id = f.id
      BY DEF FrameFor
    <2>2. /\ f.op = "publish"
          /\ ready' = [ready EXCEPT ![c] = @ + 1] \/ UNCHANGED ready
          /\ outbox' = (outbox \ {f}) \cup {a}
          /\ UNCHANGED <<published, unacked, rows, dropped>>
      BY <1>7 DEF ReadPublish
    <2>3. PICK d \in unacked : d.tag = f.tag /\ d.id = f.id
      BY <1>t DEF TagInv
    <2>4. Live(d)
      BY <1>t, <2>2, <2>3 DEF Live, TagInv
    <2>5. \A e \in unacked : Live(e)' => Live(e) /\ e # d
      <3>1. ASSUME NEW e \in unacked, Live(e)' PROVE e # d /\ Live(e)
        <4>1. a \in outbox'
          BY <2>2
        <4>2. e.tag # f.tag
          BY <2>1, <3>1, <4>1 DEF Live
        <4> HIDE DEF a
        <4> QED
          BY <2>2, <2>3, <3>1, <4>2 DEF Live
      <3> QED
        BY <3>1
    <2>6. \A e \in unacked : Live(e)' => e.id # f.id
      BY <1>o, <2>3, <2>4, <2>5 DEF OneCopy
    <2>7. f.id \in published /\ Untold(f.id) /\ \A e \in Copy : e.id = f.id => ready[e] = 0
      BY <1>n, <1>o, <2>3, <2>4 DEF OneCopy
    <2> HIDE DEF c, a
    <2>8. \A e \in Copy : ready'[e] = ready[e] \/ (e = c /\ e.id = f.id /\ ready'[e] = 1)
      BY <1>t, <2>1, <2>2, <2>7 DEF TypeInv, TypeOK
    <2>9. \A m : Untold(m)' = Untold(m)
      BY <2>2 DEF Untold
    <2>10. \A e \in Copy : /\ ready'[e] <= 1
                           /\ ready'[e] > 0 => (ready[e] > 0 /\ e.id # f.id) \/ (e = c /\ e.id = f.id)
      BY <1>o, <2>7, <2>8 DEF OneCopy
    <2>11. \A e, g \in Copy : ready'[e] > 0 /\ ready'[g] > 0 /\ e.id = g.id => e = g
      BY <1>o, <2>10 DEF OneCopy
    <2>12. \A e \in unacked', g \in Copy : Live(e)' /\ ready'[g] > 0 => e.id # g.id
      BY <1>o, <2>2, <2>5, <2>6, <2>10 DEF OneCopy
    <2>13. \A e \in Copy : ready'[e] > 0 => e.id \in published' /\ Untold(e.id)'
      BY <1>o, <2>2, <2>7, <2>9, <2>10 DEF OneCopy
    <2> QED
      BY <1>o, <2>2, <2>5, <2>9, <2>10, <2>11, <2>12, <2>13 DEF OneCopy
  <1>8. ASSUME NEW f \in outbox, ReadSettle(f) PROVE OneCopy'
    <2>1. PICK d \in unacked : d.tag = f.tag /\ d.id = f.id
      BY <1>t DEF TagInv
    <2>2. /\ unacked' = unacked \ {d} /\ outbox' = outbox \ {f}
          /\ dropped' = IF f.op = "reject" THEN dropped \cup {d.id} ELSE dropped
          /\ UNCHANGED <<published, ready, rows>>
      <3>1. \A e \in unacked : e.tag = f.tag <=> e = d
        BY <1>t, <2>1 DEF TagInv
      <3> QED
        BY <1>8, <3>1 DEF ReadSettle
    <2>3. \A e \in unacked' : Live(e)' => Live(e)
      <3>1. \A e \in unacked' : e.tag # f.tag
        BY <1>t, <2>1, <2>2 DEF TagInv
      <3> QED
        BY <2>2, <3>1 DEF Live
    <2>4. CASE f.op # "reject"
      <3>1. \A m : Untold(m)' = Untold(m)
        BY <2>2, <2>4 DEF Untold
      <3>2. dropped' = dropped
        BY <2>2, <2>4
      <3> QED
        BY <1>o, <2>2, <2>3, <3>1, <3>2 DEF OneCopy
    <2>5. CASE f.op = "reject"
      <3>1. Live(d)
        BY <1>t, <2>1, <2>5 DEF Live, TagInv
      <3>2. /\ d.id \in published /\ rows[d.id] = 0
            /\ \A c \in Copy : ready[c] > 0 => c.id # d.id
            /\ \A e \in unacked' : Live(e)' => e.id # d.id
        BY <1>o, <2>2, <2>3, <3>1 DEF OneCopy, Untold
      <3>3. \A m : m # d.id => (Untold(m)' = Untold(m))
        BY <2>2, <2>5 DEF Untold
      <3>4. \A m \in Messages : rows'[m] <= (IF m \in dropped' THEN 0 ELSE 1)
        BY <1>n, <1>o, <2>2, <2>5, <3>2 DEF OneCopy
      <3>5. \A m \in Messages \ published' : Untold(m)'
        BY <1>o, <2>2, <3>2, <3>3 DEF OneCopy
      <3>6. \A c \in Copy : ready'[c] <= 1 /\ (ready'[c] > 0 => c.id \in published' /\ Untold(c.id)')
        BY <1>o, <2>2, <3>2, <3>3 DEF OneCopy
      <3>7. \A e \in unacked' : Live(e)' => e.id \in published' /\ Untold(e.id)'
        BY <1>o, <2>2, <2>3, <3>2, <3>3 DEF OneCopy
      <3> QED
        BY <1>o, <2>2, <2>3, <3>4, <3>5, <3>6, <3>7 DEF OneCopy
    <2> QED
      BY <2>4, <2>5
  <1>9. ASSUME NEW f \in outbox, ReadUnknownTag(f) PROVE OneCopy'
    BY <1>9, <1>t DEF ReadUnknownTag, TagInv
  <1>10. CASE Closed
    <2>1. /\ batch = {} /\ outbox = {} /\ Requeue /\ rows' \in {rows, Stored}
          /\ UNCHANGED <<published, dropped>>
      BY <1>10 DEF Closed, Die
    <2>2. unacked' = {} /\ \A d \in unacked : Live(d)
      BY <2>1 DEF Requeue, Live
    <2>3. \A m \in Messages : rows'[m] = rows[m]
      <3>1. \A m \in Messages : Stored[m] = rows[m]
        BY <1>t, <2>1, StoredOneByOne
      <3> QED
        BY <2>1, <3>1
    <2>4. \A c \in Copy : ready'[c] = IF \E d \in unacked : CopyOf(d) = c THEN 1 ELSE ready[c]
      BY <1>o, <1>t, <2>1, RequeueOnce
    <2>5. \A m \in Messages : Untold(m)' = Untold(m)
      BY <2>1, <2>3 DEF Untold
    <2>6. ASSUME NEW c \in Copy
          PROVE  /\ ready'[c] <= 1
                 /\ ready'[c] > 0 => c.id \in published' /\ Untold(c.id)'
      <3>1. CASE \E d \in unacked : CopyOf(d) = c
        <4>1. PICK d \in unacked : CopyOf(d) = c
          BY <3>1
        <4>2. d.id = c.id /\ d.id \in published /\ Untold(d.id)
          BY <1>o, <2>2, <4>1 DEF OneCopy, CopyOf
        <4> QED
          BY <1>n, <2>1, <2>4, <2>5, <3>1, <4>2
      <3>2. CASE ~\E d \in unacked : CopyOf(d) = c
        BY <1>n, <1>o, <2>1, <2>4, <2>5, <3>2 DEF OneCopy
      <3> QED
        BY <3>1, <3>2
    <2>7. ASSUME NEW c \in Copy, NEW e \in Copy, ready'[c] > 0, ready'[e] > 0, c.id = e.id
          PROVE  c = e
      <3>1. (\E d \in unacked : CopyOf(d) = c /\ d.id = c.id) \/ ready[c] > 0
        BY <2>4, <2>7 DEF CopyOf
      <3>2. (\E d \in unacked : CopyOf(d) = e /\ d.id = e.id) \/ ready[e] > 0
        BY <2>4, <2>7 DEF CopyOf
      <3> QED
        BY <1>o, <2>2, <2>7, <3>1, <3>2 DEF OneCopy
    <2>8. \A m \in Messages \ published' : Untold(m)'
      BY <1>o, <2>1, <2>5 DEF OneCopy
    <2>9. \A m \in Messages : rows'[m] <= (IF m \in dropped' THEN 0 ELSE 1)
      BY <1>o, <2>1, <2>3 DEF OneCopy
    <2> QED
      BY <2>2, <2>6, <2>7, <2>8, <2>9 DEF OneCopy
  <1>11. CASE UNCHANGED vars
    BY <1>11, <1>o, OnceSame DEF vars
  <1> QED
    BY <1>1, <1>2, <1>3, <1>4, <1>5, <1>6, <1>7, <1>8, <1>9, <1>10, <1>11 DEF Next, ReadFrame

(* While no connection is lost under a running writer, no message is in    *)
(* the table twice, and none is dropped that is in it, unless a crash or a *)
(* lost answer hid an INSERT that was committed; whether retries reach the *)
(* queue does not matter.                                                  *)
THEOREM StoredOnceCorrect ==
  ASSUME NoLostLink
  PROVE  Spec => []StoredOnce
  <1>1. IInv /\ [Next]_vars => IInv'
    BY SafeNext
  <1>2. IInv /\ OnceInv /\ [Next]_vars => OnceInv'
    BY OnceNext
  <1>3. OnceInv => StoredOnce
    BY DEF OnceInv, OneCopy, StoredOnce
  <1> QED
    BY <1>1, <1>2, <1>3, SafeInitial, OnceInitial, PTL DEF Spec
=============================================================================
