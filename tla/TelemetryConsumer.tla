------------------------- MODULE TelemetryConsumer -------------------------
(***************************************************************************)
(* RabbitBatchConsumer of telemetry.db.writer.node.ts: telemetry messages  *)
(* from a RabbitMQ queue, buffered, inserted into PostgreSQL in batches    *)
(* and acknowledged one by one.                                            *)
(*                                                                         *)
(* Node.js runs one callback at a time, so a step is the code between two  *)
(* awaits; what interleaves is deliveries, the batch timer, setImmediate,  *)
(* the end of an INSERT, the frames on the socket, the loss of the         *)
(* connection, SIGTERM and the death of the process.                       *)
(***************************************************************************)
EXTENDS Naturals, FiniteSets

CONSTANTS
    Messages,     \* the telemetry records the parser may publish
    MaxSize,      \* batch.max_size, 500 in rabbitmq_config.json
    Prefetch,     \* channel.prefetch, 500
    MaxRetries,   \* 3
    QueueName,    \* "telemetry"
    RoutingKey,   \* the key messages are published with: "teltonika_telemetry"
    Faults,       \* which of AllFaults occur
    MaxFaults,    \* bound: faults of each kind but "insert" and "broker"
    MaxRows       \* bound: rows of one message that are told apart

ASSUME MessageAssumption == IsFiniteSet(Messages)
ASSUME SizeAssumption    == MaxSize \in Nat \ {0} /\ Prefetch \in Nat \ {0}
ASSUME BoundAssumption   == MaxRetries \in Nat /\ MaxFaults \in Nat /\ MaxRows \in Nat \ {0}

(* createBulk rejects; it rejects although PostgreSQL committed; the broker*)
(* closes the connection; it is away when the writer boots; the writer     *)
(* dies; it is told to stop.                                               *)
AllFaults == {"insert", "reply", "connection", "broker", "crash", "sigterm"}

ASSUME FaultAssumption   == Faults \subseteq AllFaults

VARIABLES
    published,  \* messages the parser has handed to the broker
    ready,      \* ready[c]: copies c in the queue and not delivered
    unacked,    \* deliveries on the open channel the broker waits an answer for
    nextTag,    \* delivery tag of the next delivery on this channel
    state,      \* the writer: "down", "connected", "closed" or "idle"
    faults,     \* history: faults of each kind so far
    buffer,     \* this.batches[name]
    timer,      \* this.timers[name] is armed
    immediate,  \* a setImmediate callback is waiting
    batch,      \* messages: the deliveries being inserted; {} if not flushing
    closing,    \* this.shuttingDown
    outbox,     \* frames written to the socket the broker has not read
    rows,       \* rows[m]: telemetry rows of message m, counted up to MaxRows
    dropped     \* messages rejected after the retry limit

brokerVars == <<published, ready, unacked, nextTag>>
lifeVars   == <<state, faults, closing>>
flushVars  == <<buffer, timer, immediate, batch>>
vars == <<brokerVars, lifeVars, flushVars, outbox, rows, dropped>>

(* A copy of a message in the broker: its id and x-retry-count header.     *)
Copy     == [id : Messages, retries : 0 .. MaxRetries]
Delivery == [tag : Nat \ {0}, id : Messages, retries : 0 .. MaxRetries]
Frame    == [tag : Nat \ {0}, id : Messages, retries : 0 .. MaxRetries,
             op : {"ack", "publish", "reject"}]

CopyOf(d) == [id |-> d.id, retries |-> d.retries]

TypeOK ==
    /\ published \subseteq Messages
    /\ ready \in [Copy -> Nat]
    /\ unacked \subseteq Delivery
    /\ nextTag \in Nat \ {0}
    /\ state \in {"down", "connected", "closed", "idle"}
    /\ faults \in [AllFaults -> 0 .. MaxFaults]
    /\ buffer \subseteq Delivery
    /\ batch \subseteq Delivery
    /\ timer \in BOOLEAN /\ immediate \in BOOLEAN /\ closing \in BOOLEAN
    /\ outbox \subseteq Frame
    /\ rows \in [Messages -> 0 .. MaxRows]
    /\ dropped \subseteq Messages

Init ==
    /\ published = {}
    /\ ready = [c \in Copy |-> 0]
    /\ unacked = {}
    /\ nextTag = 1
    /\ state = "down"
    /\ faults = [k \in AllFaults |-> 0]
    /\ buffer = {}
    /\ timer = FALSE
    /\ immediate = FALSE
    /\ batch = {}
    /\ closing = FALSE
    /\ outbox = {}
    /\ rows = [m \in Messages |-> 0]
    /\ dropped = {}

-----------------------------------------------------------------------------
(* The parser publishes to the exchange, which routes to the queue.        *)
Publish(m) ==
    /\ m \notin published
    /\ published' = published \cup {m}
    /\ ready' = [ready EXCEPT ![[id |-> m, retries |-> 0]] = @ + 1]
    /\ UNCHANGED <<unacked, nextTag, lifeVars, flushVars, outbox, rows, dropped>>

(* The channel is gone: the broker puts every unacked delivery back in the *)
(* queue and never reads the frames still on their way.                    *)
Requeue ==
    /\ ready' = [c \in Copy |-> ready[c] + Cardinality({d \in unacked : CopyOf(d) = c})]
    /\ unacked' = {}
    /\ outbox' = {}
    /\ nextTag' = 1

(* start(): connect, setupQueue (which empties the buffer) and consume.    *)
Start ==
    /\ state' = "connected"
    /\ buffer' = {}
    /\ UNCHANGED <<brokerVars, faults, timer, immediate, batch, closing, outbox, rows, dropped>>

(* App.init when the process comes up.                                     *)
Boot == state = "down" /\ Start

(* App.init catches the error of a start() that finds no broker: the       *)
(* process stays up and does not try again.                                *)
BootFails ==
    /\ "broker" \in Faults
    /\ state = "down"
    /\ state' = "idle"
    /\ UNCHANGED <<brokerVars, faults, closing, flushVars, outbox, rows, dropped>>

(* Mutant of Reconnect: it connects and does not consume.                  *)
ReconnectOnly ==
    /\ state = "closed" /\ ~timer
    /\ state' = "idle"
    /\ buffer' = {}
    /\ UNCHANGED <<brokerVars, faults, timer, immediate, batch, closing, outbox, rows, dropped>>

(* connection.on("close"), 10 s later.  The batch timer is of 5 s, so it   *)
(* has fired by then; an INSERT may still be running.                      *)
Reconnect == state = "closed" /\ ~timer /\ Start

Fault(kind) ==
    /\ kind \in Faults
    /\ faults[kind] < MaxFaults
    /\ faults' = [faults EXCEPT ![kind] = @ + 1]

(* The INSERT of the batch has been committed.                             *)
Stored == [m \in Messages |->
              LET n == rows[m] + Cardinality({d \in batch : d.id = m})
              IN  IF n <= MaxRows THEN n ELSE MaxRows]

(* The memory of the process is gone; PostgreSQL finishes the INSERT it    *)
(* was sent, or has not got it.                                            *)
Die ==
    /\ state' = "down"
    /\ buffer' = {}
    /\ timer' = FALSE
    /\ immediate' = FALSE
    /\ batch' = {}
    /\ closing' = FALSE
    /\ Requeue
    /\ rows' \in {rows, Stored}
    /\ UNCHANGED <<published, dropped>>

(* The broker closes the connection, as it does when it restarts.          *)
ConnectionCloses ==
    /\ Fault("connection")
    /\ state = "connected"
    /\ state' = "closed"
    /\ Requeue
    /\ UNCHANGED <<published, closing, flushVars, rows, dropped>>

(* The process is killed; or the socket fails, start() fails on a          *)
(* reconnect, or a frame closes the channel: each is an "error" event or a *)
(* rejection nothing listens to, which ends a Node.js process.             *)
Crash ==
    /\ Fault("crash")
    /\ state # "down"
    /\ Die

-----------------------------------------------------------------------------
(* The batch.                                                              *)

Oldest(S) == {d \in S : Cardinality({e \in S : e.tag < d.tag}) < MaxSize}

(* flushBatch up to its await, on the buffer b with the timer set to t.    *)
FlushBatch(b, t) ==
    IF closing \/ batch # {} \/ b = {}
    THEN buffer' = b /\ timer' = t /\ UNCHANGED batch
    ELSE /\ batch' = Oldest(b)
         /\ buffer' = b \ Oldest(b)
         /\ timer' = FALSE

(* The callback of channel.consume.                                        *)
Deliver(c) ==
    /\ state = "connected"
    /\ ready[c] > 0
    /\ Cardinality(unacked) < Prefetch
    /\ LET d == [tag |-> nextTag, id |-> c.id, retries |-> c.retries]
           b == buffer \cup {d}
       IN  /\ unacked' = unacked \cup {d}
           /\ IF Cardinality(b) >= MaxSize
              THEN FlushBatch(b, timer)
              ELSE /\ buffer' = b
                   /\ timer' = (timer \/ Cardinality(b) = 1)
                   /\ UNCHANGED batch
    /\ ready' = [ready EXCEPT ![c] = @ - 1]
    /\ nextTag' = nextTag + 1
    /\ UNCHANGED <<published, lifeVars, immediate, outbox, rows, dropped>>

TimerFires ==
    /\ timer
    /\ FlushBatch(buffer, FALSE)
    /\ UNCHANGED <<brokerVars, lifeVars, immediate, outbox, rows, dropped>>

ImmediateRuns ==
    /\ immediate
    /\ immediate' = FALSE
    /\ FlushBatch(buffer, timer)
    /\ UNCHANGED <<brokerVars, lifeVars, outbox, rows, dropped>>

FrameFor(d, what) == [tag |-> d.tag, id |-> d.id, retries |-> d.retries, op |-> what]

(* Mutant of InsertSucceeds: what arrived meanwhile is not scheduled.      *)
InsertNoFollowUp ==
    /\ batch # {}
    /\ state = "connected"
    /\ rows' = Stored
    /\ outbox' = outbox \cup {FrameFor(d, "ack") : d \in batch}
    /\ batch' = {}
    /\ UNCHANGED <<brokerVars, lifeVars, buffer, timer, immediate, dropped>>

(* createBulk resolves: the rows are in, what arrived meanwhile is         *)
(* scheduled, and an ack is written for every message of the batch, on     *)
(* the channel of now, with the tag of then.                               *)
InsertSucceeds ==
    /\ batch # {}
    /\ state = "connected"
    /\ rows' = Stored
    /\ immediate' = (immediate \/ buffer # {})
    /\ outbox' = outbox \cup {FrameFor(d, "ack") : d \in batch}
    /\ batch' = {}
    /\ UNCHANGED <<brokerVars, lifeVars, buffer, timer, dropped>>

(* Mutant of RetryOp: a failed message is acknowledged and not published.  *)
AckOnError(d) == IF d.retries < MaxRetries THEN "ack" ELSE "reject"

(* What becomes of a message of a failed batch.                            *)
RetryOp(d) == IF d.retries < MaxRetries THEN "publish" ELSE "reject"

(* createBulk, one statement for the whole batch, rejects: each message is *)
(* published again and acknowledged, or rejected.  Nothing schedules a     *)
(* flush of what arrived meanwhile.                                        *)
InsertFails ==
    /\ batch # {}
    /\ state = "connected"
    /\ \/ "insert" \in Faults /\ UNCHANGED <<rows, faults>>
       \/ Fault("reply") /\ rows' = Stored
    /\ outbox' = outbox \cup {FrameFor(d, RetryOp(d)) : d \in batch}
    /\ batch' = {}
    /\ UNCHANGED <<brokerVars, state, closing, buffer, timer, immediate, dropped>>

(* The insert ends, well or badly, while the channel is closed: ack throws *)
(* into the catch block, where publish throws, and the rejection is not    *)
(* handled: the process ends.                                              *)
InsertEndsClosed ==
    /\ batch # {}
    /\ state = "closed"
    /\ Die
    /\ UNCHANGED faults

-----------------------------------------------------------------------------
(* The broker reads the frames, a message's publish before its ack.  The   *)
(* order of the messages, which only decides what a lost connection leaves *)
(* unread, is left open.                                                   *)

(* The default exchange routes by queue name.                              *)
ReadPublish(f) ==
    /\ f.op = "publish"
    /\ ready' = IF RoutingKey = QueueName
                THEN [ready EXCEPT ![[id |-> f.id, retries |-> f.retries + 1]] = @ + 1]
                ELSE ready
    /\ outbox' = (outbox \ {f}) \cup {FrameFor(f, "ack")}
    /\ UNCHANGED <<published, unacked, nextTag, lifeVars, flushVars, rows, dropped>>

(* The delivery with that tag on the channel of now, whatever it is.       *)
ReadSettle(f) ==
    /\ f.op \in {"ack", "reject"}
    /\ \E d \in unacked : d.tag = f.tag
    /\ unacked' = {d \in unacked : d.tag # f.tag}
    /\ outbox' = outbox \ {f}
    /\ dropped' = IF f.op = "reject"
                  THEN dropped \cup {d.id : d \in {e \in unacked : e.tag = f.tag}}
                  ELSE dropped
    /\ UNCHANGED <<published, ready, nextTag, lifeVars, flushVars, rows>>

(* PRECONDITION_FAILED, unknown delivery tag: the channel's "error" event. *)
ReadUnknownTag(f) ==
    /\ f.op \in {"ack", "reject"}
    /\ \A d \in unacked : d.tag # f.tag
    /\ Die
    /\ UNCHANGED faults

ReadFrame(f) ==
    /\ state = "connected"
    /\ (ReadPublish(f) \/ ReadSettle(f) \/ ReadUnknownTag(f))

-----------------------------------------------------------------------------
(* SIGTERM: App.gracefulShutdown calls close(), which lets the flush that  *)
(* is running end, and then closes the channel, which lets every frame     *)
(* out.  What is buffered goes back to the queue.                          *)
Close ==
    /\ state # "down"
    /\ ~closing
    /\ Fault("sigterm")
    /\ closing' = TRUE
    /\ UNCHANGED <<brokerVars, state, flushVars, outbox, rows, dropped>>

(* Mutant of Closed: close() does not wait for the flush that is running.  *)
ClosedEarly ==
    /\ closing
    /\ Die
    /\ UNCHANGED faults

Closed ==
    /\ closing
    /\ batch = {}
    /\ outbox = {}
    /\ Die
    /\ UNCHANGED faults

-----------------------------------------------------------------------------
Next ==
    \/ \E m \in Messages : Publish(m)
    \/ Boot \/ BootFails \/ Reconnect
    \/ \E c \in Copy : Deliver(c)
    \/ TimerFires \/ ImmediateRuns
    \/ InsertSucceeds \/ InsertFails \/ InsertEndsClosed
    \/ \E f \in outbox : ReadFrame(f)
    \/ ConnectionCloses \/ Crash
    \/ Close \/ Closed

Spec == Init /\ [][Next]_vars

(* Timers fire, the database answers, the broker delivers and reads, and a *)
(* writer that is down is started again.                                   *)
Fairness ==
    /\ WF_vars(Boot) /\ WF_vars(Reconnect) /\ WF_vars(Closed)
    /\ \A c \in Copy : WF_vars(Deliver(c))
    /\ WF_vars(TimerFires) /\ WF_vars(ImmediateRuns)
    /\ WF_vars(InsertSucceeds \/ InsertFails \/ InsertEndsClosed)
    /\ WF_vars(\E f \in outbox : ReadFrame(f))

FairSpec == Spec /\ Fairness

-----------------------------------------------------------------------------
AtBroker(m) ==
    \/ \E c \in Copy : c.id = m /\ ready[c] > 0
    \/ \E d \in unacked : d.id = m

(* A message is in the broker until it is in PostgreSQL or was rejected    *)
(* after its retries, whatever dies and whenever: "we re-publish the       *)
(* message with an incremented retry counter ... after 3 retries, the      *)
(* message is dropped" (flushBatch).                                       *)
Accounted ==
    \A m \in published : rows[m] > 0 \/ m \in dropped \/ AtBroker(m)

(* Failures that hide from the writer, or from the broker, what became of  *)
(* a batch.                                                                *)
Hidden == faults["crash"] + faults["reply"] + faults["connection"]

(* Failed inserts and graceful shutdowns leave no message in the table     *)
(* twice: close() lets the running flush and its acknowledgements through. *)
(* Only a lost process, answer or connection stores a message again, or    *)
(* has the writer drop one after its retries that was stored.              *)
StoredOnce ==
    Hidden = 0 => \A m \in Messages : rows[m] <= (IF m \in dropped THEN 0 ELSE 1)

(* While PostgreSQL works and connections last, every message published    *)
(* ends up in the table although the writer is killed and stopped now and  *)
(* then: nothing waits in the buffer for ever.                             *)
EveryMessageStored ==
    \A m \in Messages : m \in published ~> (rows[m] > 0 \/ faults["connection"] > 0)

(* The queue drains in the end, connections lost, restarts and stale       *)
(* acknowledgements notwithstanding: the writer always reconnects and      *)
(* nothing it holds keeps the broker waiting ("auto-reconnect on close").  *)
QueueDrains == \A m \in Messages : m \in published ~> []~AtBroker(m)
=============================================================================
