------------------------------ MODULE Codec12 ------------------------------
(***************************************************************************)
(* The life of the Codec 12 commands of one device.                        *)
(*                                                                         *)
(* web.backend.node.ts inserts a command in PostgreSQL and appends it to   *)
(* the device's pending list in Redis; teltonika.parser.go moves it        *)
(* through the inflight key and the sync hash while it talks to the        *)
(* device; telemetry.db.writer.node.ts drains the sync hash into           *)
(* PostgreSQL.  Every Redis key but the sync hash is per IMEI, and the     *)
(* hash is keyed by the command's UUID, so one device stands for all.      *)
(*                                                                         *)
(* A packet is handled in one step per Redis call, because each            *)
(* connection is served by a goroutine of its own and a device that        *)
(* reconnects is served by two of them for a while.                        *)
(***************************************************************************)
EXTENDS Naturals, Sequences, FiniteSets

CONSTANTS
    Commands,    \* the commands (UUIDs) the backend may create for the device
    Sessions,    \* the TCP connections that have handshaken with its IMEI
    MaxRetries,  \* 10 in handler.go
    MaxWire,     \* bound: command packets on their way to or in the device
    Faults,      \* which of "redis", "parser", "backend", "writer" may fail
    NoCmd        \* no command; as a response, "no_response" or none yet

ASSUME CommandAssumption == IsFiniteSet(Commands) /\ NoCmd \notin Commands
ASSUME RetriesAssumption == MaxRetries \in Nat
ASSUME WireAssumption    == MaxWire \in Nat
ASSUME FaultAssumption   == Faults \subseteq {"redis", "parser", "backend", "writer"}

VARIABLES
    requests,  \* API requests between the insert and the RPUSH: sets of commands
    pending,   \* list codec12:pending-commands:<imei>
    inflight,  \* key  codec12:inflight-commands:<imei>
    sync,      \* hash codec12:sync-commands
    pc,        \* pc[s]: the call the handler of session s makes next
    packet,    \* packet[s]: the packet it is handling
    held,      \* held[s]: inflightCommand or pendingCommand, its local copy
    out,       \* out[s]: the command it will write to the device (cmd)
    batches,   \* contents of the sync hash the writer took and has not stored
    db,        \* teltonika.codec12_commands: the outcome column of each row
    wire,      \* command packets sent to the device and not yet answered
    attempts   \* history: SetToInflight calls per command, up to MaxRetries + 1

redisVars  == <<pending, inflight, sync>>
localVars  == <<packet, held, out>>
writerVars == <<batches, db>>
vars == <<requests, redisVars, pc, localVars, writerVars, wire, attempts>>

MaybeCmd == Commands \cup {NoCmd}

(* The part of Codec12Command that changes while the command is in flight. *)
Entry   == [cmd : MaybeCmd, retries : 0 .. MaxRetries]
NoEntry == [cmd |-> NoCmd, retries |-> 0]

(* Status and response, as the sync hash and the table hold them.          *)
Outcome   == [status : {"none", "pending", "completed", "failed"},
              response : MaybeCmd]
NoOutcome == [status |-> "none", response |-> NoCmd]
Queued    == [status |-> "pending", response |-> NoCmd]
Final     == {"completed", "failed"}

Packet   == [type : {"GPRS_Messages", "AVL_Data"}, answer : MaybeCmd]
NoPacket == [type |-> "AVL_Data", answer |-> NoCmd]

RedisSteps == {"existsInflight", "getInflight", "delete", "sync", "resend",
               "recheck", "existsPending", "pop", "setInflight"}
Steps == RedisSteps \cup {"idle", "reply"}

TypeOK ==
    /\ requests \in SUBSET (SUBSET Commands)
    /\ pending \in Seq(Commands)
    /\ inflight \in Entry
    /\ sync \in [Commands -> Outcome]
    /\ pc \in [Sessions -> Steps]
    /\ packet \in [Sessions -> Packet]
    /\ held \in [Sessions -> Entry]
    /\ out \in [Sessions -> MaybeCmd]
    /\ batches \in SUBSET [Commands -> Outcome]
    /\ db \in [Commands -> Outcome]
    /\ wire \in Seq(Commands)
    /\ attempts \in [Commands -> 0 .. (MaxRetries + 1)]

Init ==
    /\ requests = {}
    /\ pending = <<>>
    /\ inflight = NoEntry
    /\ sync = [c \in Commands |-> NoOutcome]
    /\ pc = [s \in Sessions |-> "idle"]
    /\ packet = [s \in Sessions |-> NoPacket]
    /\ held = [s \in Sessions |-> NoEntry]
    /\ out = [s \in Sessions |-> NoCmd]
    /\ batches = {}
    /\ db = [c \in Commands |-> NoOutcome]
    /\ wire = <<>>
    /\ attempts = [c \in Commands |-> 0]

-----------------------------------------------------------------------------
(* The backend: TeltonikaController.addCodec12Command.                     *)

(* createBulk: one multi-row INSERT.                                       *)
CreateBulk(S) ==
    /\ S # {}
    /\ \A c \in S : db[c] = NoOutcome
    /\ db' = [c \in Commands |-> IF c \in S THEN Queued ELSE db[c]]
    /\ requests' = requests \cup {S}
    /\ UNCHANGED <<redisVars, pc, localVars, batches, wire, attempts>>

(* findManyByUUID has no ORDER BY: the rows come back in any order.        *)
Orders(S) == {q \in [1 .. Cardinality(S) -> S] :
                  \A i, j \in DOMAIN q : q[i] = q[j] => i = j}

(* findManyByUUID, then one RPUSH of all the rows.                         *)
PushPending(S) ==
    /\ S \in requests
    /\ requests' = requests \ {S}
    /\ \E q \in Orders(S) : pending' = pending \o q
    /\ UNCHANGED <<inflight, sync, pc, localVars, writerVars, wire, attempts>>

(* The catch block, or a crash of the backend: the rows stay "pending".    *)
AddFails(S) ==
    /\ "backend" \in Faults
    /\ S \in requests
    /\ requests' = requests \ {S}
    /\ UNCHANGED <<redisVars, pc, localVars, writerVars, wire, attempts>>

-----------------------------------------------------------------------------
(* The parser: handleTcpData, from a parsed data packet to the reply.      *)

Goto(s, step) == pc' = [pc EXCEPT ![s] = step]

HandlerUnchanged == UNCHANGED <<requests, writerVars>>

(* A telemetry packet arrives.                                             *)
ReceiveAvl(s) ==
    /\ pc[s] = "idle"
    /\ packet' = [packet EXCEPT ![s] = NoPacket]
    /\ Goto(s, "existsInflight")
    /\ UNCHANGED <<redisVars, held, out, wire, attempts>> /\ HandlerUnchanged

(* The device answers the oldest command packet it got.  The answer does   *)
(* not say which command it is for.                                        *)
ReceiveAnswer(s) ==
    /\ pc[s] = "idle"
    /\ wire # <<>>
    /\ packet' = [packet EXCEPT ![s] = [type |-> "GPRS_Messages",
                                        answer |-> Head(wire)]]
    /\ wire' = Tail(wire)
    /\ Goto(s, "existsInflight")
    /\ UNCHANGED <<redisVars, held, out, attempts>> /\ HandlerUnchanged

ExistsInflight(s) ==
    /\ pc[s] = "existsInflight"
    /\ Goto(s, IF inflight = NoEntry THEN "recheck" ELSE "getInflight")
    /\ UNCHANGED <<redisVars, localVars, wire, attempts>> /\ HandlerUnchanged

(* Mutant of GetInflight: one attempt short of the limit.                  *)
GetInflightOneShort(s) ==
    /\ pc[s] = "getInflight"
    /\ held' = [held EXCEPT ![s] = inflight]
    /\ Goto(s, IF inflight = NoEntry THEN "idle"
               ELSE IF packet[s].type = "AVL_Data" /\ inflight.retries + 1 < MaxRetries
                    THEN "resend" ELSE "delete")
    /\ UNCHANGED <<redisVars, packet, out, wire, attempts>> /\ HandlerUnchanged

(* GET.  A key that went away since EXISTS reads as "", which does not     *)
(* unmarshal: the handler replies with a zero ACK and gives up.            *)
GetInflight(s) ==
    /\ pc[s] = "getInflight"
    /\ held' = [held EXCEPT ![s] = inflight]
    /\ Goto(s, IF inflight = NoEntry THEN "idle"
               ELSE IF packet[s].type = "AVL_Data" /\ inflight.retries < MaxRetries
                    THEN "resend" ELSE "delete")
    /\ UNCHANGED <<redisVars, packet, out, wire, attempts>> /\ HandlerUnchanged

(* Mutant of DeleteInflight: the outcome is written and the key is kept.   *)
DeleteInflightKept(s) ==
    /\ pc[s] = "delete"
    /\ Goto(s, "sync")
    /\ UNCHANGED <<redisVars, localVars, wire, attempts>> /\ HandlerUnchanged

(* The inflight key goes, answered or given up.                            *)
DeleteInflight(s) ==
    /\ pc[s] = "delete"
    /\ inflight' = NoEntry
    /\ Goto(s, "sync")
    /\ UNCHANGED <<pending, sync, localVars, wire, attempts>> /\ HandlerUnchanged

(* The outcome SetToSync writes: the packet decides which.                 *)
OutcomeOf(p) == IF p.type = "GPRS_Messages"
                THEN [status |-> "completed", response |-> p.answer]
                ELSE [status |-> "failed", response |-> NoCmd]

(* SetToSync: HSET under the command's UUID.  Its error is only logged.    *)
SetToSync(s) ==
    /\ pc[s] = "sync"
    /\ \/ sync' = [sync EXCEPT ![held[s].cmd] = OutcomeOf(packet[s])]
       \/ "redis" \in Faults /\ UNCHANGED sync
    /\ held' = [held EXCEPT ![s] = NoEntry]
    /\ Goto(s, "recheck")
    /\ UNCHANGED <<pending, inflight, packet, out, wire, attempts>>
    /\ HandlerUnchanged

CountAttempt(c) ==
    attempts' = [attempts EXCEPT ![c] = IF @ <= MaxRetries THEN @ + 1 ELSE @]

(* SetToInflight of the command just read: SentAt is set, so Retries goes  *)
(* up.  The handler ignores its error and resends all the same.            *)
Resend(s) ==
    /\ pc[s] = "resend"
    /\ \/ inflight' = [cmd |-> held[s].cmd, retries |-> held[s].retries + 1]
       \/ "redis" \in Faults /\ UNCHANGED inflight
    /\ out' = [out EXCEPT ![s] = held[s].cmd]
    /\ held' = [held EXCEPT ![s] = NoEntry]
    /\ CountAttempt(held[s].cmd)
    /\ Goto(s, "recheck")
    /\ UNCHANGED <<pending, sync, packet, wire>> /\ HandlerUnchanged

(* Mutant of RecheckInflight: the handler does not look again.             *)
RecheckSkipped(s) ==
    /\ pc[s] = "recheck"
    /\ Goto(s, "existsPending")
    /\ UNCHANGED <<redisVars, localVars, wire, attempts>> /\ HandlerUnchanged

(* The second EXISTS of the inflight key (456A).                           *)
RecheckInflight(s) ==
    /\ pc[s] = "recheck"
    /\ Goto(s, IF inflight = NoEntry THEN "existsPending" ELSE "reply")
    /\ UNCHANGED <<redisVars, localVars, wire, attempts>> /\ HandlerUnchanged

ExistsPending(s) ==
    /\ pc[s] = "existsPending"
    /\ Goto(s, IF pending = <<>> THEN "reply" ELSE "pop")
    /\ UNCHANGED <<redisVars, localVars, wire, attempts>> /\ HandlerUnchanged

(* Mutant of PopPending: the head is read and not removed.                 *)
PeekPending(s) ==
    /\ pc[s] = "pop"
    /\ IF pending = <<>>
       THEN Goto(s, "idle") /\ UNCHANGED held
       ELSE /\ held' = [held EXCEPT ![s] = [cmd |-> Head(pending), retries |-> 0]]
            /\ Goto(s, "setInflight")
    /\ UNCHANGED <<redisVars, packet, out, wire, attempts>>
    /\ HandlerUnchanged

(* LPOP.  An empty list reads as "", which does not unmarshal.             *)
PopPending(s) ==
    /\ pc[s] = "pop"
    /\ IF pending = <<>>
       THEN Goto(s, "idle") /\ UNCHANGED <<pending, held>>
       ELSE /\ held' = [held EXCEPT ![s] = [cmd |-> Head(pending), retries |-> 0]]
            /\ pending' = Tail(pending)
            /\ Goto(s, "setInflight")
    /\ UNCHANGED <<inflight, sync, packet, out, wire, attempts>>
    /\ HandlerUnchanged

(* SetToInflight of a command never sent before: Retries stays 0.          *)
SetInflight(s) ==
    /\ pc[s] = "setInflight"
    /\ inflight' = held[s]
    /\ out' = [out EXCEPT ![s] = held[s].cmd]
    /\ held' = [held EXCEPT ![s] = NoEntry]
    /\ CountAttempt(held[s].cmd)
    /\ Goto(s, "reply")
    /\ UNCHANGED <<pending, sync, packet, wire>> /\ HandlerUnchanged

(* conn.Write of the command, or of the ACK.  Its error is ignored, so a   *)
(* command may be lost here or before the device reads it.                 *)
Reply(s) ==
    /\ pc[s] = "reply"
    /\ \/ UNCHANGED wire
       \/ /\ out[s] # NoCmd
          /\ Len(wire) < MaxWire
          /\ wire' = Append(wire, out[s])
    /\ out' = [out EXCEPT ![s] = NoCmd]
    /\ Goto(s, "idle")
    /\ UNCHANGED <<redisVars, packet, held, attempts>> /\ HandlerUnchanged

(* fail(): a Redis call returns an error, having taken effect (the state   *)
(* after its step) or not (the state before), and the handler returns.     *)
HandlerFails(s) ==
    /\ "redis" \in Faults
    /\ pc[s] \in RedisSteps
    /\ held' = [held EXCEPT ![s] = NoEntry]
    /\ out' = [out EXCEPT ![s] = NoCmd]
    /\ Goto(s, "idle")
    /\ UNCHANGED <<redisVars, packet, wire, attempts>> /\ HandlerUnchanged

(* The parser process dies and restarts: what only goroutines held is gone.*)
ParserCrash ==
    /\ "parser" \in Faults
    /\ pc' = [s \in Sessions |-> "idle"]
    /\ held' = [s \in Sessions |-> NoEntry]
    /\ out' = [s \in Sessions |-> NoCmd]
    /\ UNCHANGED <<redisVars, packet, wire, attempts>> /\ HandlerUnchanged

(* The device loses a command packet or never answers it.                  *)
DeviceSilent ==
    /\ wire # <<>>
    /\ wire' = Tail(wire)
    /\ UNCHANGED <<redisVars, pc, localVars, attempts>> /\ HandlerUnchanged

Handle(s) ==
    \/ ExistsInflight(s) \/ GetInflight(s) \/ DeleteInflight(s) \/ SetToSync(s)
    \/ Resend(s) \/ RecheckInflight(s) \/ ExistsPending(s) \/ PopPending(s)
    \/ SetInflight(s) \/ Reply(s)

-----------------------------------------------------------------------------
(* The writer: updateTeltonikaCodec12CommandsFromRedisService, every       *)
(* minute.  A run that is still waiting for PostgreSQL does not stop the   *)
(* next one, so several batches may be out at once.                        *)

(* The Lua script: HGETALL and DEL in one step.                            *)
FetchAndDeleteSync ==
    /\ \E c \in Commands : sync[c] # NoOutcome
    /\ batches' = batches \cup {sync}
    /\ sync' = [c \in Commands |-> NoOutcome]
    /\ UNCHANGED <<requests, pending, inflight, pc, localVars, db, wire, attempts>>

(* updateCodec12CommandBulk: one UPDATE ... FROM (VALUES ...).             *)
UpdateBulk(b) ==
    /\ b \in batches
    /\ batches' = batches \ {b}
    /\ db' = [c \in Commands |-> IF b[c] # NoOutcome /\ db[c] # NoOutcome
                                 THEN b[c] ELSE db[c]]
    /\ UNCHANGED <<requests, redisVars, pc, localVars, wire, attempts>>

(* The UPDATE throws, or the writer dies before it: the batch is gone.     *)
UpdateFails(b) ==
    /\ "writer" \in Faults
    /\ b \in batches
    /\ batches' = batches \ {b}
    /\ UNCHANGED <<requests, redisVars, pc, localVars, db, wire, attempts>>

-----------------------------------------------------------------------------
Next ==
    \/ \E S \in SUBSET Commands : CreateBulk(S)
    \/ \E S \in requests : PushPending(S) \/ AddFails(S)
    \/ \E s \in Sessions : \/ ReceiveAvl(s) \/ ReceiveAnswer(s)
                           \/ Handle(s) \/ HandlerFails(s)
    \/ ParserCrash
    \/ DeviceSilent
    \/ FetchAndDeleteSync
    \/ \E b \in batches : UpdateBulk(b) \/ UpdateFails(b)

Spec == Init /\ [][Next]_vars

(* Every process that is up keeps running, and the device keeps sending    *)
(* telemetry on each of its connections; nothing makes it answer.          *)
Fairness ==
    /\ \A s \in Sessions : WF_vars(Handle(s)) /\ WF_vars(ReceiveAvl(s))
    /\ WF_vars(\E S \in requests : PushPending(S))
    /\ WF_vars(FetchAndDeleteSync)
    /\ WF_vars(\E b \in batches : UpdateBulk(b))

FairSpec == Spec /\ Fairness

-----------------------------------------------------------------------------
(* Where a command can be.                                                 *)

InRequest(c)  == \E S \in requests : c \in S
InPending(c)  == \E i \in DOMAIN pending : pending[i] = c
Carried(c)    == \E s \in Sessions : pc[s] \in {"setInflight", "sync"} /\ held[s].cmd = c
InInflight(c) == inflight.cmd = c
InSync(c)     == sync[c] # NoOutcome
InBatch(c)    == \E b \in batches : b[c] # NoOutcome
InTable(c)    == db[c].status \in Final

(* Each command has at most one keeper: no interleaving of the backend,    *)
(* the handler, the writer and their failures leaves it both waiting to be *)
(* sent and settled, or settled twice.  The code relies on deleting from   *)
(* one place before writing to the next.                                   *)
Custody ==
    \A c \in Commands :
        /\ InRequest(c)  => ~(InPending(c) \/ Carried(c) \/ InInflight(c))
        /\ InPending(c)  => ~(Carried(c) \/ InInflight(c))
        /\ Carried(c)    => ~InInflight(c)
        /\ InRequest(c) \/ InPending(c) \/ Carried(c) \/ InInflight(c)
              => ~(InSync(c) \/ InBatch(c) \/ InTable(c))
        /\ InSync(c)     => ~(InBatch(c) \/ InTable(c))
        /\ InBatch(c)    => ~InTable(c)

Settled(c) == InSync(c) \/ InBatch(c) \/ InTable(c)

(* Once a command's outcome is known, the command is never handed to the   *)
(* device again: a retry cannot race with the answer.                      *)
NeverResentOnceSettled ==
    [][\A c \in Commands : Settled(c) => attempts'[c] = attempts[c]]_vars

(* The outcome stored in PostgreSQL never changes: an answer is not        *)
(* overwritten by a late "no_response", nor the reverse.                   *)
OutcomeIsFinal ==
    [][\A c \in Commands : InTable(c) => db'[c] = db[c]]_vars

(* However connections interleave and whatever fails, a command is given   *)
(* up only after MaxRetries + 1 attempts ("up to 10 retries").             *)
GivenUpOnlyAfterRetries ==
    \A c \in Commands :
        db[c].status = "failed" => attempts[c] = MaxRetries + 1

-----------------------------------------------------------------------------
(* With one connection the code implements CommandLifecycle: no command    *)
(* is sent while another is unanswered, none overtakes another, none is    *)
(* settled twice, whatever crashes.                                        *)

PhaseOf(c) ==
    CASE db[c] = NoOutcome                                -> "new"
      [] InTable(c)                                       -> "recorded"
      [] InRequest(c)                                     -> "accepted"
      [] InPending(c)                                     -> "queued"
      [] Carried(c) \/ InInflight(c)                      -> "current"
      [] InSync(c) \/ InBatch(c)                          -> "settled"
      [] OTHER                                            -> "lost"

Lifecycle == INSTANCE CommandLifecycle
                 WITH phase <- [c \in Commands |-> PhaseOf(c)], queue <- pending

ImplementsLifecycle == Lifecycle!Spec

-----------------------------------------------------------------------------
(* A step in which a failure shows: a call that returns an error, a write  *)
(* that does not happen, a process that dies.                              *)
Failure ==
    \/ \E S \in requests : AddFails(S)
    \/ \E s \in Sessions :
          \/ HandlerFails(s)
          \/ pc[s] = "sync"   /\ pc'[s] = "recheck" /\ sync' = sync
          \/ pc[s] = "resend" /\ pc'[s] = "recheck" /\ inflight' = inflight
    \/ ParserCrash
    \/ \E b \in batches : UpdateFails(b)

(* With one connection, and once failures stop, every command the API      *)
(* accepted gets an outcome in PostgreSQL unless a failure lost it,        *)
(* whether or not the device ever answers: a silent device does not hold   *)
(* up its queue, nor does what an earlier failure left behind.             *)
EveryCommandSettles ==
    <>[][~Failure]_vars =>
        \A c \in Commands : InRequest(c) ~> (InTable(c) \/ PhaseOf(c) = "lost")

=============================================================================
