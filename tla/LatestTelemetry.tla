-------------------------- MODULE LatestTelemetry --------------------------
(***************************************************************************)
(* The latest-telemetry snapshot of one device, from the record that       *)
(* arrives to the last_telemetry column of app.devices.                    *)
(*                                                                         *)
(* teltonika.parser.go keeps LastTsMap and LastTelemetryMap in memory,     *)
(* each under its own lock, and flushes changed snapshots to Redis; the    *)
(* writer copies what Redis marks as changed into PostgreSQL; a parser     *)
(* that starts seeds LastTsMap from the table.  Devices share nothing but  *)
(* the locks, so one device stands for all.  What the handler sends to     *)
(* RabbitMQ and to the live channel is not part of this module.            *)
(***************************************************************************)
EXTENDS Naturals, FiniteSets

CONSTANTS
    Sessions,    \* TCP connections of the device
    MaxTime,     \* bound: the times a record may carry are 1 .. MaxTime
    Sec(_),      \* the whole seconds of a time: the snapshot's timestamp
    StartOf(_),  \* the first time of a second, as last_telemetry_ts is read
    TenDigits,   \* seconds below it are written with nine digits, "9..."
    Flushes,     \* runs of the flush cron job that may overlap
    Runs,        \* runs of the writer's cron job that may overlap
    Faults,      \* which of AllFaults occur
    MaxFaults    \* bound: faults in a behaviour, each kind once

(* Seconds are numbered from 1; 0 is the time of no record.                *)
Times   == 1 .. MaxTime
Seconds == {Sec(t) : t \in Times}

ASSUME ClockAssumption ==
    /\ MaxTime \in Nat /\ TenDigits \in Nat
    /\ \A t \in Times : Sec(t) \in Nat \ {0}
    /\ \A t, u \in Times : t <= u => Sec(t) <= Sec(u)
    /\ \A n \in Seconds \cup {0} : StartOf(n) \in 0 .. MaxTime

(* Cache.Set fails; SAddLua fails; the UPDATE fails or the writer dies; the*)
(* parser dies; GetAllDevices fails when it starts.                        *)
AllFaults == {"set", "sadd", "update", "restart", "devices"}

ASSUME FaultAssumption == Faults \subseteq AllFaults /\ MaxFaults \in Nat

VARIABLES
    state,      \* the parser: "down", "starting" or "up"
    lastTs,     \* LastTsMap of the device, 0 if it has none
    seed,       \* history: lastTs as BuildDeviceTsMap left it
    latest,     \* LastTelemetryMap of the device
    dirty,      \* the device is in UpdatedDevices
    pc,         \* pc[s]: "idle" or "merge", between the two locks
    rec,        \* rec[s]: the record the handler of s carries
    flushStep,  \* flushStep[f]: "idle", "set" or "sadd"
    snapshot,   \* snapshot[f]: the copy the flush writes
    redis,      \* key device-latest-telemetry:<id>
    marked,     \* the device is in the set device-latest-telemetry:id
    runStep,    \* runStep[r]: "idle", "get" or "update"
    fetched,    \* fetched[r]: what the run has read from Redis
    db,         \* last_telemetry and last_telemetry_ts of app.devices
    hash,       \* last_telemetry_ts in the Redis hash "devices"
    faults      \* history: the kinds of fault so far

memoryVars == <<lastTs, latest, dirty, pc, rec>>
flushVars  == <<flushStep, snapshot>>
redisVars  == <<redis, marked>>
writerVars == <<runStep, fetched, db>>
startVars  == <<state, seed, hash>>
vars == <<memoryVars, flushVars, redisVars, writerVars, startVars, faults>>

(* A snapshot: its timestamp, and the time of the record its position is   *)
(* from, 0 if it has only had records with zero coordinates.               *)
Snapshot == [ts : Seconds \cup {0}, pos : 0 .. MaxTime]
None     == [ts |-> 0, pos |-> 0]

Record   == [time : 0 .. MaxTime, fix : BOOLEAN]
NoRecord == [time |-> 0, fix |-> FALSE]

TypeOK ==
    /\ state \in {"down", "starting", "up"}
    /\ lastTs \in 0 .. MaxTime /\ seed \in 0 .. MaxTime
    /\ hash \in Seconds \cup {0}
    /\ latest \in Snapshot /\ redis \in Snapshot /\ db \in Snapshot
    /\ dirty \in BOOLEAN /\ marked \in BOOLEAN
    /\ pc \in [Sessions -> {"idle", "merge"}]
    /\ rec \in [Sessions -> Record]
    /\ flushStep \in [Flushes -> {"idle", "set", "sadd"}]
    /\ snapshot \in [Flushes -> Snapshot]
    /\ runStep \in [Runs -> {"idle", "get", "update"}]
    /\ fetched \in [Runs -> Snapshot]
    /\ faults \subseteq AllFaults

Init ==
    /\ state = "down"
    /\ lastTs = 0 /\ seed = 0 /\ hash = 0
    /\ latest = None /\ redis = None /\ db = None
    /\ dirty = FALSE
    /\ marked = FALSE
    /\ pc = [s \in Sessions |-> "idle"]
    /\ rec = [s \in Sessions |-> NoRecord]
    /\ flushStep = [f \in Flushes |-> "idle"]
    /\ snapshot = [f \in Flushes |-> None]
    /\ runStep = [r \in Runs |-> "idle"]
    /\ fetched = [r \in Runs |-> None]
    /\ faults = {}

Fault(kind) ==
    /\ kind \in Faults \ faults
    /\ Cardinality(faults) < MaxFaults
    /\ faults' = faults \cup {kind}

-----------------------------------------------------------------------------
(* The parser starts and dies.                                             *)

(* SyncDevicesFromDBToRedis at startup.  When PostgreSQL does not answer   *)
(* the error is logged and the hash stays what an earlier parser left.     *)
StartSync ==
    /\ state = "down"
    /\ state' = "starting"
    /\ \/ hash' = db.ts /\ UNCHANGED faults
       \/ Fault("devices") /\ UNCHANGED hash
    /\ UNCHANGED <<memoryVars, flushVars, redisVars, writerVars, seed>>

(* SyncDevicesFromRedisToVar and BuildDeviceTsMap; then the server listens.*)
BuildDeviceTsMap ==
    /\ state = "starting"
    /\ state' = "up"
    /\ lastTs' = StartOf(hash)
    /\ seed' = StartOf(hash)
    /\ UNCHANGED <<latest, dirty, pc, rec, flushVars, redisVars, writerVars, hash, faults>>

(* SyncDevicesFromDBToRedis, every minute.                                 *)
SyncDevices ==
    /\ state = "up"
    /\ hash # db.ts
    /\ hash' = db.ts
    /\ UNCHANGED <<state, seed, memoryVars, flushVars, redisVars, writerVars, faults>>

(* The parser is killed or stopped.  SIGTERM has the same effect: Redis is *)
(* closed before the cron, nothing is flushed, and a flush that runs loses *)
(* its remaining calls.                                                    *)
Restart ==
    /\ Fault("restart")
    /\ state # "down"
    /\ state' = "down"
    /\ lastTs' = 0 /\ seed' = 0
    /\ latest' = None
    /\ dirty' = FALSE
    /\ pc' = [s \in Sessions |-> "idle"]
    /\ rec' = [s \in Sessions |-> NoRecord]
    /\ flushStep' = [f \in Flushes |-> "idle"]
    /\ snapshot' = [f \in Flushes |-> None]
    /\ UNCHANGED <<redisVars, writerVars, hash>>

-----------------------------------------------------------------------------
(* The handler, on the first record of a packet.                           *)

(* Under LastTsLock: only a record newer than every one before goes on.    *)
Receive(s, t, fix) ==
    /\ state = "up"
    /\ pc[s] = "idle"
    /\ t > lastTs
    /\ lastTs' = t
    /\ rec' = [rec EXCEPT ![s] = [time |-> t, fix |-> fix]]
    /\ pc' = [pc EXCEPT ![s] = "merge"]
    /\ UNCHANGED <<latest, dirty, flushVars, redisVars, writerVars, startVars, faults>>

(* old.Timestamp >= telemetry.Timestamp, a comparison of decimal strings.  *)
NotNewer(new, old) ==
    IF (old < TenDigits) = (new < TenDigits) THEN old >= new ELSE old < TenDigits

(* A record without a fix keeps the position there is.                     *)
Merged(old, r) == [ts |-> Sec(r.time), pos |-> IF r.fix THEN r.time ELSE old.pos]

(* Mutants of UpdateLastTelemetry: no guard of its own; zero coordinates   *)
(* are copied.                                                             *)
UpdateUnguarded(s) ==
    /\ pc[s] = "merge"
    /\ latest' = Merged(latest, rec[s])
    /\ dirty' = TRUE
    /\ pc' = [pc EXCEPT ![s] = "idle"]
    /\ rec' = [rec EXCEPT ![s] = NoRecord]
    /\ UNCHANGED <<lastTs, flushVars, redisVars, writerVars, startVars, faults>>

UpdateZeroes(s) ==
    /\ pc[s] = "merge"
    /\ LET r == rec[s]
       IN  IF latest # None /\ NotNewer(Sec(r.time), latest.ts)
           THEN UNCHANGED <<latest, dirty>>
           ELSE /\ latest' = [ts |-> Sec(r.time), pos |-> IF r.fix THEN r.time ELSE 0]
                /\ dirty' = TRUE
    /\ pc' = [pc EXCEPT ![s] = "idle"]
    /\ rec' = [rec EXCEPT ![s] = NoRecord]
    /\ UNCHANGED <<lastTs, flushVars, redisVars, writerVars, startVars, faults>>

(* UpdateLastTelemetry, under LatestTelemetryLock.                         *)
UpdateLastTelemetry(s) ==
    /\ pc[s] = "merge"
    /\ LET r == rec[s]
       IN  IF latest # None /\ NotNewer(Sec(r.time), latest.ts)
           THEN UNCHANGED <<latest, dirty>>
           ELSE latest' = Merged(latest, r) /\ dirty' = TRUE
    /\ pc' = [pc EXCEPT ![s] = "idle"]
    /\ rec' = [rec EXCEPT ![s] = NoRecord]
    /\ UNCHANGED <<lastTs, flushVars, redisVars, writerVars, startVars, faults>>

-----------------------------------------------------------------------------
(* FlushLastTelemetry, every 20 seconds.                                   *)

FlushTo(f, step, copy) ==
    /\ flushStep' = [flushStep EXCEPT ![f] = step]
    /\ snapshot' = [snapshot EXCEPT ![f] = copy]

(* Under LatestTelemetryLock: the set is swapped and the snapshot copied.  *)
FlushSwap(f) ==
    /\ state = "up"
    /\ flushStep[f] = "idle"
    /\ dirty
    /\ dirty' = FALSE
    /\ FlushTo(f, "set", latest)
    /\ UNCHANGED <<lastTs, latest, pc, rec, redisVars, writerVars, startVars, faults>>

(* Cache.Set; an error is logged and the id is announced all the same.     *)
FlushSet(f) ==
    /\ flushStep[f] = "set"
    /\ \/ redis' = snapshot[f] /\ UNCHANGED faults
       \/ Fault("set") /\ UNCHANGED redis
    /\ FlushTo(f, "sadd", None)
    /\ UNCHANGED <<memoryVars, marked, writerVars, startVars>>

(* Mutant of FlushSAdd: the set of updated devices is emptied at the end.  *)
FlushClearLate(f) ==
    /\ flushStep[f] = "sadd"
    /\ marked' = TRUE
    /\ dirty' = FALSE
    /\ FlushTo(f, "idle", None)
    /\ UNCHANGED <<lastTs, latest, pc, rec, redis, writerVars, startVars, faults>>

(* SAddLua.                                                                *)
FlushSAdd(f) ==
    /\ flushStep[f] = "sadd"
    /\ \/ marked' = TRUE /\ UNCHANGED faults
       \/ Fault("sadd") /\ UNCHANGED marked
    /\ FlushTo(f, "idle", None)
    /\ UNCHANGED <<memoryVars, redis, writerVars, startVars>>

-----------------------------------------------------------------------------
(* updateAllDevicesLastTelemetryFromRedisService, every 20 seconds.        *)

RunTo(r, step, copy) ==
    /\ runStep' = [runStep EXCEPT ![r] = step]
    /\ fetched' = [fetched EXCEPT ![r] = copy]

(* smembersAndDeleteWithLua.                                               *)
FetchMarks(r) ==
    /\ runStep[r] = "idle"
    /\ marked
    /\ marked' = FALSE
    /\ RunTo(r, "get", None)
    /\ UNCHANGED <<memoryVars, flushVars, redis, db, startVars, faults>>

(* GET; a device without a snapshot in Redis is passed over.               *)
GetLatest(r) ==
    /\ runStep[r] = "get"
    /\ IF redis = None THEN RunTo(r, "idle", None) ELSE RunTo(r, "update", redis)
    /\ UNCHANGED <<memoryVars, flushVars, redisVars, db, startVars, faults>>

(* Mutant of UpdateBulk: the set of changed devices is emptied at the end. *)
UpdateBulkClears(r) ==
    /\ runStep[r] = "update"
    /\ db' = fetched[r]
    /\ marked' = FALSE
    /\ RunTo(r, "idle", None)
    /\ UNCHANGED <<memoryVars, flushVars, redis, startVars, faults>>

(* updateDeviceTelemetryBulk, which compares nothing.                      *)
UpdateBulk(r) ==
    /\ runStep[r] = "update"
    /\ db' = fetched[r]
    /\ RunTo(r, "idle", None)
    /\ UNCHANGED <<memoryVars, flushVars, redisVars, startVars, faults>>

(* A call of the run throws, or the writer dies: the mark is gone.         *)
RunFails(r) ==
    /\ Fault("update")
    /\ runStep[r] # "idle"
    /\ RunTo(r, "idle", None)
    /\ UNCHANGED <<memoryVars, flushVars, redisVars, db, startVars>>

-----------------------------------------------------------------------------
Flush(f) == FlushSwap(f) \/ FlushSet(f) \/ FlushSAdd(f)
Run(r)   == FetchMarks(r) \/ GetLatest(r) \/ UpdateBulk(r)

Next ==
    \/ StartSync \/ BuildDeviceTsMap \/ SyncDevices \/ Restart
    \/ \E s \in Sessions, t \in Times, fix \in BOOLEAN : Receive(s, t, fix)
    \/ \E s \in Sessions : UpdateLastTelemetry(s)
    \/ \E f \in Flushes : Flush(f)
    \/ \E r \in Runs : Run(r) \/ RunFails(r)

Spec == Init /\ [][Next]_vars

(* A handler that has taken a record finishes it, and both cron jobs run.  *)
Fairness ==
    /\ \A s \in Sessions : WF_vars(UpdateLastTelemetry(s))
    /\ \A f \in Flushes : WF_vars(Flush(f))
    /\ \A r \in Runs : WF_vars(Run(r))

FairSpec == Spec /\ Fairness

-----------------------------------------------------------------------------
(* When no handler is between the two locks, the snapshot is that of the   *)
(* newest record accepted, in whatever order the handlers of two           *)
(* connections took the locks ("prevents out-of-order / older buffered     *)
(* records from overwriting newer live state").                            *)
NewestIsKept ==
    /\ state = "up"
    /\ \A s \in Sessions : pc[s] = "idle"
    /\ lastTs # seed
    => latest.ts = Sec(lastTs)

Untroubled == faults = {}

InFlush(step) == \E f \in Flushes : flushStep[f] = step
InRun(step)   == \E r \in Runs : runStep[r] = step

(* Until something fails, no update gets lost on its way: a snapshot that  *)
(* is newer than what Redis holds is marked as updated or is being         *)
(* flushed, and a value in Redis that the table does not hold is           *)
(* announced, about to be, or being copied.  The flush empties the set     *)
(* while it copies and announces after it has written, and the writer      *)
(* reads after it has emptied its set.                                     *)
NoLostUpdate ==
    Untroubled =>
        /\ latest = redis \/ dirty
              \/ \E f \in Flushes : flushStep[f] = "set" /\ snapshot[f] = latest
        /\ redis = db \/ marked \/ InFlush("sadd") \/ InRun("get")
              \/ \E r \in Runs : runStep[r] = "update" /\ fetched[r] = redis

(* The table does not go back in time, nor lose the position it had, while *)
(* the parser stays up.                                                    *)
TableInOrder ==
    [][db'.ts < db.ts \/ (db.pos # 0 /\ db'.pos = 0) => "restart" \in faults]_vars

(* The newest snapshot reaches the table unless something fails.           *)
ReachesTable ==
    \A t \in Times : latest.ts = Sec(t) ~> (db.ts >= Sec(t) \/ ~Untroubled)

=============================================================================
