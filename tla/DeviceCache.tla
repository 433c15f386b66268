---------------------------- MODULE DeviceCache ----------------------------
(***************************************************************************)
(* The three tiers a device's row goes through: app.devices in PostgreSQL, *)
(* the hash iotrack.live:devices in Redis, and the map App.Devices of each *)
(* Go process, which is the only one the hot path reads.                   *)
(*                                                                         *)
(* Each process copies table -> hash every minute and hash -> map every 20 *)
(* seconds.  Meanwhile the handshake of an unknown device inserts a row    *)
(* and writes it to the hash and to the map, the replay service does the   *)
(* same, and the REST API edits the table and then the hash.  No lock      *)
(* spans two tiers: every read of one and write of another is a step.      *)
(* Organisations take the same way with the same code and are not modelled.*)
(***************************************************************************)
EXTENDS Naturals, FiniteSets

CONSTANTS
    Imeis,      \* the external ids devices may have
    Servers,    \* the processes that hold a map: parser, replay
    Clients,    \* TCP connections, and devices of a replayed day
    Replays,    \* the Clients that are devices of a replayed day
    ServerOf,   \* ServerOf[c]: the process that serves c
    ImeiOf,     \* ImeiOf[c]: the external id c presents
    Requests,   \* workers of the REST API: requests that may overlap
    ApiKinds,   \* the kinds of row, see Kinds, requests make
    MaxEdits,   \* bound: edits by the REST API in a behaviour
    Faults,     \* which of AllFaults occur
    MaxFaults   \* bound: faults in a behaviour, each kind once

(* A query or a Redis command fails, or a process is started anew.         *)
AllFaults == {"insert", "hset", "select", "eval", "hgetall", "api", "restart"}

(* vendor "teltonika" and in use; vendor "teltonika" and status disabled   *)
(* or retired; of another vendor.                                          *)
Kinds == {"active", "disabled", "foreign"}

ASSUME ParameterAssumption ==
    /\ ApiKinds \subseteq Kinds
    /\ Replays \subseteq Clients
    /\ ServerOf \in [Clients -> Servers] /\ ImeiOf \in [Clients -> Imeis]
    /\ MaxEdits \in Nat /\ MaxFaults \in Nat
    /\ Faults \subseteq AllFaults

VARIABLES
    db,         \* app.devices
    stamp,      \* history: how many times db has been written
    copy,       \* copy[k]: the devices as the place k has them
    stale,      \* history: stale[k], see Fresh below
    startStep,  \* startStep[s]: "db", "var", then "up"
    loop,       \* loop[k]: the copy k of a running sync is in use
    step,       \* step[c]: where the handler of c is
    row,        \* row[c]: the device it works on
    reqStep,    \* reqStep[r]: where the request is
    reqRow,     \* reqRow[r]: the row as the request read or wrote it
    reqOld,     \* reqOld[r]: the hash field it deletes
    edits,      \* history: requests that have written db
    faults      \* history: the kinds of fault so far

syncVars == <<startStep, loop>>
clientVars == <<step, row>>
requestVars == <<reqStep, reqRow, reqOld, edits>>
vars == <<db, stamp, copy, stale, syncVars, clientVars, requestVars, faults>>

(* stamp tells the versions of a row apart.                                *)
Row == [id : Nat, stamp : Nat, imei : Imeis, kind : Kinds]
None == [id |-> 0]
Tier == [Imeis -> Row \cup {None}]
Nothing == [i \in Imeis |-> None]

(* The places that have a copy of the devices: the hash, and in each       *)
(* process the rows a sync has selected, the fields it has fetched, and    *)
(* App.Devices.                                                            *)
Hash == <<"redis", "hash">>
Selected(s) == <<s, "selected">>
Fetched(s) == <<s, "fetched">>
Map(s) == <<s, "map">>
Copies == {Hash} \cup (Servers \X {"selected", "fetched", "map"})

(* GetAllDevices: the rows of vendor teltonika, by external id.            *)
Truth == [i \in Imeis |->
            IF \E d \in db : d.imei = i /\ d.kind # "foreign"
            THEN CHOOSE d \in db : d.imei = i /\ d.kind # "foreign" ELSE None]

Steps == {"closed", "insert", "hset", "put", "open"}

TypeOK ==
    /\ db \in SUBSET Row /\ stamp \in Nat
    /\ copy \in [Copies -> Tier]
    /\ stale \in [Copies -> SUBSET Imeis]
    /\ startStep \in [Servers -> {"db", "var", "up"}]
    /\ loop \in [Servers -> SUBSET {"db", "var"}]
    /\ step \in [Clients -> Steps]
    /\ row \in [Clients -> Row \cup {None}]
    /\ reqStep \in [Requests -> {"idle", "update", "delete", "hdel", "rename", "hadd"}]
    /\ reqRow \in [Requests -> Row \cup {None}]
    /\ reqOld \in [Requests -> SUBSET Imeis]
    /\ edits \in Nat
    /\ faults \subseteq AllFaults

(* Every process serves, and there is no device yet.                       *)
Init ==
    /\ db = {} /\ stamp = 0
    /\ copy = [k \in Copies |-> Nothing]
    /\ stale = [k \in Copies |-> {}]
    /\ startStep = [s \in Servers |-> "up"]
    /\ loop = [s \in Servers |-> {}]
    /\ step = [c \in Clients |-> "closed"]
    /\ row = [c \in Clients |-> None]
    /\ reqStep = [r \in Requests |-> "idle"]
    /\ reqRow = [r \in Requests |-> None]
    /\ reqOld = [r \in Requests |-> {}]
    /\ edits = 0
    /\ faults = {}

Fault(kind) ==
    /\ kind \in Faults \ faults
    /\ Cardinality(faults) < MaxFaults
    /\ faults' = faults \cup {kind}

(* The rows of the devices I change: every copy of them may be out of date.*)
Outdates(I) == stale' = [k \in Copies |-> stale[k] \cup I]

(* One field of one copy is written; whether that leaves it up to date is  *)
(* not known.                                                              *)
Write(k, i, d) ==
    /\ copy' = [copy EXCEPT ![k][i] = d]
    /\ stale' = [stale EXCEPT ![k] = @ \cup {i}]

(* The copy k replaces the copy l; k was the working copy of a sync, and   *)
(* is dropped.                                                             *)
Install(k, l) ==
    /\ copy' = [copy EXCEPT ![l] = copy[k], ![k] = Nothing]
    /\ stale' = [stale EXCEPT ![l] = stale[k], ![k] = Imeis]

-----------------------------------------------------------------------------
(* The two syncs of a process.  At startup they run once, one after the    *)
(* other, failed or not, before the process serves; then each has a ticker.*)

Begin(s, l) == loop' = [loop EXCEPT ![s] = @ \cup {l}]
End(s, l)   == loop' = [loop EXCEPT ![s] = @ \ {l}]
Advance(s, from, to) ==
    startStep' = [startStep EXCEPT ![s] = IF @ = from THEN to ELSE @]

(* SyncDevicesFromDBToRedis: GetAllDevices ...                             *)
SelectRows(s) ==
    /\ startStep[s] \in {"db", "up"}
    /\ "db" \notin loop[s]
    /\ copy' = [copy EXCEPT ![Selected(s)] = Truth]
    /\ stale' = [stale EXCEPT ![Selected(s)] = {}]
    /\ Begin(s, "db")
    /\ UNCHANGED <<db, stamp, startStep, clientVars, requestVars, faults>>

(* Mutant of ReplaceHash: HSET without DEL.                                *)
ReplaceHashAdds(s) ==
    /\ "db" \in loop[s]
    /\ LET new == copy[Selected(s)] IN
       copy' = [copy EXCEPT ![Hash] =
                   [i \in Imeis |-> IF new[i] = None THEN @[i] ELSE new[i]]]
    /\ stale' = [stale EXCEPT ![Hash] = stale[Selected(s)]]
    /\ End(s, "db")
    /\ Advance(s, "db", "var")
    /\ UNCHANGED <<db, stamp, clientVars, requestVars, faults>>

(* ... then ReplaceDeviceHashWithLua: DEL and HSET in one script.          *)
ReplaceHash(s) ==
    /\ "db" \in loop[s]
    /\ Install(Selected(s), Hash)
    /\ End(s, "db")
    /\ Advance(s, "db", "var")
    /\ UNCHANGED <<db, stamp, clientVars, requestVars, faults>>

(* SyncDevicesFromRedisToVar: HGETALL ...                                  *)
FetchHash(s) ==
    /\ startStep[s] \in {"var", "up"}
    /\ "var" \notin loop[s]
    /\ copy' = [copy EXCEPT ![Fetched(s)] = copy[Hash]]
    /\ stale' = [stale EXCEPT ![Fetched(s)] = stale[Hash]]
    /\ Begin(s, "var")
    /\ UNCHANGED <<db, stamp, startStep, clientVars, requestVars, faults>>

(* Mutant of SwapMap: the fields are added to the map there is.            *)
SwapMapAdds(s) ==
    /\ "var" \in loop[s]
    /\ LET new == copy[Fetched(s)] IN
       copy' = [copy EXCEPT ![Map(s)] =
                   [i \in Imeis |-> IF new[i] = None THEN @[i] ELSE new[i]]]
    /\ stale' = [stale EXCEPT ![Map(s)] = stale[Fetched(s)]]
    /\ End(s, "var")
    /\ Advance(s, "var", "up")
    /\ UNCHANGED <<db, stamp, clientVars, requestVars, faults>>

(* Mutant of SwapMap: the map is loaded at startup only.                   *)
SwapMapOnce(s) ==
    /\ "var" \in loop[s]
    /\ startStep[s] = "var"
    /\ Install(Fetched(s), Map(s))
    /\ End(s, "var")
    /\ Advance(s, "var", "up")
    /\ UNCHANGED <<db, stamp, clientVars, requestVars, faults>>

(* ... then the whole map is swapped under DevicesLock.                    *)
SwapMap(s) ==
    /\ "var" \in loop[s]
    /\ Install(Fetched(s), Map(s))
    /\ End(s, "var")
    /\ Advance(s, "var", "up")
    /\ UNCHANGED <<db, stamp, clientVars, requestVars, faults>>

(* A sync whose query or command fails is logged and has no effect.        *)
SyncFails(s) ==
    /\ \/ /\ startStep[s] \in {"db", "up"} /\ "db" \notin loop[s]
          /\ Fault("select")
          /\ UNCHANGED loop
          /\ Advance(s, "db", "var")
       \/ /\ "db" \in loop[s]
          /\ Fault("eval")
          /\ End(s, "db")
          /\ Advance(s, "db", "var")
       \/ /\ startStep[s] \in {"var", "up"} /\ "var" \notin loop[s]
          /\ Fault("hgetall")
          /\ UNCHANGED loop
          /\ Advance(s, "var", "up")
    /\ UNCHANGED <<db, stamp, copy, stale, clientVars, requestVars>>

(* A process is started anew, with an empty map.                           *)
Restart(s) ==
    /\ Fault("restart")
    /\ startStep' = [startStep EXCEPT ![s] = "db"]
    /\ loop' = [loop EXCEPT ![s] = {}]
    /\ copy' = [k \in Copies |-> IF k = Hash \/ k[1] # s THEN copy[k] ELSE Nothing]
    /\ stale' = [k \in Copies |-> IF k = Hash \/ k[1] # s THEN stale[k] ELSE Imeis]
    /\ step' = [c \in Clients |-> IF ServerOf[c] = s THEN "closed" ELSE step[c]]
    /\ row' = [c \in Clients |-> IF ServerOf[c] = s THEN None ELSE row[c]]
    /\ UNCHANGED <<db, stamp, requestVars>>

-----------------------------------------------------------------------------
(* The device's side: the handshake, and resolveDevice of a replayed day.  *)

Known(c) == copy[Map(ServerOf[c])][ImeiOf[c]]

At(c, from, to) ==
    /\ step[c] = from
    /\ step' = [step EXCEPT ![c] = to]

(* The 17-byte packet: a device in the map is admitted, another is new.    *)
Handshake(c) ==
    /\ c \notin Replays
    /\ startStep[ServerOf[c]] = "up"
    /\ At(c, "closed", IF Known(c) # None THEN "open" ELSE "insert")
    /\ UNCHANGED <<db, stamp, copy, stale, syncVars, row, requestVars, faults>>

(* runDevice resolves the device once and holds it for the day; one that   *)
(* is disabled or retired is skipped.                                      *)
ResolveDevice(c) ==
    /\ c \in Replays
    /\ startStep[ServerOf[c]] = "up"
    /\ Known(c) # None => Known(c).kind # "disabled"
    /\ At(c, "closed", IF Known(c) # None THEN "open" ELSE "insert")
    /\ row' = [row EXCEPT ![c] = Known(c)]
    /\ UNCHANGED <<db, stamp, copy, stale, syncVars, requestVars, faults>>

(* The unique index on external_id and its type, here always "imei".       *)
Taken(i) == \E d \in db : d.imei = i

(* Device.Create: the external id may be taken all the same, by a row the  *)
(* map does not have; then, as on any error, the device is refused.        *)
InsertRow(c) ==
    LET d == [id |-> stamp + 1, stamp |-> stamp + 1,
              imei |-> ImeiOf[c], kind |-> "active"] IN
    /\ ~Taken(ImeiOf[c])
    /\ At(c, "insert", "hset")
    /\ db' = db \cup {d}
    /\ stamp' = stamp + 1
    /\ row' = [row EXCEPT ![c] = d]
    /\ Outdates({ImeiOf[c]})
    /\ UNCHANGED <<copy, syncVars, requestVars, faults>>

InsertRefused(c) ==
    /\ \/ Taken(ImeiOf[c]) /\ UNCHANGED faults
       \/ Fault("insert")
    /\ At(c, "insert", "closed")
    /\ UNCHANGED <<db, stamp, copy, stale, syncVars, row, requestVars>>

(* Cache.HSet.  When it fails the parser refuses the device it has just    *)
(* registered; the replay service goes on.                                 *)
HSet(c) ==
    /\ At(c, "hset", "put")
    /\ Write(Hash, ImeiOf[c], row[c])
    /\ UNCHANGED <<db, stamp, syncVars, row, requestVars, faults>>

HSetFails(c) ==
    /\ Fault("hset")
    /\ IF c \in Replays
       THEN At(c, "hset", "put") /\ UNCHANGED row
       ELSE At(c, "hset", "closed") /\ row' = [row EXCEPT ![c] = None]
    /\ UNCHANGED <<db, stamp, copy, stale, syncVars, requestVars>>

(* The map, under DevicesLock; the connection keeps only the external id.  *)
PutInMap(c) ==
    /\ At(c, "put", "open")
    /\ Write(Map(ServerOf[c]), ImeiOf[c], row[c])
    /\ row' = IF c \in Replays THEN row ELSE [row EXCEPT ![c] = None]
    /\ UNCHANGED <<db, stamp, syncVars, requestVars, faults>>

(* The connection ends, or the replayed day.                               *)
Disconnect(c) ==
    /\ At(c, "open", "closed")
    /\ row' = [row EXCEPT ![c] = None]
    /\ UNCHANGED <<db, stamp, copy, stale, syncVars, requestVars, faults>>

-----------------------------------------------------------------------------
(* The device controller of the REST API.  The answer is sent after the    *)
(* table is written; the hash is then written without anyone waiting.      *)

ReqAt(r, from, to) ==
    /\ reqStep[r] = from
    /\ reqStep' = [reqStep EXCEPT ![r] = to]

NewRequest == edits < MaxEdits /\ edits' = edits + 1

(* store: Device.Create.                                                   *)
StoreRow(r) ==
    \E i \in Imeis, kind \in ApiKinds :
        LET d == [id |-> stamp + 1, stamp |-> stamp + 1, imei |-> i, kind |-> kind] IN
        /\ ~Taken(i)
        /\ NewRequest
        /\ ReqAt(r, "idle", "hadd")
        /\ db' = db \cup {d}
        /\ stamp' = stamp + 1
        /\ reqRow' = [reqRow EXCEPT ![r] = d]
        /\ Outdates({i})
        /\ UNCHANGED <<copy, syncVars, clientVars, reqOld, faults>>

(* update: getByID.  destroy: getExternalIDsByIDs; one id stands for the   *)
(* list.                                                                   *)
ReadRow(r) ==
    \E d \in db, op \in {"update", "delete"} :
        /\ NewRequest
        /\ ReqAt(r, "idle", op)
        /\ reqRow' = [reqRow EXCEPT ![r] = d]
        /\ UNCHANGED <<db, stamp, copy, stale, syncVars, clientVars, reqOld, faults>>

(* update: Device.updateByID.  The field to delete is the one the row had  *)
(* when it was read.                                                       *)
UpdateRow(r) ==
    \E d \in db, i \in Imeis, kind \in Kinds :
        LET e == [id |-> d.id, stamp |-> stamp + 1, imei |-> i, kind |-> kind] IN
        /\ d.id = reqRow[r].id
        /\ kind \in ApiKinds \cup {d.kind}
        /\ i = d.imei \/ ~Taken(i)
        /\ ReqAt(r, "update", IF i = reqRow[r].imei THEN "hadd" ELSE "rename")
        /\ db' = (db \ {d}) \cup {e}
        /\ stamp' = stamp + 1
        /\ reqRow' = [reqRow EXCEPT ![r] = e]
        /\ reqOld' = [reqOld EXCEPT ![r] = {reqRow[r].imei}]
        /\ Outdates({d.imei, i})
        /\ UNCHANGED <<copy, syncVars, clientVars, edits, faults>>

(* The request fails a check made after the read (fields, organisation,    *)
(* asset: 400, 403, 404, 409), its external id is another row's: 409, or   *)
(* the row is gone: 404.  The first may happen to any request.             *)
UpdateRefused(r) ==
    /\ ReqAt(r, "update", "idle")
    /\ reqRow' = [reqRow EXCEPT ![r] = None]
    /\ UNCHANGED <<db, stamp, copy, stale, syncVars, clientVars, reqOld, edits, faults>>

(* destroy: Device.deleteByIDs.                                            *)
DeleteRow(r) ==
    LET gone == {d \in db : d.id = reqRow[r].id} IN
    /\ ReqAt(r, "delete", "hdel")
    /\ db' = db \ gone
    /\ reqOld' = [reqOld EXCEPT ![r] = {reqRow[r].imei}]
    /\ reqRow' = [reqRow EXCEPT ![r] = None]
    /\ Outdates({d.imei : d \in gone})
    /\ UNCHANGED <<stamp, copy, syncVars, clientVars, edits, faults>>

(* hdel, after a delete and before the hadd of an update that renames.     *)
HDel(r) ==
    /\ ReqAt(r, "hdel", "idle") \/ ReqAt(r, "rename", "hadd")
    /\ copy' = [copy EXCEPT ![Hash] =
                   [i \in Imeis |-> IF i \in reqOld[r] THEN None ELSE @[i]]]
    /\ stale' = [stale EXCEPT ![Hash] = @ \cup reqOld[r]]
    /\ reqOld' = [reqOld EXCEPT ![r] = {}]
    /\ UNCHANGED <<db, stamp, syncVars, clientVars, reqRow, edits, faults>>

HAdd(r) ==
    /\ ReqAt(r, "hadd", "idle")
    /\ Write(Hash, reqRow[r].imei, reqRow[r])
    /\ reqRow' = [reqRow EXCEPT ![r] = None]
    /\ reqOld' = [reqOld EXCEPT ![r] = {}]
    /\ UNCHANGED <<db, stamp, syncVars, clientVars, edits, faults>>

(* Redis fails: logged, and the hash keeps what it had.                    *)
ApiFails(r) ==
    /\ Fault("api")
    /\ reqStep[r] \in {"hdel", "rename", "hadd"}
    /\ reqStep' = [reqStep EXCEPT ![r] = "idle"]
    /\ reqRow' = [reqRow EXCEPT ![r] = None]
    /\ reqOld' = [reqOld EXCEPT ![r] = {}]
    /\ UNCHANGED <<db, stamp, copy, stale, syncVars, clientVars, edits>>

-----------------------------------------------------------------------------
SyncNext(s) == SelectRows(s) \/ ReplaceHash(s) \/ FetchHash(s) \/ SwapMap(s)

ClientNext(c) ==
    \/ Handshake(c) \/ ResolveDevice(c) \/ InsertRow(c) \/ InsertRefused(c)
    \/ HSet(c) \/ HSetFails(c) \/ PutInMap(c)

RequestNext(r) ==
    \/ UpdateRow(r) \/ UpdateRefused(r) \/ DeleteRow(r)
    \/ HDel(r) \/ HAdd(r) \/ ApiFails(r)

Next ==
    \/ \E s \in Servers : SyncNext(s) \/ SyncFails(s) \/ Restart(s)
    \/ \E c \in Clients : ClientNext(c) \/ Disconnect(c)
    \/ \E r \in Requests : StoreRow(r) \/ ReadRow(r) \/ RequestNext(r)

Spec == Init /\ [][Next]_vars

(* The tickers go on, no handler and no request stops half-way, and a      *)
(* device whose packets are refused connects again.                        *)
FairSpec ==
    /\ Spec
    /\ \A s \in Servers :
           /\ WF_vars(SelectRows(s)) /\ WF_vars(ReplaceHash(s))
           /\ WF_vars(FetchHash(s)) /\ WF_vars(SwapMap(s))
    /\ \A c \in Clients :
           /\ WF_vars(ClientNext(c))
           /\ WF_vars(Known(c) = None /\ Disconnect(c))
    /\ \A r \in Requests : WF_vars(RequestNext(r))

-----------------------------------------------------------------------------
(* A copy differs from the table only in devices written since: stale[k]   *)
(* holds the devices whose row was written after the rows in k were        *)
(* selected, and those whose field of k was written on its own after that. *)
(* Two processes select and replace independently, a map is filled from a  *)
(* hash a third party is writing; no older copy may come back unnoticed.   *)
Fresh ==
    \A k \in Copies : \A i \in Imeis \ stale[k] : copy[k][i] = Truth[i]

(* PostgreSQL is the truth: once nothing fails and nobody edits any more,  *)
(* the hash and every map come to hold it, whatever order handlers, syncs  *)
(* and requests wrote in.                                                  *)
Converges ==
    <>[](/\ copy[Hash] = Truth
         /\ \A s \in Servers : copy[Map(s)] = Truth)

(* A device that goes on connecting is in the end known for good to the    *)
(* parser, unless it is registered under another vendor.                   *)
EventuallyServed ==
    \A c \in Clients \ Replays :
        \/ <>[](Known(c) # None)
        \/ <>[](\E d \in db : d.imei = ImeiOf[c] /\ d.kind = "foreign")
=============================================================================
