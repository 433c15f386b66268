------------------------- MODULE DeviceCacheProofs -------------------------
(***************************************************************************)
(* Type correctness of DeviceCache, and that every copy of the devices is  *)
(* up to date but for what has been written since, for any number of       *)
(* processes, clients, requests, external ids, edits and faults.           *)
(***************************************************************************)
EXTENDS DeviceCache, TLAPS

(* What the handlers and the requests carry is a row while they use it.    *)
Carried ==
    /\ \A c \in Clients : step[c] \in {"hset", "put"} => row[c] \in Row
    /\ \A r \in Requests :
           reqStep[r] \in {"update", "delete", "rename", "hadd"} => reqRow[r] \in Row

(* The unique index.                                                       *)
OneRow == \A d, e \in db : d.imei = e.imei => d = e

Inv == TypeOK /\ Carried /\ OneRow /\ Fresh

(* The places are different from each other.                               *)
LEMMA Places ==
    /\ Hash \in Copies
    /\ \A s \in Servers :
           /\ Selected(s) \in Copies /\ Fetched(s) \in Copies /\ Map(s) \in Copies
           /\ Selected(s) # Hash /\ Fetched(s) # Hash /\ Map(s) # Hash
           /\ Selected(s) # Fetched(s) /\ Selected(s) # Map(s) /\ Fetched(s) # Map(s)
  BY DEF Copies, Hash, Selected, Fetched, Map

LEMMA TruthType == TypeOK => Truth \in Tier
<1> SUFFICES ASSUME TypeOK, NEW i \in Imeis PROVE Truth[i] \in Row \cup {None}
  BY DEF Truth, Tier
<1>1. CASE \E d \in db : d.imei = i /\ d.kind # "foreign"
  BY <1>1 DEF Truth, TypeOK
<1>2. CASE ~\E d \in db : d.imei = i /\ d.kind # "foreign"
  BY <1>2 DEF Truth
<1> QED BY <1>1, <1>2

(* The truth about a device changes only with its row.                     *)
LEMMA TruthKept ==
  ASSUME OneRow, OneRow', NEW i \in Imeis,
         \A d \in db \cup db' : d.imei = i => (d \in db <=> d \in db')
  PROVE  Truth[i] = Truth'[i]
<1>1. CASE \E d \in db : d.imei = i /\ d.kind # "foreign"
  <2>1. PICK d \in db : d.imei = i /\ d.kind # "foreign" BY <1>1
  <2>2. d \in db' BY <2>1
  <2>3. Truth[i] = CHOOSE e \in db : e.imei = i /\ e.kind # "foreign"
    BY <1>1 DEF Truth
  <2>4. Truth'[i] = CHOOSE e \in db' : e.imei = i /\ e.kind # "foreign"
    BY <2>1, <2>2 DEF Truth
  <2>5. Truth[i] = d BY <2>1, <2>3 DEF OneRow
  <2>6. Truth'[i] = d BY <2>1, <2>2, <2>4 DEF OneRow
  <2> QED BY <2>5, <2>6
<1>2. CASE ~\E d \in db : d.imei = i /\ d.kind # "foreign"
  <2>1. ~\E d \in db' : d.imei = i /\ d.kind # "foreign" BY <1>2
  <2> QED BY <1>2, <2>1 DEF Truth
<1> QED BY <1>1, <1>2

(* The three ways a step writes the copies.                                *)
LEMMA InstallFresh ==
  ASSUME TypeOK, Fresh, UNCHANGED db, NEW k \in Copies, NEW l \in Copies, k # l,
         Install(k, l)
  PROVE  /\ copy' \in [Copies -> Tier] /\ stale' \in [Copies -> SUBSET Imeis]
         /\ Fresh'
<1>1. Truth' = Truth BY DEF Truth
<1>2. Nothing \in Tier BY DEF Nothing, Tier
<1>3. copy' \in [Copies -> Tier] /\ stale' \in [Copies -> SUBSET Imeis]
  BY <1>2 DEF Install, TypeOK
<1>4. ASSUME NEW m \in Copies, NEW i \in Imeis \ stale'[m] PROVE copy'[m][i] = Truth'[i]
  <2>1. CASE m = k BY <1>4, <2>1 DEF Install, TypeOK
  <2>2. CASE m = l
    <3>1. copy'[m] = copy[k] /\ stale'[m] = stale[k]
      BY <2>2 DEF Install, TypeOK
    <3> QED BY <1>1, <1>4, <3>1 DEF Fresh
  <2>3. CASE m # k /\ m # l
    <3>1. copy'[m] = copy[m] /\ stale'[m] = stale[m]
      BY <2>3 DEF Install, TypeOK
    <3> QED BY <1>1, <1>4, <3>1 DEF Fresh
  <2> QED BY <2>1, <2>2, <2>3
<1> QED BY <1>3, <1>4 DEF Fresh

LEMMA WriteFresh ==
  ASSUME TypeOK, Fresh, UNCHANGED db, NEW k \in Copies, NEW i \in Imeis,
         NEW d \in Row \cup {None}, Write(k, i, d)
  PROVE  /\ copy' \in [Copies -> Tier] /\ stale' \in [Copies -> SUBSET Imeis]
         /\ Fresh'
<1>1. Truth' = Truth BY DEF Truth
<1>2. copy[k] \in [Imeis -> Row \cup {None}] BY DEF TypeOK, Tier
<1>3. /\ copy' = [copy EXCEPT ![k] = [copy[k] EXCEPT ![i] = d]]
      /\ [copy[k] EXCEPT ![i] = d] \in Tier
  BY <1>2 DEF Write, Tier
<1>4. copy' \in [Copies -> Tier] /\ stale' \in [Copies -> SUBSET Imeis]
  BY <1>3 DEF Write, TypeOK
<1>5. ASSUME NEW m \in Copies, NEW j \in Imeis \ stale'[m] PROVE copy'[m][j] = Truth'[j]
  <2>1. CASE m = k
    <3>1. j \notin stale[m] /\ j # i BY <1>5, <2>1 DEF Write, TypeOK
    <3>2. copy'[m][j] = copy[m][j] BY <1>2, <1>3, <2>1, <3>1 DEF TypeOK
    <3> QED BY <1>1, <3>1, <3>2 DEF Fresh
  <2>2. CASE m # k
    <3>1. copy'[m] = copy[m] /\ stale'[m] = stale[m] BY <2>2 DEF Write, TypeOK
    <3> QED BY <1>1, <1>5, <3>1 DEF Fresh
  <2> QED BY <2>1, <2>2
<1> QED BY <1>4, <1>5 DEF Fresh

LEMMA OutdatesFresh ==
  ASSUME TypeOK, Fresh, OneRow, OneRow', UNCHANGED copy, NEW I \in SUBSET Imeis,
         Outdates(I),
         \A d \in db \cup db' : d.imei \notin I => (d \in db <=> d \in db')
  PROVE  stale' \in [Copies -> SUBSET Imeis] /\ Fresh'
<1>1. stale' \in [Copies -> SUBSET Imeis] BY DEF Outdates, TypeOK
<1>2. ASSUME NEW m \in Copies, NEW i \in Imeis \ stale'[m] PROVE copy'[m][i] = Truth'[i]
  <2>1. i \notin I /\ i \notin stale[m] BY <1>2 DEF Outdates
  <2>2. Truth[i] = Truth'[i] BY <2>1, TruthKept
  <2> QED BY <2>1, <2>2 DEF Fresh
<1> QED BY <1>1, <1>2 DEF Fresh

-----------------------------------------------------------------------------
LEMMA InitInv == Init => Inv
<1> SUFFICES ASSUME Init PROVE Inv OBVIOUS
<1>1. Truth = Nothing BY DEF Init, Truth, Nothing
<1>2. Nothing \in Tier BY DEF Nothing, Tier
<1>3. TypeOK BY <1>2, ParameterAssumption DEF Init, TypeOK, Steps
<1>4. Fresh BY <1>1 DEF Init, Fresh
<1> QED BY <1>3, <1>4 DEF Init, Inv, Carried, OneRow

(* A step of a sync leaves the table, the handlers and the requests alone. *)
LEMMA SyncInv ==
  ASSUME Inv, NEW s \in Servers, SyncNext(s) \/ SyncFails(s)
  PROVE  Inv'
<1> USE DEF Inv
<1>1. /\ UNCHANGED <<db, stamp, clientVars, requestVars>>
      /\ startStep' \in [Servers -> {"db", "var", "up"}]
      /\ loop' \in [Servers -> SUBSET {"db", "var"}]
      /\ faults' \subseteq AllFaults
  <2>1. CASE SelectRows(s)
    BY <2>1 DEF SelectRows, TypeOK, Begin
  <2>2. CASE ReplaceHash(s)
    BY <2>2 DEF ReplaceHash, TypeOK, End, Advance
  <2>3. CASE FetchHash(s)
    BY <2>3 DEF FetchHash, TypeOK, Begin
  <2>4. CASE SwapMap(s)
    BY <2>4 DEF SwapMap, TypeOK, End, Advance
  <2>5. CASE SyncFails(s)
    BY <2>5, ParameterAssumption DEF SyncFails, TypeOK, End, Advance, Fault
  <2> QED BY <2>1, <2>2, <2>3, <2>4, <2>5 DEF SyncNext
<1>2. /\ copy' \in [Copies -> Tier] /\ stale' \in [Copies -> SUBSET Imeis]
      /\ Fresh'
  <2>1. CASE SelectRows(s)
    <3>1. Truth' = Truth BY <1>1 DEF Truth
    <3>2. /\ copy' = [copy EXCEPT ![Selected(s)] = Truth]
          /\ stale' = [stale EXCEPT ![Selected(s)] = {}]
      BY <2>1 DEF SelectRows
    <3>3. copy' \in [Copies -> Tier] /\ stale' \in [Copies -> SUBSET Imeis]
      BY <3>2, TruthType DEF TypeOK
    <3>4. ASSUME NEW k \in Copies, NEW i \in Imeis \ stale'[k] PROVE copy'[k][i] = Truth'[i]
      <4>1. CASE k = Selected(s) BY <3>1, <3>2, <4>1 DEF TypeOK
      <4>2. CASE k # Selected(s)
        <5>1. copy'[k] = copy[k] /\ stale'[k] = stale[k] BY <3>2, <4>2 DEF TypeOK
        <5> QED BY <3>1, <3>4, <5>1 DEF Fresh
      <4> QED BY <4>1, <4>2
    <3> QED BY <3>3, <3>4 DEF Fresh
  <2>2. CASE ReplaceHash(s)
    BY <1>1, <2>2, Places, InstallFresh DEF ReplaceHash
  <2>3. CASE FetchHash(s)
    <3>1. Truth' = Truth BY <1>1 DEF Truth
    <3>2. /\ copy' = [copy EXCEPT ![Fetched(s)] = copy[Hash]]
          /\ stale' = [stale EXCEPT ![Fetched(s)] = stale[Hash]]
      BY <2>3 DEF FetchHash
    <3>3. copy' \in [Copies -> Tier] /\ stale' \in [Copies -> SUBSET Imeis]
      BY <3>2, Places DEF TypeOK
    <3>4. ASSUME NEW k \in Copies, NEW i \in Imeis \ stale'[k] PROVE copy'[k][i] = Truth'[i]
      <4>1. CASE k = Fetched(s)
        <5>1. copy'[k] = copy[Hash] /\ stale'[k] = stale[Hash] BY <3>2, <4>1 DEF TypeOK
        <5> QED BY <3>1, <3>4, <5>1, Places DEF Fresh
      <4>2. CASE k # Fetched(s)
        <5>1. copy'[k] = copy[k] /\ stale'[k] = stale[k] BY <3>2, <4>2 DEF TypeOK
        <5> QED BY <3>1, <3>4, <5>1 DEF Fresh
      <4> QED BY <4>1, <4>2
    <3> QED BY <3>3, <3>4 DEF Fresh
  <2>4. CASE SwapMap(s)
    BY <1>1, <2>4, Places, InstallFresh DEF SwapMap
  <2>5. CASE SyncFails(s)
    BY <1>1, <2>5 DEF SyncFails, TypeOK, Fresh, Truth
  <2> QED BY <2>1, <2>2, <2>3, <2>4, <2>5 DEF SyncNext
<1>3. TypeOK' BY <1>1, <1>2 DEF TypeOK, clientVars, requestVars
<1>4. Carried' /\ OneRow' BY <1>1 DEF Carried, OneRow, clientVars, requestVars
<1> QED BY <1>2, <1>3, <1>4

LEMMA RestartInv ==
  ASSUME Inv, NEW s \in Servers, Restart(s)
  PROVE  Inv'
<1> USE DEF Inv
<1>1. Truth' = Truth BY DEF Restart, Truth
<1>2. Nothing \in Tier BY DEF Nothing, Tier
<1>3. copy' \in [Copies -> Tier] /\ stale' \in [Copies -> SUBSET Imeis]
  BY <1>2 DEF Restart, TypeOK
<1>4. /\ startStep' \in [Servers -> {"db", "var", "up"}]
      /\ loop' \in [Servers -> SUBSET {"db", "var"}]
      /\ step' \in [Clients -> Steps]
      /\ row' \in [Clients -> Row \cup {None}]
      /\ faults' \subseteq AllFaults
  BY ParameterAssumption DEF Restart, TypeOK, Fault, Steps
<1>5. TypeOK' BY <1>3, <1>4 DEF Restart, TypeOK, requestVars
<1>6. Carried' BY DEF Restart, Carried, TypeOK, requestVars
<1>7. OneRow' BY DEF Restart, OneRow
<1>8. ASSUME NEW k \in Copies, NEW i \in Imeis \ stale'[k] PROVE copy'[k][i] = Truth'[i]
  <2>1. k = Hash \/ k[1] # s BY <1>8 DEF Restart
  <2>2. copy'[k] = copy[k] /\ stale'[k] = stale[k] BY <2>1 DEF Restart
  <2> QED BY <1>1, <1>8, <2>2 DEF Fresh
<1> QED BY <1>5, <1>6, <1>7, <1>8 DEF Fresh

-----------------------------------------------------------------------------
(* A step of a handler.                                                    *)
LEMMA ClientInv ==
  ASSUME Inv, NEW c \in Clients, ClientNext(c) \/ Disconnect(c)
  PROVE  Inv'
<1> USE DEF Inv
<1>1. ImeiOf[c] \in Imeis /\ ServerOf[c] \in Servers BY ParameterAssumption
<1>2. Known(c) \in Row \cup {None}
  BY <1>1, Places DEF Known, TypeOK, Tier
<1>3. CASE Handshake(c) \/ ResolveDevice(c) \/ InsertRefused(c) \/ HSetFails(c) \/ Disconnect(c)
  <2>1. /\ UNCHANGED <<db, stamp, copy, stale, syncVars, requestVars>>
        /\ faults' \subseteq AllFaults
    BY <1>3, ParameterAssumption
       DEF Handshake, ResolveDevice, InsertRefused, HSetFails, Disconnect, Fault, TypeOK
  <2>2. /\ step' \in [Clients -> Steps]
        /\ row' \in [Clients -> Row \cup {None}]
        /\ \A d \in Clients : step'[d] \in {"hset", "put"} => row'[d] \in Row
    <3>1. CASE Handshake(c)
      BY <3>1 DEF Handshake, At, TypeOK, Steps, Carried
    <3>2. CASE ResolveDevice(c)
      BY <1>2, <3>2 DEF ResolveDevice, At, TypeOK, Steps, Carried
    <3>3. CASE InsertRefused(c)
      BY <3>3 DEF InsertRefused, At, TypeOK, Steps, Carried
    <3>4. CASE HSetFails(c)
      BY <3>4 DEF HSetFails, At, TypeOK, Steps, Carried
    <3>5. CASE Disconnect(c)
      BY <3>5 DEF Disconnect, At, TypeOK, Steps, Carried
    <3> QED BY <1>3, <3>1, <3>2, <3>3, <3>4, <3>5
  <2>3. TypeOK' BY <2>1, <2>2 DEF TypeOK, syncVars, requestVars
  <2>4. Carried' BY <2>1, <2>2 DEF Carried, requestVars
  <2>5. OneRow' /\ Fresh' BY <2>1 DEF OneRow, Fresh, Truth
  <2> QED BY <2>3, <2>4, <2>5
<1>4. CASE InsertRow(c)
  <2> DEFINE d == [id |-> stamp + 1, stamp |-> stamp + 1,
                   imei |-> ImeiOf[c], kind |-> "active"]
  <2>1. d \in Row /\ d.imei = ImeiOf[c] BY <1>1 DEF Row, Kinds, TypeOK
  <2>2. /\ db' = db \cup {d} /\ stamp' = stamp + 1
        /\ row' = [row EXCEPT ![c] = d] /\ Outdates({ImeiOf[c]})
        /\ UNCHANGED <<copy, syncVars, requestVars, faults>>
        /\ step' = [step EXCEPT ![c] = "hset"]
        /\ \A e \in db : e.imei # ImeiOf[c]
    BY <1>4 DEF InsertRow, At, Taken
  <2> HIDE DEF d
  <2>3. OneRow' BY <2>1, <2>2 DEF OneRow
  <2>4. \A e \in db \cup db' : e.imei \notin {ImeiOf[c]} => (e \in db <=> e \in db')
    BY <2>1, <2>2
  <2>5. stale' \in [Copies -> SUBSET Imeis] /\ Fresh'
    BY <1>1, <2>2, <2>3, <2>4, OutdatesFresh
  <2>6. TypeOK' BY <2>1, <2>2, <2>5 DEF TypeOK, syncVars, requestVars, Steps
  <2>7. Carried' BY <2>1, <2>2 DEF Carried, requestVars, TypeOK
  <2> QED BY <2>3, <2>5, <2>6, <2>7
<1>5. CASE HSet(c)
  <2>1. row[c] \in Row BY <1>5 DEF HSet, At, Carried
  <2>2. copy' \in [Copies -> Tier] /\ stale' \in [Copies -> SUBSET Imeis] /\ Fresh'
    BY <1>1, <1>5, <2>1, Places, WriteFresh DEF HSet
  <2>3. TypeOK' BY <1>5, <2>2 DEF HSet, At, TypeOK, syncVars, requestVars, Steps
  <2>4. Carried' /\ OneRow'
    BY <1>5, <2>1 DEF HSet, At, Carried, OneRow, requestVars, TypeOK
  <2> QED BY <2>2, <2>3, <2>4
<1>6. CASE PutInMap(c)
  <2>1. row[c] \in Row BY <1>6 DEF PutInMap, At, Carried
  <2>2. copy' \in [Copies -> Tier] /\ stale' \in [Copies -> SUBSET Imeis] /\ Fresh'
    BY <1>1, <1>6, <2>1, Places, WriteFresh DEF PutInMap
  <2>3. row' \in [Clients -> Row \cup {None}] BY <1>6 DEF PutInMap, TypeOK
  <2>4. TypeOK' BY <1>6, <2>2, <2>3 DEF PutInMap, At, TypeOK, syncVars, requestVars, Steps
  <2>5. Carried' /\ OneRow'
    BY <1>6 DEF PutInMap, At, Carried, OneRow, requestVars, TypeOK
  <2> QED BY <2>2, <2>4, <2>5
<1> QED BY <1>3, <1>4, <1>5, <1>6 DEF ClientNext

-----------------------------------------------------------------------------
(* A step of a request.                                                    *)
LEMMA RequestInv ==
  ASSUME Inv, NEW r \in Requests, StoreRow(r) \/ ReadRow(r) \/ RequestNext(r)
  PROVE  Inv'
<1> USE DEF Inv
<1>1. CASE ReadRow(r) \/ UpdateRefused(r) \/ ApiFails(r)
  <2>1. /\ UNCHANGED <<db, stamp, copy, stale, syncVars, clientVars>>
        /\ faults' \subseteq AllFaults
    BY <1>1, ParameterAssumption DEF ReadRow, UpdateRefused, ApiFails, Fault, TypeOK
  <2>2. /\ reqStep' \in [Requests -> {"idle", "update", "delete", "hdel", "rename", "hadd"}]
        /\ reqRow' \in [Requests -> Row \cup {None}]
        /\ reqOld' \in [Requests -> SUBSET Imeis]
        /\ edits' \in Nat
        /\ \A q \in Requests :
               reqStep'[q] \in {"update", "delete", "rename", "hadd"} => reqRow'[q] \in Row
    <3>1. CASE ReadRow(r)
      <4>1. PICK d \in db, op \in {"update", "delete"} :
                /\ reqStep' = [reqStep EXCEPT ![r] = op]
                /\ reqRow' = [reqRow EXCEPT ![r] = d]
                /\ reqOld' = reqOld /\ edits' = edits + 1
        BY <3>1 DEF ReadRow, ReqAt, NewRequest
      <4>2. d \in Row BY DEF TypeOK
      <4> QED BY <4>1, <4>2 DEF TypeOK, Carried
    <3>2. CASE UpdateRefused(r)
      BY <3>2 DEF UpdateRefused, ReqAt, TypeOK, Carried
    <3>3. CASE ApiFails(r)
      BY <3>3 DEF ApiFails, TypeOK, Carried
    <3> QED BY <1>1, <3>1, <3>2, <3>3
  <2>3. TypeOK' BY <2>1, <2>2 DEF TypeOK, syncVars, clientVars
  <2>4. Carried' BY <2>1, <2>2 DEF Carried, clientVars
  <2>5. OneRow' /\ Fresh' BY <2>1 DEF OneRow, Fresh, Truth
  <2> QED BY <2>3, <2>4, <2>5
<1>2. CASE StoreRow(r)
  <2>1. PICK i \in Imeis, kind \in ApiKinds :
            /\ \A e \in db : e.imei # i
            /\ reqStep' = [reqStep EXCEPT ![r] = "hadd"]
            /\ db' = db \cup {[id |-> stamp + 1, stamp |-> stamp + 1, imei |-> i, kind |-> kind]}
            /\ stamp' = stamp + 1 /\ edits' = edits + 1
            /\ reqRow' = [reqRow EXCEPT ![r] =
                   [id |-> stamp + 1, stamp |-> stamp + 1, imei |-> i, kind |-> kind]]
            /\ Outdates({i})
            /\ UNCHANGED <<copy, syncVars, clientVars, reqOld, faults>>
    BY <1>2 DEF StoreRow, ReqAt, NewRequest, Taken
  <2> DEFINE d == [id |-> stamp + 1, stamp |-> stamp + 1, imei |-> i, kind |-> kind]
  <2>2. d \in Row /\ d.imei = i BY ParameterAssumption DEF Row, TypeOK
  <2>3. db' = db \cup {d} /\ reqRow' = [reqRow EXCEPT ![r] = d] BY <2>1
  <2> HIDE DEF d
  <2>4. OneRow' BY <2>1, <2>2, <2>3 DEF OneRow
  <2>5. \A e \in db \cup db' : e.imei \notin {i} => (e \in db <=> e \in db')
    BY <2>2, <2>3
  <2>6. stale' \in [Copies -> SUBSET Imeis] /\ Fresh'
    BY <2>1, <2>4, <2>5, OutdatesFresh
  <2>7. TypeOK' BY <2>1, <2>2, <2>3, <2>6 DEF TypeOK, syncVars, clientVars
  <2>8. Carried' BY <2>1, <2>2, <2>3 DEF Carried, clientVars, TypeOK
  <2> QED BY <2>4, <2>6, <2>7, <2>8
<1>3. CASE UpdateRow(r)
  <2>1. PICK o \in db, i \in Imeis, kind \in Kinds :
            /\ i = o.imei \/ ~Taken(i)
            /\ reqStep[r] = "update"
            /\ reqStep' = [reqStep EXCEPT ![r] =
                   IF i = reqRow[r].imei THEN "hadd" ELSE "rename"]
            /\ db' = (db \ {o}) \cup
                   {[id |-> o.id, stamp |-> stamp + 1, imei |-> i, kind |-> kind]}
            /\ stamp' = stamp + 1
            /\ reqRow' = [reqRow EXCEPT ![r] =
                   [id |-> o.id, stamp |-> stamp + 1, imei |-> i, kind |-> kind]]
            /\ reqOld' = [reqOld EXCEPT ![r] = {reqRow[r].imei}]
            /\ Outdates({o.imei, i})
            /\ UNCHANGED <<copy, syncVars, clientVars, edits, faults>>
    BY <1>3 DEF UpdateRow, ReqAt
  <2> DEFINE d == [id |-> o.id, stamp |-> stamp + 1, imei |-> i, kind |-> kind]
  <2>2. o \in Row /\ reqRow[r] \in Row BY <2>1 DEF TypeOK, Carried
  <2>3. d \in Row /\ d.imei = i BY <2>2, ParameterAssumption DEF Row, TypeOK
  <2>4. db' = (db \ {o}) \cup {d} /\ reqRow' = [reqRow EXCEPT ![r] = d] BY <2>1
  <2>5. o.imei \in Imeis /\ reqRow[r].imei \in Imeis BY <2>2 DEF Row
  <2> HIDE DEF d
  <2>6. \A e \in db \ {o} : e.imei # i
    BY <2>1 DEF Taken, OneRow
  <2>7. OneRow' BY <2>3, <2>4, <2>6 DEF OneRow
  <2>8. \A e \in db \cup db' : e.imei \notin {o.imei, i} => (e \in db <=> e \in db')
    BY <2>3, <2>4
  <2>9. stale' \in [Copies -> SUBSET Imeis] /\ Fresh'
    BY <2>1, <2>5, <2>7, <2>8, OutdatesFresh
  <2>10. TypeOK' BY <2>1, <2>3, <2>4, <2>5, <2>9 DEF TypeOK, syncVars, clientVars
  <2>11. Carried' BY <2>1, <2>3, <2>4 DEF Carried, clientVars, TypeOK
  <2> QED BY <2>7, <2>9, <2>10, <2>11
<1>4. CASE DeleteRow(r)
  <2> DEFINE gone == {d \in db : d.id = reqRow[r].id}
             I == {d.imei : d \in gone}
  <2>1. /\ reqStep[r] = "delete"
        /\ reqStep' = [reqStep EXCEPT ![r] = "hdel"]
        /\ db' = db \ gone
        /\ reqOld' = [reqOld EXCEPT ![r] = {reqRow[r].imei}]
        /\ reqRow' = [reqRow EXCEPT ![r] = None]
        /\ Outdates(I)
        /\ UNCHANGED <<stamp, copy, syncVars, clientVars, edits, faults>>
    BY <1>4 DEF DeleteRow, ReqAt
  <2>2. reqRow[r].imei \in Imeis BY <2>1 DEF Carried, Row
  <2>3. I \in SUBSET Imeis BY DEF TypeOK, Row
  <2>4. \A d \in gone : d.imei \in I OBVIOUS
  <2>5. gone \subseteq db OBVIOUS
  <2> HIDE DEF I, gone
  <2>6. OneRow' BY <2>1 DEF OneRow
  <2>7. \A e \in db \cup db' : e.imei \notin I => (e \in db <=> e \in db')
    BY <2>1, <2>4
  <2>8. stale' \in [Copies -> SUBSET Imeis] /\ Fresh'
    BY <2>1, <2>3, <2>6, <2>7, OutdatesFresh
  <2>9. TypeOK' BY <2>1, <2>2, <2>8 DEF TypeOK, syncVars, clientVars
  <2>10. Carried' BY <2>1 DEF Carried, clientVars, TypeOK
  <2> QED BY <2>6, <2>8, <2>9, <2>10
<1>5. CASE HDel(r)
  <2>1. /\ copy' = [copy EXCEPT ![Hash] =
                [i \in Imeis |-> IF i \in reqOld[r] THEN None ELSE copy[Hash][i]]]
        /\ stale' = [stale EXCEPT ![Hash] = stale[Hash] \cup reqOld[r]]
        /\ reqOld' = [reqOld EXCEPT ![r] = {}]
        /\ UNCHANGED <<db, stamp, syncVars, clientVars, reqRow, edits, faults>>
    BY <1>5 DEF HDel
  <2>2. [i \in Imeis |-> IF i \in reqOld[r] THEN None ELSE copy[Hash][i]] \in Tier
    BY Places DEF TypeOK, Tier
  <2>3. copy' \in [Copies -> Tier] /\ stale' \in [Copies -> SUBSET Imeis]
    BY <2>1, <2>2, Places DEF TypeOK
  <2>4. Truth' = Truth BY <2>1 DEF Truth
  <2>5. ASSUME NEW k \in Copies, NEW i \in Imeis \ stale'[k] PROVE copy'[k][i] = Truth'[i]
    <3>1. CASE k = Hash
      <4>1. i \notin reqOld[r] /\ i \notin stale[k] BY <2>1, <2>5, <3>1 DEF TypeOK
      <4>2. copy'[k][i] = copy[k][i] BY <2>1, <3>1, <4>1 DEF TypeOK
      <4> QED BY <2>4, <4>1, <4>2 DEF Fresh
    <3>2. CASE k # Hash
      <4>1. copy'[k] = copy[k] /\ stale'[k] = stale[k] BY <2>1, <3>2 DEF TypeOK
      <4> QED BY <2>4, <2>5, <4>1 DEF Fresh
    <3> QED BY <3>1, <3>2
  <2>6. /\ reqStep' \in [Requests -> {"idle", "update", "delete", "hdel", "rename", "hadd"}]
        /\ \A q \in Requests :
               reqStep'[q] \in {"update", "delete", "rename", "hadd"} => reqRow'[q] \in Row
    BY <1>5 DEF HDel, ReqAt, TypeOK, Carried
  <2>7. TypeOK' BY <2>1, <2>3, <2>6 DEF TypeOK, syncVars, clientVars
  <2>8. Carried' /\ OneRow' BY <2>1, <2>6 DEF Carried, OneRow, clientVars
  <2> QED BY <2>5, <2>7, <2>8 DEF Fresh
<1>6. CASE HAdd(r)
  <2>1. reqRow[r] \in Row /\ reqRow[r].imei \in Imeis
    BY <1>6 DEF HAdd, ReqAt, Carried, Row
  <2>2. copy' \in [Copies -> Tier] /\ stale' \in [Copies -> SUBSET Imeis] /\ Fresh'
    BY <1>6, <2>1, Places, WriteFresh DEF HAdd
  <2>3. TypeOK' BY <1>6, <2>2 DEF HAdd, ReqAt, TypeOK, syncVars, clientVars
  <2>4. Carried' /\ OneRow'
    BY <1>6 DEF HAdd, ReqAt, Carried, OneRow, clientVars, TypeOK
  <2> QED BY <2>2, <2>3, <2>4
<1> QED BY <1>1, <1>2, <1>3, <1>4, <1>5, <1>6 DEF RequestNext

-----------------------------------------------------------------------------
LEMMA StepInv == Inv /\ [Next]_vars => Inv'
<1> SUFFICES ASSUME Inv, [Next]_vars PROVE Inv' OBVIOUS
<1>1. CASE Next BY <1>1, SyncInv, RestartInv, ClientInv, RequestInv DEF Next
<1>2. CASE UNCHANGED vars
  BY <1>2 DEF vars, syncVars, clientVars, requestVars, Inv, TypeOK, Carried,
              OneRow, Fresh, Truth
<1> QED BY <1>1, <1>2

(* The types of every variable hold in every reachable state.              *)
THEOREM TypeCorrect == Spec => []TypeOK
<1>1. Inv => TypeOK BY DEF Inv
<1> QED BY <1>1, InitInv, StepInv, PTL DEF Spec

(* The hash, what the syncs carry and the maps of all processes differ     *)
(* from the table only in devices written since their rows were selected.  *)
THEOREM FreshCorrect == Spec => []Fresh
<1>1. Inv => Fresh BY DEF Inv
<1> QED BY <1>1, InitInv, StepInv, PTL DEF Spec
=============================================================================
