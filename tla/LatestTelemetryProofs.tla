----------------------- MODULE LatestTelemetryProofs -----------------------
(***************************************************************************)
(* Proofs about LatestTelemetry, for any connections, any times, any       *)
(* number of overlapping runs and any faults; the assumptions of a theorem *)
(* that needs more are its premises.                                       *)
(***************************************************************************)
EXTENDS LatestTelemetry, TLAPS

LEMMA NoneTyped == None \in Snapshot /\ NoRecord \in Record
  BY ClockAssumption DEF None, Snapshot, NoRecord, Record

LEMMA MergedTyped ==
  ASSUME NEW old \in Snapshot, NEW r \in Record, r.time \in Times
  PROVE  Merged(old, r) \in Snapshot
  BY ClockAssumption DEF Merged, Snapshot, Record, Seconds, Times

(* A handler between the locks carries a record that has a time.           *)
TypeInv ==
    /\ TypeOK
    /\ \A s \in Sessions : pc[s] = "merge" => rec[s].time \in Times

LEMMA FlushTyped ==
  ASSUME TypeInv, NEW f \in Flushes, NEW copy \in Snapshot,
         NEW step \in {"idle", "set", "sadd"}, FlushTo(f, step, copy)
  PROVE  /\ flushStep' \in [Flushes -> {"idle", "set", "sadd"}]
         /\ snapshot' \in [Flushes -> Snapshot]
  BY DEF FlushTo, TypeInv, TypeOK

LEMMA RunTyped ==
  ASSUME TypeInv, NEW r \in Runs, NEW copy \in Snapshot,
         NEW step \in {"idle", "get", "update"}, RunTo(r, step, copy)
  PROVE  /\ runStep' \in [Runs -> {"idle", "get", "update"}]
         /\ fetched' \in [Runs -> Snapshot]
  BY DEF RunTo, TypeInv, TypeOK

LEMMA FaultTyped ==
  ASSUME TypeInv, NEW k, Fault(k)
  PROVE  faults' \subseteq AllFaults /\ k \in faults'
  BY FaultAssumption DEF Fault, TypeInv, TypeOK

LEMMA TypeInitial == Init => TypeInv
  <1> SUFFICES ASSUME Init PROVE TypeInv
    OBVIOUS
  <1>1. dirty \in BOOLEAN /\ marked \in BOOLEAN
    BY Zenon DEF Init
  <1>2. 0 \in 0 .. MaxTime
    BY ClockAssumption
  <1>3. /\ rec \in [Sessions -> Record]
        /\ snapshot \in [Flushes -> Snapshot] /\ fetched \in [Runs -> Snapshot]
        /\ latest \in Snapshot /\ redis \in Snapshot /\ db \in Snapshot
    BY NoneTyped DEF Init
  <1> QED
    BY <1>1, <1>2, <1>3 DEF Init, TypeInv, TypeOK

LEMMA TypeNext == TypeInv /\ [Next]_vars => TypeInv'
  <1> SUFFICES ASSUME TypeInv, [Next]_vars PROVE TypeInv'
    OBVIOUS
  <1> USE DEF memoryVars, flushVars, redisVars, writerVars, startVars
  <1>b. dirty \in BOOLEAN /\ marked \in BOOLEAN
    BY DEF TypeInv, TypeOK
  <1>1. CASE StartSync
    <2>1. faults' \subseteq AllFaults /\ hash' \in Seconds \cup {0}
      BY <1>1, FaultTyped DEF StartSync, TypeInv, TypeOK, Snapshot
    <2> QED
      BY <1>1, <1>b, <2>1 DEF StartSync, TypeInv, TypeOK
  <1>2. CASE BuildDeviceTsMap
    <2>1. StartOf(hash) \in 0 .. MaxTime
      BY ClockAssumption DEF TypeInv, TypeOK
    <2> QED
      BY <1>2, <1>b, <2>1 DEF BuildDeviceTsMap, TypeInv, TypeOK
  <1>3. CASE SyncDevices
    <2>1. hash' \in Seconds \cup {0}
      BY <1>3 DEF SyncDevices, TypeInv, TypeOK, Snapshot
    <2> QED
      BY <1>3, <1>b, <2>1 DEF SyncDevices, TypeInv, TypeOK
  <1>4. CASE Restart
    <2>1. faults' \subseteq AllFaults
      BY <1>4, FaultTyped DEF Restart
    <2>2. dirty' \in BOOLEAN /\ marked' \in BOOLEAN
      BY <1>4, <1>b, Zenon DEF Restart
    <2>3. 0 \in 0 .. MaxTime
      BY ClockAssumption
    <2>4. /\ rec' \in [Sessions -> Record] /\ snapshot' \in [Flushes -> Snapshot]
          /\ latest' \in Snapshot
      BY <1>4, NoneTyped DEF Restart
    <2>5. /\ pc' \in [Sessions -> {"idle", "merge"}]
          /\ \A s \in Sessions : pc'[s] # "merge"
      BY <1>4 DEF Restart
    <2> QED
      BY <1>4, <2>1, <2>2, <2>3, <2>4, <2>5 DEF Restart, TypeInv, TypeOK
  <1>5. ASSUME NEW s \in Sessions, NEW t \in Times, NEW fix \in BOOLEAN,
               Receive(s, t, fix)
        PROVE  TypeInv'
    <2>1. t \in 0 .. MaxTime
      BY ClockAssumption DEF Times
    <2>2. [time |-> t, fix |-> fix] \in Record
      BY <2>1, Zenon DEF Record
    <2>3. rec' \in [Sessions -> Record] /\ pc' \in [Sessions -> {"idle", "merge"}]
      BY <1>5, <2>2 DEF Receive, TypeInv, TypeOK
    <2>4. rec'[s].time = t /\ \A u \in Sessions \ {s} : rec'[u] = rec[u] /\ pc'[u] = pc[u]
      BY <1>5 DEF Receive, TypeInv, TypeOK
    <2> QED
      BY <1>5, <1>b, <2>1, <2>3, <2>4 DEF Receive, TypeInv, TypeOK
  <1>6. ASSUME NEW s \in Sessions, UpdateLastTelemetry(s) PROVE TypeInv'
    <2>1. Merged(latest, rec[s]) \in Snapshot
      BY <1>6, MergedTyped DEF UpdateLastTelemetry, TypeInv, TypeOK
    <2>2. latest' \in Snapshot
      BY <1>6, <2>1 DEF UpdateLastTelemetry, TypeInv, TypeOK
    <2>3. dirty' \in BOOLEAN
      BY <1>6, <1>b, Zenon DEF UpdateLastTelemetry
    <2>4. rec' \in [Sessions -> Record] /\ pc' \in [Sessions -> {"idle", "merge"}]
      BY <1>6, NoneTyped DEF UpdateLastTelemetry, TypeInv, TypeOK
    <2>5. pc'[s] = "idle" /\ \A u \in Sessions \ {s} : rec'[u] = rec[u] /\ pc'[u] = pc[u]
      BY <1>6 DEF UpdateLastTelemetry, TypeInv, TypeOK
    <2> QED
      BY <1>6, <1>b, <2>2, <2>3, <2>4, <2>5 DEF UpdateLastTelemetry, TypeInv, TypeOK
  <1>7. ASSUME NEW f \in Flushes, FlushSwap(f) PROVE TypeInv'
    <2>1. /\ flushStep' \in [Flushes -> {"idle", "set", "sadd"}]
          /\ snapshot' \in [Flushes -> Snapshot]
      BY <1>7, FlushTyped DEF FlushSwap, TypeInv, TypeOK
    <2>2. dirty' \in BOOLEAN
      BY <1>7, Zenon DEF FlushSwap
    <2> QED
      BY <1>7, <1>b, <2>1, <2>2 DEF FlushSwap, TypeInv, TypeOK
  <1>8. ASSUME NEW f \in Flushes, FlushSet(f) PROVE TypeInv'
    <2>1. /\ flushStep' \in [Flushes -> {"idle", "set", "sadd"}]
          /\ snapshot' \in [Flushes -> Snapshot]
      BY <1>8, FlushTyped, NoneTyped DEF FlushSet
    <2>2. redis' \in Snapshot /\ faults' \subseteq AllFaults
      BY <1>8, FaultTyped DEF FlushSet, TypeInv, TypeOK
    <2> QED
      BY <1>8, <1>b, <2>1, <2>2 DEF FlushSet, TypeInv, TypeOK
  <1>9. ASSUME NEW f \in Flushes, FlushSAdd(f) PROVE TypeInv'
    <2>1. /\ flushStep' \in [Flushes -> {"idle", "set", "sadd"}]
          /\ snapshot' \in [Flushes -> Snapshot]
      BY <1>9, FlushTyped, NoneTyped DEF FlushSAdd
    <2>2. faults' \subseteq AllFaults
      BY <1>9, FaultTyped DEF FlushSAdd, TypeInv, TypeOK
    <2>3. marked' \in BOOLEAN
      BY <1>9, <1>b, Zenon DEF FlushSAdd
    <2> QED
      BY <1>9, <1>b, <2>1, <2>2, <2>3 DEF FlushSAdd, TypeInv, TypeOK
  <1>10. ASSUME NEW r \in Runs, FetchMarks(r) PROVE TypeInv'
    <2>1. runStep' \in [Runs -> {"idle", "get", "update"}] /\ fetched' \in [Runs -> Snapshot]
      BY <1>10, RunTyped, NoneTyped DEF FetchMarks
    <2>2. marked' \in BOOLEAN
      BY <1>10, Zenon DEF FetchMarks
    <2> QED
      BY <1>10, <1>b, <2>1, <2>2 DEF FetchMarks, TypeInv, TypeOK
  <1>11. ASSUME NEW r \in Runs, GetLatest(r) PROVE TypeInv'
    <2>1. runStep' \in [Runs -> {"idle", "get", "update"}] /\ fetched' \in [Runs -> Snapshot]
      BY <1>11, RunTyped, NoneTyped DEF GetLatest, TypeInv, TypeOK
    <2> QED
      BY <1>11, <1>b, <2>1 DEF GetLatest, TypeInv, TypeOK
  <1>12. ASSUME NEW r \in Runs, UpdateBulk(r) PROVE TypeInv'
    <2>1. runStep' \in [Runs -> {"idle", "get", "update"}] /\ fetched' \in [Runs -> Snapshot]
      BY <1>12, RunTyped, NoneTyped DEF UpdateBulk
    <2>2. db' \in Snapshot
      BY <1>12 DEF UpdateBulk, TypeInv, TypeOK
    <2> QED
      BY <1>12, <1>b, <2>1, <2>2 DEF UpdateBulk, TypeInv, TypeOK
  <1>13. ASSUME NEW r \in Runs, RunFails(r) PROVE TypeInv'
    <2>1. runStep' \in [Runs -> {"idle", "get", "update"}] /\ fetched' \in [Runs -> Snapshot]
      BY <1>13, RunTyped, NoneTyped DEF RunFails
    <2>2. faults' \subseteq AllFaults
      BY <1>13, FaultTyped DEF RunFails
    <2> QED
      BY <1>13, <1>b, <2>1, <2>2 DEF RunFails, TypeInv, TypeOK
  <1>14. CASE UNCHANGED vars
    BY <1>14, <1>b DEF vars, TypeInv, TypeOK
  <1> QED
    BY <1>1, <1>2, <1>3, <1>4, <1>5, <1>6, <1>7, <1>8, <1>9, <1>10, <1>11, <1>12,
       <1>13, <1>14 DEF Next, Flush, Run

(* Every variable keeps its type, whatever fails and however runs overlap. *)
THEOREM TypeCorrect == Spec => []TypeOK
  <1>1. TypeInv => TypeOK
    BY DEF TypeInv
  <1> QED
    BY <1>1, TypeInitial, TypeNext, PTL DEF Spec

-----------------------------------------------------------------------------
(* The newest record wins.  Its timestamp is in LastTsMap before it is     *)
(* merged, so the invariant says who still has to merge it: either no      *)
(* record was accepted since the parser started, or the snapshot has the   *)
(* time of LastTsMap, or a handler between the locks carries that record.  *)
(* The guard of the merge then lets older records change nothing.          *)

(* Timestamps have the same number of digits, so comparing the decimal     *)
(* strings compares the seconds.                                           *)
SameDigits == TenDigits = 0

KeptInv ==
    /\ \A s \in Sessions : pc[s] = "merge" => rec[s].time <= lastTs
    /\ latest # None => /\ lastTs \in Times
                        /\ latest.ts \in Seconds
                        /\ latest.ts <= Sec(lastTs)
    /\ \/ lastTs = seed
       \/ latest # None /\ latest.ts = Sec(lastTs)
       \/ \E s \in Sessions : pc[s] = "merge" /\ rec[s].time = lastTs
    /\ state # "up" =>
          /\ latest = None /\ dirty = FALSE /\ lastTs = 0 /\ seed = 0
          /\ \A s \in Sessions : pc[s] = "idle"
          /\ \A f \in Flushes : flushStep[f] = "idle"

LEMMA KeptNext ==
  ASSUME SameDigits, TypeInv, KeptInv, [Next]_vars
  PROVE  KeptInv'
  <1> USE DEF memoryVars, flushVars, redisVars, writerVars, startVars
  <1>1. CASE StartSync
    BY <1>1 DEF StartSync, KeptInv
  <1>2. CASE BuildDeviceTsMap
    BY <1>2 DEF BuildDeviceTsMap, KeptInv
  <1>3. CASE SyncDevices
    BY <1>3 DEF SyncDevices, KeptInv
  <1>4. CASE Restart
    BY <1>4 DEF Restart, KeptInv
  <1>5. ASSUME NEW s \in Sessions, NEW t \in Times, NEW fix \in BOOLEAN,
               Receive(s, t, fix)
        PROVE  KeptInv'
    <2>1. /\ state = "up" /\ state' = "up" /\ t > lastTs /\ lastTs' = t
          /\ latest' = latest /\ seed' = seed
      BY <1>5 DEF Receive
    <2>2. /\ pc'[s] = "merge" /\ rec'[s].time = t
          /\ \A u \in Sessions \ {s} : pc'[u] = pc[u] /\ rec'[u] = rec[u]
      BY <1>5 DEF Receive, TypeInv, TypeOK
    <2>3. lastTs \in Nat /\ t \in Nat
      BY ClockAssumption DEF TypeInv, TypeOK, Times
    <2>4. \A u \in Sessions : pc'[u] = "merge" => rec'[u].time <= lastTs'
      <3> SUFFICES ASSUME NEW u \in Sessions, pc'[u] = "merge" PROVE rec'[u].time <= lastTs'
        OBVIOUS
      <3>1. CASE u = s
        BY <2>1, <2>2, <2>3, <3>1
      <3>2. CASE u # s
        <4>1. rec'[u].time = rec[u].time /\ rec[u].time \in Times /\ rec[u].time <= lastTs
          BY <2>2, <3>2 DEF KeptInv, TypeInv
        <4> QED
          BY <2>1, <2>3, <4>1 DEF Times
      <3> QED
        BY <3>1, <3>2
    <2>5. latest # None => latest.ts <= Sec(t)
      <3> SUFFICES ASSUME latest # None PROVE latest.ts <= Sec(t)
        OBVIOUS
      <3>1. lastTs \in Times /\ latest.ts \in Seconds /\ latest.ts <= Sec(lastTs)
        BY DEF KeptInv
      <3>2. Sec(lastTs) <= Sec(t) /\ Sec(lastTs) \in Nat /\ Sec(t) \in Nat /\ latest.ts \in Nat
        BY <2>1, <2>3, <3>1, ClockAssumption DEF Seconds
      <3> QED
        BY <3>1, <3>2
    <2>6. latest # None => latest.ts \in Seconds
      BY DEF KeptInv
    <2> QED
      BY <2>1, <2>2, <2>4, <2>5, <2>6 DEF KeptInv
  <1>6. ASSUME NEW s \in Sessions, UpdateLastTelemetry(s) PROVE KeptInv'
    <2> DEFINE t == rec[s].time
    <2>1. /\ pc[s] = "merge" /\ t \in Times /\ t <= lastTs /\ state = "up"
          /\ state' = "up" /\ lastTs' = lastTs /\ seed' = seed
      BY <1>6 DEF UpdateLastTelemetry, KeptInv, TypeInv
    <2>2. /\ pc'[s] = "idle"
          /\ \A u \in Sessions \ {s} : pc'[u] = pc[u] /\ rec'[u] = rec[u]
      BY <1>6 DEF UpdateLastTelemetry, TypeInv, TypeOK
    <2>3. /\ lastTs \in Times /\ t \in Nat /\ lastTs \in Nat
          /\ Sec(t) \in Seconds /\ Sec(lastTs) \in Nat \ {0} /\ Sec(t) \in Nat \ {0}
          /\ Sec(t) <= Sec(lastTs)
      <3>1. lastTs \in 0 .. MaxTime /\ MaxTime \in Nat
        BY ClockAssumption DEF TypeInv, TypeOK
      <3>2. lastTs \in Times /\ t \in Nat /\ lastTs \in Nat
        BY <2>1, <3>1 DEF Times
      <3> HIDE DEF t
      <3> QED
        BY <2>1, <3>2, ClockAssumption DEF Seconds
    <2>4. CASE latest # None /\ NotNewer(Sec(t), latest.ts)
      <3>1. latest' = latest
        BY <1>6, <2>4 DEF UpdateLastTelemetry
      <3>2. latest.ts \in Nat /\ latest.ts >= Sec(t) /\ latest.ts <= Sec(lastTs)
        <4>1. latest.ts \in Seconds /\ latest.ts <= Sec(lastTs)
          BY <2>4 DEF KeptInv
        <4>2. latest.ts \in Nat
          BY <4>1, ClockAssumption DEF Seconds
        <4> HIDE DEF t
        <4> QED
          BY <2>3, <2>4, <4>1, <4>2 DEF NotNewer, SameDigits
      <3>3. t = lastTs => latest.ts = Sec(lastTs)
        <4> HIDE DEF t
        <4> QED
          BY <2>3, <3>2
      <3> QED
        BY <2>1, <2>2, <2>4, <3>1, <3>3 DEF KeptInv
    <2>5. CASE ~(latest # None /\ NotNewer(Sec(t), latest.ts))
      <3>1. latest' = Merged(latest, rec[s])
        BY <1>6, <2>5 DEF UpdateLastTelemetry
      <3>2. latest'.ts = Sec(t)
        BY <3>1 DEF Merged
      <3>3. latest' # None
        BY <2>3, <3>2 DEF None
      <3>4. t # lastTs /\ latest # None => latest.ts # Sec(lastTs)
        <4> SUFFICES ASSUME latest # None, latest.ts = Sec(lastTs) PROVE FALSE
          OBVIOUS
        <4> HIDE DEF t
        <4> QED
          BY <2>3, <2>5 DEF NotNewer, SameDigits
      <3>5. \/ lastTs = seed
            \/ latest'.ts = Sec(lastTs)
            \/ \E u \in Sessions \ {s} : pc[u] = "merge" /\ rec[u].time = lastTs
        BY <3>2, <3>4 DEF KeptInv
      <3> HIDE DEF t
      <3> QED
        BY <2>1, <2>2, <2>3, <3>2, <3>3, <3>5 DEF KeptInv
    <2> QED
      BY <2>4, <2>5
  <1>7. ASSUME NEW f \in Flushes, FlushSwap(f) PROVE KeptInv'
    BY <1>7 DEF FlushSwap, KeptInv
  <1>8. ASSUME NEW f \in Flushes, FlushSet(f) \/ FlushSAdd(f) PROVE KeptInv'
    <2>1. state = "up"
      BY <1>8 DEF FlushSet, FlushSAdd, KeptInv
    <2> QED
      BY <1>8, <2>1 DEF FlushSet, FlushSAdd, KeptInv
  <1>9. ASSUME NEW r \in Runs, Run(r) \/ RunFails(r) PROVE KeptInv'
    BY <1>9 DEF Run, FetchMarks, GetLatest, UpdateBulk, RunFails, KeptInv
  <1>10. CASE UNCHANGED vars
    BY <1>10 DEF vars, KeptInv
  <1> QED
    BY <1>1, <1>2, <1>3, <1>4, <1>5, <1>6, <1>7, <1>8, <1>9, <1>10 DEF Next, Flush

(* When no handler is between the two locks the snapshot has the timestamp *)
(* of the newest record accepted since the parser started, for any number  *)
(* of connections and in any order of their steps, as long as the decimal  *)
(* timestamps have the same length.                                        *)
THEOREM NewestIsKeptCorrect ==
  ASSUME SameDigits
  PROVE  Spec => []NewestIsKept
  <1>1. Init => KeptInv
    BY DEF Init, KeptInv, None
  <1>2. TypeInv /\ KeptInv /\ [Next]_vars => KeptInv'
    BY KeptNext
  <1>3. KeptInv => NewestIsKept
    BY DEF KeptInv, NewestIsKept
  <1> QED
    BY <1>1, <1>2, <1>3, TypeInitial, TypeNext, PTL DEF Spec

-----------------------------------------------------------------------------
(* No update is lost.  What makes NoLostUpdate inductive: a snapshot that  *)
(* is being written is the newest or the device is marked again, a value   *)
(* on its way to the table is that of Redis or Redis announces another,    *)
(* and Redis never holds the absence of a snapshot after it held one.      *)

(* Neither cron job overlaps with itself.                                  *)
OneFlush == \A f, g \in Flushes : f = g
OneRun   == \A r, q \in Runs : r = q

FlowInv ==
    Untroubled =>
        /\ dirty => latest # None
        /\ latest = redis \/ dirty
              \/ \E f \in Flushes : flushStep[f] = "set" /\ snapshot[f] = latest
        /\ \A f \in Flushes : flushStep[f] = "set" =>
              snapshot[f] # None /\ (snapshot[f] = latest \/ dirty)
        /\ redis = None => db = None /\ \A r \in Runs : runStep[r] # "update"
        /\ redis = db \/ marked \/ InFlush("sadd") \/ InRun("get")
              \/ \E r \in Runs : runStep[r] = "update" /\ fetched[r] = redis
        /\ \A r \in Runs : runStep[r] = "update" =>
              fetched[r] = redis \/ marked \/ InFlush("sadd")

LEMMA FlowNext ==
  ASSUME OneFlush, OneRun, TypeInv, FlowInv, [Next]_vars
  PROVE  FlowInv'
  <1> SUFFICES ASSUME Untroubled' PROVE FlowInv'
    BY DEF FlowInv
  <1> USE DEF memoryVars, flushVars, redisVars, writerVars, startVars
  <1>t. \A k : ~Fault(k)
    BY DEF Fault, Untroubled
  <1>1. CASE StartSync \/ BuildDeviceTsMap \/ SyncDevices
    BY <1>1, <1>t DEF StartSync, BuildDeviceTsMap, SyncDevices, FlowInv, Untroubled,
                      InFlush, InRun
  <1>2. CASE Restart
    BY <1>2, <1>t DEF Restart
  <1>3. ASSUME NEW s \in Sessions, NEW t \in Times, NEW fix \in BOOLEAN,
               Receive(s, t, fix)
        PROVE  FlowInv'
    BY <1>3 DEF Receive, FlowInv, Untroubled, InFlush, InRun
  <1>4. ASSUME NEW s \in Sessions, UpdateLastTelemetry(s) PROVE FlowInv'
    <2>1. /\ UNCHANGED <<flushStep, snapshot, redis, marked, runStep, fetched, db, faults>>
          /\ \/ UNCHANGED <<latest, dirty>>
             \/ dirty' = TRUE /\ latest' = Merged(latest, rec[s])
      BY <1>4 DEF UpdateLastTelemetry
    <2>2. Merged(latest, rec[s]) # None
      <3>1. rec[s].time \in Times
        BY <1>4 DEF UpdateLastTelemetry, TypeInv
      <3>2. Sec(rec[s].time) # 0
        BY <3>1, ClockAssumption
      <3> QED
        BY <3>2 DEF Merged, None
    <2> QED
      BY <2>1, <2>2 DEF FlowInv, Untroubled, InFlush, InRun
  <1>5. ASSUME NEW f \in Flushes, FlushSwap(f) PROVE FlowInv'
    <2>1. /\ dirty /\ dirty' = FALSE /\ flushStep[f] = "idle"
          /\ flushStep'[f] = "set" /\ snapshot'[f] = latest
          /\ UNCHANGED <<latest, redis, marked, runStep, fetched, db, faults>>
      BY <1>5 DEF FlushSwap, FlushTo, TypeInv, TypeOK
    <2>2. \A g \in Flushes : g = f
      BY DEF OneFlush
    <2>3. InFlush("sadd") => FALSE
      BY <2>1, <2>2 DEF InFlush
    <2> QED
      BY <2>1, <2>2, <2>3 DEF FlowInv, Untroubled, InRun
  <1>6. ASSUME NEW f \in Flushes, FlushSet(f) PROVE FlowInv'
    <2>1. /\ redis' = snapshot[f] /\ flushStep[f] = "set" /\ flushStep'[f] = "sadd"
          /\ UNCHANGED <<latest, dirty, marked, runStep, fetched, db, faults>>
      BY <1>6, <1>t DEF FlushSet, FlushTo, TypeInv, TypeOK
    <2>2. \A g \in Flushes : g = f
      BY DEF OneFlush
    <2>3. InFlush("sadd")'
      BY <2>1 DEF InFlush
    <2> QED
      BY <2>1, <2>2, <2>3 DEF FlowInv, Untroubled
  <1>7. ASSUME NEW f \in Flushes, FlushSAdd(f) PROVE FlowInv'
    <2>1. /\ marked' = TRUE /\ flushStep[f] = "sadd" /\ flushStep'[f] = "idle"
          /\ UNCHANGED <<latest, dirty, redis, runStep, fetched, db, faults>>
      BY <1>7, <1>t DEF FlushSAdd, FlushTo, TypeInv, TypeOK
    <2>2. \A g \in Flushes : g = f
      BY DEF OneFlush
    <2> QED
      BY <2>1, <2>2 DEF FlowInv, Untroubled
  <1>8. ASSUME NEW r \in Runs, FetchMarks(r) PROVE FlowInv'
    <2>1. /\ runStep[r] = "idle" /\ runStep'[r] = "get"
          /\ UNCHANGED <<latest, dirty, redis, flushStep, snapshot, db, faults>>
      BY <1>8 DEF FetchMarks, RunTo, TypeInv, TypeOK
    <2>2. \A q \in Runs : q = r
      BY DEF OneRun
    <2>3. InRun("get")'
      BY <2>1 DEF InRun
    <2> QED
      BY <2>1, <2>2, <2>3 DEF FlowInv, Untroubled
  <1>9. ASSUME NEW r \in Runs, GetLatest(r) PROVE FlowInv'
    <2>1. /\ runStep[r] = "get"
          /\ UNCHANGED <<latest, dirty, redis, flushStep, snapshot, marked, db, faults>>
          /\ \/ redis = None /\ runStep'[r] = "idle"
             \/ redis # None /\ runStep'[r] = "update" /\ fetched'[r] = redis
      BY <1>9 DEF GetLatest, RunTo, TypeInv, TypeOK
    <2>2. \A q \in Runs : q = r
      BY DEF OneRun
    <2> QED
      BY <2>1, <2>2 DEF FlowInv, Untroubled, InFlush
  <1>10. ASSUME NEW r \in Runs, UpdateBulk(r) PROVE FlowInv'
    <2>1. /\ runStep[r] = "update" /\ runStep'[r] = "idle" /\ db' = fetched[r]
          /\ UNCHANGED <<latest, dirty, redis, flushStep, snapshot, marked, faults>>
      BY <1>10 DEF UpdateBulk, RunTo, TypeInv, TypeOK
    <2>2. \A q \in Runs : q = r
      BY DEF OneRun
    <2> QED
      BY <2>1, <2>2 DEF FlowInv, Untroubled, InFlush
  <1>11. ASSUME NEW r \in Runs, RunFails(r) PROVE FlowInv'
    BY <1>11, <1>t DEF RunFails
  <1>12. CASE UNCHANGED vars
    BY <1>12 DEF vars, FlowInv, Untroubled, InFlush, InRun
  <1> QED
    BY <1>1, <1>2, <1>3, <1>4, <1>5, <1>6, <1>7, <1>8, <1>9, <1>10, <1>11, <1>12
       DEF Next, Flush, Run

(* Until something fails, every update is in Redis or marked, and every    *)
(* value of Redis is in the table or announced, for any connections and    *)
(* times, as long as neither cron job overlaps with itself.                *)
THEOREM NoLostUpdateCorrect ==
  ASSUME OneFlush, OneRun
  PROVE  Spec => []NoLostUpdate
  <1>1. Init => FlowInv
    BY DEF Init, FlowInv
  <1>2. TypeInv /\ FlowInv /\ [Next]_vars => FlowInv'
    BY FlowNext
  <1>3. FlowInv => NoLostUpdate
    BY DEF FlowInv, NoLostUpdate
  <1> QED
    BY <1>1, <1>2, <1>3, TypeInitial, TypeNext, PTL DEF Spec

-----------------------------------------------------------------------------
(* The table does not go back.  Until the parser restarts, the copies of   *)
(* the snapshot are ordered along the way: table, what the writer fetched, *)
(* Redis, what the flush copied, memory.                                   *)

(* y is no older than x and has a position if x has one.                   *)
Ord(x, y) == x.ts <= y.ts /\ (x.pos # 0 => y.pos # 0)

OrderInv ==
    "restart" \notin faults =>
        /\ Ord(db, redis) /\ Ord(redis, latest)
        /\ \A f \in Flushes : flushStep[f] = "set" =>
              Ord(redis, snapshot[f]) /\ Ord(snapshot[f], latest)
        /\ \A r \in Runs : runStep[r] = "update" =>
              Ord(db, fetched[r]) /\ Ord(fetched[r], redis)

LEMMA OrdFacts ==
  /\ \A x \in Snapshot : Ord(x, x)
  /\ \A x, y, z \in Snapshot : Ord(x, y) /\ Ord(y, z) => Ord(x, z)
  <1>1. \A x \in Snapshot : x.ts \in Nat
    BY ClockAssumption DEF Snapshot, Seconds
  <1> QED
    BY <1>1 DEF Ord

(* The merge only moves the snapshot on.                                   *)
LEMMA MergeMovesOn ==
  ASSUME SameDigits, TypeInv, NEW s \in Sessions, UpdateLastTelemetry(s)
  PROVE  Ord(latest, latest')
  <1> DEFINE t == rec[s].time
  <1>1. /\ t \in Times /\ latest \in Snapshot
    BY DEF UpdateLastTelemetry, TypeInv, TypeOK
  <1>2. Sec(t) \in Nat \ {0} /\ latest.ts \in Nat /\ t # 0
    <2> HIDE DEF t
    <2> QED
      BY <1>1, ClockAssumption DEF Snapshot, Seconds, Times
  <1>3. CASE latest' = latest
    BY <1>1, <1>3, OrdFacts
  <1>4. CASE latest' = Merged(latest, rec[s]) /\ ~(latest # None /\ NotNewer(Sec(t), latest.ts))
    <2>1. latest'.ts = Sec(t) /\ (latest.pos # 0 => latest'.pos # 0)
      BY <1>2, <1>4 DEF Merged
    <2>2. latest.ts <= Sec(t)
      <3>1. CASE latest = None
        BY <1>2, <3>1 DEF None
      <3>2. CASE latest # None
        <4> HIDE DEF t
        <4> QED
          BY <1>2, <1>4, <3>2 DEF NotNewer, SameDigits
      <3> QED
        BY <3>1, <3>2
    <2> QED
      BY <2>1, <2>2 DEF Ord
  <1> QED
    BY <1>3, <1>4 DEF UpdateLastTelemetry

LEMMA OrderNext ==
  ASSUME SameDigits, OneFlush, OneRun, TypeInv, TypeInv', OrderInv, [Next]_vars
  PROVE  OrderInv'
  <1> SUFFICES ASSUME "restart" \notin faults' PROVE OrderInv'
    BY DEF OrderInv
  <1> USE DEF memoryVars, flushVars, redisVars, writerVars, startVars
  <1>t. \A k : Fault(k) => k \in faults' /\ faults \subseteq faults'
    BY DEF Fault
  <1>u. /\ latest \in Snapshot /\ redis \in Snapshot /\ db \in Snapshot
        /\ latest' \in Snapshot /\ redis' \in Snapshot
        /\ \A f \in Flushes : snapshot[f] \in Snapshot
        /\ \A r \in Runs : fetched[r] \in Snapshot
    BY DEF TypeInv, TypeOK
  <1>1. CASE StartSync \/ BuildDeviceTsMap \/ SyncDevices
    BY <1>1, <1>t DEF StartSync, BuildDeviceTsMap, SyncDevices, OrderInv
  <1>2. CASE Restart
    BY <1>2, <1>t DEF Restart
  <1>3. ASSUME NEW s \in Sessions, NEW t \in Times, NEW fix \in BOOLEAN,
               Receive(s, t, fix)
        PROVE  OrderInv'
    BY <1>3 DEF Receive, OrderInv
  <1>4. ASSUME NEW s \in Sessions, UpdateLastTelemetry(s) PROVE OrderInv'
    <2>1. Ord(latest, latest')
      BY <1>4, MergeMovesOn
    <2>2. UNCHANGED <<flushStep, snapshot, redis, runStep, fetched, db, faults>>
      BY <1>4 DEF UpdateLastTelemetry
    <2> QED
      BY <1>u, <2>1, <2>2, OrdFacts DEF OrderInv
  <1>5. ASSUME NEW f \in Flushes, FlushSwap(f) PROVE OrderInv'
    <2>1. /\ flushStep'[f] = "set" /\ snapshot'[f] = latest
          /\ UNCHANGED <<latest, redis, runStep, fetched, db, faults>>
      BY <1>5 DEF FlushSwap, FlushTo, TypeInv, TypeOK
    <2>2. \A g \in Flushes : g = f
      BY DEF OneFlush
    <2> QED
      BY <1>u, <2>1, <2>2, OrdFacts DEF OrderInv
  <1>6. ASSUME NEW f \in Flushes, FlushSet(f) PROVE OrderInv'
    <2>1. /\ flushStep[f] = "set" /\ flushStep'[f] = "sadd"
          /\ redis' = snapshot[f] \/ redis' = redis
          /\ UNCHANGED <<latest, runStep, fetched, db>>
          /\ "restart" \notin faults
      BY <1>6, <1>t DEF FlushSet, FlushTo, TypeInv, TypeOK
    <2>2. \A g \in Flushes : g = f
      BY DEF OneFlush
    <2>3. Ord(redis, redis') /\ Ord(redis', latest)
      BY <1>u, <2>1, OrdFacts DEF OrderInv
    <2> QED
      BY <1>u, <2>1, <2>2, <2>3, OrdFacts DEF OrderInv
  <1>7. ASSUME NEW f \in Flushes, FlushSAdd(f) PROVE OrderInv'
    <2>1. /\ flushStep'[f] = "idle"
          /\ UNCHANGED <<latest, redis, runStep, fetched, db>>
          /\ "restart" \notin faults
      BY <1>7, <1>t DEF FlushSAdd, FlushTo, TypeInv, TypeOK
    <2>2. \A g \in Flushes : g = f
      BY DEF OneFlush
    <2> QED
      BY <2>1, <2>2 DEF OrderInv
  <1>8. ASSUME NEW r \in Runs, FetchMarks(r) \/ RunFails(r) PROVE OrderInv'
    <2>1. /\ runStep'[r] # "update"
          /\ UNCHANGED <<latest, redis, flushStep, snapshot, db>>
          /\ "restart" \notin faults
      BY <1>8, <1>t DEF FetchMarks, RunFails, RunTo, TypeInv, TypeOK
    <2>2. \A q \in Runs : q = r
      BY DEF OneRun
    <2> QED
      BY <2>1, <2>2 DEF OrderInv
  <1>9. ASSUME NEW r \in Runs, GetLatest(r) PROVE OrderInv'
    <2>1. /\ UNCHANGED <<latest, redis, flushStep, snapshot, db, faults>>
          /\ runStep'[r] = "update" => fetched'[r] = redis
      BY <1>9 DEF GetLatest, RunTo, TypeInv, TypeOK
    <2>2. \A q \in Runs : q = r
      BY DEF OneRun
    <2> QED
      BY <1>u, <2>1, <2>2, OrdFacts DEF OrderInv
  <1>10. ASSUME NEW r \in Runs, UpdateBulk(r) PROVE OrderInv'
    <2>1. /\ runStep[r] = "update" /\ runStep'[r] = "idle" /\ db' = fetched[r]
          /\ UNCHANGED <<latest, redis, flushStep, snapshot, faults>>
      BY <1>10 DEF UpdateBulk, RunTo, TypeInv, TypeOK
    <2>2. \A q \in Runs : q = r
      BY DEF OneRun
    <2> QED
      BY <2>1, <2>2 DEF OrderInv
  <1>11. CASE UNCHANGED vars
    BY <1>11 DEF vars, OrderInv
  <1> QED
    BY <1>1, <1>2, <1>3, <1>4, <1>5, <1>6, <1>7, <1>8, <1>9, <1>10, <1>11
       DEF Next, Flush, Run

LEMMA TableStep ==
  ASSUME TypeInv, OrderInv, [Next]_vars
  PROVE  db'.ts < db.ts \/ (db.pos # 0 /\ db'.pos = 0) => "restart" \in faults
  <1> USE DEF memoryVars, flushVars, redisVars, writerVars, startVars
  <1>1. db.ts \in Nat
    BY ClockAssumption DEF TypeInv, TypeOK, Snapshot, Seconds
  <1>2. ASSUME NEW r \in Runs, UpdateBulk(r), "restart" \notin faults
        PROVE  Ord(db, db') /\ db' \in Snapshot
    BY <1>2 DEF UpdateBulk, OrderInv, TypeInv, TypeOK
  <1>3. \A x \in Snapshot : x.ts \in Nat
    BY ClockAssumption DEF Snapshot, Seconds
  <1>4. CASE \E r \in Runs : UpdateBulk(r)
    BY <1>1, <1>2, <1>3, <1>4 DEF Ord
  <1>5. CASE db' = db
    BY <1>1, <1>5
  <1>6. (\E r \in Runs : UpdateBulk(r)) \/ db' = db
    BY DEF Next, vars, Flush, Run, StartSync, BuildDeviceTsMap, SyncDevices, Restart,
           Receive, UpdateLastTelemetry, FlushSwap, FlushSet, FlushSAdd, FetchMarks,
           GetLatest, RunFails
  <1> QED
    BY <1>4, <1>5, <1>6

(* While the parser stays up, last_telemetry never goes back in time and   *)
(* never loses its position, whatever else fails, as long as neither cron  *)
(* job overlaps with itself and timestamps have the same length.           *)
THEOREM TableInOrderCorrect ==
  ASSUME SameDigits, OneFlush, OneRun
  PROVE  Spec => TableInOrder
  <1>1. Init => OrderInv
    <2> SUFFICES ASSUME Init PROVE OrderInv
      OBVIOUS
    <2>1. Ord(None, None)
      BY DEF Ord, None
    <2> QED
      BY <2>1 DEF Init, OrderInv
  <1>2. TypeInv /\ TypeInv' /\ OrderInv /\ [Next]_vars => OrderInv'
    BY OrderNext
  <1>3. TypeInv /\ OrderInv /\ [Next]_vars =>
          [db'.ts < db.ts \/ (db.pos # 0 /\ db'.pos = 0) => "restart" \in faults]_vars
    BY TableStep
  <1> QED
    BY <1>1, <1>2, <1>3, TypeInitial, TypeNext, PTL DEF Spec, TableInOrder
=============================================================================
