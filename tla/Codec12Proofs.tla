--------------------------- MODULE Codec12Proofs ---------------------------
(***************************************************************************)
(* Proofs about Codec12, for any finite set of commands, any set of        *)
(* connections, any retry limit and any choice of what may fail.           *)
(***************************************************************************)
EXTENDS Codec12, FiniteSetTheorems, TLAPS

(* The steps at which a handler has a command in hand.                     *)
Holding == {"delete", "sync", "resend", "setInflight"}

(* What makes TypeOK inductive: a handler that is about to use its local   *)
(* copy has one, it resends only below the limit, and the inflight key is  *)
(* either absent or names a command.                                       *)
HandlerOK ==
    /\ inflight.cmd = NoCmd => inflight = NoEntry
    /\ \A s \in Sessions :
          /\ pc[s] \in Holding => held[s].cmd \in Commands
          /\ pc[s] = "resend" => held[s].retries < MaxRetries

TypeInv == TypeOK /\ HandlerOK

USE DEF redisVars, localVars, writerVars, HandlerUnchanged, Goto

LEMMA TypeInitial == Init => TypeInv
  <1> SUFFICES ASSUME Init PROVE TypeInv
    OBVIOUS
  <1>1. TypeOK
    BY CommandAssumption, RetriesAssumption DEF Init, TypeOK, Entry, NoEntry, Outcome,
       NoOutcome, Packet, NoPacket, Steps, RedisSteps, MaybeCmd
  <1>2. HandlerOK
    BY DEF Init, HandlerOK, Holding
  <1> QED
    BY <1>1, <1>2 DEF TypeInv

(* A push appends a sequence of commands.                                  *)
LEMMA OrdersAreSequences ==
  ASSUME NEW S \in SUBSET Commands, NEW q \in Orders(S)
  PROVE  q \in Seq(Commands) /\ Len(q) = Cardinality(S) /\ Cardinality(S) \in Nat
  <1>1. Cardinality(S) \in Nat
    BY CommandAssumption, FS_Subset, FS_CardinalityType
  <1>2. q \in [1 .. Cardinality(S) -> S]
    BY DEF Orders
  <1> QED
    BY <1>1, <1>2

(* The backend and the writer leave the handlers alone and keep the types. *)
LEMMA TypeBackend ==
  ASSUME TypeInv, NEW S \in SUBSET Commands,
         CreateBulk(S) \/ PushPending(S) \/ AddFails(S)
  PROVE  TypeInv'
  <1>1. CASE CreateBulk(S)
    BY <1>1 DEF CreateBulk, TypeInv, TypeOK, HandlerOK, Outcome, Queued, MaybeCmd
  <1>2. CASE PushPending(S)
    <2>1. PICK q \in Orders(S) : pending' = pending \o q
      BY <1>2 DEF PushPending
    <2>2. q \in Seq(Commands)
      BY OrdersAreSequences
    <2>3. pending' \in Seq(Commands)
      BY <2>1, <2>2 DEF TypeInv, TypeOK
    <2> QED
      BY <1>2, <2>3 DEF PushPending, TypeInv, TypeOK, HandlerOK
  <1>3. CASE AddFails(S)
    BY <1>3 DEF AddFails, TypeInv, TypeOK, HandlerOK
  <1> QED
    BY <1>1, <1>2, <1>3

LEMMA TypeWriter ==
  ASSUME TypeInv,
         FetchAndDeleteSync \/ \E b \in batches : UpdateBulk(b) \/ UpdateFails(b)
  PROVE  TypeInv'
  <1>1. CASE FetchAndDeleteSync
    BY <1>1 DEF FetchAndDeleteSync, TypeInv, TypeOK, HandlerOK, Outcome, NoOutcome, MaybeCmd
  <1>2. ASSUME NEW b \in batches, UpdateBulk(b)
        PROVE  TypeInv'
    BY <1>2 DEF UpdateBulk, TypeInv, TypeOK, HandlerOK
  <1>3. ASSUME NEW b \in batches, UpdateFails(b)
        PROVE  TypeInv'
    BY <1>3 DEF UpdateFails, TypeInv, TypeOK, HandlerOK
  <1> QED
    BY <1>1, <1>2, <1>3

(* One step of a handler: each action says which of the handler's own     *)
(* variables change, and what the next step may rely on.                   *)
LEMMA TypeHandler ==
  ASSUME TypeInv, NEW s \in Sessions,
         ReceiveAvl(s) \/ ReceiveAnswer(s) \/ Handle(s) \/ HandlerFails(s)
  PROVE  TypeInv'
  <1> USE DEF TypeInv, TypeOK, HandlerOK, Holding, Steps, RedisSteps
  <1>a. /\ NoEntry \in Entry
        /\ NoCmd \in MaybeCmd
        /\ Commands \subseteq MaybeCmd
        /\ \A e \in Entry : e.cmd \in MaybeCmd /\ e.retries \in 0 .. MaxRetries
        /\ \A e \in Entry : e.cmd # NoCmd => e.cmd \in Commands
        /\ NoEntry.cmd = NoCmd
    BY RetriesAssumption DEF Entry, NoEntry, MaybeCmd
  <1>1. CASE ReceiveAvl(s)
    BY <1>1, <1>a DEF ReceiveAvl, Packet, NoPacket
  <1>2. CASE ReceiveAnswer(s)
    <2>1. Head(wire) \in Commands /\ Tail(wire) \in Seq(Commands)
      BY <1>2 DEF ReceiveAnswer
    <2>2. [type |-> "GPRS_Messages", answer |-> Head(wire)] \in Packet
      BY <2>1, <1>a DEF Packet
    <2> QED
      BY <1>2, <2>1, <2>2 DEF ReceiveAnswer
  <1>3. CASE ExistsInflight(s)
    BY <1>3 DEF ExistsInflight
  <1>4. CASE GetInflight(s)
    <2>1. inflight # NoEntry => inflight.cmd \in Commands
      BY <1>a
    <2>2. held' \in [Sessions -> Entry] /\ pc' \in [Sessions -> Steps]
      BY <1>4 DEF GetInflight
    <2>3. HandlerOK'
      BY <1>4, <2>1 DEF GetInflight
    <2> QED
      BY <1>4, <2>2, <2>3 DEF GetInflight
  <1>5. CASE DeleteInflight(s)
    BY <1>5, <1>a DEF DeleteInflight
  <1>6. CASE SetToSync(s)
    <2>1. held[s].cmd \in Commands
      BY <1>6 DEF SetToSync
    <2>2. OutcomeOf(packet[s]) \in Outcome
      BY DEF OutcomeOf, Outcome, Packet, MaybeCmd
    <2>3. sync' \in [Commands -> Outcome]
      <3>1. \/ sync' = [sync EXCEPT ![held[s].cmd] = OutcomeOf(packet[s])]
            \/ sync' = sync
        BY <1>6 DEF SetToSync
      <3>2. sync \in [Commands -> Outcome]
        OBVIOUS
      <3> QED
        BY ONLY <2>1, <2>2, <3>1, <3>2
    <2>4. held' \in [Sessions -> Entry] /\ pc' \in [Sessions -> Steps]
      BY <1>6, <1>a DEF SetToSync
    <2>5. HandlerOK'
      BY <1>6 DEF SetToSync
    <2> QED
      BY <1>6, <2>3, <2>4, <2>5 DEF SetToSync
  <1>7. CASE Resend(s)
    <2>1. /\ held[s] \in Entry
          /\ held[s].cmd \in Commands
          /\ held[s].retries \in 0 .. MaxRetries
          /\ held[s].retries < MaxRetries
      BY <1>7, <1>a DEF Resend
    <2>2. /\ [cmd |-> held[s].cmd, retries |-> held[s].retries + 1] \in Entry
          /\ [cmd |-> held[s].cmd, retries |-> held[s].retries + 1].cmd = held[s].cmd
      BY <1>a, <2>1, RetriesAssumption DEF Entry
    <2>3. inflight' \in Entry /\ (inflight'.cmd = NoCmd => inflight' = NoEntry)
      <3>1. inflight' = [cmd |-> held[s].cmd, retries |-> held[s].retries + 1] \/ inflight' = inflight
        BY <1>7 DEF Resend
      <3>2. inflight \in Entry /\ (inflight.cmd = NoCmd => inflight = NoEntry)
        OBVIOUS
      <3> QED
        BY <2>1, <2>2, <3>1, <3>2, CommandAssumption
    <2>4. attempts' \in [Commands -> 0 .. (MaxRetries + 1)]
      BY <1>7, RetriesAssumption DEF Resend, CountAttempt
    <2>5. /\ held' \in [Sessions -> Entry]
          /\ out' \in [Sessions -> MaybeCmd]
          /\ pc' \in [Sessions -> Steps]
      BY <1>7, <1>a, <2>1 DEF Resend
    <2>6. \A t \in Sessions : /\ pc'[t] \in Holding => held'[t].cmd \in Commands
                              /\ pc'[t] = "resend" => held'[t].retries < MaxRetries
      BY <1>7 DEF Resend
    <2> QED
      BY <1>7, <2>3, <2>4, <2>5, <2>6, SMTT(30) DEF Resend
  <1>8. CASE RecheckInflight(s)
    BY <1>8 DEF RecheckInflight
  <1>9. CASE ExistsPending(s)
    BY <1>9 DEF ExistsPending
  <1>10. CASE PopPending(s)
    <2>1. CASE pending = <<>>
      BY <1>10, <2>1 DEF PopPending
    <2>2. CASE pending # <<>>
      <3> DEFINE e == [cmd |-> Head(pending), retries |-> 0]
      <3>1. Head(pending) \in Commands /\ Tail(pending) \in Seq(Commands)
        BY <2>2
      <3>2. e \in Entry /\ e.cmd \in Commands
        BY <3>1, RetriesAssumption DEF Entry, MaybeCmd
      <3>3. /\ held' = [held EXCEPT ![s] = e]
            /\ pc' = [pc EXCEPT ![s] = "setInflight"]
            /\ pending' = Tail(pending)
        BY <1>10, <2>2 DEF PopPending
      <3> HIDE DEF e
      <3>4. held' \in [Sessions -> Entry] /\ pc' \in [Sessions -> Steps]
        BY <3>2, <3>3
      <3>5. HandlerOK'
        BY <1>10, <3>2, <3>3 DEF PopPending
      <3> QED
        BY <1>10, <3>1, <3>3, <3>4, <3>5 DEF PopPending
    <2> QED
      BY <2>1, <2>2
  <1>11. CASE SetInflight(s)
    <2>1. held[s] \in Entry /\ held[s].cmd \in Commands
      BY <1>11 DEF SetInflight
    <2>2. attempts' \in [Commands -> 0 .. (MaxRetries + 1)]
      BY <1>11, RetriesAssumption DEF SetInflight, CountAttempt
    <2>3. /\ held' \in [Sessions -> Entry]
          /\ out' \in [Sessions -> MaybeCmd]
          /\ pc' \in [Sessions -> Steps]
      BY <1>11, <1>a, <2>1 DEF SetInflight
    <2>4. HandlerOK'
      BY <1>11, <2>1, CommandAssumption DEF SetInflight
    <2> QED
      BY <1>11, <2>1, <2>2, <2>3, <2>4 DEF SetInflight
  <1>12. CASE Reply(s)
    <2>1. CASE UNCHANGED wire
      BY <1>12, <1>a, <2>1 DEF Reply
    <2>2. CASE out[s] # NoCmd /\ wire' = Append(wire, out[s])
      <3>1. out[s] \in Commands
        BY <2>2 DEF MaybeCmd
      <3>2. wire' \in Seq(Commands)
        BY <2>2, <3>1
      <3> QED
        BY <1>12, <1>a, <3>2 DEF Reply
    <2> QED
      BY <1>12, <2>1, <2>2 DEF Reply
  <1>13. CASE HandlerFails(s)
    BY <1>13, <1>a DEF HandlerFails
  <1> QED
    BY <1>1, <1>2, <1>3, <1>4, <1>5, <1>6, <1>7, <1>8, <1>9, <1>10, <1>11, <1>12,
       <1>13 DEF Handle

LEMMA TypeStep == TypeInv /\ [Next]_vars => TypeInv'
  <1> SUFFICES ASSUME TypeInv, [Next]_vars PROVE TypeInv'
    OBVIOUS
  <1>1. CASE ParserCrash
    BY <1>1, RetriesAssumption DEF ParserCrash, TypeInv, TypeOK, HandlerOK, Holding, Steps, Entry,
       NoEntry, MaybeCmd
  <1>2. CASE DeviceSilent
    BY <1>2 DEF DeviceSilent, TypeInv, TypeOK, HandlerOK
  <1>3. CASE UNCHANGED vars
    BY <1>3 DEF vars, TypeInv, TypeOK, HandlerOK
  <1>4. requests \subseteq SUBSET Commands
    BY DEF TypeInv, TypeOK
  <1> QED
    BY <1>1, <1>2, <1>3, <1>4, TypeBackend, TypeWriter, TypeHandler DEF Next

(* Every variable always has its type, and no retry count passes the limit.*)
THEOREM TypeCorrect == Spec => []TypeOK
  <1>1. TypeInv => TypeOK
    BY DEF TypeInv
  <1> QED
    BY TypeInitial, TypeStep, <1>1, PTL DEF Spec

-----------------------------------------------------------------------------
(* Giving up.  The argument: Retries, wherever a copy of it is, counts one *)
(* SetToInflight less than were made for that command.  Two connections    *)
(* may both read 3 and both write 4, so it may count fewer, never more.    *)

GivenUp(c) == attempts[c] = MaxRetries + 1

RetryInv ==
    /\ inflight # NoEntry => attempts[inflight.cmd] > inflight.retries
    /\ \A s \in Sessions :
          /\ pc[s] \in {"delete", "sync", "resend"}
                => attempts[held[s].cmd] > held[s].retries
          /\ pc[s] \in {"delete", "sync"} /\ packet[s].type = "AVL_Data"
                => held[s].retries = MaxRetries
          /\ pc[s] = "setInflight" => held[s].retries = 0
    /\ \A c \in Commands :
          /\ sync[c].status = "failed" => GivenUp(c)
          /\ db[c].status = "failed" => GivenUp(c)
          /\ \A b \in batches : b[c].status = "failed" => GivenUp(c)

LEMMA RetryInitial == Init => RetryInv
  BY CommandAssumption DEF Init, RetryInv, NoOutcome, NoEntry

LEMMA CountGrows ==
  ASSUME TypeOK, NEW c \in Commands, CountAttempt(c)
  PROVE  /\ \A d \in Commands : attempts'[d] \in Nat /\ attempts'[d] >= attempts[d]
         /\ \A d \in Commands : GivenUp(d) => GivenUp(d)'
         /\ attempts'[c] > 0
         /\ \A n \in 0 .. MaxRetries :
                n < MaxRetries /\ attempts[c] > n => attempts'[c] > n + 1
  BY RetriesAssumption DEF TypeOK, CountAttempt, GivenUp

LEMMA RetryStep == TypeInv /\ TypeInv' /\ RetryInv /\ [Next]_vars => RetryInv'
  <1> SUFFICES ASSUME TypeInv, TypeInv', RetryInv, [Next]_vars PROVE RetryInv'
    OBVIOUS
  <1> USE DEF RetryInv
  <1>a. /\ inflight \in Entry
        /\ inflight.cmd = NoCmd => inflight = NoEntry
        /\ inflight # NoEntry => inflight.cmd \in Commands
        /\ \A e \in Entry : e.cmd \in MaybeCmd /\ e.retries \in 0 .. MaxRetries
        /\ \A s \in Sessions : held[s] \in Entry
        /\ NoEntry.cmd = NoCmd /\ NoEntry.retries = 0
        /\ \A s \in Sessions : pc[s] \in Holding => held[s].cmd \in Commands
        /\ \A c \in Commands : attempts[c] \in 0 .. (MaxRetries + 1)
    BY DEF TypeInv, TypeOK, HandlerOK, Entry, NoEntry, MaybeCmd
  <1>1. ASSUME NEW S \in SUBSET Commands, CreateBulk(S)
        PROVE  RetryInv'
    BY <1>1 DEF CreateBulk, GivenUp, Queued
  <1>2. ASSUME NEW S \in requests, PushPending(S) \/ AddFails(S)
        PROVE  RetryInv'
    BY <1>2 DEF PushPending, AddFails, GivenUp
  <1>3. ASSUME NEW s \in Sessions, ReceiveAvl(s) \/ ReceiveAnswer(s)
        PROVE  RetryInv'
    <2>1. /\ UNCHANGED <<inflight, sync, held, batches, db, attempts>>
          /\ \A t \in Sessions : t # s => packet'[t] = packet[t] /\ pc'[t] = pc[t]
          /\ pc'[s] = "existsInflight"
      BY <1>3 DEF ReceiveAvl, ReceiveAnswer, TypeInv, TypeOK
    <2> QED
      BY <2>1 DEF GivenUp
  <1>4. ASSUME NEW s \in Sessions, \/ ExistsInflight(s) \/ RecheckInflight(s)
                                   \/ ExistsPending(s) \/ Reply(s) \/ HandlerFails(s)
        PROVE  RetryInv'
    <2>1. /\ UNCHANGED <<inflight, sync, packet, batches, db, attempts>>
          /\ \A t \in Sessions : t # s => held'[t] = held[t] /\ pc'[t] = pc[t]
          /\ pc'[s] \notin Holding
      BY <1>4 DEF ExistsInflight, RecheckInflight, ExistsPending, Reply, HandlerFails,
         TypeInv, TypeOK, Holding
    <2> QED
      BY <2>1 DEF Holding, GivenUp
  <1>5. ASSUME NEW s \in Sessions, GetInflight(s)
        PROVE  RetryInv'
    <2>1. packet[s].type = "AVL_Data" /\ ~(inflight.retries < MaxRetries)
             => inflight.retries = MaxRetries
      BY <1>a, RetriesAssumption
    <2> QED
      BY <1>5, <1>a, <2>1 DEF GetInflight, TypeInv, TypeOK, GivenUp
  <1>6. ASSUME NEW s \in Sessions, DeleteInflight(s)
        PROVE  RetryInv'
    BY <1>6 DEF DeleteInflight, TypeInv, TypeOK, GivenUp
  <1>7. ASSUME NEW s \in Sessions, SetToSync(s)
        PROVE  RetryInv'
    <2>1. held[s].cmd \in Commands
      BY <1>7, <1>a DEF SetToSync, Holding
    <2>2. OutcomeOf(packet[s]).status = "failed" => packet[s].type = "AVL_Data"
      BY DEF OutcomeOf, TypeInv, TypeOK, Packet
    <2>3. OutcomeOf(packet[s]).status = "failed" => GivenUp(held[s].cmd)
      <3>1. attempts[held[s].cmd] > held[s].retries
        BY <1>7 DEF SetToSync
      <3>2. packet[s].type = "AVL_Data" => held[s].retries = MaxRetries
        BY <1>7 DEF SetToSync
      <3> QED
        BY <1>a, <2>1, <2>2, <3>1, <3>2, RetriesAssumption DEF GivenUp
    <2>4. \A c \in Commands : sync'[c].status = "failed" => GivenUp(c)
      BY <1>7, <2>1, <2>3 DEF SetToSync, TypeInv, TypeOK
    <2> QED
      BY <1>7, <2>4 DEF SetToSync, TypeInv, TypeOK, GivenUp
  <1>8. ASSUME NEW s \in Sessions, Resend(s)
        PROVE  RetryInv'
    <2> DEFINE e == [cmd |-> held[s].cmd, retries |-> held[s].retries + 1]
    <2>1. /\ held[s].cmd \in Commands
          /\ held[s].retries \in 0 .. MaxRetries
          /\ held[s].retries < MaxRetries
          /\ attempts[held[s].cmd] > held[s].retries
      BY <1>8, <1>a DEF Resend, Holding, TypeInv, HandlerOK
    <2>2. CountAttempt(held[s].cmd)
      BY <1>8 DEF Resend
    <2>3. attempts'[held[s].cmd] > held[s].retries + 1
      BY <2>1, <2>2, CountGrows DEF TypeInv
    <2>4. \A d \in Commands : /\ attempts'[d] \in Nat
                              /\ attempts[d] \in Nat
                              /\ attempts'[d] >= attempts[d]
                              /\ GivenUp(d) => GivenUp(d)'
      BY <1>a, <2>1, <2>2, CountGrows, RetriesAssumption DEF TypeInv
    <2>5. inflight' # NoEntry => attempts'[inflight'.cmd] > inflight'.retries
      <3>1. CASE inflight' = e
        BY <2>3, <3>1
      <3>2. CASE inflight' = inflight
        BY <1>a, <2>4, <3>2
      <3> QED
        BY <1>8, <3>1, <3>2 DEF Resend
    <2>6. \A t \in Sessions :
             /\ pc'[t] \in {"delete", "sync", "resend"}
                   => t # s /\ held'[t] = held[t] /\ pc[t] = pc'[t]
             /\ pc'[t] = "setInflight" => t # s /\ held'[t] = held[t] /\ pc[t] = pc'[t]
             /\ packet'[t] = packet[t]
      BY <1>8 DEF Resend, TypeInv, TypeOK
    <2>7. \A t \in Sessions :
             pc'[t] \in {"delete", "sync", "resend"}
                => attempts'[held'[t].cmd] > held'[t].retries
      BY <1>a, <2>4, <2>6 DEF Holding
    <2>8. \A c \in Commands :
             /\ sync'[c].status = "failed" => GivenUp(c)'
             /\ db'[c].status = "failed" => GivenUp(c)'
             /\ \A b \in batches' : b[c].status = "failed" => GivenUp(c)'
      BY <1>8, <2>4 DEF Resend
    <2> QED
      BY <2>5, <2>6, <2>7, <2>8
  <1>9. ASSUME NEW s \in Sessions, PopPending(s)
        PROVE  RetryInv'
    BY <1>9 DEF PopPending, TypeInv, TypeOK, GivenUp
  <1>10. ASSUME NEW s \in Sessions, SetInflight(s)
         PROVE  RetryInv'
    <2>1. held[s].cmd \in Commands /\ held[s].retries = 0
      BY <1>10, <1>a DEF SetInflight, Holding
    <2>2. CountAttempt(held[s].cmd)
      BY <1>10 DEF SetInflight
    <2>3. /\ attempts'[held[s].cmd] > 0
          /\ \A d \in Commands : /\ attempts'[d] \in Nat
                                 /\ attempts[d] \in Nat
                                 /\ attempts'[d] >= attempts[d]
                                 /\ GivenUp(d) => GivenUp(d)'
      BY <1>a, <2>1, <2>2, CountGrows, RetriesAssumption DEF TypeInv
    <2>4. inflight' # NoEntry => attempts'[inflight'.cmd] > inflight'.retries
      BY <1>10, <2>1, <2>3 DEF SetInflight
    <2>5. \A t \in Sessions :
             /\ pc'[t] \in {"delete", "sync", "resend"}
                   => t # s /\ held'[t] = held[t] /\ pc[t] = pc'[t]
             /\ pc'[t] = "setInflight" => t # s /\ held'[t] = held[t] /\ pc[t] = pc'[t]
             /\ packet'[t] = packet[t]
      BY <1>10 DEF SetInflight, TypeInv, TypeOK
    <2>6. \A t \in Sessions :
             pc'[t] \in {"delete", "sync", "resend"}
                => attempts'[held'[t].cmd] > held'[t].retries
      BY <1>a, <2>3, <2>5 DEF Holding
    <2>7. \A c \in Commands :
             /\ sync'[c].status = "failed" => GivenUp(c)'
             /\ db'[c].status = "failed" => GivenUp(c)'
             /\ \A b \in batches' : b[c].status = "failed" => GivenUp(c)'
      BY <1>10, <2>3 DEF SetInflight
    <2> QED
      BY <2>4, <2>5, <2>6, <2>7
  <1>11. CASE ParserCrash
    BY <1>11 DEF ParserCrash, GivenUp
  <1>12. CASE DeviceSilent
    BY <1>12 DEF DeviceSilent, GivenUp
  <1>13. CASE FetchAndDeleteSync
    BY <1>13 DEF FetchAndDeleteSync, GivenUp, NoOutcome
  <1>14. ASSUME NEW b \in batches, UpdateBulk(b) \/ UpdateFails(b)
         PROVE  RetryInv'
    BY <1>14 DEF UpdateBulk, UpdateFails, GivenUp
  <1>15. CASE UNCHANGED vars
    BY <1>15 DEF vars, GivenUp
  <1> QED
    BY <1>1, <1>2, <1>3, <1>4, <1>5, <1>6, <1>7, <1>8, <1>9, <1>10, <1>11, <1>12, <1>13,
       <1>14, <1>15 DEF Next, Handle

(* Whatever connections do and whatever fails, "failed / no_response" in   *)
(* the table means MaxRetries + 1 attempts were made.                      *)
THEOREM GivenUpCorrect == Spec => []GivenUpOnlyAfterRetries
  <1>1. RetryInv => GivenUpOnlyAfterRetries
    BY DEF RetryInv, GivenUpOnlyAfterRetries, GivenUp
  <1> QED
    BY TypeInitial, TypeStep, RetryInitial, RetryStep, <1>1, PTL DEF Spec

-----------------------------------------------------------------------------
(* Custody, for a device with one connection.  The argument: the handler   *)
(* that is about to delete or rewrite the inflight key holds a copy of     *)
(* what the key still says, because nobody else touches it; every other    *)
(* move takes a command out of one place before it puts it in the next.    *)

OneSession == \A s, t \in Sessions : s = t

Nowhere(c) == ~(InRequest(c) \/ InPending(c) \/ Carried(c) \/ InInflight(c) \/ Settled(c))

CustodyInv ==
    /\ Custody
    /\ \A c \in Commands : db[c] = NoOutcome => Nowhere(c)
    /\ \A s \in Sessions :
          pc[s] \in {"delete", "resend"} => held[s].cmd = inflight.cmd
    /\ \A i, j \in DOMAIN pending : pending[i] = pending[j] => i = j
    /\ \A S, T \in requests : S = T \/ S \cap T = {}
    /\ \A a, b \in batches : \A c \in Commands :
          a[c] # NoOutcome /\ b[c] # NoOutcome => a = b

LEMMA CustodyInitial == Init => CustodyInv
  BY CommandAssumption DEF Init, CustodyInv, Custody, Nowhere, InRequest, InPending, Carried,
     InInflight, Settled, InSync, InBatch, InTable, Final, NoOutcome, NoEntry

(* A step that only takes commands out of places, or moves them from one   *)
(* place to another, keeps custody.                                        *)
LEMMA CustodyBackend ==
  ASSUME TypeInv, CustodyInv, NEW S \in SUBSET Commands,
         CreateBulk(S) \/ PushPending(S) \/ AddFails(S)
  PROVE  CustodyInv'
  <1> USE DEF CustodyInv
  <1>1. CASE CreateBulk(S)
    <2>1. \A c \in S : Nowhere(c)
      BY <1>1 DEF CreateBulk
    <2>2. \A c \in Commands : /\ InRequest(c)' <=> InRequest(c) \/ c \in S
                              /\ InPending(c)' <=> InPending(c)
                              /\ Carried(c)' <=> Carried(c)
                              /\ InInflight(c)' <=> InInflight(c)
                              /\ InSync(c)' <=> InSync(c)
                              /\ InBatch(c)' <=> InBatch(c)
      BY <1>1 DEF CreateBulk, InRequest, InPending, Carried, InInflight, InSync, InBatch
    <2>3. \A c \in Commands : /\ c \in S => ~InTable(c)' /\ db'[c] # NoOutcome
                              /\ c \notin S => db'[c] = db[c] /\ (InTable(c)' <=> InTable(c))
      BY <1>1 DEF CreateBulk, InTable, Final, Queued, NoOutcome
    <2>4. Custody'
      BY <2>1, <2>2, <2>3 DEF Custody, Nowhere, Settled
    <2>5. \A c \in Commands : db'[c] = NoOutcome => Nowhere(c)'
      BY <2>2, <2>3 DEF Nowhere, Settled
    <2>6. \A T, U \in requests' : T = U \/ T \cap U = {}
      BY <1>1, <2>1 DEF CreateBulk, Nowhere, InRequest
    <2> QED
      BY <1>1, <2>4, <2>5, <2>6 DEF CreateBulk
  <1>2. CASE PushPending(S)
    <2>1. PICK q \in Orders(S) : pending' = pending \o q
      BY <1>2 DEF PushPending
    <2>2. /\ q \in Seq(Commands)
          /\ Len(q) = Cardinality(S)
          /\ Cardinality(S) \in Nat
          /\ pending \in Seq(Commands)
      BY OrdersAreSequences DEF TypeInv, TypeOK
    <2>3. /\ \A i \in 1 .. Len(q) : q[i] \in S
          /\ \A i, j \in 1 .. Len(q) : q[i] = q[j] => i = j
      BY <2>2 DEF Orders
    <2>4. /\ DOMAIN pending' = 1 .. (Len(pending) + Len(q))
          /\ \A i \in 1 .. Len(pending) : pending'[i] = pending[i]
          /\ \A i \in 1 .. (Len(pending) + Len(q)) :
                i > Len(pending) => /\ i - Len(pending) \in 1 .. Len(q)
                                    /\ pending'[i] = q[i - Len(pending)]
      BY <2>1, <2>2
    <2>5. DOMAIN pending = 1 .. Len(pending) /\ Len(pending) \in Nat /\ Len(q) \in Nat
      BY <2>2
    <2>6. \A c \in S : InRequest(c) /\ ~InPending(c) /\ ~Carried(c) /\ ~InInflight(c)
                       /\ ~Settled(c)
      BY <1>2 DEF PushPending, InRequest, Custody, Settled
    <2>7. \A c \in Commands : /\ InRequest(c)' => InRequest(c) /\ c \notin S
                              /\ Carried(c)' <=> Carried(c)
                              /\ InInflight(c)' <=> InInflight(c)
                              /\ InSync(c)' <=> InSync(c)
                              /\ InBatch(c)' <=> InBatch(c)
                              /\ InTable(c)' <=> InTable(c)
      BY <1>2 DEF PushPending, InRequest, Carried, InInflight, InSync, InBatch, InTable
    <2>8. \A c \in Commands : InPending(c)' => InPending(c) \/ c \in S
      BY <2>3, <2>4, <2>5 DEF InPending
    <2>9. Custody'
      BY <2>6, <2>7, <2>8 DEF Custody, Settled
    <2>10. \A i, j \in DOMAIN pending' : pending'[i] = pending'[j] => i = j
      <3> SUFFICES ASSUME NEW i \in DOMAIN pending', NEW j \in DOMAIN pending',
                          pending'[i] = pending'[j]
                   PROVE  i = j
        OBVIOUS
      <3>1. CASE i <= Len(pending) /\ j <= Len(pending)
        BY <2>4, <2>5, <3>1
      <3>2. CASE i > Len(pending) /\ j > Len(pending)
        <4>1. q[i - Len(pending)] = q[j - Len(pending)]
          BY <2>4, <3>2
        <4>2. i - Len(pending) = j - Len(pending)
          BY <2>3, <2>4, <3>2, <4>1
        <4> QED
          BY <2>4, <2>5, <4>2
      <3>3. ASSUME NEW m \in DOMAIN pending', NEW n \in DOMAIN pending',
                   m <= Len(pending), n > Len(pending), pending'[m] = pending'[n]
            PROVE  FALSE
        <4>1. m \in DOMAIN pending /\ pending'[m] = pending[m]
          BY <2>4, <2>5, <3>3
        <4>2. pending'[n] \in S
          BY <2>3, <2>4, <3>3
        <4> QED
          BY <2>6, <3>3, <4>1, <4>2 DEF InPending
      <3>4. \/ i <= Len(pending) /\ j <= Len(pending)
            \/ i > Len(pending) /\ j > Len(pending)
            \/ i <= Len(pending) /\ j > Len(pending)
            \/ j <= Len(pending) /\ i > Len(pending)
        BY <2>4, <2>5
      <3> QED
        BY <3>1, <3>2, <3>3, <3>4
    <2>11. \A c \in Commands : db'[c] = NoOutcome => Nowhere(c)'
      BY <1>2, <2>6, <2>7, <2>8 DEF PushPending, Nowhere, Settled
    <2> QED
      BY <1>2, <2>9, <2>10, <2>11 DEF PushPending
  <1>3. CASE AddFails(S)
    <2>1. \A c \in Commands : /\ InRequest(c)' => InRequest(c)
                              /\ InPending(c)' <=> InPending(c)
                              /\ Carried(c)' <=> Carried(c)
                              /\ InInflight(c)' <=> InInflight(c)
                              /\ InSync(c)' <=> InSync(c)
                              /\ InBatch(c)' <=> InBatch(c)
                              /\ InTable(c)' <=> InTable(c)
      BY <1>3 DEF AddFails, InRequest, InPending, Carried, InInflight, InSync, InBatch, InTable
    <2>2. Custody' /\ \A c \in Commands : db'[c] = NoOutcome => Nowhere(c)'
      BY <1>3, <2>1 DEF AddFails, Custody, Nowhere, Settled
    <2> QED
      BY <1>3, <2>2 DEF AddFails
  <1> QED
    BY <1>1, <1>2, <1>3

LEMMA CustodyWriter ==
  ASSUME TypeInv, CustodyInv,
         FetchAndDeleteSync \/ \E b \in batches : UpdateBulk(b) \/ UpdateFails(b)
  PROVE  CustodyInv'
  <1> USE DEF CustodyInv
  <1>1. CASE FetchAndDeleteSync
    <2>1. \A c \in Commands : /\ InRequest(c)' <=> InRequest(c)
                              /\ InPending(c)' <=> InPending(c)
                              /\ Carried(c)' <=> Carried(c)
                              /\ InInflight(c)' <=> InInflight(c)
                              /\ ~InSync(c)'
                              /\ InBatch(c)' <=> InBatch(c) \/ InSync(c)
                              /\ InTable(c)' <=> InTable(c)
      BY <1>1 DEF FetchAndDeleteSync, InRequest, InPending, Carried, InInflight, InSync, InBatch,
         InTable
    <2>2. Custody' /\ \A c \in Commands : db'[c] = NoOutcome => Nowhere(c)'
      BY <1>1, <2>1 DEF FetchAndDeleteSync, Custody, Nowhere, Settled
    <2>3. \A a, b \in batches' : \A c \in Commands :
             a[c] # NoOutcome /\ b[c] # NoOutcome => a = b
      BY <1>1 DEF FetchAndDeleteSync, Custody, InSync, InBatch
    <2> QED
      BY <1>1, <2>2, <2>3 DEF FetchAndDeleteSync
  <1>2. ASSUME NEW b \in batches, UpdateBulk(b)
        PROVE  CustodyInv'
    <2>1. \A c \in Commands : /\ InRequest(c)' <=> InRequest(c)
                              /\ InPending(c)' <=> InPending(c)
                              /\ Carried(c)' <=> Carried(c)
                              /\ InInflight(c)' <=> InInflight(c)
                              /\ InSync(c)' <=> InSync(c)
                              /\ InBatch(c)' => InBatch(c) /\ b[c] = NoOutcome
      BY <1>2 DEF UpdateBulk, InRequest, InPending, Carried, InInflight, InSync, InBatch
    <2>2. \A c \in Commands : /\ InTable(c)' => InTable(c) \/ b[c] # NoOutcome
                              /\ db'[c] = NoOutcome => db[c] = NoOutcome
                              /\ b[c] # NoOutcome => InBatch(c)
      BY <1>2 DEF UpdateBulk, InTable, InBatch
    <2>3. Custody' /\ \A c \in Commands : db'[c] = NoOutcome => Nowhere(c)'
      <3>1. Custody'
        BY <2>1, <2>2 DEF Custody
      <3>2. ASSUME NEW c \in Commands, db'[c] = NoOutcome
            PROVE  Nowhere(c)'
        <4>1. Nowhere(c) /\ b[c] = NoOutcome
          BY <2>2, <3>2 DEF Nowhere, Settled
        <4> QED
          BY <2>1, <2>2, <4>1 DEF Nowhere, Settled
      <3> QED
        BY <3>1, <3>2
    <2> QED
      BY <1>2, <2>3 DEF UpdateBulk
  <1>3. ASSUME NEW b \in batches, UpdateFails(b)
        PROVE  CustodyInv'
    <2>1. \A c \in Commands : /\ InRequest(c)' <=> InRequest(c)
                              /\ InPending(c)' <=> InPending(c)
                              /\ Carried(c)' <=> Carried(c)
                              /\ InInflight(c)' <=> InInflight(c)
                              /\ InSync(c)' <=> InSync(c)
                              /\ InBatch(c)' => InBatch(c)
                              /\ InTable(c)' <=> InTable(c)
      BY <1>3 DEF UpdateFails, InRequest, InPending, Carried, InInflight, InSync, InBatch, InTable
    <2>2. Custody' /\ \A c \in Commands : db'[c] = NoOutcome => Nowhere(c)'
      BY <1>3, <2>1 DEF UpdateFails, Custody, Nowhere, Settled
    <2> QED
      BY <1>3, <2>2 DEF UpdateFails
  <1> QED
    BY <1>1, <1>2, <1>3

LEMMA CustodyHandler ==
  ASSUME OneSession, TypeInv, CustodyInv, NEW s \in Sessions,
         ReceiveAvl(s) \/ ReceiveAnswer(s) \/ Handle(s) \/ HandlerFails(s)
  PROVE  CustodyInv'
  <1> USE DEF CustodyInv
  <1>a. /\ \A t \in Sessions : t = s
        /\ pc \in [Sessions -> Steps] /\ held \in [Sessions -> Entry]
        /\ pc[s] \in Holding => held[s].cmd \in Commands
        /\ NoEntry.cmd \notin Commands
    BY CommandAssumption DEF OneSession, TypeInv, TypeOK, HandlerOK, NoEntry
  <1>b. UNCHANGED <<requests, batches, db>>
    BY DEF ReceiveAvl, ReceiveAnswer, Handle, HandlerFails, ExistsInflight, GetInflight,
       DeleteInflight, SetToSync, Resend, RecheckInflight, ExistsPending, PopPending,
       SetInflight, Reply
  <1>c. \A c \in Commands : /\ InRequest(c)' <=> InRequest(c)
                            /\ InBatch(c)' <=> InBatch(c)
                            /\ InTable(c)' <=> InTable(c)
    BY <1>b DEF InRequest, InBatch, InTable
  <1>d. /\ Custody'
        /\ \A c \in Commands : Nowhere(c) => Nowhere(c)'
        /\ pc'[s] \in {"delete", "resend"} => held'[s].cmd = inflight'.cmd
        /\ \A i, j \in DOMAIN pending' : pending'[i] = pending'[j] => i = j
        => CustodyInv'
    BY <1>a, <1>b
  <1> DEFINE Quiet ==
          /\ UNCHANGED redisVars
          /\ pc'[s] \in {"delete", "resend"} => held'[s].cmd = inflight.cmd
          /\ pc'[s] \notin {"setInflight", "sync"}
  <1>1. ASSUME Quiet
        PROVE  CustodyInv'
    <2>1. \A c \in Commands : /\ ~Carried(c)'
                              /\ InPending(c)' <=> InPending(c)
                              /\ InInflight(c)' <=> InInflight(c)
                              /\ InSync(c)' <=> InSync(c)
      BY <1>1, <1>a DEF Carried, InPending, InInflight, InSync
    <2>2. Custody' /\ \A c \in Commands : Nowhere(c) => Nowhere(c)'
      BY <1>c, <2>1 DEF Custody, Nowhere, Settled
    <2>3. \A i, j \in DOMAIN pending' : pending'[i] = pending'[j] => i = j
      BY <1>1
    <2> QED
      BY <1>1, <1>d, <2>2, <2>3
  <1>2. CASE ReceiveAvl(s) \/ ReceiveAnswer(s) \/ ExistsInflight(s) \/ RecheckInflight(s)
             \/ ExistsPending(s) \/ Reply(s) \/ HandlerFails(s)
    <2>1. Quiet
      BY <1>2, <1>a DEF ReceiveAvl, ReceiveAnswer, ExistsInflight, RecheckInflight,
         ExistsPending, Reply, HandlerFails
    <2> QED
      BY <1>1, <2>1
  <1>3. CASE GetInflight(s)
    <2>1. Quiet
      BY <1>3, <1>a DEF GetInflight
    <2> QED
      BY <1>1, <2>1
  <1>4. CASE DeleteInflight(s)
    <2>1. \A c \in Commands : /\ Carried(c)' => InInflight(c)
                              /\ ~InInflight(c)'
                              /\ InPending(c)' <=> InPending(c)
                              /\ InSync(c)' <=> InSync(c)
      BY <1>4, <1>a DEF DeleteInflight, Carried, InPending, InInflight, InSync
    <2> QED
      BY <1>4, <1>a, <1>c, <1>d, <2>1 DEF DeleteInflight, Custody, Nowhere, Settled
  <1>5. CASE SetToSync(s)
    <2>1. held[s].cmd \in Commands /\ Carried(held[s].cmd)
      BY <1>5, <1>a DEF SetToSync, Holding, Carried
    <2>2. \A c \in Commands : /\ ~Carried(c)'
                              /\ InPending(c)' <=> InPending(c)
                              /\ InInflight(c)' <=> InInflight(c)
                              /\ InSync(c)' => InSync(c) \/ c = held[s].cmd
      BY <1>5, <1>a DEF SetToSync, Carried, InPending, InInflight, InSync, TypeInv, TypeOK
    <2> QED
      BY <1>5, <1>a, <1>c, <1>d, <2>1, <2>2 DEF SetToSync, Custody, Nowhere, Settled
  <1>6. CASE Resend(s)
    <2>1. held[s].cmd = inflight.cmd
      BY <1>6 DEF Resend
    <2>2. \A c \in Commands : /\ ~Carried(c)'
                              /\ InPending(c)' <=> InPending(c)
                              /\ InInflight(c)' <=> InInflight(c)
                              /\ InSync(c)' <=> InSync(c)
      BY <1>6, <1>a, <2>1 DEF Resend, Carried, InPending, InInflight, InSync
    <2> QED
      BY <1>6, <1>a, <1>c, <1>d, <2>2 DEF Resend, Custody, Nowhere, Settled
  <1>7. CASE PopPending(s)
    <2>1. CASE pending = <<>>
      <3>1. Quiet
        BY <1>7, <1>a, <2>1 DEF PopPending
      <3> QED
        BY <1>1, <3>1
    <2>2. CASE pending # <<>>
      <3>1. /\ pending \in Seq(Commands)
            /\ Len(pending) \in Nat /\ Len(pending) > 0
            /\ DOMAIN pending = 1 .. Len(pending)
            /\ Head(pending) = pending[1]
        BY <2>2 DEF TypeInv, TypeOK
      <3>2. /\ pending' = Tail(pending)
            /\ held'[s] = [cmd |-> Head(pending), retries |-> 0]
            /\ pc'[s] = "setInflight"
            /\ UNCHANGED <<inflight, sync>>
        BY <1>7, <1>a, <2>2 DEF PopPending
      <3>3. /\ DOMAIN pending' = 1 .. (Len(pending) - 1)
            /\ \A i \in 1 .. (Len(pending) - 1) :
                  i + 1 \in DOMAIN pending /\ pending'[i] = pending[i + 1]
        BY <3>1, <3>2
      <3>4. \A i, j \in DOMAIN pending' : pending'[i] = pending'[j] => i = j
        BY <3>1, <3>3
      <3>5. \A c \in Commands : InPending(c)' => InPending(c) /\ c # Head(pending)
        BY <3>1, <3>3 DEF InPending
      <3>6. \A c \in Commands : /\ Carried(c)' => c = Head(pending)
                                /\ InInflight(c)' <=> InInflight(c)
                                /\ InSync(c)' <=> InSync(c)
        BY <3>2, <1>a DEF Carried, InInflight, InSync
      <3>7. Head(pending) \in Commands /\ InPending(Head(pending))
        BY <3>1 DEF InPending
      <3>8. Custody' /\ \A c \in Commands : Nowhere(c) => Nowhere(c)'
        BY <1>c, <3>5, <3>6, <3>7 DEF Custody, Nowhere, Settled
      <3> QED
        BY <1>d, <3>2, <3>4, <3>8
    <2> QED
      BY <2>1, <2>2
  <1>8. CASE SetInflight(s)
    <2>1. held[s].cmd \in Commands /\ Carried(held[s].cmd)
      BY <1>8, <1>a DEF SetInflight, Holding, Carried
    <2>2. \A c \in Commands : /\ ~Carried(c)'
                              /\ InPending(c)' <=> InPending(c)
                              /\ InInflight(c)' => c = held[s].cmd
                              /\ InSync(c)' <=> InSync(c)
      BY <1>8, <1>a DEF SetInflight, Carried, InPending, InInflight, InSync
    <2> QED
      BY <1>8, <1>a, <1>c, <1>d, <2>1, <2>2 DEF SetInflight, Custody, Nowhere, Settled
  <1> QED
    BY <1>2, <1>3, <1>4, <1>5, <1>6, <1>7, <1>8 DEF Handle

LEMMA CustodyStep ==
  ASSUME OneSession
  PROVE  TypeInv /\ CustodyInv /\ [Next]_vars => CustodyInv'
  <1> SUFFICES ASSUME TypeInv, CustodyInv, [Next]_vars PROVE CustodyInv'
    OBVIOUS
  <1> USE DEF CustodyInv
  <1>1. CASE ParserCrash
    <2>1. \A c \in Commands : /\ InRequest(c)' <=> InRequest(c)
                              /\ InPending(c)' <=> InPending(c)
                              /\ ~Carried(c)'
                              /\ InInflight(c)' <=> InInflight(c)
                              /\ InSync(c)' <=> InSync(c)
                              /\ InBatch(c)' <=> InBatch(c)
                              /\ InTable(c)' <=> InTable(c)
      BY <1>1 DEF ParserCrash, InRequest, InPending, Carried, InInflight, InSync, InBatch, InTable
    <2> QED
      BY <1>1, <2>1 DEF ParserCrash, Custody, Nowhere, Settled
  <1>2. CASE DeviceSilent \/ UNCHANGED vars
    <2>1. UNCHANGED <<requests, redisVars, pc, held, writerVars>>
      BY <1>2 DEF DeviceSilent, vars
    <2> QED
      BY <2>1 DEF Custody, Nowhere, Settled, InRequest, InPending, Carried, InInflight, InSync,
         InBatch, InTable
  <1>3. requests \subseteq SUBSET Commands
    BY DEF TypeInv, TypeOK
  <1> QED
    BY <1>1, <1>2, <1>3, CustodyBackend, CustodyWriter, CustodyHandler DEF Next

(* With one connection no crash, error or interleaving ever leaves a       *)
(* command in two of the places it passes through.                         *)
THEOREM CustodyCorrect ==
  ASSUME OneSession
  PROVE  Spec => []Custody
  <1>1. CustodyInv => Custody
    BY DEF CustodyInv
  <1> QED
    BY TypeInitial, TypeStep, CustodyInitial, CustodyStep, <1>1, PTL DEF Spec

LEMMA CustodyAlways ==
  ASSUME OneSession
  PROVE  Spec => [](TypeInv /\ CustodyInv)
  BY TypeInitial, TypeStep, CustodyInitial, CustodyStep, PTL DEF Spec

(* With one connection a command that has an outcome is never sent again.  *)
THEOREM NeverResentCorrect ==
  ASSUME OneSession
  PROVE  Spec => NeverResentOnceSettled
  <1> DEFINE Silent == \A c \in Commands : Settled(c) => attempts'[c] = attempts[c]
  <1>1. TypeInv /\ CustodyInv /\ [Next]_vars => [Silent]_vars
    <2> SUFFICES ASSUME TypeInv, CustodyInv, Next PROVE Silent
      OBVIOUS
    <2>1. CASE \E s \in Sessions : Resend(s)
      <3>1. PICK s \in Sessions : Resend(s)
        BY <2>1
      <3>2. held[s].cmd = inflight.cmd
        BY <3>1 DEF CustodyInv, Resend
      <3>3. \A c \in Commands : Settled(c) => c # held[s].cmd
        BY <3>2 DEF CustodyInv, Custody, InInflight, Settled
      <3> QED
        BY <3>1, <3>3 DEF Resend, CountAttempt, TypeInv, TypeOK
    <2>2. CASE \E s \in Sessions : SetInflight(s)
      <3>1. PICK s \in Sessions : SetInflight(s)
        BY <2>2
      <3>2. \A c \in Commands : Settled(c) => c # held[s].cmd
        BY <3>1 DEF SetInflight, CustodyInv, Custody, Carried, Settled
      <3> QED
        BY <3>1, <3>2 DEF SetInflight, CountAttempt, TypeInv, TypeOK
    <2>3. UNCHANGED attempts \/ \E s \in Sessions : Resend(s) \/ SetInflight(s)
      BY DEF Next, Handle, CreateBulk, PushPending, AddFails, ReceiveAvl, ReceiveAnswer,
         HandlerFails, ExistsInflight, GetInflight, DeleteInflight, SetToSync, RecheckInflight,
         ExistsPending, PopPending, Reply, ParserCrash, DeviceSilent, FetchAndDeleteSync,
         UpdateBulk, UpdateFails
    <2> QED
      BY <2>1, <2>2, <2>3
  <1> QED
    BY CustodyAlways, <1>1, PTL DEF Spec, NeverResentOnceSettled

(* With one connection an outcome stored in PostgreSQL never changes.      *)
THEOREM OutcomeIsFinalCorrect ==
  ASSUME OneSession
  PROVE  Spec => OutcomeIsFinal
  <1> DEFINE Kept == \A c \in Commands : InTable(c) => db'[c] = db[c]
  <1>1. TypeInv /\ CustodyInv /\ [Next]_vars => [Kept]_vars
    <2> SUFFICES ASSUME TypeInv, CustodyInv, Next PROVE Kept
      OBVIOUS
    <2>1. ASSUME NEW S \in SUBSET Commands, CreateBulk(S)
          PROVE  Kept
      BY <2>1 DEF CreateBulk, InTable, Final, NoOutcome, TypeInv, TypeOK
    <2>2. ASSUME NEW b \in batches, UpdateBulk(b)
          PROVE  Kept
      BY <2>2 DEF UpdateBulk, CustodyInv, Custody, InBatch, TypeInv, TypeOK
    <2>3. \/ UNCHANGED db
          \/ \E S \in SUBSET Commands : CreateBulk(S)
          \/ \E b \in batches : UpdateBulk(b)
      BY DEF Next, Handle, PushPending, AddFails, ReceiveAvl, ReceiveAnswer, HandlerFails,
         ExistsInflight, GetInflight, DeleteInflight, SetToSync, Resend, RecheckInflight,
         ExistsPending, PopPending, SetInflight, Reply, ParserCrash, DeviceSilent,
         FetchAndDeleteSync, UpdateFails
    <2> QED
      BY <2>1, <2>2, <2>3
  <1> QED
    BY CustodyAlways, <1>1, PTL DEF Spec, OutcomeIsFinal

-----------------------------------------------------------------------------
(* The refinement.  Two more facts are needed of the code: nothing waits   *)
(* in the inflight key when a handler with one connection pops the next    *)
(* command, and what the sync hash holds is an outcome.  An RPUSH of       *)
(* distinct rows appends them all.                                         *)

StartInv ==
    /\ \A S \in requests : S # {}
    /\ \A s \in Sessions :
          pc[s] \in {"existsPending", "pop", "setInflight"} => inflight = NoEntry
    /\ \A c \in Commands : sync[c] # NoOutcome => sync[c].status \in Final
    /\ \A b \in batches : \A c \in Commands : b[c] # NoOutcome => b[c].status \in Final

LEMMA OutcomeIsAnOutcome ==
  ASSUME NEW p
  PROVE  OutcomeOf(p) # NoOutcome /\ OutcomeOf(p).status \in Final
  BY DEF OutcomeOf, NoOutcome, Final

LEMMA StartInitial == Init => StartInv
  BY DEF Init, StartInv, NoOutcome, NoEntry

LEMMA StartStep ==
  ASSUME OneSession
  PROVE  TypeInv /\ StartInv /\ [Next]_vars => StartInv'
  <1> SUFFICES ASSUME TypeInv, StartInv, [Next]_vars PROVE StartInv'
    OBVIOUS
  <1> USE DEF StartInv
  <1>1. ASSUME NEW S \in SUBSET Commands, CreateBulk(S) \/ PushPending(S) \/ AddFails(S)
        PROVE  StartInv'
    BY <1>1 DEF CreateBulk, PushPending, AddFails
  <1>2. CASE FetchAndDeleteSync
    BY <1>2 DEF FetchAndDeleteSync
  <1>3. ASSUME NEW b \in batches, UpdateBulk(b) \/ UpdateFails(b)
        PROVE  StartInv'
    BY <1>3 DEF UpdateBulk, UpdateFails
  <1>4. ASSUME NEW s \in Sessions,
               ReceiveAvl(s) \/ ReceiveAnswer(s) \/ Handle(s) \/ HandlerFails(s)
        PROVE  StartInv'
    <2>a. /\ \A t \in Sessions : t = s
          /\ pc \in [Sessions -> Steps]
      BY DEF OneSession, TypeInv, TypeOK
    <2>1. CASE SetToSync(s)
      <3>1. \A c \in Commands : sync'[c] # NoOutcome => sync'[c].status \in Final
        BY <2>1, OutcomeIsAnOutcome DEF SetToSync, TypeInv, TypeOK
      <3> QED
        BY <2>1, <2>a, <3>1 DEF SetToSync
    <2>2. CASE Resend(s)
      BY <2>2, <2>a DEF Resend
    <2>3. CASE DeleteInflight(s) \/ GetInflight(s)
      BY <2>3, <2>a DEF DeleteInflight, GetInflight
    <2>4. CASE RecheckInflight(s) \/ ExistsPending(s) \/ PopPending(s) \/ SetInflight(s)
      BY <2>4, <2>a DEF RecheckInflight, ExistsPending, PopPending, SetInflight
    <2>5. CASE ReceiveAvl(s) \/ ReceiveAnswer(s) \/ ExistsInflight(s) \/ Reply(s)
               \/ HandlerFails(s)
      BY <2>5, <2>a DEF ReceiveAvl, ReceiveAnswer, ExistsInflight, Reply, HandlerFails
    <2> QED
      BY <1>4, <2>1, <2>2, <2>3, <2>4, <2>5 DEF Handle
  <1>5. CASE ParserCrash \/ DeviceSilent \/ UNCHANGED vars
    BY <1>5 DEF ParserCrash, DeviceSilent, vars
  <1>6. requests \subseteq SUBSET Commands
    BY DEF TypeInv, TypeOK
  <1> QED
    BY <1>1, <1>2, <1>3, <1>4, <1>5, <1>6 DEF Next

(* An order of a set mentions all of it.                                   *)
LEMMA OrdersCover ==
  ASSUME NEW S \in SUBSET Commands, NEW q \in Orders(S), NEW c \in S
  PROVE  \E i \in 1 .. Cardinality(S) : q[i] = c
  <1>1. IsFiniteSet(S) /\ Cardinality(S) \in Nat
    BY CommandAssumption, FS_Subset, FS_CardinalityType
  <1>2. Cardinality(1 .. Cardinality(S)) = Cardinality(S)
    BY <1>1, FS_Interval
  <1>3. q \in Injection(1 .. Cardinality(S), S)
    <2>1. q \in [1 .. Cardinality(S) -> S] /\ DOMAIN q = 1 .. Cardinality(S)
      BY DEF Orders
    <2>2. \A i, j \in 1 .. Cardinality(S) : q[i] = q[j] => i = j
      BY <2>1 DEF Orders
    <2> QED
      BY <2>1, <2>2 DEF Injection, IsInjective
  <1>4. q \in Surjection(1 .. Cardinality(S), S)
    BY <1>1, <1>2, <1>3, FS_Injection
  <1> QED
    BY <1>4 DEF Surjection

(* The phase of a command is decided by the one place it is in.            *)
PhaseIs ==
    \A c \in Commands :
        /\ PhaseOf(c) = "new" <=> db[c] = NoOutcome
        /\ PhaseOf(c) = "recorded" <=> InTable(c)
        /\ PhaseOf(c) = "accepted" <=> InRequest(c)
        /\ PhaseOf(c) = "queued" <=> InPending(c)
        /\ PhaseOf(c) = "current" <=> Carried(c) \/ InInflight(c)
        /\ PhaseOf(c) = "settled" <=> InSync(c) \/ InBatch(c)
        /\ PhaseOf(c) = "lost" <=>
              ~(db[c] = NoOutcome \/ ~Nowhere(c))

LEMMA PhaseOfPlace == CustodyInv => PhaseIs
  <1> SUFFICES ASSUME CustodyInv, NEW c \in Commands
               PROVE  PhaseIs!(c)
    BY DEF PhaseIs
  <1>1. db[c] = NoOutcome => ~InTable(c)
    BY DEF InTable, NoOutcome, Final
  <1>2. /\ db[c] = NoOutcome => Nowhere(c)
        /\ InRequest(c)  => ~(InPending(c) \/ Carried(c) \/ InInflight(c))
        /\ InPending(c)  => ~(Carried(c) \/ InInflight(c))
        /\ InRequest(c) \/ InPending(c) \/ Carried(c) \/ InInflight(c)
              => ~(InSync(c) \/ InBatch(c) \/ InTable(c))
        /\ InSync(c)     => ~(InBatch(c) \/ InTable(c))
        /\ InBatch(c)    => ~InTable(c)
    BY DEF CustodyInv, Custody
  <1> QED
    BY <1>1, <1>2 DEF PhaseOf, Nowhere, Settled

LEMMA PhaseOfPlaceNext == CustodyInv' => PhaseIs'
  BY PhaseOfPlace, PTL

(* A command all of whose places stay as they are keeps its phase.         *)
Stays(c) ==
    /\ (db[c] = NoOutcome)' <=> db[c] = NoOutcome
    /\ InTable(c)' <=> InTable(c)
    /\ InRequest(c)' <=> InRequest(c)
    /\ InPending(c)' <=> InPending(c)
    /\ (Carried(c) \/ InInflight(c))' <=> Carried(c) \/ InInflight(c)
    /\ (InSync(c) \/ InBatch(c))' <=> InSync(c) \/ InBatch(c)

LEMMA StaysInPhase ==
  ASSUME NEW c \in Commands, Stays(c)
  PROVE  PhaseOf(c)' = PhaseOf(c)
  BY DEF Stays, PhaseOf

LEMMA MovesPhase ==
  ASSUME NEW S \in SUBSET Commands, S # {}, NEW from, NEW to,
         \A c \in S : PhaseOf(c) = from /\ PhaseOf(c)' = to,
         \A c \in Commands \ S : Stays(c)
  PROVE  Lifecycle!Move(S, from, to)
  <1>1. \A c \in Commands \ S : PhaseOf(c)' = PhaseOf(c)
    BY StaysInPhase
  <1> QED
    BY <1>1 DEF Lifecycle!Move

LEMMA NothingMoves ==
  ASSUME \A c \in Commands : Stays(c), pending' = pending
  PROVE  UNCHANGED Lifecycle!vars
  BY StaysInPhase DEF Lifecycle!vars

-----------------------------------------------------------------------------
(* Each action of the code makes one move of the life cycle, or none.      *)

LEMMA BackendMoves ==
  ASSUME CustodyInv, StartInv, PhaseIs, PhaseIs', TypeInv,
         NEW S \in SUBSET Commands,
         CreateBulk(S) \/ PushPending(S) \/ AddFails(S)
  PROVE  Lifecycle!Next
  <1> USE DEF PhaseIs
  <1>1. CASE CreateBulk(S)
    <2>1. \A c \in Commands \ S : Stays(c)
      BY <1>1 DEF CreateBulk, Stays, InRequest, InPending, Carried, InInflight, InSync,
         InBatch, InTable
    <2>2. \A c \in S : PhaseOf(c) = "new" /\ PhaseOf(c)' = "accepted"
      BY <1>1 DEF CreateBulk, InRequest
    <2>3. Lifecycle!Move(S, "new", "accepted") /\ pending' = pending
      BY <1>1, <2>1, <2>2, MovesPhase DEF CreateBulk
    <2> QED
      BY <2>3 DEF Lifecycle!Next, Lifecycle!Accept
  <1>2. CASE PushPending(S)
    <2>1. PICK q \in Orders(S) : pending' = pending \o q
      BY <1>2 DEF PushPending
    <2>2. /\ q \in Seq(Commands) /\ Len(q) = Cardinality(S) /\ Cardinality(S) \in Nat
          /\ pending \in Seq(Commands) /\ q \in [1 .. Cardinality(S) -> S]
      BY OrdersAreSequences DEF TypeInv, TypeOK, Orders
    <2>3. /\ DOMAIN pending' = 1 .. (Len(pending) + Len(q))
          /\ \A i \in 1 .. Len(pending) : pending'[i] = pending[i]
          /\ \A i \in 1 .. Len(q) :
                /\ Len(pending) + i \in DOMAIN pending'
                /\ pending'[Len(pending) + i] = q[i]
          /\ \A i \in DOMAIN pending' :
                i > Len(pending) => pending'[i] = q[i - Len(pending)] /\ pending'[i] \in S
      BY <2>1, <2>2
    <2>4. /\ DOMAIN pending = 1 .. Len(pending)
          /\ Len(pending) \in Nat
          /\ \A i \in DOMAIN pending' : i \in DOMAIN pending \/ i > Len(pending)
          /\ \A i \in DOMAIN pending : i \in DOMAIN pending'
      BY <2>2, <2>3
    <2>5. \A c \in Commands : InPending(c)' <=> InPending(c) \/ c \in S
      <3>1. ASSUME NEW c \in S PROVE InPending(c)'
        <4>1. PICK i \in 1 .. Cardinality(S) : q[i] = c
          BY OrdersCover
        <4> QED
          BY <2>2, <2>3, <4>1 DEF InPending
      <3>2. ASSUME NEW c \in Commands, InPending(c) PROVE InPending(c)'
        BY <2>3, <2>4, <3>2 DEF InPending
      <3>3. ASSUME NEW c \in Commands, InPending(c)' PROVE InPending(c) \/ c \in S
        BY <2>3, <2>4, <3>3 DEF InPending
      <3> QED
        BY <3>1, <3>2, <3>3
    <2>6. \A c \in Commands \ S : InRequest(c)' <=> InRequest(c)
      BY <1>2 DEF PushPending, InRequest
    <2>7. \A c \in Commands \ S : Stays(c)
      BY <1>2, <2>5, <2>6 DEF PushPending, Stays, Carried, InInflight, InSync, InBatch, InTable
    <2>8. \A c \in S : PhaseOf(c) = "accepted" /\ PhaseOf(c)' = "queued"
      BY <1>2, <2>5 DEF PushPending, InRequest
    <2>9. S # {}
      BY <1>2 DEF PushPending, StartInv
    <2>10. Lifecycle!Move(S, "accepted", "queued")
      BY <2>7, <2>8, <2>9, MovesPhase
    <2>11. Lifecycle!Enqueue(S)
      <3>1. Lifecycle!Cardinality(S) = Cardinality(S)
        BY Zenon DEF Lifecycle!Cardinality, Cardinality
      <3>2. q \in [1 .. Lifecycle!Cardinality(S) -> S]
        BY <2>2, <3>1
      <3>3. \A i, j \in DOMAIN q : q[i] = q[j] => i = j
        BY DEF Orders
      <3> QED
        BY <2>1, <2>10, <3>2, <3>3 DEF Lifecycle!Enqueue
    <2> QED
      BY <2>11 DEF Lifecycle!Next
  <1>3. CASE AddFails(S)
    <2>1. \A c \in Commands : InRequest(c)' <=> InRequest(c) /\ c \notin S
      BY <1>3 DEF AddFails, InRequest, CustodyInv
    <2>2. \A c \in Commands \ S : Stays(c)
      BY <1>3, <2>1 DEF AddFails, Stays, InPending, Carried, InInflight, InSync, InBatch, InTable
    <2>3. \A c \in S : InRequest(c)
      BY <1>3 DEF AddFails, InRequest
    <2>4. \A c \in S : /\ db[c] # NoOutcome
                       /\ ~(InPending(c) \/ Carried(c) \/ InInflight(c) \/ Settled(c))
      BY <2>3 DEF CustodyInv, Custody, Settled, Nowhere
    <2>5. \A c \in S : /\ db'[c] # NoOutcome
                       /\ Nowhere(c)'
      BY <1>3, <2>1, <2>4 DEF AddFails, Nowhere, Settled, InPending, Carried, InInflight, InSync,
         InBatch, InTable
    <2>6. \A c \in S : PhaseOf(c) = "accepted" /\ PhaseOf(c)' = "lost"
      BY <2>3, <2>5
    <2>7. S # {}
      BY <1>3 DEF AddFails, StartInv
    <2>8. Lifecycle!Move(S, "accepted", "lost") /\ pending' = pending
      BY <1>3, <2>2, <2>6, <2>7, MovesPhase DEF AddFails
    <2> QED
      BY <2>8 DEF Lifecycle!Next, Lifecycle!Lose
  <1> QED
    BY <1>1, <1>2, <1>3

(* The writer takes the whole hash, and stores or loses the whole batch.   *)
LEMMA WriterMoves ==
  ASSUME CustodyInv, StartInv, PhaseIs, PhaseIs', TypeInv,
         FetchAndDeleteSync \/ \E b \in batches : UpdateBulk(b) \/ UpdateFails(b)
  PROVE  Lifecycle!Next \/ UNCHANGED Lifecycle!vars
  <1> USE DEF PhaseIs
  <1>1. CASE FetchAndDeleteSync
    <2>1. \A c \in Commands : ~InSync(c)' /\ (InBatch(c)' <=> InBatch(c) \/ InSync(c))
      BY <1>1 DEF FetchAndDeleteSync, InSync, InBatch
    <2>2. \A c \in Commands : Stays(c)
      BY <1>1, <2>1 DEF FetchAndDeleteSync, Stays, InRequest, InPending, Carried, InInflight,
         InTable
    <2> QED
      BY <1>1, <2>2, NothingMoves DEF FetchAndDeleteSync
  <1>2. ASSUME NEW b \in batches, UpdateBulk(b) \/ UpdateFails(b)
        PROVE  Lifecycle!Next \/ UNCHANGED Lifecycle!vars
    <2> DEFINE S == {c \in Commands : b[c] # NoOutcome}
    <2>1. \A c \in Commands : /\ c \in S => InBatch(c)
                              /\ InBatch(c)' <=> InBatch(c) /\ c \notin S
      BY <1>2 DEF UpdateBulk, UpdateFails, InBatch, CustodyInv
    <2>2. \A c \in S : /\ ~(InRequest(c) \/ InPending(c) \/ Carried(c) \/ InInflight(c))
                       /\ ~(InSync(c) \/ InTable(c))
                       /\ db[c] # NoOutcome
                       /\ b[c].status \in Final
      BY <2>1 DEF CustodyInv, Custody, Nowhere, Settled, StartInv
    <2>3. \A c \in Commands : /\ InRequest(c)' <=> InRequest(c)
                              /\ InPending(c)' <=> InPending(c)
                              /\ Carried(c)' <=> Carried(c)
                              /\ InInflight(c)' <=> InInflight(c)
                              /\ InSync(c)' <=> InSync(c)
      BY <1>2 DEF UpdateBulk, UpdateFails, InRequest, InPending, Carried, InInflight, InSync
    <2>4. \A c \in Commands \ S : db'[c] = db[c]
      BY <1>2 DEF UpdateBulk, UpdateFails
    <2>5. \A c \in Commands \ S : Stays(c)
      BY <2>1, <2>3, <2>4 DEF Stays, InTable
    <2>6. pending' = pending
      BY <1>2 DEF UpdateBulk, UpdateFails
    <2> HIDE DEF S
    <2>7. CASE S = {}
      BY <2>5, <2>6, <2>7, NothingMoves
    <2>8. CASE S # {} /\ UpdateBulk(b)
      <3>1. \A c \in S : db'[c] = b[c]
        BY <2>2, <2>8 DEF UpdateBulk, S
      <3>2. \A c \in S : PhaseOf(c) = "settled" /\ PhaseOf(c)' = "recorded"
        BY <2>1, <2>2, <3>1 DEF InTable, S
      <3>3. Lifecycle!Move(S, "settled", "recorded")
        BY <2>5, <2>8, <3>2, MovesPhase DEF S
      <3> QED
        BY <2>6, <3>3 DEF Lifecycle!Next, Lifecycle!Record, S
    <2>9. CASE S # {} /\ UpdateFails(b)
      <3>1. \A c \in S : db'[c] # NoOutcome /\ Nowhere(c)'
        BY <2>1, <2>2, <2>3, <2>9 DEF UpdateFails, Nowhere, Settled, InTable, S
      <3>2. \A c \in S : PhaseOf(c) = "settled" /\ PhaseOf(c)' = "lost"
        BY <2>1, <3>1 DEF S
      <3>3. Lifecycle!Move(S, "settled", "lost")
        BY <2>5, <2>9, <3>2, MovesPhase DEF S
      <3> QED
        BY <2>6, <3>3 DEF Lifecycle!Next, Lifecycle!Lose, S
    <2> QED
      BY <1>2, <2>7, <2>8, <2>9
  <1> QED
    BY <1>1, <1>2

(* A command the parser alone holds is lost when the parser forgets it.    *)
LEMMA ForgottenIsLost ==
  ASSUME CustodyInv, PhaseIs, PhaseIs', TypeInv, OneSession,
         NEW s \in Sessions, pc[s] \in {"setInflight", "sync"},
         pc'[s] \notin {"setInflight", "sync"},
         UNCHANGED <<requests, redisVars, writerVars>>
  PROVE  Lifecycle!Next
  <1> PICK h \in Commands : h = held[s].cmd
    BY DEF TypeInv, HandlerOK, Holding
  <1>1. Carried(h)
    BY DEF Carried
  <1>2. \A c \in Commands : /\ Carried(c) <=> c = h
                            /\ ~Carried(c)'
                            /\ InRequest(c)' <=> InRequest(c)
                            /\ InPending(c)' <=> InPending(c)
                            /\ InInflight(c)' <=> InInflight(c)
                            /\ InSync(c)' <=> InSync(c)
                            /\ InBatch(c)' <=> InBatch(c)
                            /\ InTable(c)' <=> InTable(c)
    BY DEF OneSession, Carried, InRequest, InPending, InInflight, InSync, InBatch, InTable
  <1>3. ~(InRequest(h) \/ InPending(h) \/ InInflight(h) \/ Settled(h)) /\ db[h] # NoOutcome
    BY <1>1 DEF CustodyInv, Custody, Settled, Nowhere
  <1>4. PhaseOf(h) = "current" /\ PhaseOf(h)' = "lost"
    BY <1>1, <1>2, <1>3 DEF PhaseIs, Nowhere, Settled
  <1>5. \A c \in Commands \ {h} : Stays(c)
    BY <1>2 DEF Stays
  <1>6. Lifecycle!Move({h}, "current", "lost")
    BY <1>1, <1>4, <1>5, MovesPhase
  <1> QED
    BY <1>1, <1>6 DEF Lifecycle!Next, Lifecycle!Lose

LEMMA HandlerMoves ==
  ASSUME CustodyInv, StartInv, PhaseIs, PhaseIs', TypeInv, OneSession,
         NEW s \in Sessions,
         ReceiveAvl(s) \/ ReceiveAnswer(s) \/ Handle(s) \/ HandlerFails(s)
  PROVE  Lifecycle!Next \/ UNCHANGED Lifecycle!vars
  <1> DEFINE h == held[s].cmd
  <1>a. /\ \A t \in Sessions : t = s
        /\ pc \in [Sessions -> Steps] /\ held \in [Sessions -> Entry]
        /\ pc[s] \in Holding => h \in Commands
        /\ NoEntry.cmd \notin Commands
    BY CommandAssumption DEF OneSession, TypeInv, TypeOK, HandlerOK, NoEntry
  <1>b. UNCHANGED <<requests, batches, db>>
    BY DEF ReceiveAvl, ReceiveAnswer, Handle, HandlerFails, ExistsInflight, GetInflight,
       DeleteInflight, SetToSync, Resend, RecheckInflight, ExistsPending, PopPending,
       SetInflight, Reply
  <1>c. \A c \in Commands : /\ InRequest(c)' <=> InRequest(c)
                            /\ InBatch(c)' <=> InBatch(c)
                            /\ InTable(c)' <=> InTable(c)
    BY <1>b DEF InRequest, InBatch, InTable
  <1> DEFINE Quiet ==
          /\ UNCHANGED redisVars
          /\ pc[s] \notin {"setInflight", "sync"}
          /\ pc'[s] \notin {"setInflight", "sync"}
  <1>1. ASSUME Quiet
        PROVE  UNCHANGED Lifecycle!vars
    <2>1. \A c \in Commands : Stays(c)
      BY <1>1, <1>a, <1>b, <1>c DEF Stays, Carried, InPending, InInflight, InSync
    <2> QED
      BY <1>1, <2>1, NothingMoves
  <1>2. CASE ReceiveAvl(s) \/ ReceiveAnswer(s) \/ ExistsInflight(s) \/ RecheckInflight(s)
             \/ ExistsPending(s) \/ Reply(s) \/ GetInflight(s)
    <2>1. Quiet
      BY <1>2, <1>a DEF ReceiveAvl, ReceiveAnswer, ExistsInflight, RecheckInflight,
         ExistsPending, Reply, GetInflight
    <2> QED
      BY <1>1, <2>1
  <1>3. CASE HandlerFails(s)
    <2>1. pc'[s] = "idle" /\ UNCHANGED <<requests, redisVars, writerVars>>
      BY <1>3, <1>a DEF HandlerFails
    <2>2. CASE pc[s] \in {"setInflight", "sync"}
      BY <2>1, <2>2, ForgottenIsLost
    <2>3. CASE pc[s] \notin {"setInflight", "sync"}
      BY <1>1, <2>1, <2>3
    <2> QED
      BY <2>2, <2>3
  <1>4. CASE DeleteInflight(s)
    <2>1. h = inflight.cmd /\ h \in Commands
      BY <1>4, <1>a DEF DeleteInflight, CustodyInv, Holding
    <2>2. \A c \in Commands : /\ Carried(c)' <=> c = h
                              /\ ~Carried(c)
                              /\ InInflight(c) <=> c = h
                              /\ ~InInflight(c)'
                              /\ InPending(c)' <=> InPending(c)
                              /\ InSync(c)' <=> InSync(c)
      BY <1>4, <1>a, <2>1 DEF DeleteInflight, Carried, InPending, InInflight, InSync
    <2>3. \A c \in Commands : Stays(c)
      BY <1>b, <1>c, <2>2 DEF Stays
    <2> QED
      BY <1>4, <2>3, NothingMoves DEF DeleteInflight
  <1>5. CASE SetToSync(s)
    <2>1. /\ pc[s] = "sync" /\ pc'[s] = "recheck" /\ pending' = pending
          /\ held[s].cmd \in Commands
      BY <1>5, <1>a DEF SetToSync, Holding
    <2> PICK k \in Commands : k = held[s].cmd
      BY <2>1
    <2>2. CASE sync' = sync
      BY <1>5, <1>b, <2>1, <2>2, ForgottenIsLost DEF SetToSync
    <2>3. CASE sync' = [sync EXCEPT ![k] = OutcomeOf(packet[s])]
      <3>1. \A c \in Commands : /\ Carried(c) <=> c = k
                                /\ ~Carried(c)'
                                /\ InPending(c)' <=> InPending(c)
                                /\ InInflight(c)' <=> InInflight(c)
                                /\ c # k => (InSync(c)' <=> InSync(c))
                                /\ c = k => InSync(c)'
        BY <1>5, <1>a, <2>1, <2>3, OutcomeIsAnOutcome DEF SetToSync, Carried, InPending,
           InInflight, InSync, TypeInv, TypeOK
      <3>2. \A c \in Commands \ {k} : Stays(c)
        BY <1>b, <1>c, <3>1 DEF Stays
      <3>3. PhaseOf(k) = "current" /\ PhaseOf(k)' = "settled"
        BY <2>1, <3>1 DEF PhaseIs
      <3>4. Lifecycle!Move({k}, "current", "settled")
        BY <2>1, <3>2, <3>3, MovesPhase
      <3> QED
        BY <2>1, <3>4 DEF Lifecycle!Next, Lifecycle!Settle
    <2> QED
      BY <1>5, <2>2, <2>3 DEF SetToSync
  <1>6. CASE Resend(s)
    <2>1. h = inflight.cmd
      BY <1>6 DEF Resend, CustodyInv
    <2>2. \A c \in Commands : /\ ~Carried(c)
                              /\ ~Carried(c)'
                              /\ InPending(c)' <=> InPending(c)
                              /\ InInflight(c)' <=> InInflight(c)
                              /\ InSync(c)' <=> InSync(c)
      BY <1>6, <1>a, <2>1 DEF Resend, Carried, InPending, InInflight, InSync
    <2>3. \A c \in Commands : Stays(c)
      BY <1>b, <1>c, <2>2 DEF Stays
    <2> QED
      BY <1>6, <2>3, NothingMoves DEF Resend
  <1>7. CASE PopPending(s)
    <2>1. CASE pending = <<>>
      <3>1. Quiet
        BY <1>7, <1>a, <2>1 DEF PopPending
      <3> QED
        BY <1>1, <3>1
    <2>2. CASE pending # <<>>
      <3> PICK d \in Commands : d = Head(pending)
        BY <2>2 DEF TypeInv, TypeOK
      <3>1. /\ pending \in Seq(Commands)
            /\ Len(pending) \in Nat /\ Len(pending) > 0
            /\ DOMAIN pending = 1 .. Len(pending)
            /\ d = pending[1]
        BY <2>2 DEF TypeInv, TypeOK
      <3>2. /\ pending' = Tail(pending)
            /\ held'[s] = [cmd |-> d, retries |-> 0]
            /\ pc[s] = "pop" /\ pc'[s] = "setInflight"
            /\ UNCHANGED <<inflight, sync>>
            /\ inflight = NoEntry
        BY <1>7, <1>a, <2>2 DEF PopPending, StartInv
      <3>3. /\ DOMAIN pending' = 1 .. (Len(pending) - 1)
            /\ \A i \in 1 .. (Len(pending) - 1) :
                  i + 1 \in DOMAIN pending /\ pending'[i] = pending[i + 1]
            /\ \A i \in DOMAIN pending :
                  i # 1 => i - 1 \in DOMAIN pending' /\ pending'[i - 1] = pending[i]
        BY <3>1, <3>2
      <3>4. d \in Commands /\ InPending(d)
        BY <3>1 DEF InPending
      <3>5. \A c \in Commands : InPending(c)' <=> InPending(c) /\ c # d
        <4>1. \A i \in DOMAIN pending : pending[i] = d => i = 1
          BY <3>1 DEF CustodyInv
        <4>2. ASSUME NEW c \in Commands, InPending(c)'
              PROVE  InPending(c) /\ c # d
          <5>1. PICK i \in 1 .. (Len(pending) - 1) : pending'[i] = c
            BY <3>3, <4>2 DEF InPending
          <5>2. i + 1 \in DOMAIN pending /\ pending[i + 1] = c /\ i + 1 # 1
            BY <3>3, <5>1
          <5> QED
            BY <4>1, <5>2 DEF InPending
        <4>3. ASSUME NEW c \in Commands, InPending(c), c # d
              PROVE  InPending(c)'
          <5>1. PICK i \in DOMAIN pending : pending[i] = c
            BY <4>3 DEF InPending
          <5>2. i - 1 \in DOMAIN pending' /\ pending'[i - 1] = c
            BY <3>1, <3>3, <4>3, <5>1
          <5> QED
            BY <5>2 DEF InPending
        <4> QED
          BY <4>2, <4>3
      <3>6. \A c \in Commands : /\ Carried(c)' <=> c = d
                                /\ ~Carried(c)
                                /\ ~InInflight(c)
                                /\ ~InInflight(c)'
                                /\ InSync(c)' <=> InSync(c)
        BY <3>2, <1>a DEF Carried, InInflight, InSync
      <3>7. \A c \in Commands \ {d} : Stays(c)
        BY <1>b, <1>c, <3>5, <3>6 DEF Stays
      <3>8. PhaseOf(d) = "queued" /\ PhaseOf(d)' = "current"
        BY <3>4, <3>6 DEF PhaseIs
      <3>9. \A c \in Commands : PhaseOf(c) # "current"
        BY <3>6 DEF PhaseIs
      <3>10. Lifecycle!Move({d}, "queued", "current")
        BY <3>4, <3>7, <3>8, MovesPhase
      <3>11. \A c \in Commands : [e \in Commands |-> PhaseOf(e)][c] # "current"
        BY <3>9
      <3> QED
        BY <2>2, <3>2, <3>10, <3>11 DEF Lifecycle!Next, Lifecycle!Start
    <2> QED
      BY <2>1, <2>2
  <1>8. CASE SetInflight(s)
    <2>1. h \in Commands /\ inflight = NoEntry /\ inflight'.cmd = h
      BY <1>8, <1>a DEF SetInflight, Holding, StartInv
    <2>2. \A c \in Commands : /\ Carried(c) <=> c = h
                              /\ ~Carried(c)'
                              /\ InPending(c)' <=> InPending(c)
                              /\ InInflight(c)' <=> c = h
                              /\ ~InInflight(c)
                              /\ InSync(c)' <=> InSync(c)
      BY <1>8, <1>a, <2>1 DEF SetInflight, Carried, InPending, InInflight, InSync
    <2>3. \A c \in Commands : Stays(c)
      BY <1>b, <1>c, <2>2 DEF Stays
    <2> QED
      BY <1>8, <2>3, NothingMoves DEF SetInflight
  <1> QED
    BY <1>2, <1>3, <1>4, <1>5, <1>6, <1>7, <1>8 DEF Handle

LEMMA StepMoves ==
  ASSUME OneSession
  PROVE  TypeInv /\ CustodyInv /\ StartInv /\ PhaseIs /\ PhaseIs' /\ [Next]_vars
            => [Lifecycle!Next]_(Lifecycle!vars)
  <1> SUFFICES ASSUME TypeInv, CustodyInv, StartInv, PhaseIs, PhaseIs', [Next]_vars
               PROVE  Lifecycle!Next \/ UNCHANGED Lifecycle!vars
    OBVIOUS
  <1>1. CASE ParserCrash
    <2>1. CASE \E s \in Sessions : pc[s] \in {"setInflight", "sync"}
      <3>1. PICK s \in Sessions : pc[s] \in {"setInflight", "sync"}
        BY <2>1
      <3>2. pc'[s] = "idle" /\ UNCHANGED <<requests, redisVars, writerVars>>
        BY <1>1 DEF ParserCrash
      <3> QED
        BY <3>1, <3>2, ForgottenIsLost
    <2>2. CASE \A s \in Sessions : pc[s] \notin {"setInflight", "sync"}
      <3>1. \A c \in Commands : Stays(c)
        BY <1>1, <2>2 DEF ParserCrash, Stays, Carried, InRequest, InPending, InInflight, InSync,
           InBatch, InTable
      <3> QED
        BY <1>1, <3>1, NothingMoves DEF ParserCrash
    <2> QED
      BY <2>1, <2>2
  <1>2. CASE DeviceSilent \/ UNCHANGED vars
    <2>1. UNCHANGED <<requests, redisVars, pc, held, writerVars>>
      BY <1>2 DEF DeviceSilent, vars
    <2>2. \A c \in Commands : Stays(c)
      BY <2>1 DEF Stays, Carried, InRequest, InPending, InInflight, InSync, InBatch, InTable
    <2> QED
      BY <2>1, <2>2, NothingMoves
  <1>3. requests \subseteq SUBSET Commands
    BY DEF TypeInv, TypeOK
  <1> QED
    BY <1>1, <1>2, <1>3, BackendMoves, WriterMoves, HandlerMoves DEF Next

LEMMA LifecycleInitial == Init => Lifecycle!Init
  <1> SUFFICES ASSUME Init PROVE Lifecycle!Init
    OBVIOUS
  <1>1. \A c \in Commands : PhaseOf(c) = "new"
    BY CustodyInitial, PhaseOfPlace DEF Init, PhaseIs
  <1> QED
    BY <1>1 DEF Init, Lifecycle!Init

(* With one connection the whole path, from the request to the row, is     *)
(* CommandLifecycle: commands start one at a time and in the order they    *)
(* were queued, each is settled at most once, and one that is lost was     *)
(* lost where a single process held it.                                    *)
THEOREM ImplementsLifecycleCorrect ==
  ASSUME OneSession
  PROVE  Spec => ImplementsLifecycle
  <1>1. CustodyInv => PhaseIs
    BY PhaseOfPlace
  <1> QED
    BY CustodyAlways, StartInitial, StartStep, LifecycleInitial, StepMoves, <1>1,
       PTL DEF Spec, ImplementsLifecycle, Lifecycle!Spec
=============================================================================
