------------------------------- MODULE Fleet -------------------------------
(* AssetController and DeviceController.  A handler reads rows in its      *)
(* checks and writes later, when they may have changed; only the update of *)
(* an asset is a transaction, of two statements: the asset with its list   *)
(* of devices, then the organisation of every device the asset holds.      *)
EXTENDS Tables

VARIABLE raced      \* assets whose move met an attachment or another move

fleetVars == <<rowVars, callVars, raced>>

Holds(a) == {d \in DeviceRows : device[d].asset = a}

-----------------------------------------------------------------------------
(* AssetController.store: the device must exist, be free and be of the     *)
(* same organisation, when it is read.                                     *)
AskNewAsset(c, who, o, dev) ==
    /\ Ask(c, [op |-> "newAsset", step |-> "check", by |-> who, org |-> o, dev |-> dev])
    /\ UNCHANGED <<rowVars, raced>>

CheckNewAsset(c) ==
    LET k == call[c] IN
    /\ At(c, "newAsset", "check")
    /\ UNCHANGED raced
    /\ IF /\ k.org \in Scope
          /\ k.dev # None => device[k.dev] = [org |-> k.org, asset |-> None]
       THEN Goes(c, [k EXCEPT !.step = "insert"]) /\ UNCHANGED rowVars
       ELSE Refuse(c)

(* Asset.create *)
Created(a, k) == [asset EXCEPT ![a] = k.org]

(* The insert and the connection of the device, which by now may be        *)
(* another asset's: it is taken from it.                                   *)
InsertAsset(c) ==
    LET k == call[c]
        a == NextId(Assets)
        new == Created(a, k) IN
    /\ At(c, "newAsset", "insert")
    /\ fresh \cap Assets # {}
    /\ ~Locked(k.dev)
    /\ UNCHANGED raced
    /\ IF /\ org[k.org] # NoRow
          /\ k.dev # None =>
                /\ device[k.dev] # NoRow
                /\ OrgsMatch([device[k.dev] EXCEPT !.asset = a], new)
       THEN /\ asset' = new
            /\ device' = IF k.dev = None THEN device
                         ELSE [device EXCEPT ![k.dev].asset = a]
            /\ fresh' = fresh \ {a}
            /\ UNCHANGED <<org, group, user>>
            /\ Answers(c, [id |-> a, org |-> k.org, held |-> {k.dev} \ {None}])
       ELSE Refuse(c)

-----------------------------------------------------------------------------
(* AssetController.update *)
AskAsset(c, who, a, o, dev) ==
    /\ Ask(c, [op |-> "asset", step |-> "check", by |-> who, id |-> a, org |-> o,
               dev |-> dev, was |-> NoRow, locks |-> {}, held |-> {}])
    /\ UNCHANGED <<rowVars, raced>>

CheckAsset(c) ==
    LET k == call[c] IN
    /\ At(c, "asset", "check")
    /\ UNCHANGED raced
    /\ IF /\ asset[k.id] # NoRow
          /\ Final(k.org, asset[k.id]) \in Scope
          /\ k.dev \in Devices =>
                /\ device[k.dev] # NoRow
                /\ device[k.dev].asset \in {None, k.id}
       THEN Goes(c, [k EXCEPT !.step = "write", !.was = asset[k.id]])
            /\ UNCHANGED rowVars
       ELSE Refuse(c)

(* The devices of the asset after data.devices; "set" leaves those alone   *)
(* that are connected already.                                             *)
Set(a, dev) ==
    IF dev = Keep THEN Holds(a)
    ELSE {dev} \cap DeviceRows

(* Asset.updateByID: the organisation of the asset after the first         *)
(* statement.                                                              *)
MovedTo(k) == Final(k.org, asset[k.id])

(* The first statement of the transaction.  Nobody sees it before the commit; *)
(* the rows it wrote, and the organisation it refers to, stay locked.      *)
(* Raced: the asset has left the organisation where the check found it and *)
(* is moved back there, which orgIsChanging does not notice.               *)
MoveAsset(c) ==
    LET k    == call[c]
        to   == MovedTo(k)
        held == Set(k.id, k.dev)
        gone == Holds(k.id) \ held
        come == held \ Holds(k.id) IN
    /\ At(c, "asset", "write")
    /\ ~Locked(k.id)
    /\ \A d \in gone \cup come : ~Locked(d)
    /\ UNCHANGED rowVars
    /\ IF /\ asset[k.id] # NoRow
          /\ org[to] # NoRow
          /\ \A d \in come : device[d].org = to
       THEN /\ Goes(c, [k EXCEPT !.step = "commit", !.held = held,
                                 !.locks = {k.id, to} \cup gone \cup come])
            /\ raced' = raced \cup
                        (IF k.org = k.was /\ asset[k.id] # k.was THEN {k.id} ELSE {})
       ELSE Answers(c, Refused) /\ UNCHANGED raced

(* Mutant of HeldMove: the devices stay where they were.                   *)
HeldStay(k) == device

(* Device.updateByID for every device the first statement returned.        *)
HeldMove(k) ==
    IF k.org = Keep \/ k.org = k.was THEN device
    ELSE [d \in Devices |-> IF d \in k.held THEN [device[d] EXCEPT !.org = k.org]
                            ELSE device[d]]

(* The rows that the transactions of other updates have locked.            *)
Taken(c) == UNION {call[e].locks : e \in {x \in Calls \ {c} : At(x, "asset", "commit")}}

(* The second statement and the commit.  A device that was deleted in      *)
(* between (P2025), or taken to an asset of another organisation (the      *)
(* trigger), rolls everything back; for one that another transaction has   *)
(* locked the statement waits, until the time limit of its own at most.    *)
CommitAsset(c) ==
    LET k     == call[c]
        moves == k.org # Keep /\ k.org # k.was
        to    == MovedTo(k)
        gone  == {d \in Devices \cap k.locks : d \notin k.held}
        new   == [asset EXCEPT ![k.id] = to]
        Link(d) == IF d \in gone THEN None
                   ELSE IF d \in k.locks THEN k.id ELSE device[d].asset IN
    /\ At(c, "asset", "commit")
    /\ UNCHANGED raced
    /\ IF moves => \A d \in k.held :
                      /\ d \notin Taken(c)
                      /\ device[d] # NoRow
                      /\ OrgsMatch([org |-> to, asset |-> Link(d)], new)
       THEN /\ asset' = new
            /\ device' = [d \in Devices |->
                            IF device[d] = NoRow THEN NoRow
                            ELSE [HeldMove(k)[d] EXCEPT !.asset = Link(d)]]
            /\ UNCHANGED <<org, group, user, fresh>>
            /\ Answers(c, [id |-> k.id, org |-> to, held |-> k.held])
       ELSE Refuse(c)

-----------------------------------------------------------------------------
(* AssetController.destroy: the answer names every id of the request.      *)
AskNoAssets(c, who, S) ==
    /\ Ask(c, [op |-> "noAssets", step |-> "delete", by |-> who, ids |-> S])
    /\ UNCHANGED <<rowVars, raced>>

DeleteAssets(c) ==
    LET S == call[c].ids IN
    /\ At(c, "noAssets", "delete")
    /\ \A x \in S \cup UNION {Holds(a) : a \in S} : ~Locked(x)
    /\ asset' = Without(asset, S)
    /\ Detached(S)
    /\ UNCHANGED <<org, fresh, raced>>
    /\ Answers(c, S)

-----------------------------------------------------------------------------
(* What the foreign keys and the trigger let through.                      *)
Written(row) ==
    /\ org[row.org] # NoRow
    /\ row.asset # None => asset[row.asset] # NoRow
    /\ OrgsMatch(row, asset)

(* DeviceController.store *)
AskNewDevice(c, who, o, a) ==
    /\ Ask(c, [op |-> "newDevice", step |-> "check", by |-> who, org |-> o, asset |-> a])
    /\ UNCHANGED <<rowVars, raced>>

CheckNewDevice(c) ==
    LET k == call[c] IN
    /\ At(c, "newDevice", "check")
    /\ UNCHANGED raced
    /\ IF k.org \in Scope /\ (k.asset # None => asset[k.asset] = k.org)
       THEN Goes(c, [k EXCEPT !.step = "insert"]) /\ UNCHANGED rowVars
       ELSE Refuse(c)

(* An attachment meets the move of its asset: the trigger sees the row     *)
(* before the move, the move has read its list of devices already.         *)
Meets(a) == {a} \cap {x \in Assets : Locked(x)}

(* Device.create *)
NewDevice(k) == [org |-> k.org, asset |-> k.asset]

InsertDevice(c) ==
    LET k   == call[c]
        d   == NextId(Devices)
        row == NewDevice(k) IN
    /\ At(c, "newDevice", "insert")
    /\ fresh \cap Devices # {}
    /\ IF Written(row)
       THEN /\ device' = [device EXCEPT ![d] = row]
            /\ fresh' = fresh \ {d}
            /\ raced' = raced \cup Meets(k.asset)
            /\ UNCHANGED <<org, asset, group, user>>
            /\ Answers(c, [id |-> d, row |-> row])
       ELSE Refuse(c) /\ UNCHANGED raced

-----------------------------------------------------------------------------
(* DeviceController.update *)
AskDevice(c, who, d, o, a) ==
    /\ Ask(c, [op |-> "device", step |-> "check", by |-> who, id |-> d, org |-> o, asset |-> a])
    /\ UNCHANGED <<rowVars, raced>>

CheckDevice(c) ==
    LET k  == call[c]
        to == Final(k.org, device[k.id].org) IN
    /\ At(c, "device", "check")
    /\ UNCHANGED raced
    /\ IF /\ device[k.id] # NoRow
          /\ to \in Scope
          /\ k.asset \in Assets => asset[k.asset] = to
          /\ k.org # Keep \/ k.asset # Keep
       THEN Goes(c, [k EXCEPT !.step = "write"]) /\ UNCHANGED rowVars
       ELSE Refuse(c)

(* Device.updateByID *)
PatchedDevice(k) == [org   |-> Final(k.org, device[k.id].org),
                     asset |-> Final(k.asset, device[k.id].asset)]

WriteDevice(c) ==
    LET k   == call[c]
        row == PatchedDevice(k) IN
    /\ At(c, "device", "write")
    /\ ~Locked(k.id)
    /\ IF device[k.id] # NoRow /\ Written(row)
       THEN /\ device' = [device EXCEPT ![k.id] = row]
            /\ raced' = raced \cup
                        (IF row.asset = device[k.id].asset THEN {} ELSE Meets(row.asset))
            /\ UNCHANGED <<org, asset, group, user, fresh>>
            /\ Answers(c, [id |-> k.id, row |-> row])
       ELSE Refuse(c) /\ UNCHANGED raced

(* DeviceController.destroy *)
AskNoDevices(c, who, S) ==
    /\ Ask(c, [op |-> "noDevices", step |-> "check", by |-> who, ids |-> S])
    /\ UNCHANGED <<rowVars, raced>>

CheckNoDevices(c) ==
    /\ At(c, "noDevices", "check")
    /\ UNCHANGED raced
    /\ IF call[c].ids \cap DeviceRows # {}
       THEN Goes(c, [call[c] EXCEPT !.step = "delete"]) /\ UNCHANGED rowVars
       ELSE Refuse(c)

DeleteDevices(c) ==
    LET S == call[c].ids IN
    /\ At(c, "noDevices", "delete")
    /\ \A d \in S : ~Locked(d)
    /\ device' = Without(device, S)
    /\ UNCHANGED <<org, asset, group, user, fresh, raced>>
    /\ Answers(c, S)

-----------------------------------------------------------------------------
FleetNext(c) ==
    \/ CheckNewAsset(c) \/ InsertAsset(c)
    \/ CheckAsset(c) \/ MoveAsset(c) \/ CommitAsset(c)
    \/ DeleteAssets(c)
    \/ CheckNewDevice(c) \/ InsertDevice(c)
    \/ CheckDevice(c) \/ WriteDevice(c)
    \/ CheckNoDevices(c) \/ DeleteDevices(c)

-----------------------------------------------------------------------------
(* A device and its asset are of one organisation, although handlers check *)
(* that in one statement and write in another and the database checks it   *)
(* on devices only: every move takes its devices along.  The one way round *)
(* the trigger is an attachment, or a second move, between the statements  *)
(* of a move.                                                              *)
AttachedAgree ==
    \A d \in DeviceRows : OrgsMatch(device[d], asset) \/ device[d].asset \in raced
=============================================================================
