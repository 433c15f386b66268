------------------------------ MODULE Tables ------------------------------
(* What the console's REST API works on: the rows of organisations,        *)
(* assets, devices, asset groups and users in PostgreSQL, with the         *)
(* triggers and referential actions of initdb-scripts, and the requests    *)
(* that are being served.  A request is a record: its kind op, the step it *)
(* has reached, who sent it (the page of module Console, or another        *)
(* administrator) and what its handler remembers between two awaits.       *)
EXTENDS Naturals, FiniteSets, Sequences

CONSTANTS
    Orgs,           \* every organisation id that may ever exist
    Root,           \* organisation 1, the one of every administrator here
    Archive,        \* organisation 2, the default of organisation_id
    Assets,         \* asset ids
    Devices,        \* device ids
    Groups,         \* ids of groups of assets
    Users,          \* ids of users, besides the administrators at work
    Calls,          \* slots for requests in flight
    NoRow,          \* no row, not yet or no longer
    None,           \* NULL
    Keep,           \* a field a PATCH leaves out
    Detach,         \* device_id null or "0"
    InitOrg, InitAsset, InitDevice, InitGroup, InitUser,  \* rows at the start
    Budgets         \* bounds on the requests of a behaviour, see left

ASSUME SystemOrgs ==
    /\ {Root, Archive} \subseteq Orgs
    /\ Root # Archive
    /\ NoRow \notin Orgs

ASSUME Markers ==
    /\ None \notin Orgs \cup Assets \cup Devices
    /\ Keep \notin Orgs \cup Assets \cup Devices \cup {None}
    /\ Detach \notin Devices \cup {Keep}

ASSUME Bounds ==
    \A b \in Budgets : /\ b.page \in Nat /\ b.other \in Nat /\ b.forms \in Nat
                       /\ b.late \subseteq Assets

VARIABLES
    org,            \* [parent, path] per organisation
    asset,          \* the organisation per asset
    device,         \* [org, asset] per device
    group,          \* [members, items] per group
    user,           \* [org, denied] per user; user_asset_access denies assets
    fresh,          \* ids the sequences have not given out yet
    call,           \* the requests
    left            \* how many requests the page and others may still make,
                    \* of which kinds, how often a user's form may be opened
                    \* or given an organisation, and which assets are younger
                    \* than the page: bounds, chosen at the start

rowVars  == <<org, asset, device, group, user, fresh>>
callVars == <<call, left>>

OrgRow   == [parent : Orgs \cup {None}, path : Seq(Orgs)]
DevRow   == [org : Orgs, asset : Assets \cup {None}]
GroupRow == [members : SUBSET Assets, items : Nat]
UserRow  == [org : Orgs, denied : SUBSET Assets]

(* Ids of different tables name different things, and a row is not the     *)
(* mark for none.                                                          *)
ASSUME Apart ==
    /\ IsFiniteSet(Orgs) /\ IsFiniteSet(Assets)
    /\ Orgs \cap Assets = {} /\ Devices \cap (Orgs \cup Assets) = {}
    /\ Groups \cap (Orgs \cup Assets \cup Devices) = {}
    /\ Users \cap (Orgs \cup Assets \cup Devices \cup Groups) = {}
    /\ NoRow \notin OrgRow \cup DevRow \cup GroupRow \cup UserRow
    /\ NoRow \notin [org : Orgs, held : SUBSET Devices] \cup [id : Groups, items : Nat]
    /\ NoRow \notin Nat \cup Users
    /\ NoRow \notin [Users -> Orgs \cup {NoRow}]
    /\ \A S \in SUBSET Assets : S # Keep

(* The database starts with its constraints satisfied.                     *)
ASSUME StartRows ==
    /\ InitOrg \in [Orgs -> OrgRow \cup {NoRow}]
    /\ InitOrg[Root] # NoRow /\ InitOrg[Root].parent = None
    /\ InitOrg[Archive] # NoRow
    /\ InitAsset \in [Assets -> Orgs \cup {NoRow}]
    /\ InitDevice \in [Devices -> DevRow \cup {NoRow}]
    /\ InitGroup \in [Groups -> GroupRow \cup {NoRow}]
    /\ InitUser \in [Users -> UserRow \cup {NoRow}]
    /\ \A o \in Orgs : /\ InitOrg[o] # NoRow /\ InitOrg[o].parent # None
                       => InitOrg[InitOrg[o].parent] # NoRow
    /\ \A a \in Assets : InitAsset[a] # NoRow => InitOrg[InitAsset[a]] # NoRow
    /\ \A d \in Devices : InitDevice[d] # NoRow =>
          /\ InitOrg[InitDevice[d].org] # NoRow
          /\ InitDevice[d].asset # None => InitAsset[InitDevice[d].asset] = InitDevice[d].org
    /\ \A g \in Groups : InitGroup[g] # NoRow =>
          /\ \A a \in InitGroup[g].members : InitAsset[a] # NoRow
          /\ Cardinality(InitGroup[g].members) <= InitGroup[g].items
    /\ \A u \in Users : InitUser[u] # NoRow =>
          /\ InitOrg[InitUser[u].org] # NoRow
          /\ \A a \in InitUser[u].denied : InitAsset[a] # NoRow

Idle == [op |-> "none", step |-> "idle"]

OrgRows    == {o \in Orgs : org[o] # NoRow}
AssetRows  == {a \in Assets : asset[a] # NoRow}
DeviceRows == {d \in Devices : device[d] # NoRow}
GroupRows  == {g \in Groups : group[g] # NoRow}
UserRows   == {u \in Users : user[u] # NoRow}

RowsInit ==
    /\ org = InitOrg /\ asset = InitAsset
    /\ device = InitDevice /\ group = InitGroup /\ user = InitUser
    /\ fresh = (Orgs \ OrgRows) \cup (Assets \ AssetRows)
                   \cup (Devices \ DeviceRows) \cup (Groups \ GroupRows)
                   \cup (Users \ UserRows)
    /\ call = [c \in Calls |-> Idle]
    /\ left \in Budgets

-----------------------------------------------------------------------------
(* The life of a request.  Its answer is kept for the page and dropped for *)
(* everybody else.                                                         *)
At(c, op, step) == call[c].op = op /\ call[c].step = step

MayAsk(c, who) == call[c] = Idle /\ left[who] > 0

Ask(c, request) ==
    /\ MayAsk(c, request.by)
    /\ request.op \in left.ops
    /\ left' = [left EXCEPT ![request.by] = @ - 1]
    /\ call' = [call EXCEPT ![c] = request]

Sends(c, request) == call' = [call EXCEPT ![c] = request]
Goes(c, request)  == Sends(c, request) /\ UNCHANGED left

Answers(c, body) ==
    Goes(c, IF call[c].by = "page"
            THEN [op |-> call[c].op, step |-> "answer", by |-> "page",
                  asked |-> call[c], body |-> body]
            ELSE Idle)

(* Rows that the transaction of an asset's or a user's update has locked   *)
(* between two statements.  A lock on an asset does not keep a device from *)
(* being attached to it: that takes FOR KEY SHARE only.                    *)
Locked(x) ==
    \E c \in Calls :
        (At(c, "asset", "commit") \/ At(c, "access", "commit")) /\ x \in call[c].locks

(* A PATCH leaves a field alone that it does not name.                     *)
Final(field, stored) == IF field = Keep THEN stored ELSE field

(* The next value of a sequence.                                           *)
NextId(S) == CHOOSE x \in fresh \cap S : TRUE

(* Any 4xx or 5xx: nothing was written.                                    *)
Refused == NoRow
Arrived(c, op) == At(c, op, "answer") /\ call[c].body # Refused
Refuse(c) == Answers(c, Refused) /\ UNCHANGED rowVars

(* deleteMany: those of the ids that have a row.                           *)
Without(t, S) == [x \in DOMAIN t |-> IF x \in S THEN NoRow ELSE t[x]]

-----------------------------------------------------------------------------
(* getOrgScope: what hangs below an organisation in the table t, itself    *)
(* included.  A UNION ALL from an organisation on a cycle would not end;   *)
(* none is below the root.                                                 *)
Under(o, t) ==
    LET Hangs[n \in Nat] ==
            [x \in Orgs \cup {None} |->
                \/ x = o
                \/ x # None /\ n > 0 /\ t[x] # NoRow /\ Hangs[n - 1][t[x].parent]]
    IN  {x \in Orgs : Hangs[Cardinality(Orgs)][x]}

Below(t) == Under(Root, t)
Scope    == Below(org)

(* trg_check_device_asset_org_match, on every INSERT and UPDATE of devices *)
(* (the asset's row as the statement sees it is in the table a).           *)
OrgsMatch(row, a) == row.asset = None \/ a[row.asset] = row.org

(* ON DELETE of an organisation: its assets and devices go to the archive. *)
Archived(S) ==
    /\ asset' = [a \in Assets |-> IF asset[a] \in S THEN Archive ELSE asset[a]]
    /\ device' = [d \in Devices |->
                    IF device[d] # NoRow /\ device[d].org \in S
                    THEN [device[d] EXCEPT !.org = Archive] ELSE device[d]]

(* Mutant of Detached: references to the asset stay.                       *)
DetachedNot(S) == UNCHANGED <<device, group, user>>

(* ON DELETE of an asset: its devices are detached, its memberships and    *)
(* what users are denied of it end.                                        *)
Detached(S) ==
    /\ device' = [d \in Devices |->
                    IF device[d] # NoRow /\ device[d].asset \in S
                    THEN [device[d] EXCEPT !.asset = None] ELSE device[d]]
    /\ group' = [g \in Groups |->
                    IF group[g] # NoRow
                    THEN [group[g] EXCEPT !.members = @ \ S] ELSE group[g]]
    /\ user' = [u \in Users |->
                    IF user[u] # NoRow
                    THEN [user[u] EXCEPT !.denied = @ \ S] ELSE user[u]]

-----------------------------------------------------------------------------
(* The rows are typed, and every reference names a row.                    *)
RowsOK ==
    /\ org \in [Orgs -> OrgRow \cup {NoRow}]
    /\ asset \in [Assets -> Orgs \cup {NoRow}]
    /\ device \in [Devices -> DevRow \cup {NoRow}]
    /\ \A o \in OrgRows : org[o].parent \in OrgRows \cup {None}
    /\ \A a \in AssetRows : asset[a] \in OrgRows
    /\ \A d \in DeviceRows : device[d].org \in OrgRows
                               /\ device[d].asset \in AssetRows \cup {None}
    /\ \A g \in GroupRows : group[g] \in GroupRow /\ group[g].members \subseteq AssetRows
    /\ \A u \in UserRows : user[u] \in UserRow /\ user[u].org \in OrgRows
                             /\ user[u].denied \subseteq AssetRows
    /\ fresh \subseteq Orgs \cup Assets \cup Devices \cup Groups \cup Users
=============================================================================
