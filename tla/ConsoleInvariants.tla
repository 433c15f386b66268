------------------------- MODULE ConsoleInvariants -------------------------
(***************************************************************************)
(* What the proofs about Console show to be invariant: the types of all    *)
(* that is under way, and for each property of the console what has to     *)
(* hold besides for every step to keep it.                                 *)
(***************************************************************************)
EXTENDS Console

-----------------------------------------------------------------------------
(* What makes the properties of the page inductive: one request at most is *)
(* under way, the last one, and only while loading; a point pinned while   *)
(* the map is not there was pinned before the map was ready, or its report *)
(* is about to go.                                                         *)
PageInv ==
    /\ asked \in Nat /\ account \in Accounts \cup {Nothing}
    /\ \A q \in requests : /\ loading /\ q.n = asked /\ q.n \in 1 .. asked
                           /\ q.by \in Accounts
                           /\ q.by = account \/ q.n \in outlived
                           /\ \A p \in requests : p = q
    /\ shown # Nothing =>
          /\ shown.report \in Reports
          /\ shown.n \in 1 .. asked /\ shown.by \in Accounts
          /\ shown.by = account \/ shown.n \in outlived
          /\ shown.n = asked \/ loading \/ error
    /\ point # Nothing => ready \/ early \/ loading \/ error
    /\ SelectionIsShown

-----------------------------------------------------------------------------
(* Types.  TypeOK speaks of rows and of what the page shows; the types of  *)
(* the requests under way, of the answers, of the copy in Redis and of the *)
(* forms are what keeps it.                                                *)

Who == {"page", "other"}

NewAssetAsked ==
    [op : {"newAsset"}, step : {"check", "insert"}, by : Who, org : Orgs,
     dev : Devices \cup {None}]
AssetAsked ==
    [op : {"asset"}, step : {"check", "write", "commit"}, by : Who, id : Assets,
     org : Orgs \cup {Keep}, dev : Devices \cup {Keep, Detach}, was : Orgs \cup {NoRow},
     locks : SUBSET (Assets \cup Orgs \cup Devices), held : SUBSET Devices]
NoAssetsAsked ==
    [op : {"noAssets"}, step : {"delete"}, by : Who, ids : SUBSET Assets]
NewDeviceAsked ==
    [op : {"newDevice"}, step : {"check", "insert"}, by : Who, org : Orgs,
     asset : Assets \cup {None}]
DeviceAsked ==
    [op : {"device"}, step : {"check", "write"}, by : Who, id : Devices,
     org : Orgs \cup {Keep}, asset : Assets \cup {Keep, None}]
NoDevicesAsked ==
    [op : {"noDevices"}, step : {"check", "delete"}, by : Who, ids : SUBSET Devices]

NewOrgAsked ==
    [op : {"newOrg"}, step : {"check", "insert"}, by : Who, parent : Orgs]
NewOrgStored ==
    [op : {"newOrg"}, step : {"hadd"}, by : Who, parent : Orgs, id : Orgs, row : OrgRow]
OrgAsked ==
    [op : {"org"}, step : {"check", "write"}, by : Who, id : Orgs,
     parent : Orgs \cup {Keep, None}]
NoOrgsAsked ==
    [op : {"noOrgs"}, step : {"check", "delete"}, by : Who, ids : SUBSET Orgs]

NewGroupAsked == [op : {"newGroup"}, step : {"insert"}, by : Who]
ItemsAsked    == [op : {"items"}, step : {"read"}, by : {"page"}, id : Groups]
GroupAsked ==
    [op : {"group"}, step : {"check", "commit"}, by : Who, id : Groups,
     members : (SUBSET Assets) \cup {Keep}, doomed : SUBSET Assets, met : BOOLEAN]
NoGroupsAsked == [op : {"noGroups"}, step : {"delete"}, by : Who, ids : SUBSET Groups]

UsersAsked   == [op : {"users"}, step : {"read"}, by : {"page"}]
OptionsAsked ==
    [op : {"options"}, step : {"read"}, by : {"page"}, org : Orgs, for : Users \cup {NoRow}]
ListAsked ==
    [op : {"list"}, step : {"denied", "assets"}, by : {"page"}, id : Users,
     row : UserRow \cup {NoRow}]
AccessSteps == {"check", "write", "commit", "denied", "assets"}
AccessAsked ==
    [op : {"access"}, step : AccessSteps, by : {"other"}, id : Users, org : Orgs \cup {Keep},
     named : SUBSET Assets, denied : (SUBSET Assets) \cup {Keep}, row : UserRow \cup {NoRow},
     locks : SUBSET (Users \cup Orgs), theirs : SUBSET Assets]
AccessSaved ==
    [op : {"access"}, step : AccessSteps, by : {"page"}, id : Users, org : Orgs \cup {Keep},
     named : SUBSET Assets, denied : (SUBSET Assets) \cup {Keep}, row : UserRow \cup {NoRow},
     locks : SUBSET (Users \cup Orgs), theirs : SUBSET Assets,
     all : SUBSET Assets, base : SUBSET Assets, shown : SUBSET Assets]
NewUserAsked ==
    [op : {"newUser"}, step : {"check", "insert"}, by : {"page"}, org : Orgs,
     denied : SUBSET Assets, named : SUBSET Assets, all : SUBSET Assets,
     shown : SUBSET Assets]
NoUsersAsked == [op : {"noUsers"}, step : {"check", "delete"}, by : Who, ids : SUBSET Users]

PageOrg   == Orgs \cup {None, NoRow}
PageAsset == [org : Orgs, held : SUBSET Devices] \cup {NoRow}

ProfileAsked ==
    [op : {"profile"}, step : {"scope", "orgs", "assets", "devices"}, by : {"page"},
     ids : SUBSET Orgs, orgs : [Orgs -> PageOrg] \cup {{}},
     assets : [Assets -> PageAsset] \cup {{}}]

RowRequest  == NewAssetAsked \cup AssetAsked \cup NoAssetsAsked
                   \cup NewDeviceAsked \cup DeviceAsked \cup NoDevicesAsked
TreeRequest == NewOrgAsked \cup NewOrgStored \cup OrgAsked \cup NoOrgsAsked
GroupRequest == NewGroupAsked \cup ItemsAsked \cup GroupAsked \cup NoGroupsAsked
UserRequest == UsersAsked \cup OptionsAsked \cup ListAsked \cup AccessAsked
                   \cup AccessSaved \cup NewUserAsked \cup NoUsersAsked
Request == RowRequest \cup TreeRequest \cup GroupRequest \cup UserRequest \cup ProfileAsked

(* What a record's type does not say of a request.                         *)
Consistent(k) ==
    /\ k.op = "noOrgs" /\ k.step = "delete" => k.ids # {} /\ k.ids \cap {Root, Archive} = {}
    /\ k.op = "org" /\ k.step = "write" => k.id \notin {Root, Archive}
    /\ k.op = "group" /\ k.by = "page" => k.members \in SUBSET Assets
    /\ k.op \in {"list", "access"} /\ k.step = "assets" => k.row # NoRow
    /\ k.op = "access" /\ k.denied # Keep => k.denied \subseteq k.named
    /\ k.op = "newUser" => k.denied \subseteq k.named
    /\ k.op = "profile" /\ k.step \in {"assets", "devices"} => k.orgs \in [Orgs -> PageOrg]
    /\ k.op = "profile" /\ k.step = "devices" => k.assets \in [Assets -> PageAsset]

(* The answer to a request of the kind op.                                 *)
BodyOK(op, b) ==
    /\ op = "newAsset" => b \in [id : Assets, org : Orgs, held : SUBSET Devices]
    /\ op = "asset" => b \in [id : Assets, org : Orgs, held : SUBSET Devices]
    /\ op = "noAssets" => b \in SUBSET Assets
    /\ op \in {"newDevice", "device"} => b \in [id : Devices, row : DevRow]
    /\ op = "noDevices" => b \in SUBSET Devices
    /\ op \in {"newOrg", "org"} => \E S \in SUBSET Orgs : b \in [S -> OrgRow]
    /\ op = "noOrgs" => b \in SUBSET Orgs
    /\ op \in {"newGroup", "group"} => b \in [id : Groups, items : Nat]
    /\ op = "items" => b \in SUBSET Assets
    /\ op = "noGroups" => b \in SUBSET Groups
    /\ op = "users" => b \in [Users -> Orgs \cup {NoRow}]
    /\ op = "options" => b \in SUBSET Assets
    /\ op \in {"list", "access"} => b \in [id : Users, org : Orgs, list : SUBSET Assets]
    /\ op = "newUser" => b \in [id : Users, org : Orgs]
    /\ op = "noUsers" => b \in SUBSET Users
    /\ op = "profile" => b \in [devices : [Devices -> DevRow \cup {NoRow}],
                                items : [Groups -> Nat \cup {NoRow}]]

Asking(k)   == k \in Request /\ Consistent(k)
Answering(k) ==
    /\ k = [op |-> k.op, step |-> "answer", by |-> "page", asked |-> k.asked, body |-> k.body]
    /\ Asking(k.asked) /\ k.asked.op = k.op /\ k.asked.by = "page"
    /\ k.body = Refused \/ BodyOK(k.op, k.body)
    /\ k.op = "profile" => BodyOK("profile", k.body) /\ k.asked.step = "devices"
    /\ k.op = "noAssets" => BodyOK("noAssets", k.body)

SlotOK(k) == k = Idle \/ Asking(k) \/ Answering(k)

SlotsOK == call \in [Calls -> {call[c] : c \in Calls}] /\ \A c \in Calls : SlotOK(call[c])

(* The transaction of an update in progress keeps what it has written.     *)
Holding(c) ==
    LET k == call[c] IN
    At(c, "asset", "commit") =>
        /\ asset[k.id] # NoRow
        /\ org[MovedTo(k)] # NoRow
        /\ {k.id, MovedTo(k)} \subseteq k.locks
        /\ \A e \in Calls : At(e, "asset", "commit") /\ e # c => call[e].id # k.id

TableOK ==
    /\ RowsOK
    /\ group \in [Groups -> GroupRow \cup {NoRow}]
    /\ user \in [Users -> UserRow \cup {NoRow}]
    /\ Root \in OrgRows /\ org[Root].parent = None /\ Archive \in OrgRows
    /\ \A c \in Calls : Holding(c)
    /\ fresh \cap (OrgRows \cup AssetRows \cup DeviceRows \cup GroupRows \cup UserRows) = {}

HashTable == [Orgs -> OrgRow \cup {NoRow}]

CopyOK ==
    /\ hash \in HashTable
    /\ sync \in [Copiers -> HashTable \cup {NoRow}]
    /\ \A j \in jobs : \E S \in (SUBSET Orgs) \ {{}} : j \in [S -> OrgRow \cup {NoRow}]
    /\ failures \in 0 .. MaxFaults

FormOK ==
    \/ form = Closed
    \/ form \in [id : Groups, step : {"loading", "loaded", "saving"}, fetch : Calls,
                 clean : BOOLEAN, shown : SUBSET Assets, hidden : SUBSET Assets]

EditorOK ==
    \/ editor = NoEditor
    \/ /\ editor \in [mode : {"edit"}, for : Users, user : Users \cup {NoRow},
                      org : Orgs \cup {NoRow}, shown : SUBSET Assets, base : SUBSET Assets,
                      flag : BOOLEAN, runs : SUBSET Calls]
       /\ editor.user # NoRow => editor.org # NoRow
    \/ editor \in [mode : {"new"}, for : {NoRow}, user : {NoRow}, org : Orgs,
                   shown : SUBSET Assets, base : SUBSET Assets, flag : BOOLEAN,
                   runs : SUBSET Calls]

(* The views of users are there once the list of users is.                 *)
UsersFirst ==
    pUser = NoRow => /\ editor = NoEditor
                     /\ \A c \in Calls :
                           Mine(c) => call[c].op \notin {"options", "list", "access",
                                                         "newUser", "noUsers"}

StoresOK ==
    /\ pOrg \in [Orgs -> PageOrg]
    /\ pAsset \in [Assets -> PageAsset]
    /\ pDevice \in [Devices -> DevRow \cup {NoRow}]
    /\ pItems \in [Groups -> Nat \cup {NoRow}]
    /\ pUser = NoRow \/ pUser \in [Users -> Orgs \cup {NoRow}]
    /\ lists \in [Users -> SUBSET Assets]
    /\ options \in [Orgs -> (SUBSET Assets) \cup {NoRow}]
    /\ chosen \in Orgs \cup {NoRow}
    /\ unseen \subseteq Ids

(* A form of a user waits for options and lists only, asked for a user.    *)
Watching(k) ==
    /\ k.by = "page" /\ k.op \in {"options", "list"}
    /\ k.op = "options" => (IF k.step = "answer" THEN k.asked.for ELSE k.for) \in Users

RunsOK == editor.mode = "edit" => \A c \in editor.runs : Watching(call[c])

ConsoleInv ==
    /\ TableOK /\ SlotsOK /\ CopyOK
    /\ StoresOK /\ FormOK /\ EditorOK /\ RunsOK /\ UsersFirst

-----------------------------------------------------------------------------
(* What a form of a user asks to be denied: of the assets it could tick    *)
(* those that are not ticked, or nothing, when that is what the loaded     *)
(* list leaves out and the organisation stays.                             *)
Ticked(k) ==
    /\ k.op = "access" /\ k.by = "page" /\ k.step \in {"check", "write", "commit"} =>
          IF k.denied = Keep THEN k.org = Keep /\ k.shown \cap k.all = k.base \cap k.all
          ELSE k.denied = k.all \ k.shown
    /\ k.op = "newUser" /\ k.step \in {"check", "insert"} => k.denied = k.all \ k.shown

(* Saving the assets of a user.  From the form to the table a request      *)
(* keeps what it has to do with what was ticked.                           *)
TicksInv == \A c \in Calls : Ticked(call[c])

-----------------------------------------------------------------------------
(* The count of a group.  A transaction whose rows nobody has overtaken    *)
(* deletes every member there is.                                          *)
Snapshot(c) ==
    LET k == call[c] IN
    At(c, "group", "commit") /\ ~k.met /\ group[k.id] # NoRow
        => group[k.id].members \subseteq k.doomed

CountInv == CountCovers /\ \A c \in Calls : Snapshot(c)

-----------------------------------------------------------------------------
(* A device and its asset.  Between the two statements of an update the    *)
(* asset stays where it is, and so do the devices whose rows the first     *)
(* statement has written; one that was attached to the asset meanwhile has *)
(* met it.                                                                 *)
Moving(c) ==
    LET k == call[c] IN
    At(c, "asset", "commit") =>
        /\ k.org = k.was /\ asset[k.id] # k.was => k.id \in raced
        /\ \A d \in Devices \cap k.locks :
              device[d] # NoRow /\ (d \in k.held => device[d].org = MovedTo(k))
        /\ \A d \in DeviceRows :
              device[d].asset = k.id => d \in k.held \cup k.locks \/ k.id \in raced

(* No two updates have written the same device.                            *)
LocksApart ==
    \A c \in Calls : \A e \in Calls \ {c} :
        At(c, "asset", "commit") /\ At(e, "asset", "commit")
        => Devices \cap call[c].locks \cap call[e].locks = {}

AgreeInv == AttachedAgree /\ (\A c \in Calls : Moving(c)) /\ LocksApart

-----------------------------------------------------------------------------
(* Saving a group.  While nobody else changes the group the form is for,   *)
(* what was fetched, what the form holds and what a save carries each have *)
(* every member in turn.                                                   *)
Kept(g, T) == group[g] # NoRow => group[g].members \subseteq T

Carried == form.shown \cup form.hidden

Saving(c)  == form.step = "saving" /\ SavesForm(c)
Filling(c) == Current(c) /\ call[c].op = "items"

(* The fetch of a form is for its group, and ends the loading.             *)
Filled(c) ==
    Filling(c) =>
        /\ form.step = "loading"
        /\ form.id = IF call[c].step = "answer" THEN call[c].asked.id ELSE call[c].id
        /\ form.clean /\ Arrived(c, "items") => Kept(form.id, call[c].body)

OneSave ==
    form.step = "saving" /\ form.clean
        => \E c \in Calls : Saving(c) /\ \A e \in Calls \ {c} : ~Saving(e)

Carries(c) ==
    LET k == call[c] IN
    IF k.step = "answer"
    THEN Kept(form.id, IF k.body = Refused THEN Carried ELSE k.asked.members)
    ELSE /\ form.hidden \subseteq k.members
         /\ Kept(form.id, Carried)
         /\ k.step = "commit" => Kept(form.id, k.doomed)

MembersInv ==
    /\ \A c \in Calls : Filled(c)
    /\ OneSave
    /\ form # Closed /\ form.clean =>
          /\ form.step = "loaded" => Kept(form.id, Carried)
          /\ \A c \in Calls : Saving(c) => Carries(c)

-----------------------------------------------------------------------------
(* The copies of the tree: the hash, and the column path.                  *)

(* One organisation in two tables: no row, or one with the same parent.    *)
SameParent(r, s) ==
    \/ r = NoRow /\ s = NoRow
    \/ r # NoRow /\ s # NoRow /\ r.parent = s.parent

(* What is on its way to the hash is what the table has.                   *)
UnderWay(o) ==
    /\ \A j \in jobs : o \in DOMAIN j => SameParent(j[o], org[o])
    /\ \A c \in Calls : At(c, "newOrg", "hadd") /\ call[c].id = o
                        => SameParent(call[c].row, org[o])
    /\ \A s \in Copying : SameParent(sync[s][o], org[o])

(* The hash follows, and so does all that will be written to it.           *)
HashInv == HashFollows /\ \A o \in Orgs \ crossed : UnderWay(o)

(* The path of x is the one its parent's row gives it.                     *)
Right(x, t) == t[x].path = PathUnder(x, t[x].parent, t)

(* The organisations whose paths are right all the way up: the smallest    *)
(* set that has those whose path is right if their parent is in it.        *)
RightAbove(X, t) ==
    \A x \in Orgs : /\ t[x] # NoRow /\ t[x].parent \in X \cup {None}
                    /\ Right(x, t)
                    => x \in X

Clean(t) == {x \in Orgs : \A X \in SUBSET Orgs : RightAbove(X, t) => x \in X}

(* Paths below the root are right all the way up.                          *)
PathsInv == Below(org) \ deep \subseteq Clean(org)

-----------------------------------------------------------------------------
(* What a request that is not in the middle of a transaction may carry.    *)
Settled(k) == k.step \notin {"commit", "hadd"} /\ Ticked(k)

(* No request of a slot is being served, but for the page's own profile.   *)
Vacant(c) == call[c] = Idle \/ call[c].step = "answer" \/ call[c].op = "profile"

(* Steps that serve no request write no row, and what they put in a slot   *)
(* is not in the middle of a transaction; the requests of the form of a    *)
(* group come from idle slots only.                                        *)
Ungrouped(k) == k.op \notin {"group", "items"}

Lands(c) ==
    /\ UNCHANGED rowVars /\ Vacant(c)
    /\ \E k : Settled(k) /\ Sends(c, k) /\ (call[c] # Idle => Ungrouped(k))

Asked(c, who) ==
    /\ UNCHANGED rowVars
    /\ \E k : Settled(k) /\ Ask(c, k) /\ k.by = who /\ k.op # "items"

Outside ==
    /\ UNCHANGED <<rowVars, raced, mixed>>
    /\ \A e \in Calls : call'[e] = call[e] \/ (Vacant(e) /\ Settled(call'[e]))

(* The forms of users: an edit, a new user.                               *)
EditForms ==
    {e \in [mode : {"edit"}, for : Users, user : Users \cup {NoRow}, org : Orgs \cup {NoRow},
            shown : SUBSET Assets, base : SUBSET Assets, flag : BOOLEAN, runs : SUBSET Calls] :
        e.user # NoRow => e.org # NoRow}
NewForms ==
    [mode : {"new"}, for : {NoRow}, user : {NoRow}, org : Orgs, shown : SUBSET Assets,
     base : SUBSET Assets, flag : BOOLEAN, runs : SUBSET Calls]
=============================================================================
