------------------------------ MODULE Console ------------------------------
(* The page of an administrator of the root organisation, on top of the    *)
(* REST API: the stores it fills from the access profile and patches with  *)
(* the answer of every request, the views that build a request from the    *)
(* difference between a form and a store, and the form of a group with its *)
(* own fetch.  Other administrators and API clients work on the same rows, *)
(* and nothing tells the page about it.                                    *)
EXTENDS Fleet, Organisations, Groups, Access, ReportPage

VARIABLES
    pOrg, pAsset, pDevice, pItems,  \* what the stores say per id
    form,           \* the form of a group
    unseen,         \* rows that changed behind the page's back
    covered,        \* isLoading: the page cannot be used
    hasty,          \* requests of the page have overlapped since it was idle
    muddled         \* rows such requests have left different on the page

pageVars    == <<pOrg, pAsset, pDevice, pItems, form, unseen>>
coverVars   == <<covered, hasty, muddled>>
consoleVars == <<fleetVars, hashVars, mixed, pageVars, coverVars, accessVars, reportVars>>

Closed == [step |-> "closed"]

(* What the page shows of the table's rows: the columns its requests are   *)
(* computed from.                                                          *)
OrgShown    == [o \in Orgs |-> IF org[o] = NoRow THEN NoRow ELSE org[o].parent]
AssetShown  == [a \in Assets |-> IF asset[a] = NoRow THEN NoRow
                                 ELSE [org |-> asset[a], held |-> Holds(a)]]
ItemsShown  == [g \in Groups |-> IF group[g] = NoRow THEN NoRow ELSE group[g].items]

ConsoleInit ==
    /\ RowsInit /\ HashInit /\ AccessInit
    /\ raced = {} /\ mixed = {}
    /\ pOrg = OrgShown /\ pDevice = device /\ pItems = ItemsShown
    /\ pAsset = [a \in Assets |-> IF a \in left.late THEN NoRow ELSE AssetShown[a]]
    /\ unseen = left.late
    /\ form = Closed
    /\ covered = FALSE /\ hasty = FALSE /\ muddled = {}
    /\ ReportInit

-----------------------------------------------------------------------------
(* What a step changes, in the page's terms.                               *)
Changed ==
    {o \in Orgs : OrgShown'[o] # OrgShown[o]}
    \cup {a \in Assets : AssetShown'[a] # AssetShown[a]}
    \cup {d \in Devices : device'[d] # device[d]}
    \cup {g \in Groups : ItemsShown'[g] # ItemsShown[g]}

(* Users who may see other assets after a step.                            *)
Touched ==
    {u \in Users :
        /\ <<org, asset, user>>' # <<org, asset, user>>
        /\ \/ UserShown'[u] # UserShown[u]
           \/ user[u] # NoRow /\ Visible(u)' # Visible(u)}

(* Asset stores list a device after it was deleted (deleteDevices touches  *)
(* the device store only); the views that use the list look the device up. *)
Listed(a) == IF pAsset[a] = NoRow THEN NoRow
             ELSE [pAsset[a] EXCEPT !.held = @ \cap DeviceRows]

Differs ==
    {o \in Orgs : pOrg[o] # OrgShown[o]}
    \cup {a \in Assets : Listed(a) # AssetShown[a]}
    \cup {d \in Devices : pDevice[d] # device[d]}
    \cup {g \in Groups : pItems[g] # ItemsShown[g]}
    \cup ListsDiffer

Mine(c) == call[c] # Idle /\ call[c].by = "page"

(* What the watcher of a form fetches goes on behind it.                   *)
Working(c) == Mine(c) /\ call[c].op \notin {"items", "options", "list"}
Busy       == \E c \in Calls : Working(c)

(* setIsLoading: every request of a view ends with FALSE, the deletion of  *)
(* organisations and of users too, which do not begin with TRUE.  So the   *)
(* page can be used while they are under way, and again when they end,     *)
(* whatever else has begun meanwhile.                                      *)
Begins(c) == Working(c)' /\ (call[c] = Idle \/ call[c].op # call'[c].op)
Ends(c)   == Working(c) /\ call'[c].op # call[c].op

SetIsLoading ==
    covered' = IF \E c \in Calls : Begins(c) /\ call'[c].op \notin {"noOrgs", "noUsers"}
               THEN TRUE
               ELSE covered /\ \A c \in Calls : ~Ends(c)

(* Two requests at once, and what they leave behind.                       *)
Overlap ==
    /\ hasty' = (Busy' /\ (hasty \/ \E c \in Calls : \E e \in Calls \ {c} :
                                       Working(c)' /\ Working(e)'))
    /\ muddled' = IF \E c \in Calls : Begins(c) /\ call'[c].op = "profile" THEN {}
                  ELSE IF hasty /\ ~Busy' THEN muddled \cup Differs' ELSE muddled

-----------------------------------------------------------------------------
(* The views: every payload is the difference between form and store.      *)
pOrgs    == {o \in Orgs : pOrg[o] # NoRow}
pAssets  == {a \in Assets : pAsset[a] # NoRow}
pDevices == {d \in Devices : pDevice[d] # NoRow}
pGroups  == {g \in Groups : pItems[g] # NoRow}

Free(o) == {d \in pDevices : pDevice[d] = [org |-> o, asset |-> None]}

SaveNewAsset(c) ==
    \E o \in pOrgs : \E d \in Free(o) \cup {None} : AskNewAsset(c, "page", o, d)

(* The form of an asset is filled again whenever a store changes, and what *)
(* it is compared with when it is saved is the row of the store.           *)
AssetForm(a) == pAsset[a]

SaveAsset(c) ==
    \E a \in pAssets :
        LET row == AssetForm(a) IN
        \E o \in (pOrgs \ {row.org}) \cup {Keep} :
        \E d \in (Free(Final(o, row.org)) \ row.held) \cup {Keep}
                     \cup (IF row.held = {} THEN {} ELSE {Detach}) :
            AskAsset(c, "page", a, o, d)

SaveNewDevice(c) == \E o \in pOrgs : AskNewDevice(c, "page", o, None)

DeviceForm(d) == pDevice[d]

(* The organisation cannot be chosen while the device is attached.         *)
SaveDevice(c) ==
    \E d \in pDevices :
        /\ DeviceForm(d).asset = None
        /\ \E o \in pOrgs \ {DeviceForm(d).org} : AskDevice(c, "page", d, o, Keep)

SaveNewOrg(c) == \E p \in pOrgs : AskNewOrg(c, "page", p)

(* Only the organisation itself is left out of its choice of parents.      *)
SaveOrg(c) ==
    \E o \in pOrgs : \E p \in (pOrgs \ {o, pOrg[o]}) \cup {Keep} :
        AskOrg(c, "page", o, p)

SaveNewGroup(c) == AskNewGroup(c, "page")

(* DELETE of what is selected in a list.                                   *)
Selections(S) == {T \in SUBSET S : Cardinality(T) \in 1..2}

RemoveAssets(c)  == \E S \in Selections(pAssets) : AskNoAssets(c, "page", S)
RemoveDevices(c) == \E S \in Selections(pDevices) : AskNoDevices(c, "page", S)
RemoveOrgs(c)    == \E S \in Selections(pOrgs) : AskNoOrgs(c, "page", S)
RemoveGroups(c)  == \E S \in Selections(pGroups) : AskNoGroups(c, "page", S)

(* The modal of a group shows, or a link changes the group it shows: the   *)
(* watcher fetches the members, and what the form held before stays.       *)
OpenGroup(c) ==
    \E g \in pGroups :
        /\ ~(form # Closed /\ form.id = g)
        /\ AskItems(c, "page", g)
        /\ form' = [id |-> g, step |-> "loading", fetch |-> c, clean |-> FALSE,
                    shown  |-> IF form = Closed THEN {} ELSE form.shown,
                    hidden |-> IF form = Closed THEN {} ELSE form.hidden]

CloseGroup ==
    /\ form # Closed /\ ~covered
    /\ form' = Closed
    /\ UNCHANGED <<fleetVars, hashVars, mixed, pOrg, pAsset, pDevice, pItems, unseen, accessVars>>

(* Mutant of Payload: members the page cannot show are left out.           *)
PayloadShown(S) == S

(* form.entities and the hidden ones; entities_ids is always sent, since   *)
(* the test is on a ref.                                                   *)
Payload(S) == S \cup form.hidden

(* A save of the group in the form is under way.                           *)
SavesForm(c) ==
    /\ Mine(c) /\ call[c].op = "group" /\ form # Closed
    /\ form.id = IF call[c].step = "answer" THEN call[c].asked.id ELSE call[c].id

SaveGroup(c) ==
    /\ form # Closed
    /\ \E S \in (IF form.step = "loading" THEN {form.shown} ELSE SUBSET pAssets) :
        AskGroup(c, "page", form.id, Payload(S))
    /\ form' = [form EXCEPT !.step  = IF @ = "loaded" THEN "saving" ELSE @,
                            !.clean = @ /\ \A e \in Calls : ~SavesForm(e)]

ViewAsks(c) ==
    /\ MayAsk(c, "page")
    /\ ~covered
    /\ editor = NoEditor
    /\ UNCHANGED <<hashVars, raced, mixed, accessVars, pOrg, pAsset, pDevice, pItems, unseen>>
    /\ \/ /\ form = Closed
          /\ \/ SaveNewAsset(c) \/ SaveAsset(c)
             \/ SaveNewDevice(c) \/ SaveDevice(c)
             \/ SaveNewOrg(c) \/ SaveOrg(c)
             \/ SaveNewGroup(c)
             \/ RemoveAssets(c) \/ RemoveDevices(c) \/ RemoveOrgs(c) \/ RemoveGroups(c)
          /\ UNCHANGED form
       \/ OpenGroup(c) \/ SaveGroup(c)

(* The views of users.  A list that is still on its way when the user is   *)
(* saved may arrive after the new one.                                     *)
UserViewAsks(c) ==
    /\ ~covered
    /\ form = Closed
    /\ UNCHANGED <<rowVars, hashVars, raced, mixed, pOrg, pAsset, pDevice, pItems, form>>
    /\ \/ /\ call[c] = Idle
          /\ OpenUser(c) \/ OpenNew(c) \/ ChooseOrg(c, pOrgs)
          /\ UNCHANGED unseen
       \/ AskUsers(c) /\ UNCHANGED unseen
       \/ /\ SaveUser(c)
          /\ unseen' = unseen \cup ({editor.user} \cap {u \in Users : Fetching(u)})
       \/ (CreateUser(c) \/ RemoveUsers(c)) /\ UNCHANGED unseen

CloseUser ==
    /\ editor # NoEditor /\ ~covered
    /\ CloseEditor
    /\ UNCHANGED <<fleetVars, hashVars, mixed, pageVars>>

(* Other administrators, in their own pages or with clients of the API.    *)
OthersAsk(c) ==
    /\ MayAsk(c, "other")
    /\ UNCHANGED <<hashVars, raced, mixed, pageVars, accessVars>>
    /\ \/ \E o \in OrgRows, d \in DeviceRows \cup {None} :
             AskNewAsset(c, "other", o, d)
       \/ \E a \in AssetRows, o \in OrgRows \cup {Keep},
             d \in DeviceRows \cup {Keep, Detach} : AskAsset(c, "other", a, o, d)
       \/ \E a \in AssetRows : AskNoAssets(c, "other", {a})
       \/ \E o \in OrgRows, a \in AssetRows \cup {None} :
             AskNewDevice(c, "other", o, a)
       \/ \E d \in DeviceRows, o \in OrgRows \cup {Keep},
             a \in AssetRows \cup {Keep, None} : AskDevice(c, "other", d, o, a)
       \/ \E d \in DeviceRows : AskNoDevices(c, "other", {d})
       \/ \E o \in OrgRows : AskNewOrg(c, "other", o) \/ AskNoOrgs(c, "other", {o})
       \/ \E o \in OrgRows, p \in OrgRows \cup {Keep, None} : AskOrg(c, "other", o, p)
       \/ AskNewGroup(c, "other")
       \/ \E g \in GroupRows : \E S \in (SUBSET AssetRows) \cup {Keep} :
             AskGroup(c, "other", g, S)
       \/ \E g \in GroupRows : AskNoGroups(c, "other", {g})
       \/ \E u \in UserRows : \/ \E N \in SUBSET AssetRows : \E D \in SUBSET N :
                                    AskAccess(c, "other", u, Keep, N, D)
                               \/ \E o \in OrgRows :
                                    AskAccess(c, "other", u, o, {}, Keep)
       \/ \E u \in UserRows : AskNoUsers(c, "other", {u})

-----------------------------------------------------------------------------
(* AccessProfileController.getAccessProfile, asked for when the page is    *)
(* loaded: the scope from the table, the organisations from the hash, then *)
(* the rows.                                                               *)
LoadPage(c) ==
    /\ MayAsk(c, "page")
    /\ \A e \in Calls : ~Mine(e)
    /\ form = Closed
    /\ Ask(c, [op |-> "profile", step |-> "scope", by |-> "page", ids |-> {},
               orgs |-> {}, assets |-> {}])
    /\ pOrg' = [o \in Orgs |-> NoRow] /\ pAsset' = [a \in Assets |-> NoRow]
    /\ pDevice' = [d \in Devices |-> NoRow] /\ pItems' = [g \in Groups |-> NoRow]
    /\ unseen' = {}
    /\ pUser' = NoRow /\ lists' = [u \in Users |-> {}]
    /\ options' = [o \in Orgs |-> NoRow] /\ chosen' = NoRow
    /\ editor' = NoEditor
    /\ UNCHANGED <<rowVars, raced, hashVars, mixed, form>>

(* An organisation that hangs on a cycle is in nobody's scope.             *)
ReadScope(c) ==
    /\ At(c, "profile", "scope")
    /\ Goes(c, [call[c] EXCEPT !.step = "orgs", !.ids = Scope])
    /\ unseen' = unseen \cup (OrgRows \ Scope)
                         \cup {a \in AssetRows : asset[a] \notin Scope}
                         \cup {d \in DeviceRows : device[d].org \notin Scope}

(* buildOrganisationInfoMap; what the hash has wrong, the page has wrong.  *)
ReadOrgInfo(c) ==
    LET Info(o) == IF o \in call[c].ids /\ hash[o] # NoRow THEN hash[o].parent
                   ELSE NoRow IN
    /\ At(c, "profile", "orgs")
    /\ Goes(c, [call[c] EXCEPT !.step = "assets", !.orgs = [o \in Orgs |-> Info(o)]])
    /\ unseen' = unseen \cup {o \in Orgs : Info(o) # OrgShown[o]}

ReadAssets(c) ==
    /\ At(c, "profile", "assets")
    /\ Goes(c, [call[c] EXCEPT !.step = "devices", !.assets =
                    [a \in Assets |-> IF asset[a] \in call[c].ids THEN AssetShown[a]
                                      ELSE NoRow]])
    /\ UNCHANGED unseen

(* The devices, and the groups.                                            *)
ReadDevices(c) ==
    /\ At(c, "profile", "devices")
    /\ Answers(c, [devices |-> [d \in Devices |->
                        IF d \in DeviceRows /\ device[d].org \in call[c].ids
                        THEN device[d] ELSE NoRow],
                   items |-> ItemsShown])
    /\ UNCHANGED unseen

(* App.vue fetchAccessProfile.                                             *)
ApplyProfile(c) ==
    LET k == call[c] IN
    /\ At(c, "profile", "answer")
    /\ pOrg' = k.asked.orgs /\ pAsset' = k.asked.assets
    /\ pDevice' = k.body.devices /\ pItems' = k.body.items
    /\ Goes(c, Idle)
    /\ UNCHANGED <<rowVars, raced, hashVars, mixed, form, unseen, accessVars>>

Profile(c) ==
    /\ ReadScope(c) \/ ReadOrgInfo(c) \/ ReadAssets(c) \/ ReadDevices(c)
    /\ UNCHANGED <<rowVars, raced, hashVars, mixed, pOrg, pAsset, pDevice, pItems, form, accessVars>>

-----------------------------------------------------------------------------
(* The answer of a request reaches its view, which patches the stores.     *)
Answered(c, op) ==
    /\ Arrived(c, op)
    /\ Goes(c, Idle)
    /\ UNCHANGED <<rowVars, raced, hashVars, mixed, accessVars>>

Linked(devs, d, a) ==
    IF d \in pDevices THEN [devs EXCEPT ![d].asset = a] ELSE devs

Moved(devs, d, o) ==
    IF d \in pDevices THEN [devs EXCEPT ![d].org = o] ELSE devs

(* devices[0]; the page knows no more of an asset with several.            *)
Firsts(held) == IF held = {} THEN {None} ELSE held

Several(held) == IF Cardinality(held) > 1 THEN held ELSE {}

(* addAssetToStore *)
Added(b, first) == Linked(pDevice, first, b.id)

ApplyNewAsset(c) ==
    LET b == call[c].body IN
    /\ Answered(c, "newAsset")
    /\ pAsset' = [pAsset EXCEPT ![b.id] = [org |-> b.org, held |-> b.held]]
    /\ \E first \in Firsts(b.held) : pDevice' = Added(b, first)
    /\ UNCHANGED <<pOrg, pItems, form, unseen>>


(* The device the asset had on the page.                                   *)
Unlinked(devs, old) == Linked(devs, old, None)

(* AssetUpdateView.updateAsset after the answer.                           *)
ApplyAsset(c) ==
    LET k == call[c].asked
        b == call[c].body IN
    /\ Answered(c, "asset")
    /\ pAsset' = [pAsset EXCEPT ![b.id] = [org |-> b.org, held |-> b.held]]
    /\ \E first \in Firsts(b.held), old \in Firsts(pAsset[b.id].held) :
          LET linked  == IF k.dev \in Devices THEN Linked(Added(b, first), k.dev, b.id)
                         ELSE Added(b, first)
              swapped == IF k.dev = Keep \/ old = k.dev THEN linked
                         ELSE Unlinked(linked, old)
          IN  pDevice' = IF k.org = Keep THEN swapped ELSE Moved(swapped, first, k.org)
    /\ unseen' = unseen \cup Several(b.held)
    /\ UNCHANGED <<pOrg, pItems, form>>

(* removeAssetFromStore *)
Dropped(T) ==
    /\ pAsset' = [a \in Assets |-> IF a \in T THEN NoRow ELSE pAsset[a]]
    /\ pDevice' = [d \in Devices |->
                      IF \E a \in T : d \in pAsset[a].held
                      THEN Linked(pDevice, d, None)[d] ELSE pDevice[d]]

(* AssetListView.deleteAssets: one asset after the other leaves the store  *)
(* and has its images deleted.  When that fails the rest stay listed.      *)
ApplyNoAssets(c) ==
    LET S == call[c].body
        Rest(T) == (S \ T) \cup UNION {pAsset[a].held : a \in (S \ T) \cap pAssets} IN
    /\ At(c, "noAssets", "answer")
    /\ Goes(c, Idle)
    /\ UNCHANGED <<rowVars, raced, hash, jobs, sync, crossed, deep, mixed,
                   pOrg, pItems, form, accessVars>>
    /\ \/ Dropped(S) /\ UNCHANGED <<failures, unseen>>
       \/ /\ Fails
          /\ \E T \in (SUBSET S) \ {{}} : Dropped(T) /\ unseen' = unseen \cup Rest(T)

(* addDeviceToStore *)
Stored(b) ==
    /\ pDevice' = [pDevice EXCEPT ![b.id] = b.row]
    /\ UNCHANGED <<pOrg, pAsset, pItems, form, unseen>>

ApplyNewDevice(c) == Answered(c, "newDevice") /\ Stored(call[c].body)

ApplyDevice(c) == Answered(c, "device") /\ Stored(call[c].body)

ApplyNoDevices(c) ==
    /\ Answered(c, "noDevices")
    /\ pDevice' = [d \in Devices |-> IF d \in call[c].body THEN NoRow ELSE pDevice[d]]
    /\ UNCHANGED <<pOrg, pAsset, pItems, form, unseen>>

(* addOrganisationToScope for every organisation of the answer.            *)
Rows(b) ==
    /\ pOrg' = [o \in Orgs |-> IF o \in DOMAIN b THEN b[o].parent ELSE pOrg[o]]
    /\ UNCHANGED <<pAsset, pDevice, pItems, form, unseen>>

ApplyNewOrg(c) == Answered(c, "newOrg") /\ Rows(call[c].body)

ApplyOrgs(c) == Answered(c, "org") /\ Rows(call[c].body)

(* Nothing tells the page that assets and devices went to the archive.     *)
ApplyNoOrgs(c) ==
    LET S == call[c].body IN
    /\ Answered(c, "noOrgs")
    /\ pOrg' = [o \in Orgs |-> IF o \in S THEN NoRow ELSE pOrg[o]]
    /\ unseen' = unseen \cup {a \in pAssets : pAsset[a].org \in S}
                         \cup {d \in pDevices : pDevice[d].org \in S}
    /\ UNCHANGED <<pAsset, pDevice, pItems, form>>

ApplyNewGroup(c) ==
    /\ Answered(c, "newGroup")
    /\ pItems' = [pItems EXCEPT ![call[c].body.id] = call[c].body.items]
    /\ UNCHANGED <<pOrg, pAsset, pDevice, form, unseen>>

ApplyGroup(c) ==
    LET k == call[c] IN
    /\ Answered(c, "group")
    /\ pItems' = [pItems EXCEPT ![k.body.id] = k.body.items]
    /\ form' = IF SavesForm(c) /\ form.step = "saving"
               THEN [form EXCEPT !.step = "loaded", !.shown = k.asked.members] ELSE form
    /\ UNCHANGED <<pOrg, pAsset, pDevice, unseen>>

ApplyNoGroups(c) ==
    /\ Answered(c, "noGroups")
    /\ pItems' = [g \in Groups |-> IF g \in call[c].body THEN NoRow ELSE pItems[g]]
    /\ UNCHANGED <<pOrg, pAsset, pDevice, form, unseen>>

(* onInvalidate: the fetch is the latest of the form.                      *)
Current(c) == form # Closed /\ form.fetch = c

(* The members of the group, split into those the page can show and those  *)
(* it carries along.                                                       *)
ApplyItems(c) ==
    LET got == call[c].body IN
    /\ Answered(c, "items")
    /\ form' = IF ~Current(c) THEN form
               ELSE [form EXCEPT !.step = "loaded", !.shown = got \cap pAssets,
                                 !.hidden = got \ pAssets]
    /\ UNCHANGED <<pOrg, pAsset, pDevice, pItems, unseen>>

(* The watchers and requests of the views of users.                        *)
UserApplies(c) ==
    /\ \/ ApplyUsers(c) \/ ApplyOptions(c) \/ ApplyList(c)
       \/ ApplyAccess(c) \/ ApplyNewUser(c) \/ ApplyNoUsers(c)
    /\ UNCHANGED <<rowVars, raced, hashVars, mixed, pageVars>>

(* What a form of a user was waiting for does not come.                    *)
EndRun(c) ==
    /\ editor' = IF editor.mode = "edit" THEN [editor EXCEPT !.runs = @ \ {c}] ELSE editor
    /\ UNCHANGED <<pUser, lists, options, chosen>>

(* An error is shown, and the view is as before.                           *)
Shrug(c) ==
    /\ call[c].step = "answer"
    /\ call[c].body = Refused
    /\ Goes(c, Idle)
    /\ form' = IF SavesForm(c) /\ form.step = "saving"
               THEN [form EXCEPT !.step = "loaded"] ELSE form
    /\ EndRun(c)
    /\ UNCHANGED <<rowVars, raced, hashVars, mixed, pOrg, pAsset, pDevice, pItems, unseen>>

(* The answer is lost: whatever the request did, the page does not know.   *)
LoseAnswer(c) ==
    /\ call[c].step = "answer"
    /\ call[c].op \notin {"items", "profile", "users", "options", "list"}
    /\ Fails
    /\ Goes(c, Idle)
    /\ form' = IF SavesForm(c) /\ form.step = "saving"
               THEN [form EXCEPT !.step = "loaded", !.clean = FALSE] ELSE form
    /\ unseen' = unseen \cup Differs
    /\ UNCHANGED <<rowVars, raced, hash, jobs, sync, crossed, deep, mixed,
                   pOrg, pAsset, pDevice, pItems, accessVars>>

Applies(c) ==
    \/ ApplyNewAsset(c) \/ ApplyAsset(c) \/ ApplyNoAssets(c)
    \/ ApplyNewDevice(c) \/ ApplyDevice(c) \/ ApplyNoDevices(c)
    \/ ApplyNewOrg(c) \/ ApplyOrgs(c) \/ ApplyNoOrgs(c)
    \/ ApplyNewGroup(c) \/ ApplyGroup(c) \/ ApplyNoGroups(c) \/ ApplyItems(c) \/ ApplyProfile(c)
    \/ UserApplies(c)
    \/ Shrug(c) \/ LoseAnswer(c)

-----------------------------------------------------------------------------
(* A step of the API.  What anybody but the form's own save does to its    *)
(* group, the form does not know.                                          *)
Serves(c) ==
    /\ \/ FleetNext(c) /\ UNCHANGED <<hashVars, mixed>>
       \/ OrgNext(c) /\ UNCHANGED <<raced, mixed>>
       \/ GroupNext(c) /\ UNCHANGED <<raced, hashVars>>
       \/ AccessNext(c) /\ UNCHANGED <<raced, hashVars, mixed>>
    /\ unseen' = unseen \cup
          (IF ~Mine(c) THEN Changed \cup Touched
           ELSE IF At(c, "newOrg", "hadd") /\ failures' # failures THEN {call[c].id}
           ELSE IF At(c, "users", "read") THEN {u \in UserRows : user[u].org \notin Scope}
           ELSE IF call[c].op \in {"access", "newUser", "noUsers"} THEN {}
           ELSE Touched)
    /\ form' = IF form = Closed THEN form
               ELSE IF At(c, "items", "read") /\ form.fetch = c
               THEN [form EXCEPT !.clean = TRUE]
               ELSE IF \/ ~Mine(c) /\ group'[form.id] # group[form.id]
                       \/ /\ call[c].op = "group" /\ call[c].id = form.id
                          /\ ~Mine(c) \/ form.step # "saving"
               THEN [form EXCEPT !.clean = FALSE] ELSE form
    /\ UNCHANGED <<pOrg, pAsset, pDevice, pItems, accessVars>>

(* The report page offers assets of the asset store; which of them have    *)
(* live telemetry is left open.                                            *)
ReportsNext ==
    /\ "report" \in left.ops
    /\ ReportNext(pAssets)
    /\ UNCHANGED <<fleetVars, hashVars, mixed, pageVars, accessVars>>

ConsoleStep ==
    \/ /\ \/ \E c \in Calls :
                \/ ViewAsks(c) \/ UserViewAsks(c) \/ OthersAsk(c) \/ LoadPage(c)
                \/ Profile(c) \/ Serves(c) \/ Applies(c)
          \/ CloseGroup \/ CloseUser
          \/ HashNext /\ UNCHANGED <<raced, mixed, pageVars, accessVars>>
       /\ UNCHANGED reportVars
    \/ ReportsNext

ConsoleNext == ConsoleStep /\ SetIsLoading /\ Overlap

ConsoleSpec == ConsoleInit /\ [][ConsoleNext]_consoleVars

-----------------------------------------------------------------------------
Ids == Orgs \cup Assets \cup Devices \cup Groups \cup Users

(* The type invariant of the tables and of the page.                       *)
TypeOK ==
    /\ RowsOK
    /\ unseen \subseteq Ids
    /\ pOrg \in [Orgs -> Orgs \cup {None, NoRow}]
    /\ \A a \in pAssets : pAsset[a].org \in Orgs /\ pAsset[a].held \subseteq Devices
    /\ pDevice \in [Devices -> DevRow \cup {NoRow}]
    /\ pUser = NoRow \/ pUser \in [Users -> Orgs \cup {NoRow}]
    /\ lists \in [Users -> SUBSET Assets]
    /\ options \in [Orgs -> (SUBSET Assets) \cup {NoRow}]
    /\ failures \in 0..MaxFaults


(* Saving a group keeps every member the user was not shown, although      *)
(* entities_ids replaces them all and the form may have shown another      *)
(* group a moment ago, if nobody else changed the group since the form was *)
(* filled, nor another save of the page, which was not answered yet or     *)
(* whose answer was lost.                                                  *)
MembersKept ==
    \A c \in Calls :
        /\ SavesForm(c) /\ call[c].step \in {"check", "commit"}
        /\ form.step = "saving" /\ form.clean
        /\ group[call[c].id] # NoRow
        => group[call[c].id].members \ form.shown \subseteq call[c].members

(* Every save of the assets of a user does what the form showed.           *)
SavedTicks == [][TicksAreSaved]_consoleVars

=============================================================================
