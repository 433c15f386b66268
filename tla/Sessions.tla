----------------------------- MODULE Sessions ------------------------------
(***************************************************************************)
(* Signing in and what a session may do: the row of one user in            *)
(* PostgreSQL, its three keys in Redis (token version, permission ids,     *)
(* permission keys), the requests its pages make of the REST API           *)
(* (web.backend.node.ts), the administrators that create, change and       *)
(* delete it, and the pages themselves (web.frontend.vue): authStore, the  *)
(* axios interceptors, App.vue, the login form and the organisation list.  *)
(*                                                                         *)
(* A step is what the backend does between two awaits.  Administrators     *)
(* are taken to be signed in and permitted; their role decides whether     *)
(* they may touch a root user.  Overrides of organisations, assets and     *)
(* devices are Fleet's.  SET and the EXPIRE that follows it are two steps  *)
(* for the token version and one for the permissions.                      *)
(***************************************************************************)
EXTENDS Naturals, FiniteSets

CONSTANTS
    Pages,        \* browser pages on which the user signs in
    Requests,     \* requests of those pages the backend serves at once
    Saves,        \* requests of administrators it serves at once
    Roles, Root,
    RolePerms,    \* RolePerms[r]: app.role_permissions
    Switch,       \* the permission "org.switch"
    Scope,        \* Scope[o]: organisations accessible from the home o
    Patches,      \* what administrators change, see Patch
    NewUser,      \* the row a created user gets
    Admins,       \* roles of the administrators
    MaxVersion,   \* 1000: the token version that is followed by 1
    Faults,       \* which of AllFaults occur
    MaxEvents,    \* bound: requests of administrators, faults and hasty steps in a behaviour
    HastyCost,    \* bound: how many a step counts for that leaves a request under way
    None          \* no token, no key, no page, field not in the patch

(* A call to Redis or PostgreSQL fails; the EXPIRE after a SET fails; the  *)
(* backend dies with all it was doing; axios gives up after 15 seconds.    *)
AllFaults == {"call", "expire", "crash", "timeout"}

Orgs     == DOMAIN Scope
Perms    == UNION {RolePerms[r] : r \in Roles} \cup {Switch}
Versions == 1 .. MaxVersion
Override == [allow : SUBSET Perms, deny : SUBSET Perms]
Token    == [role : Roles, org : Orgs, version : Versions, by : {"login", "switch"}]
Row      == [life : {"unborn", "alive", "deleted"}, role : Roles, org : Orgs, version : Versions,
             override : Override]

(* userSchema.updateSchema: absent fields are kept.  quiet: only the name  *)
(* or the address changes, which ends no session; a patch that is not and  *)
(* changes none of these three changes the password or active.             *)
Patch == [role : Roles \cup {None}, org : Orgs \cup {None},
          override : Override \cup {None}, quiet : BOOLEAN]

ASSUME ParameterAssumption ==
    /\ Root \in Roles /\ RolePerms \in [Roles -> SUBSET Perms]
    /\ \A o \in Orgs : o \in Scope[o] /\ Scope[o] \subseteq Orgs
    /\ Patches \subseteq Patch
    /\ \A x \in Patches : x.quiet => x.role = None /\ x.org = None /\ x.override = None
    /\ NewUser \in Row /\ NewUser.life = "alive" /\ NewUser.version = 1
    /\ Admins \subseteq Roles
    /\ MaxVersion \in Nat \ {0} /\ MaxEvents \in Nat /\ HastyCost \in Nat \ {0}
    /\ Faults \subseteq AllFaults
    /\ None \notin Pages \cup Roles \cup Orgs \cup Override \cup Token
    /\ None \notin {"login", "profile", "rights", "switch"}

VARIABLES
    row,       \* app.users and app.user_permissions of the user
    version,   \* key user:token_version:<id>
    ids,       \* key user:permissions:<id>
    keys,      \* key user:permission_keys:<id>
    req,       \* req[r]: a request of a page
    save,      \* save[s]: a request of an administrator
    page,      \* page[p]: a page of the browser
    owed,      \* history: a change is committed, its bump not yet written
    overlap,   \* history: a save read the version while another had not cached it
    wrapped,   \* history: a version was followed by a smaller one
    faulty,    \* history: a fault has occurred
    events     \* history: what counts for MaxEvents so far

redisVars   == <<version, ids, keys>>
historyVars == <<owed, overlap, wrapped, faulty>>
vars == <<row, redisVars, req, save, page, historyVars, events>>

Effective(role, override) ==
    (RolePerms[role] \cup override.allow) \ override.deny

Rights == SUBSET Perms
Key(S) == {None} \cup [val : S, ttl : BOOLEAN]

Steps == {"idle", "version", "row", "fill", "ttl", "keys", "ids", "read",
          "setIds", "setKeys", "handler", "find", "answer", "lost"}
NoRequest == [kind |-> None, from |-> None, at |-> "idle", token |-> None, version |-> 1,
              role |-> Root, rights |-> {}, target |-> None, nav |-> FALSE]

SaveSteps == {"idle", "email", "insert", "roles", "remove", "check", "commit",
              "reread", "rights", "ids", "bump", "write", "cache"}
NoSave == [at |-> "idle", patch |-> None, admin |-> Root, role |-> Root, version |-> 1, rights |-> {}]

(* fetch: the profiles a watcher of App.vue has begun to fetch, "nav" the  *)
(* one that ends in a navigation.  covered: isLoading.  due:               *)
(* shouldFetchAccessProfile.  shown: the organisation whose data is in the *)
(* organisation, device, asset and settings stores.  crossed is history:   *)
(* the user went on while an answer was awaited.                           *)
Fetches   == {"nav", "due"}
SignedOut == [at |-> "login", token |-> None, fetch |-> {}, covered |-> FALSE, due |-> TRUE,
              shown |-> None, crossed |-> FALSE]

TypeOK ==
    /\ row \in Row
    /\ version \in Key(Versions) /\ ids \in Key(Rights) /\ keys \in Key(Rights)
    /\ req \in [Requests -> [kind : {None, "login", "profile", "rights", "switch"},
                             from : Pages \cup {None}, at : Steps,
                             token : Token \cup {None}, version : Versions,
                             role : Roles, rights : Rights,
                             target : Orgs \cup {None}, nav : BOOLEAN]]
    /\ save \in [Saves -> [at : SaveSteps, patch : Patches \cup {None},
                           admin : Roles, role : Roles, version : Versions, rights : Rights]]
    /\ page \in [Pages -> [at : {"login", "app"}, token : Token \cup {None},
                           fetch : SUBSET Fetches, covered : BOOLEAN, due : BOOLEAN,
                           shown : Orgs \cup {None}, crossed : BOOLEAN]]
    /\ owed \in BOOLEAN /\ overlap \in BOOLEAN /\ wrapped \in BOOLEAN
    /\ faulty \in BOOLEAN /\ events \in 0 .. MaxEvents

Init ==
    /\ row \in {NewUser, [NewUser EXCEPT !.life = "unborn"]}
    /\ version = None /\ ids = None /\ keys = None
    /\ req = [r \in Requests |-> NoRequest]
    /\ save = [s \in Saves |-> NoSave]
    /\ page = [p \in Pages |-> SignedOut]
    /\ owed = FALSE /\ overlap = FALSE /\ wrapped = FALSE
    /\ faulty = FALSE /\ events = 0

Counts(cost) == events + cost <= MaxEvents /\ events' = events + cost

Fault(kind) ==
    /\ kind \in Faults /\ Counts(IF kind = "timeout" THEN HastyCost ELSE 1)
    /\ faulty' = TRUE

Alive == row.life = "alive"

-----------------------------------------------------------------------------
(* The page: what an answer does to it.                                    *)

At(r, step) == [req EXCEPT ![r].at = step]
Done(r)     == [req EXCEPT ![r] = NoRequest]

(* The page awaits an answer; it awaits one besides r's.                   *)
Awaits(p)     == page[p].fetch # {} \/ \E r \in Requests : req[r].from = p
AwaitsMore(r) == \/ page[req[r].from].fetch # {}
                 \/ \E q \in Requests \ {r} : req[q].from = req[r].from

(* A request of a page that is gone, or has given up, is answered to       *)
(* nobody.                                                                 *)
ToPage(r, f) ==
    page' = IF req[r].from = None THEN page
            ELSE [page EXCEPT ![req[r].from] = f]

(* LogoutView clears the stores shown stands for, the map and user stores  *)
(* and the token; groups, rights, assignable users, filters and images     *)
(* stay in theirs, and so does shouldFetchAccessProfile.                   *)
Logout(g) == [g EXCEPT !.at = "login", !.token = None, !.fetch = {}, !.shown = None]

(* Mutant of Failed: a failing profile leaves the page where it was.       *)
FailedAndStays(g, request) == [g EXCEPT !.covered = FALSE]

(* An answer that is no success and no 401.  fetchAccessProfile pushes     *)
(* logout.view; after a login the watcher pushes the map at once, and the  *)
(* first navigation is cancelled.  The forms only tell the user.           *)
Failed(g, request) ==
    LET h == [g EXCEPT !.covered = FALSE] IN
    CASE request.kind \notin {"profile", "rights"} -> g
      [] request.kind \in {"profile", "rights"} /\ ~request.nav -> Logout(h)
      [] request.kind \in {"profile", "rights"} /\ request.nav ->
            [h EXCEPT !.at = IF g.token = None THEN "login" ELSE "app"]

Fail(r) == /\ req' = Done(r)
           /\ ToPage(r, Failed(page[req[r].from], req[r]))

(* The response interceptor on 401: storage is cleared and the page loads  *)
(* again at /login, which drops what it still waits for.                   *)
Refuse(r) ==
    LET p == req[r].from IN
    IF p # None /\ page[p].token # None
    THEN /\ page' = [page EXCEPT ![p] = SignedOut]
         /\ req' = [q \in Requests |->
                      IF q = r THEN NoRequest
                      ELSE IF req[q].from = p THEN [req[q] EXCEPT !.from = None]
                      ELSE req[q]]
    ELSE Fail(r)

-----------------------------------------------------------------------------
(* The page: what its user does.                                           *)

(* The slots are alike: one of the free ones is taken.                     *)
Serve(r, record) ==
    /\ req[r].kind = None /\ r = CHOOSE q \in Requests : req[q].kind = None
    /\ req' = [req EXCEPT ![r] = record]
    /\ UNCHANGED <<row, redisVars, save, historyVars>>

(* The user goes on, in haste when an answer is awaited.                   *)
GoesOn(p) ==
    \/ ~Awaits(p) /\ UNCHANGED events
    \/ Awaits(p) /\ Counts(HastyCost)

(* LoginForm.submitForm; nothing keeps the user from submitting it again.  *)
SubmitLogin(p, r) ==
    /\ page[p].at = "login" /\ page[p].token = None /\ ~page[p].covered
    /\ GoesOn(p)
    /\ page' = [page EXCEPT ![p].crossed = @ \/ Awaits(p)]
    /\ Serve(r, [NoRequest EXCEPT !.kind = "login", !.from = p, !.at = "find"])

(* The request interceptor puts the token the page has now on the request. *)
WithToken(p, kind) ==
    [NoRequest EXCEPT !.kind = kind, !.from = p, !.at = "version",
                      !.token = page[p].token, !.role = page[p].token.role]

(* fetchAccessProfile.  Its overlay covers the page until the first answer *)
(* to such a request; the 100 ms it stays longer are left out.             *)
SendProfile(p, r, fetch) ==
    /\ fetch \in page[p].fetch
    /\ page' = [page EXCEPT ![p].fetch = @ \ {fetch}]
    /\ Serve(r, [WithToken(p, "profile") EXCEPT !.nav = (fetch = "nav")])
    /\ UNCHANGED events

(* switchOrganisation, for an organisation of the list.  Its dialog can be *)
(* closed at any time, and the page under it is not covered.               *)
AskSwitch(p, r, o) ==
    /\ page[p].at = "app" /\ page[p].shown # None /\ ~page[p].covered
    /\ o \in Scope[page[p].shown]
    /\ GoesOn(p)
    /\ page' = [page EXCEPT ![p].crossed = @ \/ Awaits(p)]
    /\ Serve(r, [WithToken(p, "switch") EXCEPT !.target = o])

(* What it still awaits is history's alone: the requests go on.            *)
SignOut(p) ==
    /\ page[p].at = "app" /\ ~page[p].covered
    /\ GoesOn(p)
    /\ page' = [page EXCEPT ![p] = [Logout(@) EXCEPT !.crossed = Awaits(p)]]
    /\ UNCHANGED <<row, redisVars, req, save, historyVars>>

(* The user reloads the page, though not while it loads: the token is in   *)
(* storage, nothing else is.                                               *)
Reload(p) ==
    /\ page[p].at = "app" /\ ~page[p].covered
    /\ GoesOn(p)
    /\ page' = [page EXCEPT ![p] = [SignedOut EXCEPT !.at = "app", !.token = page[p].token,
                                        !.fetch = {"due"}, !.covered = TRUE]]
    /\ req' = [r \in Requests |-> IF req[r].from = p
                                  THEN [req[r] EXCEPT !.from = None] ELSE req[r]]
    /\ UNCHANGED <<row, redisVars, save, historyVars>>

-----------------------------------------------------------------------------
(* authMiddleware, for the requests with a token.                          *)

RequestUnchanged == UNCHANGED <<row, save, historyVars, events>>

Compare(r, v) ==
    IF v = req[r].token.version
    THEN /\ req' = [req EXCEPT ![r].at = "keys", ![r].version = 1]
         /\ UNCHANGED page
    ELSE Refuse(r)

(* redisUtils.get *)
Get(key) == IF key = None THEN None ELSE key.val

GetVersion(r) ==
    /\ req[r].at = "version"
    /\ IF Get(version) = None THEN req' = At(r, "row") /\ UNCHANGED page
                              ELSE Compare(r, Get(version))
    /\ UNCHANGED redisVars /\ RequestUnchanged

ReadVersion(r) ==
    /\ req[r].at = "row"
    /\ IF Alive
       THEN /\ req' = [req EXCEPT ![r].at = "fill", ![r].version = row.version]
            /\ UNCHANGED page
       ELSE Refuse(r)
    /\ UNCHANGED redisVars /\ RequestUnchanged

FillVersion(r) ==
    /\ req[r].at = "fill"
    /\ version' = [val |-> req[r].version, ttl |-> FALSE]
    /\ req' = At(r, "ttl")
    /\ UNCHANGED <<ids, keys, page>> /\ RequestUnchanged

(* Mutant of ExpireVersion: the version is kept without a time to live.    *)
ExpireVersionNever(r) ==
    /\ req[r].at = "ttl"
    /\ Compare(r, req[r].version)
    /\ UNCHANGED redisVars /\ RequestUnchanged

ExpireVersion(r) ==
    /\ req[r].at = "ttl"
    /\ version' = IF version = None THEN None ELSE [version EXCEPT !.ttl = TRUE]
    /\ Compare(r, req[r].version)
    /\ UNCHANGED <<ids, keys>> /\ RequestUnchanged

(* getUserPermissionKeys and getUserPermissions.  authMiddleware calls     *)
(* them for the role of the token; the profile calls them again, and a     *)
(* login calls them past the cache, for the role of the row they read.     *)
After(kind) == IF kind \in {"login", "rights"} THEN "answer" ELSE "handler"

GetKeys(r) ==
    /\ req[r].at = "keys"
    /\ req' = IF Get(keys) = None THEN At(r, "ids")
              ELSE [req EXCEPT ![r].at = After(req[r].kind), ![r].rights = Get(keys)]
    /\ UNCHANGED <<redisVars, page>> /\ RequestUnchanged

GetIds(r) ==
    /\ req[r].at = "ids"
    /\ req' = IF Get(ids) = None THEN At(r, "read")
              ELSE [req EXCEPT ![r].at = "setKeys", ![r].rights = Get(ids)]
    /\ UNCHANGED <<redisVars, page>> /\ RequestUnchanged

(* Mutant of ReadRights: the overrides of the user are not applied.        *)
ReadRightsOfRole(r) ==
    /\ req[r].at = "read"
    /\ req' = [req EXCEPT ![r].at = "setIds", ![r].rights = RolePerms[req[r].role]]
    /\ UNCHANGED <<redisVars, page>> /\ RequestUnchanged

ReadRights(r) ==
    /\ req[r].at = "read"
    /\ req' = [req EXCEPT ![r].at = "setIds",
                          ![r].rights = Effective(req[r].role, row.override)]
    /\ UNCHANGED <<redisVars, page>> /\ RequestUnchanged

Cached(rights) == [val |-> rights, ttl |-> TRUE]

SetIds(r) ==
    /\ req[r].at = "setIds"
    /\ ids' = Cached(req[r].rights)
    /\ req' = At(r, "setKeys")
    /\ UNCHANGED <<version, keys, page>> /\ RequestUnchanged

SetKeys(r) ==
    /\ req[r].at = "setKeys"
    /\ keys' = Cached(req[r].rights)
    /\ req' = At(r, After(req[r].kind))
    /\ UNCHANGED <<version, ids, page>> /\ RequestUnchanged

-----------------------------------------------------------------------------
(* The handlers.  None of them writes what is modelled.                    *)

AnswerUnchanged == UNCHANGED redisVars /\ RequestUnchanged

Answer(r, f) == req' = Done(r) /\ ToPage(r, f) /\ AnswerUnchanged

(* login, from User.getByEmail; the password is the user's.  A 401 does    *)
(* nothing to a page without a token.                                      *)
FindUser(r) ==
    /\ req[r].at = "find"
    /\ req' = IF Alive THEN [req EXCEPT ![r].at = "read", ![r].role = row.role,
                                        ![r].target = row.org, ![r].version = row.version]
                       ELSE Done(r)
    /\ UNCHANGED page /\ AnswerUnchanged

Signed(r, role, by) == [role |-> role, org |-> req[r].target,
                        version |-> req[r].version, by |-> by]

SignedIn(g, token) == [g EXCEPT !.at = "login", !.token = token, !.covered = TRUE,
                                !.fetch = @ \cup {"nav"}]

(* Mutant of FinishLogin: the version is read again when the token is      *)
(* signed.                                                                 *)
FinishLoginLate(r) ==
    /\ req[r].at = "answer" /\ req[r].kind = "login"
    /\ Answer(r, SignedIn(page[req[r].from],
                          [Signed(r, req[r].role, "login") EXCEPT !.version = row.version]))

(* submitForm shows the login view, clears the token and stores the new    *)
(* one; App.vue fetches the profile.                                       *)
FinishLogin(r) ==
    /\ req[r].at = "answer" /\ req[r].kind = "login"
    /\ Answer(r, SignedIn(page[req[r].from], Signed(r, req[r].role, "login")))

(* getAccessProfile: the row, then the rights again.                       *)
LoadProfile(r) ==
    /\ req[r].at = "handler" /\ req[r].kind = "profile"
    /\ IF Alive
       THEN /\ req' = [req EXCEPT ![r].at = "keys", ![r].kind = "rights",
                                ![r].role = row.role, ![r].rights = {}]
            /\ UNCHANGED page
       ELSE Fail(r)
    /\ AnswerUnchanged

(* The stores take what comes, whatever token the page has by now.         *)
AnswerProfile(r) ==
    /\ req[r].at = "answer" /\ req[r].kind = "rights"
    /\ Answer(r, [page[req[r].from] EXCEPT
           !.at = IF req[r].nav /\ page[req[r].from].token # None THEN "app" ELSE @,
           !.covered = FALSE, !.due = FALSE, !.shown = req[r].token.org])

(* requirePermissions(["org.switch"]) and switchOrg up to its token, which *)
(* keeps the role of the old one.                                          *)
MaySwitch(r) == req[r].role = Root \/ Switch \in req[r].rights

LoadSwitch(r) ==
    /\ req[r].at = "handler" /\ req[r].kind = "switch"
    /\ IF MaySwitch(r) /\ Alive /\ req[r].target \in Scope[row.org]
       THEN /\ req' = [req EXCEPT ![r].at = "answer", ![r].version = row.version, ![r].rights = {}]
            /\ UNCHANGED page
       ELSE Fail(r)
    /\ AnswerUnchanged

(* A token where there was none is signed in again, from the login view.   *)
Switched(g, token, more) ==
    LET fetch == (IF g.token = None THEN {"nav"} ELSE {}) \cup (IF g.due THEN {} ELSE {"due"}) IN
    [g EXCEPT !.token = token, !.due = TRUE, !.fetch = @ \cup fetch,
              !.covered = @ \/ fetch # {}, !.crossed = @ /\ (more \/ g.token = None)]

(* Mutant of FinishSwitch: the stores are not cleared.                     *)
FinishSwitchKeeps(r) ==
    /\ req[r].at = "answer" /\ req[r].kind = "switch"
    /\ Answer(r, Switched(page[req[r].from], Signed(r, req[r].token.role, "switch"),
                          AwaitsMore(r)))

(* switchOrganisation: setJwt, clearOrgScopedStores and, when it is not    *)
(* due already, a profile.                                                 *)
FinishSwitch(r) ==
    /\ req[r].at = "answer" /\ req[r].kind = "switch"
    /\ Answer(r, [Switched(page[req[r].from], Signed(r, req[r].token.role, "switch"),
                           AwaitsMore(r)) EXCEPT !.shown = None])

(* The connection broke when the backend died.                             *)
Lose(r) ==
    /\ req[r].at = "lost"
    /\ Fail(r)
    /\ AnswerUnchanged

-----------------------------------------------------------------------------
(* Administrators: UserController.store, destroy and update.               *)

SaveUnchanged == UNCHANGED <<req, page, faulty, events>>

SaveAt(s, step) == [save EXCEPT ![s].at = step]
SaveDone(s)     == [save EXCEPT ![s] = NoSave]

StartSave(s, step, patch, admin) ==
    /\ save[s].at = "idle" /\ Counts(1)
    /\ save' = [save EXCEPT ![s] = [NoSave EXCEPT !.at = step, !.patch = patch, !.admin = admin]]
    /\ UNCHANGED <<row, redisVars, req, page, historyVars>>

AskCreate(s)  == row.life = "unborn" /\ StartSave(s, "email", None, Root)
AskDestroy(s) == Alive /\ StartSave(s, "roles", None, Root)
AskUpdate(s)  == /\ Alive
                 /\ \E patch \in Patches, admin \in Admins : StartSave(s, "check", patch, admin)

(* UserController.permissions: the rights are read and set anew for the    *)
(* form that changes them.                                                 *)
AskView(s)    == Alive /\ StartSave(s, "reread", None, Root)

(* The address is looked up, and is unique in app.users besides.           *)
CheckEmail(s) ==
    /\ save[s].at = "email"
    /\ save' = IF row.life = "unborn" THEN SaveAt(s, "insert") ELSE SaveDone(s)
    /\ UNCHANGED <<row, redisVars, owed, overlap, wrapped>> /\ SaveUnchanged

(* User.create *)
Created == IF row.life = "unborn" THEN NewUser ELSE row

Insert(s) ==
    /\ save[s].at = "insert"
    /\ row' = Created
    /\ save' = SaveDone(s)
    /\ UNCHANGED <<redisVars, owed, overlap, wrapped>> /\ SaveUnchanged

CheckRoles(s) ==
    /\ save[s].at = "roles"
    /\ save' = IF Alive /\ row.role # Root THEN SaveAt(s, "remove") ELSE SaveDone(s)
    /\ UNCHANGED <<row, redisVars, owed, overlap, wrapped>> /\ SaveUnchanged

(* User.deleteByIDs: the overrides go with the row, the keys in Redis do   *)
(* not.                                                                    *)
Deleted == [row EXCEPT !.life = "deleted", !.override = [allow |-> {}, deny |-> {}]]

Remove(s) ==
    /\ save[s].at = "remove"
    /\ row' = Deleted
    /\ save' = SaveDone(s)
    /\ UNCHANGED <<redisVars, owed, overlap, wrapped>> /\ SaveUnchanged

CheckUpdate(s) ==
    /\ save[s].at = "check"
    /\ save' = IF Alive /\ (save[s].admin = Root \/ row.role # Root)
               THEN SaveAt(s, "commit") ELSE SaveDone(s)
    /\ UNCHANGED <<row, redisVars, owed, overlap, wrapped>> /\ SaveUnchanged

Kept(new, old) == IF new = None THEN old ELSE new

(* User.updateByID and the overrides of one transaction.                   *)
Patched(patch) == [row EXCEPT !.role = Kept(patch.role, @), !.org = Kept(patch.org, @),
                              !.override = Kept(patch.override, @)]

Commit(s) ==
    LET patch == save[s].patch IN
    /\ save[s].at = "commit"
    /\ IF Alive
       THEN /\ row' = Patched(patch)
            /\ owed' = (owed \/ ~patch.quiet)
            /\ save' = SaveAt(s, "reread")
       ELSE /\ save' = SaveDone(s)
            /\ UNCHANGED <<row, owed>>
    /\ UNCHANGED <<redisVars, overlap, wrapped>> /\ SaveUnchanged

(* A row deleted meanwhile makes updatedUser null, and its use an error.   *)
Reread(s) ==
    /\ save[s].at = "reread"
    /\ save' = IF Alive THEN [save EXCEPT ![s].at = "rights", ![s].role = row.role]
                        ELSE SaveDone(s)
    /\ UNCHANGED <<row, redisVars, owed, overlap, wrapped>> /\ SaveUnchanged

ReadSaved(s) ==
    /\ save[s].at = "rights"
    /\ save' = [save EXCEPT ![s].at = "ids", ![s].rights = Effective(save[s].role, row.override)]
    /\ UNCHANGED <<row, redisVars, owed, overlap, wrapped>> /\ SaveUnchanged

(* The permission keys stay as they are.                                   *)
SetSaved(s) ==
    /\ save[s].at = "ids"
    /\ ids' = Cached(save[s].rights)
    /\ save' = IF save[s].patch = None \/ save[s].patch.quiet THEN SaveDone(s)
               ELSE [save EXCEPT ![s] = [NoSave EXCEPT !.at = "bump"]]
    /\ UNCHANGED <<row, version, keys, owed, overlap, wrapped>> /\ SaveUnchanged

(* User.bumpTokenVersion.                                                  *)
ReadBump(s) ==
    /\ save[s].at = "bump"
    /\ save' = IF Alive THEN [save EXCEPT ![s].at = "write", ![s].version = row.version]
                        ELSE SaveDone(s)
    /\ overlap' = (overlap \/ \E t \in Saves : save[t].at \in {"write", "cache"})
    /\ UNCHANGED <<row, redisVars, owed, wrapped>> /\ SaveUnchanged

(* Mutant of Bumped: one version too many.                                 *)
BumpedPast(v) == IF v > MaxVersion THEN 1 ELSE v + 1

Bumped(v) == IF v >= MaxVersion THEN 1 ELSE v + 1

WriteBump(s) ==
    LET v == Bumped(save[s].version) IN
    /\ save[s].at = "write"
    /\ IF Alive
       THEN /\ row' = [row EXCEPT !.version = v]
            /\ owed' = (owed /\ v = row.version)
            /\ wrapped' = (wrapped \/ v < row.version)
            /\ save' = [save EXCEPT ![s].at = "cache", ![s].version = v]
       ELSE /\ save' = SaveDone(s)
            /\ UNCHANGED <<row, owed, wrapped>>
    /\ UNCHANGED <<redisVars, overlap>> /\ SaveUnchanged

(* SET without EXPIRE.                                                     *)
CacheBump(s) ==
    /\ save[s].at = "cache"
    /\ version' = [val |-> save[s].version, ttl |-> FALSE]
    /\ save' = SaveDone(s)
    /\ UNCHANGED <<row, ids, keys, owed, overlap, wrapped>> /\ SaveUnchanged

-----------------------------------------------------------------------------
(* Time and faults.                                                        *)

KeyUnchanged == UNCHANGED <<row, req, save, page, historyVars, events>>

ExpireKey ==
    \/ version # None /\ version.ttl /\ version' = None /\ UNCHANGED <<ids, keys>> /\ KeyUnchanged
    \/ ids # None /\ ids.ttl /\ ids' = None /\ UNCHANGED <<version, keys>> /\ KeyUnchanged
    \/ keys # None /\ keys.ttl /\ keys' = None /\ UNCHANGED <<version, ids>> /\ KeyUnchanged

FaultUnchanged == UNCHANGED <<row, owed, overlap, wrapped>>

(* What authMiddleware catches it answers with 401, a handler with 500.    *)
Rejected(r) == IF req[r].token # None /\ req[r].kind # "rights" /\ req[r].at # "handler"
               THEN Refuse(r) ELSE Fail(r)

CallFails(r) ==
    /\ Fault("call") /\ req[r].at \notin {"idle", "answer", "lost"}
    /\ Rejected(r)
    /\ UNCHANGED <<redisVars, save>> /\ FaultUnchanged

(* redisUtils.set has set the key when its EXPIRE fails.                   *)
ExpireFails(r) ==
    /\ Fault("expire")
    /\ \/ req[r].at = "setIds" /\ ids' = [val |-> req[r].rights, ttl |-> FALSE]
                               /\ UNCHANGED <<version, keys>>
       \/ req[r].at = "setKeys" /\ keys' = [val |-> req[r].rights, ttl |-> FALSE]
                                /\ UNCHANGED <<version, ids>>
    /\ Rejected(r)
    /\ UNCHANGED save /\ FaultUnchanged

SaveFails(s) ==
    /\ Fault("call") /\ save[s].at # "idle"
    /\ save' = SaveDone(s)
    /\ UNCHANGED <<redisVars, req, page>> /\ FaultUnchanged

(* axios gives up; the backend does not.                                   *)
Timeout(r) ==
    /\ Fault("timeout") /\ req[r].from # None /\ req[r].at # "lost"
    /\ req' = [req EXCEPT ![r].from = None]
    /\ ToPage(r, Failed(page[req[r].from], req[r]))
    /\ UNCHANGED <<redisVars, save>> /\ FaultUnchanged

Crash ==
    /\ Fault("crash")
    /\ req' = [r \in Requests |->
                 IF req[r].from = None THEN NoRequest
                 ELSE [NoRequest EXCEPT !.kind = req[r].kind, !.from = req[r].from,
                                        !.nav = req[r].nav, !.at = "lost"]]
    /\ save' = [s \in Saves |-> NoSave]
    /\ UNCHANGED <<redisVars, page>> /\ FaultUnchanged

-----------------------------------------------------------------------------
Serves(r) ==
    \/ GetVersion(r) \/ ReadVersion(r) \/ FillVersion(r) \/ ExpireVersion(r)
    \/ GetKeys(r) \/ GetIds(r) \/ ReadRights(r) \/ SetIds(r) \/ SetKeys(r)
    \/ FindUser(r) \/ FinishLogin(r) \/ LoadProfile(r) \/ AnswerProfile(r)
    \/ LoadSwitch(r) \/ FinishSwitch(r) \/ Lose(r)

Administers(s) ==
    \/ CheckEmail(s) \/ Insert(s) \/ CheckRoles(s) \/ Remove(s) \/ CheckUpdate(s)
    \/ Commit(s) \/ Reread(s) \/ ReadSaved(s) \/ SetSaved(s) \/ ReadBump(s)
    \/ WriteBump(s) \/ CacheBump(s)

Next ==
    \/ \E p \in Pages, r \in Requests :
          \/ SubmitLogin(p, r)
          \/ \E fetch \in Fetches : SendProfile(p, r, fetch)
          \/ \E o \in Orgs : AskSwitch(p, r, o)
    \/ \E p \in Pages : SignOut(p) \/ Reload(p)
    \/ \E r \in Requests : Serves(r) \/ CallFails(r) \/ ExpireFails(r) \/ Timeout(r)
    \/ \E s \in Saves : AskCreate(s) \/ AskDestroy(s) \/ AskUpdate(s) \/ AskView(s)
                        \/ Administers(s) \/ SaveFails(s)
    \/ ExpireKey \/ Crash

Spec == Init /\ [][Next]_vars

(* What the backend and Redis have started they finish.  The user signs in *)
(* when the login page is shown and reloads a page that stays empty.       *)
Fairness ==
    /\ \A r \in Requests : WF_vars(Serves(r))
    /\ \A s \in Saves : WF_vars(Administers(s))
    /\ WF_vars(version # None /\ ExpireKey /\ version' = None)
    /\ WF_vars(ids # None /\ ExpireKey /\ ids' = None)
    /\ WF_vars(keys # None /\ ExpireKey /\ keys' = None)
    /\ \A p \in Pages :
          /\ WF_vars(\E r \in Requests : SubmitLogin(p, r))
          /\ WF_vars(\E r \in Requests, fetch \in Fetches : SendProfile(p, r, fetch))
          /\ WF_vars(page[p].shown = None /\ Reload(p))

FairSpec == Spec /\ Fairness

-----------------------------------------------------------------------------
(* A login finds the row and signs the token many calls later, while the   *)
(* row changes: a token it signed for the version the row has now carries  *)
(* the role and the organisation the row has now, unless a change is       *)
(* committed whose new version is not written, or a smaller version came   *)
(* back because saves overlapped or the counter started again              *)
(* (auth.controller.ts:67, "for invalidating old tokens").  A switch keeps *)
(* the role of the token before it and is not meant.                       *)
CurrentTokensAreTrue ==
    Alive /\ ~owed /\ ~wrapped =>
    \A p \in Pages :
        LET t == page[p].token IN
        t # None /\ t.by = "login" /\ t.version = row.version
        => t.role = row.role /\ t.org = row.org

(* What a page shows was fetched for the organisation of its token: no     *)
(* late answer, no switch and no sign-out leaves another one's data, as    *)
(* long as the user lets a login or a switch be answered before the next   *)
(* step.  One who did not may be shown another organisation's data until   *)
(* the page is loaded again, or signs out or has switched with nothing     *)
(* else under way.                                                         *)
ShownIsForToken ==
    \A p \in Pages : page[p].shown # None /\ ~page[p].crossed =>
        page[p].token # None /\ page[p].shown = page[p].token.org

(* The version in Redis that authMiddleware compares with may be behind    *)
(* the row, but not for good: when it has no time to live and no save is   *)
(* about to write it, it is the row's, unless two saves overlapped or a    *)
(* call failed.                                                            *)
StaleForGood == version # None /\ ~version.ttl /\ version.val # row.version

VersionKeyFollows ==
    StaleForGood => \/ overlap \/ faulty
                    \/ \E s \in Saves : save[s].at = "cache"
                    \/ \E r \in Requests : req[r].at = "ttl"

(* Whatever was revoked, cached, refused or lost, a user of the system who *)
(* keeps signing in is shown the application again and again, unless the   *)
(* version in Redis is behind for good.                                    *)
SignInSucceeds ==
    \A p \in Pages : []<>(page[p].shown # None \/ ~Alive \/ StaleForGood)

(* When the pages hold tokens of the role in the row and the cached        *)
(* permissions can expire, the rights the API grants become the ones of    *)
(* the role and the overrides in the database and stay so.                 *)
RightsSettle ==
    <>[](/\ Alive
         /\ ids = None \/ ids.ttl
         /\ keys = None \/ keys.ttl
         /\ \A p \in Pages : page[p].token = None \/ page[p].token.role = row.role)
    => <>[](keys = None \/ keys.val = Effective(row.role, row.override))

=============================================================================
