------------------------------- MODULE Access -------------------------------
(* Which assets a user may see: those below the user's organisation without *)
(* the ones user_asset_access denies.  UserController replaces all denials  *)
(* of a user at once; the views of the console compute them from a form,    *)
(* from the assets that can be assigned (fetched once per organisation and  *)
(* kept) and from the list the user had when it was fetched.  Devices take  *)
(* the same way.                                                            *)
EXTENDS Tables

VARIABLES
    pUser,      \* organisation per user on the page, or NoRow: not fetched
    lists,      \* usersAssets: assets per user, {} is fetched again
    options,    \* assignableResources: assets per organisation, or NoRow
    chosen,     \* selectedOrgId
    editor      \* the form of UserUpdateView or UserCreateView

accessVars == <<pUser, lists, options, chosen, editor>>

NoEditor == [mode |-> "closed"]

(* A view that was mounted just now.                                       *)
Mounted(mode, u) ==
    [mode |-> mode, for |-> u, user |-> NoRow, org |-> NoRow,
     shown |-> {}, base |-> {}, flag |-> mode = "new", runs |-> {}]

AccessInit ==
    /\ pUser = NoRow
    /\ lists = [u \in Users |-> {}]
    /\ options = [o \in Orgs |-> NoRow]
    /\ chosen = NoRow /\ editor = NoEditor

Assignable(o) == {a \in AssetRows : asset[a] \in Under(o, org)}
Visible(u)    == Assignable(user[u].org) \ user[u].denied

UserShown == [u \in Users |-> IF user[u] = NoRow THEN NoRow ELSE user[u].org]

-----------------------------------------------------------------------------
(* UserController.index, getAssignableResources, assets.                   *)
ReadUsers(c) ==
    /\ At(c, "users", "read")
    /\ UNCHANGED rowVars
    /\ Answers(c, [u \in Users |-> IF UserShown[u] \in Scope THEN UserShown[u] ELSE NoRow])

ReadOptions(c) ==
    LET o == call[c].org IN
    /\ At(c, "options", "read")
    /\ IF o \in Scope THEN Answers(c, Assignable(o)) /\ UNCHANGED rowVars ELSE Refuse(c)

(* The overrides first, then the assets; the last part of an update too.   *)
ReadDenied(c) ==
    LET u == call[c].id IN
    /\ At(c, "list", "denied") \/ At(c, "access", "denied")
    /\ IF /\ user[u] # NoRow
          /\ call[c].op = "list" => user[u].org \in Scope
       THEN /\ Goes(c, [call[c] EXCEPT !.step = "assets", !.row = user[u]])
            /\ UNCHANGED rowVars
       ELSE Refuse(c)

ReadList(c) ==
    LET k == call[c] IN
    /\ At(c, "list", "assets") \/ At(c, "access", "assets")
    /\ UNCHANGED rowVars
    /\ Answers(c, [id |-> k.id, org |-> k.row.org,
                   list |-> Assignable(k.row.org) \ k.row.denied])

(* UserController.update: the user's organisation and denials, in one      *)
(* transaction at READ COMMITTED.                                          *)
AskAccess(c, who, u, o, named, denied) ==
    /\ Ask(c, [op |-> "access", step |-> "check", by |-> who, id |-> u, org |-> o,
               named |-> named, denied |-> denied, row |-> NoRow,
               locks |-> {}, theirs |-> {}])
    /\ UNCHANGED rowVars

CheckAccess(c) ==
    LET k == call[c] IN
    /\ At(c, "access", "check")
    /\ IF user[k.id] # NoRow /\ k.org \in Scope \cup {Keep}
       THEN Goes(c, [k EXCEPT !.step = "write"]) /\ UNCHANGED rowVars
       ELSE Refuse(c)

(* The UPDATE of the user, which locks the row and the new organisation's  *)
(* until the commit, and the DELETE of the access rows.  Without an        *)
(* organisation neither is locked.                                         *)
WriteAccess(c) ==
    LET k == call[c] IN
    /\ At(c, "access", "write")
    /\ k.org # Keep => ~Locked(k.id)
    /\ IF user[k.id] # NoRow /\ k.org \in OrgRows \cup {Keep}
       THEN /\ Goes(c, [k EXCEPT !.step = "commit",
                                 !.locks = IF k.org = Keep THEN {} ELSE {k.id, k.org}])
            /\ UNCHANGED rowVars
       ELSE Refuse(c)

(* createMany and the commit.  Rows that others (theirs) have committed    *)
(* since the DELETE stay, and the request's row for the same asset is      *)
(* skipped.  A user or an asset that is gone (P2003) rolls back.           *)
CommitAccess(c) ==
    LET k    == call[c]
        rest == {e \in Calls \ {c} : At(e, "access", "commit") /\ call[e].id = k.id} IN
    /\ At(c, "access", "commit")
    /\ IF /\ user[k.id] # NoRow /\ k.org \in OrgRows \cup {Keep}
          /\ k.denied # Keep => k.named \subseteq AssetRows
       THEN /\ user' = [user EXCEPT ![k.id] =
                  [org    |-> Final(k.org, @.org),
                   denied |-> IF k.denied = Keep THEN @.denied
                              ELSE (@.denied \cap k.theirs) \cup (k.denied \ k.theirs)]]
            /\ call' = [e \in Calls |->
                          IF e = c THEN [k EXCEPT !.step = "denied"]
                          ELSE IF e \in rest /\ k.denied # Keep
                          THEN [call[e] EXCEPT !.theirs = (@ \cap k.theirs)
                                                              \cup (k.named \ k.theirs)]
                          ELSE call[e]]
            /\ UNCHANGED <<org, asset, device, group, fresh, left>>
       ELSE Refuse(c)

(* UserController.store; what else it stores is in module Sessions.        *)
CheckNewUser(c) ==
    /\ At(c, "newUser", "check")
    /\ IF call[c].org \in Scope
       THEN Goes(c, [call[c] EXCEPT !.step = "insert"]) /\ UNCHANGED rowVars
       ELSE Refuse(c)

InsertUser(c) ==
    LET k == call[c]
        u == NextId(Users) IN
    /\ At(c, "newUser", "insert")
    /\ fresh \cap Users # {}
    /\ IF org[k.org] # NoRow /\ k.named \subseteq AssetRows
       THEN /\ user' = [user EXCEPT ![u] = [org |-> k.org, denied |-> k.denied]]
            /\ fresh' = fresh \ {u}
            /\ UNCHANGED <<org, asset, device, group>>
            /\ Answers(c, [id |-> u, org |-> k.org])
       ELSE Refuse(c)

(* UserController.destroy                                                  *)
AskNoUsers(c, who, S) ==
    /\ Ask(c, [op |-> "noUsers", step |-> "check", by |-> who, ids |-> S])
    /\ UNCHANGED rowVars

CheckNoUsers(c) ==
    /\ At(c, "noUsers", "check")
    /\ IF call[c].ids \cap UserRows # {}
       THEN Goes(c, [call[c] EXCEPT !.step = "delete"]) /\ UNCHANGED rowVars
       ELSE Refuse(c)

DeleteUsers(c) ==
    LET S == call[c].ids IN
    /\ At(c, "noUsers", "delete")
    /\ \A u \in S : ~Locked(u)
    /\ user' = [u \in Users |-> IF u \in S THEN NoRow ELSE user[u]]
    /\ UNCHANGED <<org, asset, device, group, fresh>>
    /\ Answers(c, S)

AccessNext(c) ==
    \/ ReadUsers(c) \/ ReadOptions(c) \/ ReadDenied(c) \/ ReadList(c)
    \/ CheckAccess(c) \/ WriteAccess(c) \/ CommitAccess(c)
    \/ CheckNewUser(c) \/ InsertUser(c)
    \/ CheckNoUsers(c) \/ DeleteUsers(c)

-----------------------------------------------------------------------------
(* The page.  Follow-up requests of a watcher use the slot it has.         *)
OptionsRequest(o, u) == [op |-> "options", step |-> "read", by |-> "page", org |-> o, for |-> u]
ListRequest(u) == [op |-> "list", step |-> "denied", by |-> "page", id |-> u, row |-> NoRow]

Known(o) == IF o = NoRow \/ options[o] = NoRow THEN {} ELSE options[o]

(* selectedOrgId becomes o: a view whose organisation the user has touched *)
(* ticks every asset of o, and a new user's form computes from them.       *)
Selected(e, o, known) ==
    IF e.mode = "closed" \/ o = chosen \/ ~e.flag THEN e
    ELSE IF e.mode = "new" THEN [e EXCEPT !.shown = known, !.base = known]
    ELSE [e EXCEPT !.shown = known]

Loaded(e, list) == [e EXCEPT !.base = list, !.shown = list]

(* UserUpdateView, once the options of the user's organisation are there:  *)
(* a user object that is new to the form has its list loaded, from the     *)
(* store or by a request, which a change of user does not cancel.          *)
Show(c, e, u, o, again) ==
    LET e1 == [e EXCEPT !.user = u, !.org = o] IN
    IF e.user = u /\ ~again
    THEN editor' = [e1 EXCEPT !.runs = @ \ {c}] /\ Sends(c, Idle)
    ELSE IF lists'[u] = {}
    THEN editor' = [e1 EXCEPT !.runs = @ \cup {c}] /\ Sends(c, ListRequest(u))
    ELSE editor' = [Loaded(e1, lists'[u]) EXCEPT !.runs = @ \ {c}] /\ Sends(c, Idle)

(* The watcher of the user: the options first.                             *)
Load(c, e, u, again) ==
    LET o == pUser'[u] IN
    /\ UNCHANGED options
    /\ IF options[o] = NoRow
       THEN /\ editor' = [e EXCEPT !.runs = @ \cup {c}]
            /\ Sends(c, OptionsRequest(o, u))
            /\ UNCHANGED chosen
       ELSE /\ chosen' = o
            /\ Show(c, Selected(e, o, options[o]), u, o, again)

(* userStore.fetchUserScope, asked by UserView when it has no users.       *)
AskUsers(c) ==
    /\ pUser = NoRow
    /\ Ask(c, [op |-> "users", step |-> "read", by |-> "page"])
    /\ UNCHANGED accessVars

ApplyUsers(c) ==
    /\ Arrived(c, "users")
    /\ pUser' = call[c].body
    /\ Goes(c, Idle)
    /\ UNCHANGED <<lists, options, chosen, editor>>

(* A bound: how often a form is opened or its organisation changed.        *)
Uses == left.forms > 0 /\ left' = [left EXCEPT !.forms = @ - 1]

(* The modal of a user shows, or a link changes the user it shows.         *)
OpenUser(c) ==
    /\ pUser # NoRow /\ editor.mode \in {"closed", "edit"}
    /\ "user" \in left.ops /\ Uses
    /\ \E u \in {x \in Users : pUser[x] # NoRow} :
          /\ ~(editor.mode = "edit" /\ editor.for = u)
          /\ UNCHANGED <<pUser, lists>>
          /\ Load(c, IF editor.mode = "edit" THEN [editor EXCEPT !.for = u]
                     ELSE Mounted("edit", u), u, FALSE)

(* UserCreateView opens with the page's own organisation.                  *)
OpenNew(c) ==
    /\ pUser # NoRow /\ editor.mode = "closed"
    /\ "newUser" \in left.ops /\ Uses
    /\ UNCHANGED <<pUser, lists, options>>
    /\ LET e == Loaded([Mounted("new", NoRow) EXCEPT !.org = Root], Known(chosen)) IN
       IF options[Root] = NoRow
       THEN editor' = e /\ Sends(c, OptionsRequest(Root, NoRow)) /\ UNCHANGED chosen
       ELSE /\ chosen' = Root
            /\ editor' = Selected(e, Root, options[Root])
            /\ Sends(c, Idle)

(* Another organisation in the form.                                       *)
ChooseOrg(c, S) ==
    /\ editor.mode # "closed" /\ Uses
    /\ editor.mode = "edit" => editor.user # NoRow
    /\ \E o \in S \ {editor.org} :
          LET e == [editor EXCEPT !.org = o, !.flag = TRUE] IN
          IF options[o] = NoRow
          THEN editor' = e /\ Sends(c, OptionsRequest(o, NoRow)) /\ UNCHANGED chosen
          ELSE /\ editor' = Selected(e, o, options[o]) /\ chosen' = o
               /\ Sends(c, Idle)
    /\ UNCHANGED <<pUser, lists, options>>

(* fetchAssignableResources: the store takes the answer whoever asked; the *)
(* watcher goes on if its view is still there.                             *)
ApplyOptions(c) ==
    LET o == call[c].asked.org
        e == Selected(editor, o, call[c].body) IN
    /\ Arrived(c, "options")
    /\ options' = [options EXCEPT ![o] = call[c].body]
    /\ chosen' = o
    /\ UNCHANGED <<pUser, lists, left>>
    /\ IF editor.mode = "edit" /\ c \in editor.runs
       THEN Show(c, e, call[c].asked.for, o, FALSE)
       ELSE editor' = e /\ Sends(c, Idle)

ApplyList(c) ==
    LET b == call[c].body IN
    /\ Arrived(c, "list")
    /\ lists' = [lists EXCEPT ![b.id] = b.list]
    /\ editor' = IF editor.mode = "edit" /\ c \in editor.runs
                 THEN [Loaded(editor, b.list) EXCEPT !.runs = @ \ {c}] ELSE editor
    /\ Goes(c, Idle)
    /\ UNCHANGED <<pUser, options, chosen>>

-----------------------------------------------------------------------------
(* Mutant of Differing: the request is the difference to the user's list.  *)
DifferingFromList(all, base, S) == [named |-> (base \ S) \cup (S \ base), denied |-> base \ S]

(* diffArraysToBooleanMap of the assignable assets and the ticked ones S:  *)
(* FALSE denies, TRUE is stored and has no effect.                         *)
Differing(all, base, S) == [named |-> (all \ S) \cup (S \ all), denied |-> all \ S]

(* What may be ticked: the tree, and what the form has besides.            *)
Ticks == (SUBSET Known(chosen)) \cup {editor.shown}

(* UserUpdateView.updateUser.  Access is left out of the request when it   *)
(* differs from the assignable assets as the loaded list does.             *)
SaveUser(c) ==
    /\ editor.mode = "edit" /\ editor.user # NoRow
    /\ \E S \in Ticks :
          LET u     == editor.user
              all   == Known(editor.org)
              diff  == Differing(all, editor.base, S)
              moved == editor.org # pUser[u]
              same  == diff = Differing(all, editor.base, editor.base) IN
          /\ Ask(c, [op |-> "access", step |-> "check", by |-> "page", id |-> u,
                     org    |-> IF moved THEN editor.org ELSE Keep,
                     denied |-> IF moved \/ ~same THEN diff.denied ELSE Keep,
                     named  |-> diff.named, row |-> NoRow, locks |-> {}, theirs |-> {},
                     all |-> all, base |-> editor.base, shown |-> S])
          /\ editor' = [editor EXCEPT !.shown = S]
    /\ UNCHANGED <<pUser, lists, options, chosen>>

(* Then the store has the list of the answer and a new object for the user,*)
(* and the watcher of the form loads the user it is for once more.         *)
ApplyAccess(c) ==
    LET b == call[c].body IN
    /\ Arrived(c, "access")
    /\ lists' = [lists EXCEPT ![b.id] = b.list]
    /\ UNCHANGED left
    /\ pUser' = [pUser EXCEPT ![b.id] = b.org]
    /\ IF editor.mode = "edit" /\ pUser'[editor.for] # NoRow
       THEN Load(c, editor, editor.for, editor.for = b.id)
       ELSE Sends(c, Idle) /\ UNCHANGED <<options, chosen, editor>>

(* UserCreateView.createUser: the difference is to the default of the form.*)
CreateUser(c) ==
    /\ editor.mode = "new"
    /\ \E S \in Ticks :
          LET diff == Differing(editor.base, editor.base, S) IN
          /\ Ask(c, [op |-> "newUser", step |-> "check", by |-> "page", org |-> editor.org,
                     denied |-> diff.denied, named |-> diff.named,
                     all |-> editor.base, shown |-> S])
          /\ editor' = [editor EXCEPT !.shown = S]
    /\ UNCHANGED <<pUser, lists, options, chosen>>

ApplyNewUser(c) ==
    /\ Arrived(c, "newUser")
    /\ pUser' = [pUser EXCEPT ![call[c].body.id] = call[c].body.org]
    /\ Goes(c, Idle)
    /\ UNCHANGED <<lists, options, chosen, editor>>

RemoveUsers(c) ==
    /\ pUser # NoRow /\ editor.mode = "closed"
    /\ \E u \in {x \in Users : pUser[x] # NoRow} :
          AskNoUsers(c, "page", {u})
    /\ UNCHANGED accessVars

ApplyNoUsers(c) ==
    /\ Arrived(c, "noUsers")
    /\ pUser' = [u \in Users |-> IF u \in call[c].body THEN NoRow ELSE pUser[u]]
    /\ UNCHANGED <<lists, left>>
    /\ IF editor.mode = "edit" /\ pUser'[editor.for] # NoRow
       THEN Load(c, editor, editor.for, FALSE)
       ELSE Sends(c, Idle) /\ UNCHANGED <<options, chosen, editor>>

CloseEditor == editor' = NoEditor /\ UNCHANGED <<pUser, lists, options, chosen>>

-----------------------------------------------------------------------------
(* A list of this user is being fetched.                                   *)
Fetching(u) == \E c \in Calls : call[c] # Idle /\ call[c].op = "list"
                                /\ (IF call[c].step = "answer" THEN call[c].asked.id
                                    ELSE call[c].id) = u

(* Lists of users the page has, and they are not what the users may see.   *)
ListsDiffer ==
    {u \in Users : lists[u] # {} /\ user[u] # NoRow /\ lists[u] # Visible(u)}
    \cup (IF pUser = NoRow THEN {} ELSE {u \in Users : pUser[u] # UserShown[u]})

(* The request of c takes effect for the user u.                           *)
Saves(c, u) ==
    /\ call[c] # Idle /\ call[c].by = "page"
    /\ \/ At(c, "access", "commit") /\ At(c, "access", "denied")' /\ call[c].id = u
       \/ At(c, "newUser", "insert") /\ At(c, "newUser", "answer")' /\ user'[u] # user[u]

(* Of the assets a form could tick, a save makes those visible that were   *)
(* ticked, although the request has only a difference, the API replaces    *)
(* all denials in two statements and options and lists are fetched once:   *)
(* always, but when the difference was left out and the loaded list out of *)
(* date, or when another save has stored rows between the two statements.  *)
TicksAreSaved ==
    \A c \in Calls, u \in Users :
        Saves(c, u) =>
            LET k == call[c] IN
            /\ k.denied = Keep => k.base = Visible(u)
            /\ k.op = "access" /\ k.denied # Keep => k.theirs = {}
            => Visible(u)' \cap k.all = k.shown \cap k.all \cap Assignable(UserShown[u])'
=============================================================================
