----------------------------- MODULE ReportPage -----------------------------
(* The activity report in the web client: a form that asks the computation *)
(* service, a store that keeps the answer and what is selected in it, and  *)
(* the map, the slider and the table, which all select and all follow.     *)
(* The page is kept alive when the user goes elsewhere and unmounted at    *)
(* sign-out; an answer comes to the store whatever happened meanwhile.     *)
EXTENDS Integers, SequencesExt

CONSTANTS
    Reports,    \* what the service can answer
    Accounts,   \* users, in the organisation their token is for
    MaxAsked,   \* bound: reports asked for
    Nothing

(* Points and sightings of a report: segments, each with its points; a     *)
(* timeline's segments are sightings, which have none.                     *)
Track(r) == FlattenSeq([i \in DOMAIN r.segments |-> r.segments[i].points])

SegmentIds(r) == {r.segments[i].id : i \in DOMAIN r.segments}

(* A report has segments, and only what is there can be selected.          *)
ASSUME ReportAssumption ==
    \A r \in Reports :
        /\ r.segments \in Seq(ToSet(r.segments))
        /\ \A s \in ToSet(r.segments) :
              /\ s.id # Nothing
              /\ s.points \in Seq(ToSet(s.points))
              /\ \A p \in ToSet(s.points) : p # Nothing /\ p.at \in Nat

ASSUME AccountAssumption == Nothing \notin Accounts /\ MaxAsked \in Nat

VARIABLES
    account,    \* who is signed in
    wanted,     \* assetUuid
    asked,      \* requests so far
    requests,   \* under way
    loading, error,
    shown,      \* report: the answer and the request it is for
    segment,    \* selectedSegmentId
    point,      \* selectedPoint
    expanded,   \* the table's expandedId
    ready,      \* the map is there
    frame,      \* what the map is moved to
    early,      \* a point was pinned before the map was there
    picked,     \* the request whose report the selection was made in
    outlived    \* requests whose session or organisation is no more

storeVars  == <<loading, error, shown, segment, point, picked>>
widgetVars == <<expanded, ready, frame, early>>
reportVars == <<account, wanted, asked, requests, outlived, storeVars, widgetVars>>

(* What the map can be moved to.                                           *)
Whole == <<"report">>
On(kind, x) == <<kind, x>>

Unmounted == expanded' = Nothing /\ ready' = FALSE /\ frame' = Nothing /\ early' = FALSE

Unselected == segment' = Nothing /\ point' = Nothing /\ picked' = Nothing

ReportInit ==
    /\ account = Nothing
    /\ wanted = Nothing /\ asked = 0 /\ requests = {}
    /\ loading = FALSE /\ error = FALSE
    /\ shown = Nothing /\ segment = Nothing /\ point = Nothing
    /\ expanded = Nothing /\ ready = FALSE /\ frame = Nothing
    /\ early = FALSE /\ picked = Nothing /\ outlived = {}

(* The router shows no view to a visitor who has not signed in.            *)
SignedIn == account # Nothing

(* ActivityReportView: error, loading, nothing and empty come first.       *)
Displayed ==
    /\ SignedIn
    /\ ~error /\ ~loading
    /\ shown # Nothing /\ shown.report.segments # <<>>

-----------------------------------------------------------------------------
(* ReportFilters: an asset of those the map shows, or none; one that is no *)
(* longer among them stays in the form.                                    *)
ChooseAsset(S) ==
    /\ SignedIn /\ ~loading
    /\ wanted' \in (S \cup {Nothing}) \ {wanted}
    /\ UNCHANGED <<account, asked, requests, outlived, storeVars, widgetVars>>

(* fetchActivityReport; the button is disabled while a report is loading.  *)
Generate ==
    /\ SignedIn /\ wanted # Nothing
    /\ ~loading
    /\ asked < MaxAsked
    /\ asked' = asked + 1
    /\ requests' = requests \cup {[n |-> asked', asset |-> wanted, by |-> account]}
    /\ loading' = TRUE /\ error' = FALSE
    /\ Unmounted
    /\ UNCHANGED <<account, wanted, outlived, shown, segment, point, picked>>

(* Mutant of Answer: the selection of the report before stays.             *)
AnswerKeeps(q, r) ==
    /\ shown' = [n |-> q.n, by |-> q.by, report |-> r]
    /\ UNCHANGED <<segment, point, picked>>

(* "Both selections must reset": ids of segments repeat in every report.   *)
Answer(q, r) ==
    /\ shown' = [n |-> q.n, by |-> q.by, report |-> r]
    /\ Unselected

Receive(q) ==
    /\ q \in requests
    /\ \E r \in {x \in Reports : x.asset = q.asset} : Answer(q, r)
    /\ requests' = requests \ {q}
    /\ loading' = FALSE
    /\ UNCHANGED <<account, wanted, asked, outlived, error, widgetVars>>

(* An error or the time limit of 15 seconds.                               *)
FailReport(q) ==
    /\ q \in requests
    /\ requests' = requests \ {q}
    /\ loading' = FALSE /\ error' = TRUE
    /\ UNCHANGED <<account, wanted, asked, outlived, shown, segment, point, picked, widgetVars>>

-----------------------------------------------------------------------------
(* The map loads on its own: "The map instance and the report can arrive   *)
(* in either order".  It then frames the whole report.                     *)
MapReady ==
    /\ Displayed /\ ~ready
    /\ ready' = TRUE /\ frame' = Whole
    /\ UNCHANGED <<account, wanted, asked, requests, outlived, storeVars, expanded, early>>

(* The watchers of the map after one gesture that selects s and p: a point *)
(* is panned to, a segment fitted only while no point is pinned.           *)
Framed(s, p) ==
    frame' = IF ~ready THEN frame
             ELSE IF p # Nothing THEN (IF p # point THEN On("point", p) ELSE frame)
             ELSE IF s # segment THEN On("segment", s) ELSE frame

Gesture(s, p) ==
    /\ Displayed
    /\ segment' = s /\ point' = p
    /\ picked' = shown.n
    /\ Framed(s, p)
    /\ early' = (p # Nothing /\ (~ready \/ (early /\ p = point)))
    /\ UNCHANGED <<account, wanted, asked, requests, outlived, loading, error, shown, ready>>

(* selectSegment: a row of the table or the timeline, or a shape.          *)
SelectSegment ==
    /\ Displayed
    /\ \E s \in SegmentIds(shown.report) : Gesture(s, Nothing)
    /\ UNCHANGED expanded

ToggleExpanded ==
    /\ Displayed
    /\ \E i \in DOMAIN shown.report.segments :
          LET s == shown.report.segments[i] IN
          /\ s.points # <<>>
          /\ expanded' = IF expanded = s.id THEN Nothing ELSE s.id
    /\ UNCHANGED <<account, wanted, asked, requests, outlived, storeVars, ready, frame, early>>

(* selectPoint: "Click the same point again to unpin it."                  *)
SelectPoint ==
    /\ Displayed
    /\ \E i \in DOMAIN shown.report.segments :
          LET s == shown.report.segments[i] IN
          /\ s.id = expanded
          /\ \E p \in ToSet(s.points) : Gesture(segment, IF p = point THEN Nothing ELSE p)
    /\ UNCHANGED expanded

(* scrubTo selects the segment a point belongs to as well.                 *)
ScrubTo(i) ==
    LET p == Track(shown.report)[i]
        j == SelectInSeq(shown.report.segments, LAMBDA s : p \in ToSet(s.points)) IN
    /\ Gesture(shown.report.segments[j].id, p)
    /\ UNCHANGED expanded

(* getSelectedPointIndex, 0 when no point is pinned.                       *)
Index == SelectInSeq(Track(shown.report), LAMBDA p : p = point)

(* Arrow keys: without a point the count begins at the first.              *)
Step ==
    /\ Displayed
    /\ \E d \in {-1, 1} :
          LET next == (IF Index = 0 THEN 1 ELSE Index) + d IN
          next \in DOMAIN Track(shown.report) /\ ScrubTo(next)

Distance(p, t) == IF p.at > t THEN p.at - t ELSE t - p.at

(* The first of the points that are nearest in time.                       *)
Nearest(t) ==
    SelectInSeq(Track(shown.report),
                LAMBDA p : \A q \in ToSet(Track(shown.report)) : Distance(p, t) <= Distance(q, t))

(* The time axis has the length of the report, gaps included.              *)
Drag ==
    /\ Displayed /\ Track(shown.report) # <<>>
    /\ \E t \in shown.report.from .. shown.report.to :
          Nearest(t) # Index /\ ScrubTo(Nearest(t))

-----------------------------------------------------------------------------
(* Mutant of Cleared: the page is set free for the next user.              *)
ClearedWhole == loading' = FALSE /\ error' = FALSE /\ shown' = Nothing /\ Unselected

(* clear: what is loading goes on loading.                                 *)
Cleared == UNCHANGED loading /\ error' = FALSE /\ shown' = Nothing /\ Unselected

(* LogoutView: the components App.vue has kept alive are unmounted, and    *)
(* onBeforeUnmount clears the store.                                       *)
SignOut ==
    /\ SignedIn
    /\ account' = Nothing
    /\ wanted' = Nothing
    /\ Cleared
    /\ Unmounted
    /\ outlived' = outlived \cup {q.n : q \in requests}
    /\ UNCHANGED <<asked, requests>>

SignIn ==
    /\ account = Nothing
    /\ account' \in Accounts
    /\ UNCHANGED <<wanted, asked, requests, outlived, storeVars, widgetVars>>

(* switchOrganisation: clearOrgScopedStores leaves this store alone.       *)
SwitchOrg ==
    /\ SignedIn
    /\ account' \in Accounts \ {account}
    /\ outlived' = 1 .. asked
    /\ UNCHANGED <<wanted, asked, requests, storeVars, widgetVars>>

(* A 401 (or the user) loads the page anew; open requests end.             *)
Reload ==
    /\ account' \in {account, Nothing}
    /\ wanted' = Nothing /\ requests' = {}
    /\ loading' = FALSE /\ error' = FALSE /\ shown' = Nothing
    /\ Unselected /\ Unmounted
    /\ UNCHANGED <<asked, outlived>>

ReportNext(S) ==
    \/ ChooseAsset(S) \/ Generate
    \/ \E q \in requests : Receive(q) \/ FailReport(q)
    \/ MapReady
    \/ SelectSegment \/ ToggleExpanded \/ SelectPoint \/ Step \/ Drag
    \/ SignOut \/ SignIn \/ SwitchOrg \/ Reload

-----------------------------------------------------------------------------
(* What is selected is part of the report on the page, never of the one    *)
(* before ("a phantom coordinate jump"), and the map is at the pinned      *)
(* point however the user got there, unless it was pinned before the map   *)
(* had loaded.                                                             *)
SelectionIsShown ==
    /\ segment # Nothing \/ point # Nothing => shown # Nothing /\ picked = shown.n
    /\ segment # Nothing => segment \in SegmentIds(shown.report)
    /\ point # Nothing =>
          /\ point \in ToSet(Track(shown.report))
          /\ ready => frame = On("point", point) \/ early

(* The report on the page is the answer to the last request, and whoever   *)
(* is signed in has asked for it, although pages are kept alive, answers   *)
(* outlive sessions and clear() leaves requests alone; but for an answer   *)
(* that was under way at a sign-out and reports from before a switch of    *)
(* organisation.                                                           *)
ShownIsAsked ==
    Displayed =>
        /\ shown.n = asked
        /\ shown.by = account \/ shown.n \in outlived
=============================================================================
