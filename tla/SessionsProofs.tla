--------------------------- MODULE SessionsProofs ---------------------------
(***************************************************************************)
(* Proofs about Sessions, for any pages, requests, administrators, roles,  *)
(* rights, organisations and faults, and any largest version.              *)
(***************************************************************************)
EXTENDS Sessions, TLAPS

Kinds == {None, "login", "profile", "rights", "switch"}

RequestType == [kind : Kinds, from : Pages \cup {None}, at : Steps,
                token : Token \cup {None}, version : Versions,
                role : Roles, rights : Rights, target : Orgs \cup {None},
                nav : BOOLEAN]

SaveType == [at : SaveSteps, patch : Patches \cup {None}, admin : Roles,
             role : Roles, version : Versions, rights : Rights]

PageType == [at : {"login", "app"}, token : Token \cup {None},
             fetch : SUBSET Fetches, covered : BOOLEAN, due : BOOLEAN,
             shown : Orgs \cup {None}, crossed : BOOLEAN]

-----------------------------------------------------------------------------
(* What a request carries at each of its steps.                            *)
RequestOK(x) ==
    /\ x \in RequestType
    /\ x.kind = None => x.from = None
    /\ x.at \in {"version", "row", "fill", "ttl"} => x.kind \in {"profile", "switch"}
    /\ x.at = "find" => x.kind = "login"
    /\ x.at # "lost" =>
          /\ x.kind \in {"profile", "rights", "switch"} => x.token \in Token
          /\ x.kind = "switch" \/ (x.kind = "login" /\ x.at # "find") => x.target \in Orgs

(* A page in the application, or one that fetches, has a token.  One whose *)
(* user waited for every answer has at most one fetch begun, and shows the *)
(* data of its token's organisation.                                       *)
PageOK(g) ==
    /\ g \in PageType
    /\ g.at = "app" \/ g.fetch # {} => g.token # None
    /\ ~g.crossed => /\ ~(Fetches \subseteq g.fetch)
                     /\ g.shown # None => g.token # None /\ g.shown = g.token.org

(* What a page whose user waits is like while it awaits the answer to x.   *)
Linked(x, g) ==
    /\ g.fetch = {}
    /\ x.kind = "login" => g.token = None
    /\ x.kind \in {"profile", "rights"} /\ x.at # "lost" => x.token = g.token
    /\ x.kind = "switch" => g.token # None

(* The user of p awaits nothing, or nothing but the answer to r.           *)
NothingElse(p, r) == page[p].fetch = {} /\ \A q \in Requests : req[q].from = p => q = r

(* A page whose user waits for every answer awaits one at most.            *)
PageInv ==
    /\ req \in [Requests -> RequestType] /\ page \in [Pages -> PageType]
    /\ \A r \in Requests : RequestOK(req[r])
    /\ \A p \in Pages : PageOK(page[p])
    /\ \A r \in Requests : \A p \in Pages :
          req[r].from = p /\ ~page[p].crossed => Linked(req[r], page[p])
    /\ \A r, q \in Requests : \A p \in Pages :
          req[r].from = p /\ req[q].from = p /\ ~page[p].crossed => r = q

(* The rest of the types; an update has a patch until it is committed.     *)
RestInv ==
    /\ row \in Row
    /\ version \in Key(Versions) /\ ids \in Key(Rights) /\ keys \in Key(Rights)
    /\ save \in [Saves -> SaveType]
    /\ \A s \in Saves : save[s].at \in {"check", "commit"} => save[s].patch \in Patches
    /\ owed \in BOOLEAN /\ overlap \in BOOLEAN /\ wrapped \in BOOLEAN
    /\ faulty \in BOOLEAN /\ events \in 0 .. MaxEvents

(* The role, organisation and version of a token, signed or about to be,   *)
(* against the row.                                                        *)
TrueFor(role, org, v) ==
    /\ row.life # "unborn"
    /\ ~wrapped => /\ v <= row.version
                   /\ v = row.version /\ ~owed => role = row.role /\ org = row.org

Signing(r) == req[r].kind = "login" /\ req[r].at \notin {"find", "lost"}

ByLogin(t) == t # None /\ t.by = "login"

TokenInv ==
    /\ \A r \in Requests :
          Signing(r) => TrueFor(req[r].role, req[r].target, req[r].version)
    /\ \A p \in Pages :
          ByLogin(page[p].token) => TrueFor(page[p].token.role, page[p].token.org,
                                            page[p].token.version)

(* Without overlap one save at a time has read a version to raise, and the *)
(* one that is about to cache a version has just written it.               *)
Bumping(s) == save[s].at \in {"write", "cache"}

KeyInv ==
    /\ ~overlap => /\ \A s, t \in Saves : Bumping(s) /\ Bumping(t) => s = t
                   /\ \A s \in Saves : save[s].at = "cache" => save[s].version = row.version
    /\ row.life = "unborn" => /\ version = None
                              /\ \A s \in Saves : ~Bumping(s)
                              /\ \A r \in Requests : req[r].at # "fill"
    /\ VersionKeyFollows
-----------------------------------------------------------------------------
LEMMA Parameters ==
    /\ Root \in Roles /\ RolePerms \in [Roles -> SUBSET Perms]
    /\ \A o \in Orgs : o \in Scope[o] /\ Scope[o] \subseteq Orgs
    /\ \A x \in Patches : x \in Patch
                          /\ (x.quiet => x.role = None /\ x.org = None /\ x.override = None)
    /\ NewUser \in Row /\ NewUser.life = "alive" /\ NewUser.version = 1
    /\ Admins \subseteq Roles
    /\ MaxVersion \in Nat /\ MaxVersion > 0 /\ MaxEvents \in Nat /\ HastyCost \in Nat
    /\ 1 \in Versions
    /\ None \notin Pages \cup Roles \cup Orgs \cup Override \cup Token
    /\ None \notin {"login", "profile", "rights", "switch"}
  BY ParameterAssumption DEF Versions

LEMMA RightsOf ==
    ASSUME NEW role \in Roles, NEW override \in Override
    PROVE  Effective(role, override) \in Rights
  <1>1. RolePerms[role] \in SUBSET Perms
    BY Parameters
  <1>2. override.allow \in SUBSET Perms
    BY DEF Override
  <1> QED
    BY <1>1, <1>2 DEF Effective, Rights

LEMMA NoRequestOK == RequestOK(NoRequest)
  <1>1. NoRequest \in RequestType
    BY Parameters DEF NoRequest, RequestType, Kinds, Steps, Rights
  <1> QED
    BY <1>1, Parameters DEF RequestOK, NoRequest

LEMMA SignedOutOK == PageOK(SignedOut)
  BY Parameters DEF PageOK, SignedOut, PageType, Fetches

(* One request changes.                                                    *)
Only(r) == /\ req' = [q \in Requests |-> req'[q]]
           /\ \A q \in Requests \ {r} : req'[q] = req[q]

(* One page does.                                                          *)
OnlyPage(p) == /\ page' = [g \in Pages |-> page'[g]]
               /\ \A g \in Pages \ {p} : page'[g] = page[g]

(* A request goes on, and nothing is answered.                             *)
LEMMA RequestGoesOn ==
    ASSUME PageInv, NEW r \in Requests, Only(r), UNCHANGED page,
           RequestOK(req'[r]), req[r].at # "lost",
           req'[r].from = req[r].from, req'[r].token = req[r].token,
           req'[r].kind = req[r].kind \/ (req[r].kind = "profile" /\ req'[r].kind = "rights")
    PROVE  PageInv'
  <1>1. \A q \in Requests : RequestOK(req'[q])
    BY DEF PageInv, Only
  <1>2. req' \in [Requests -> RequestType]
    BY <1>1 DEF Only, RequestOK
  <1>3. \A q \in Requests : req'[q].from = req[q].from
    BY DEF Only
  <1>4. ASSUME NEW q \in Requests, NEW p \in Pages, req'[q].from = p, ~page[p].crossed
        PROVE  Linked(req'[q], page[p])
    <2>1. Linked(req[q], page[p])
      BY <1>3, <1>4 DEF PageInv
    <2>2. CASE q # r
      BY <2>1, <2>2 DEF Only
    <2>3. CASE q = r
      BY <2>1, <2>3 DEF Linked
    <2> QED
      BY <2>2, <2>3
  <1> QED
    BY <1>1, <1>2, <1>3, <1>4 DEF PageInv

(* A request is no longer a page's, and its page, if it had one, changes.  *)
LEMMA RequestEnds ==
    ASSUME PageInv, NEW r \in Requests, Only(r), RequestOK(req'[r]), req'[r].from = None,
           req[r].from = None => UNCHANGED page,
           req[r].from # None =>
              /\ OnlyPage(req[r].from) /\ PageOK(page'[req[r].from])
              /\ page'[req[r].from].crossed \/ NothingElse(req[r].from, r)
                 \/ ~page[req[r].from].crossed
    PROVE  PageInv'
  <1>1. \A q \in Requests : RequestOK(req'[q])
    BY DEF PageInv, Only
  <1>2. req' \in [Requests -> RequestType]
    BY <1>1 DEF Only, RequestOK
  <1>3. \A p \in Pages : PageOK(page'[p])
    BY DEF PageInv, OnlyPage
  <1>4. page' \in [Pages -> PageType]
    <2>1. CASE req[r].from = None
      BY <2>1 DEF PageInv
    <2>2. CASE req[r].from # None
      BY <2>2, <1>3 DEF OnlyPage, PageOK
    <2> QED
      BY <2>1, <2>2
  <1>5. ASSUME NEW q \in Requests, NEW p \in Pages, req'[q].from = p, ~page'[p].crossed
        PROVE  q # r /\ req'[q] = req[q] /\ page'[p] = page[p]
    <2>1. q # r
      BY <1>5, Parameters
    <2>2. req'[q] = req[q]
      BY <2>1 DEF Only
    <2>3. CASE req[r].from # p
      BY <2>1, <2>2, <2>3 DEF OnlyPage
    <2>4. CASE req[r].from = p
      <3>1. p # None /\ q # r /\ req[q].from = p
        BY <1>5, <2>1, <2>2, Parameters
      <3>2. ~NothingElse(p, r) /\ page[p].crossed
        BY <2>4, <3>1 DEF NothingElse, PageInv
      <3> QED
        BY <1>5, <2>4, <3>1, <3>2
    <2> QED
      BY <2>1, <2>2, <2>3, <2>4
  <1>6. \A q \in Requests : \A p \in Pages :
            req'[q].from = p /\ ~page'[p].crossed => Linked(req'[q], page'[p])
    BY <1>5 DEF PageInv
  <1>7. \A q, t \in Requests : \A p \in Pages :
            req'[q].from = p /\ req'[t].from = p /\ ~page'[p].crossed => q = t
    BY <1>5 DEF PageInv
  <1> QED
    BY <1>1, <1>2, <1>3, <1>4, <1>6, <1>7 DEF PageInv

(* A page sends a request, and has sent no other unless its user does not  *)
(* wait.                                                                   *)
LEMMA RequestStarts ==
    ASSUME PageInv, NEW r \in Requests, NEW p \in Pages, Only(r), OnlyPage(p),
           RequestOK(req'[r]), req'[r].from = p, PageOK(page'[p]),
           ~page'[p].crossed => Linked(req'[r], page'[p]) /\ \A q \in Requests : req[q].from # p
    PROVE  PageInv'
  <1>1. \A q \in Requests : RequestOK(req'[q])
    BY DEF PageInv, Only
  <1>2. req' \in [Requests -> RequestType]
    BY <1>1 DEF Only, RequestOK
  <1>3. \A g \in Pages : PageOK(page'[g])
    BY DEF PageInv, OnlyPage
  <1>4. page' \in [Pages -> PageType]
    BY <1>3 DEF OnlyPage, PageOK
  <1>5. ASSUME NEW q \in Requests, q # r, NEW g \in Pages, req'[q].from = g, ~page'[g].crossed
        PROVE  req'[q] = req[q] /\ g # p /\ page'[g] = page[g]
    <2>1. req'[q] = req[q]
      BY <1>5 DEF Only
    <2>2. g # p
      BY <1>5, <2>1
    <2> QED
      BY <2>1, <2>2 DEF OnlyPage
  <1>6. \A q \in Requests : \A g \in Pages :
            req'[q].from = g /\ ~page'[g].crossed => Linked(req'[q], page'[g])
    BY <1>5 DEF PageInv
  <1>7. \A q, t \in Requests : \A g \in Pages :
            req'[q].from = g /\ req'[t].from = g /\ ~page'[g].crossed => q = t
    BY <1>5 DEF PageInv
  <1> QED
    BY <1>1, <1>2, <1>3, <1>4, <1>6, <1>7 DEF PageInv

(* A page changes, its requests do not.                                    *)
LEMMA PageChanges ==
    ASSUME PageInv, NEW p \in Pages, UNCHANGED req, OnlyPage(p), PageOK(page'[p]),
           page'[p].crossed \/ \A q \in Requests : req[q].from # p
    PROVE  PageInv'
  <1>1. \A g \in Pages : PageOK(page'[g])
    BY DEF PageInv, OnlyPage
  <1>2. page' \in [Pages -> PageType]
    BY <1>1 DEF OnlyPage, PageOK
  <1>3. \A q \in Requests : \A g \in Pages :
            req[q].from = g /\ ~page'[g].crossed => g # p /\ page'[g] = page[g]
    BY DEF OnlyPage
  <1> QED
    BY <1>1, <1>2, <1>3 DEF PageInv

(* A page gives up what it waits for and becomes g.                        *)
LEMMA PageLeaves ==
    ASSUME PageInv, NEW p \in Pages, OnlyPage(p), PageOK(page'[p]),
           req' = [q \in Requests |-> req'[q]],
           \A q \in Requests :
              IF req[q].from = p
              THEN req'[q] = NoRequest \/ req'[q] = [req[q] EXCEPT !.from = None]
              ELSE req'[q] = req[q]
    PROVE  PageInv'
  <1>0. p # None
    BY Parameters
  <1>1. ASSUME NEW q \in Requests
        PROVE  RequestOK(req'[q]) /\ (req'[q].from # None => req'[q] = req[q])
                                  /\ req'[q].from # p
    <2>1. RequestOK(req[q])
      BY DEF PageInv
    <2>2. CASE req'[q] = NoRequest
      BY <2>2, <1>0, NoRequestOK DEF NoRequest
    <2>3. CASE req'[q] = [req[q] EXCEPT !.from = None]
      BY <2>1, <2>3, <1>0 DEF RequestOK, RequestType
    <2>4. CASE req'[q] = req[q] /\ req[q].from # p
      BY <2>1, <2>4
    <2> QED
      BY <2>2, <2>3, <2>4
  <1>2. req' \in [Requests -> RequestType]
    BY <1>1 DEF RequestOK
  <1>3. \A g \in Pages : PageOK(page'[g])
    BY DEF PageInv, OnlyPage
  <1>4. page' \in [Pages -> PageType]
    BY <1>3 DEF OnlyPage, PageOK
  <1>5. ASSUME NEW q \in Requests, NEW g \in Pages, req'[q].from = g
        PROVE  req'[q] = req[q] /\ page'[g] = page[g]
    <2>1. req'[q] = req[q] /\ g # p
      BY <1>1, <1>5, Parameters
    <2> QED
      BY <2>1 DEF OnlyPage
  <1>6. \A q \in Requests : \A g \in Pages :
            req'[q].from = g /\ ~page'[g].crossed => Linked(req'[q], page'[g])
    BY <1>5 DEF PageInv
  <1>7. \A q, t \in Requests : \A g \in Pages :
            req'[q].from = g /\ req'[t].from = g /\ ~page'[g].crossed => q = t
    BY <1>5 DEF PageInv
  <1> QED
    BY <1>1, <1>2, <1>3, <1>4, <1>6, <1>7 DEF PageInv

-----------------------------------------------------------------------------
LEMMA PageInitial == Init => PageInv
  <1> SUFFICES ASSUME Init PROVE PageInv
    OBVIOUS
  <1>1. NoRequest \in RequestType /\ SignedOut \in PageType
    BY NoRequestOK, SignedOutOK DEF RequestOK, PageOK
  <1>2. \A r \in Requests : req[r] = NoRequest
    BY DEF Init
  <1>3. \A p \in Pages : page[p] = SignedOut
    BY DEF Init
  <1>4. req \in [Requests -> RequestType] /\ page \in [Pages -> PageType]
    BY <1>1 DEF Init
  <1>5. \A r \in Requests : \A p \in Pages : req[r].from # p
    BY <1>2, Parameters DEF NoRequest
  <1> QED
    BY <1>2, <1>3, <1>4, <1>5, NoRequestOK, SignedOutOK DEF PageInv

LEMMA PageSame ==
    ASSUME PageInv, UNCHANGED <<req, page>>
    PROVE  PageInv'
  BY DEF PageInv

LEMMA FailedPage ==
    ASSUME NEW g, PageOK(g), NEW x
    PROVE  /\ PageOK(Failed(g, x)) /\ Failed(g, x).crossed = g.crossed
           /\ Failed(g, x).token = g.token \/ Failed(g, x).token = None
  <1> DEFINE h == [g EXCEPT !.covered = FALSE]
  <1>0. PageOK(h) /\ h.crossed = g.crossed /\ h.token = g.token
    BY DEF PageOK, PageType
  <1>1. CASE x.kind \notin {"profile", "rights"}
    <2>1. Failed(g, x) = g
      BY <1>1 DEF Failed
    <2> QED
      BY <2>1
  <1>2. CASE x.kind \in {"profile", "rights"} /\ ~x.nav
    <2>1. Failed(g, x) = Logout(h)
      BY <1>2 DEF Failed
    <2> HIDE DEF h
    <2>2. PageOK(Logout(h)) /\ Logout(h).crossed = h.crossed /\ Logout(h).token = None
      BY <1>0 DEF Logout, PageOK, PageType, Fetches
    <2> QED
      BY <1>0, <2>1, <2>2
  <1>3. CASE x.kind \in {"profile", "rights"} /\ x.nav
    <2> DEFINE to == IF g.token = None THEN "login" ELSE "app"
    <2>1. Failed(g, x) = [h EXCEPT !.at = to]
      BY <1>3 DEF Failed
    <2>2. to \in {"login", "app"} /\ (to = "app" => h.token # None)
      BY <1>0
    <2> HIDE DEF h, to
    <2>3. /\ PageOK([h EXCEPT !.at = to]) /\ [h EXCEPT !.at = to].crossed = h.crossed
          /\ [h EXCEPT !.at = to].token = h.token
      BY <1>0, <2>2 DEF PageOK, PageType
    <2> QED
      BY <1>0, <2>1, <2>3
  <1> QED
    BY <1>1, <1>2, <1>3

LEMMA FailedOK ==
    ASSUME PageInv, NEW r \in Requests, req[r].from # None
    PROVE  /\ PageOK(Failed(page[req[r].from], req[r]))
           /\ Failed(page[req[r].from], req[r]).crossed = page[req[r].from].crossed
  <1>1. req[r].from \in Pages
    BY DEF PageInv, RequestOK, RequestType
  <1>2. PageOK(page[req[r].from])
    BY <1>1 DEF PageInv
  <1> QED
    BY <1>2, FailedPage

(* The answer of r makes its page f.                                       *)
LEMMA Answering ==
    ASSUME PageInv, NEW r \in Requests, NEW f, req' = Done(r), ToPage(r, f),
           req[r].from # None =>
              /\ PageOK(f)
              /\ f.crossed \/ NothingElse(req[r].from, r) \/ ~page[req[r].from].crossed
    PROVE  PageInv'
  <1>1. Only(r) /\ req'[r] = NoRequest
    BY DEF Done, Only, PageInv
  <1>2. req[r].from = None => UNCHANGED page
    BY DEF ToPage
  <1>3. ASSUME req[r].from # None
        PROVE  OnlyPage(req[r].from) /\ page'[req[r].from] = f
    <2>1. req[r].from \in Pages
      BY <1>3 DEF PageInv, RequestOK, RequestType
    <2>2. page' = [page EXCEPT ![req[r].from] = f]
      BY <1>3 DEF ToPage
    <2> QED
      BY <2>1, <2>2 DEF OnlyPage, PageInv
  <1>4. RequestOK(req'[r]) /\ req'[r].from = None
    BY <1>1, NoRequestOK DEF NoRequest
  <1> QED
    BY <1>1, <1>2, <1>3, <1>4, RequestEnds

(* What the answer of r finds: a page whose user waits awaits only it.     *)
LEMMA AwaitedOnly ==
    ASSUME PageInv, NEW r \in Requests, req[r].from # None
    PROVE  /\ req[r].from \in Pages /\ PageOK(page[req[r].from])
           /\ ~page[req[r].from].crossed =>
                 NothingElse(req[r].from, r) /\ Linked(req[r], page[req[r].from])
  <1>1. req[r].from \in Pages
    BY DEF PageInv, RequestOK, RequestType
  <1>2. PageOK(page[req[r].from])
    BY <1>1 DEF PageInv
  <1>3. ASSUME ~page[req[r].from].crossed
        PROVE  NothingElse(req[r].from, r) /\ Linked(req[r], page[req[r].from])
    <2>1. Linked(req[r], page[req[r].from])
      BY <1>1, <1>3 DEF PageInv
    <2>2. \A q \in Requests : req[q].from = req[r].from => q = r
      BY <1>1, <1>3 DEF PageInv
    <2> QED
      BY <2>1, <2>2 DEF NothingElse, Linked
  <1> QED
    BY <1>1, <1>2, <1>3

LEMMA Failing ==
    ASSUME PageInv, NEW r \in Requests, Fail(r)
    PROVE  PageInv'
  <1> DEFINE f == Failed(page[req[r].from], req[r])
  <1>1. req' = Done(r) /\ ToPage(r, f)
    BY DEF Fail
  <1>2. req[r].from # None =>
            PageOK(f) /\ (f.crossed \/ ~page[req[r].from].crossed)
    BY FailedOK, AwaitedOnly
  <1> HIDE DEF f
  <1> QED
    BY <1>1, <1>2, Answering

LEMMA Refusing ==
    ASSUME PageInv, NEW r \in Requests, Refuse(r)
    PROVE  PageInv'
  <1> DEFINE p == req[r].from
  <1>1. CASE p # None /\ page[p].token # None
    <2>1. p \in Pages
      BY <1>1 DEF PageInv, RequestOK, RequestType
    <2>2. page' = [page EXCEPT ![p] = SignedOut]
      BY <1>1 DEF Refuse
    <2>3. OnlyPage(p) /\ PageOK(page'[p])
      BY <2>1, <2>2, SignedOutOK DEF OnlyPage, PageInv
    <2>4. req' = [q \in Requests |->
                    IF q = r THEN NoRequest
                    ELSE IF req[q].from = p THEN [req[q] EXCEPT !.from = None]
                    ELSE req[q]]
      BY <1>1 DEF Refuse
    <2>5. \A q \in Requests :
              IF req[q].from = p
              THEN req'[q] = NoRequest \/ req'[q] = [req[q] EXCEPT !.from = None]
              ELSE req'[q] = req[q]
      BY <2>4
    <2>6. req' = [q \in Requests |-> req'[q]]
      BY <2>4
    <2> QED
      BY <2>1, <2>3, <2>5, <2>6, PageLeaves
  <1>2. CASE ~(p # None /\ page[p].token # None)
    BY <1>2, Failing DEF Refuse
  <1> QED
    BY <1>1, <1>2

(* A request further on, of the same page with the same token.             *)
LEMMA FurtherOn ==
    ASSUME NEW x, RequestOK(x), NEW y \in RequestType,
           y.kind = x.kind, y.from = x.from, y.token = x.token,
           y.target \in Orgs \/ (y.target = x.target /\ x.at # "find"),
           y.at # "find",
           y.at \in {"version", "row", "fill", "ttl"} => x.kind \in {"profile", "switch"},
           x.at # "lost"
    PROVE  RequestOK(y)
  <1>1. x.kind = "switch" \/ x.kind = "login" => y.target \in Orgs
    BY DEF RequestOK
  <1> QED
    BY <1>1 DEF RequestOK

LEMMA Comparing ==
    ASSUME PageInv, NEW r \in Requests, NEW v, Compare(r, v),
           req[r].at \in {"version", "ttl"}
    PROVE  PageInv'
  <1>1. CASE v = req[r].token.version
    <2>1. req' = [req EXCEPT ![r].at = "keys", ![r].version = 1] /\ UNCHANGED page
      BY <1>1 DEF Compare
    <2>2. req'[r] = [req[r] EXCEPT !.at = "keys", !.version = 1] /\ Only(r)
      BY <2>1 DEF Only, PageInv
    <2>3. RequestOK(req[r]) /\ req[r] \in RequestType /\ "keys" \in Steps
      BY DEF PageInv, RequestOK, Steps
    <2>4. /\ req'[r] \in RequestType /\ req'[r].at = "keys"
          /\ req'[r].kind = req[r].kind /\ req'[r].from = req[r].from
          /\ req'[r].token = req[r].token /\ req'[r].target = req[r].target
      BY <2>2, <2>3, Parameters DEF RequestType
    <2>5. RequestOK(req'[r])
      BY <2>3, <2>4, FurtherOn
    <2> QED
      BY <2>1, <2>2, <2>4, <2>5, RequestGoesOn
  <1>2. CASE v # req[r].token.version
    BY <1>2, Refusing DEF Compare
  <1> QED
    BY <1>1, <1>2

(* The step of r that follows is taken, with nothing but what it reads.    *)
LEMMA StepTaken ==
    ASSUME PageInv, NEW r \in Requests, NEW step \in Steps,
           req' = At(r, step), UNCHANGED page,
           step # "find",
           step \in {"version", "row", "fill", "ttl"} => req[r].kind \in {"profile", "switch"},
           req[r].at \notin {"find", "lost"}
    PROVE  PageInv'
  <1>1. req'[r] = [req[r] EXCEPT !.at = step] /\ Only(r)
    BY DEF At, Only, PageInv
  <1>2. RequestOK(req[r]) /\ req[r] \in RequestType
    BY DEF PageInv, RequestOK
  <1>3. /\ req'[r] \in RequestType /\ req'[r].at = step
        /\ req'[r].kind = req[r].kind /\ req'[r].from = req[r].from
        /\ req'[r].token = req[r].token /\ req'[r].target = req[r].target
    BY <1>1, <1>2 DEF RequestType
  <1>4. RequestOK(req'[r])
    BY <1>2, <1>3, FurtherOn
  <1> QED
    BY <1>1, <1>3, <1>4, RequestGoesOn

(* The same, when rights are read or computed.                             *)
LEMMA RightsTaken ==
    ASSUME PageInv, NEW r \in Requests, NEW step \in Steps, NEW rights \in Rights,
           req' = [req EXCEPT ![r].at = step, ![r].rights = rights], UNCHANGED page,
           step \notin {"find", "version", "row", "fill", "ttl"},
           req[r].at \notin {"find", "lost"}
    PROVE  PageInv'
  <1>1. req'[r] = [req[r] EXCEPT !.at = step, !.rights = rights] /\ Only(r)
    BY DEF Only, PageInv
  <1>2. RequestOK(req[r]) /\ req[r] \in RequestType
    BY DEF PageInv, RequestOK
  <1>3. /\ req'[r] \in RequestType /\ req'[r].at = step
        /\ req'[r].kind = req[r].kind /\ req'[r].from = req[r].from
        /\ req'[r].token = req[r].token /\ req'[r].target = req[r].target
    <2> DEFINE x == req[r]
               y == req'[r]
    <2>1. x \in RequestType /\ y = [x EXCEPT !.at = step, !.rights = rights]
      BY <1>1, <1>2
    <2> HIDE DEF x, y
    <2>2. /\ y \in RequestType /\ y.at = step /\ y.kind = x.kind /\ y.from = x.from
          /\ y.token = x.token /\ y.target = x.target
      BY <2>1 DEF RequestType
    <2> QED
      BY <2>2 DEF x, y
  <1>4. RequestOK(req'[r])
    BY <1>2, <1>3, FurtherOn
  <1> QED
    BY <1>1, <1>3, <1>4, RequestGoesOn

LEMMA PageStep == PageInv /\ RestInv /\ [Next]_vars => PageInv'
  <1> SUFFICES ASSUME PageInv, RestInv, [Next]_vars PROVE PageInv'
    OBVIOUS
  <1>a. \A r \in Requests : RequestOK(req[r])
    BY DEF PageInv
  <1>b. \A p \in Pages : PageOK(page[p])
    BY DEF PageInv
  <1>0. ASSUME NEW p \in Pages, NEW r \in Requests, NEW x, NEW g,
               req' = [req EXCEPT ![r] = x], page' = [page EXCEPT ![p] = g],
               RequestOK(x), x.from = p, PageOK(g),
               ~g.crossed => ~page[p].crossed /\ Linked(x, g)
                             /\ \A q \in Requests : req[q].from # p
        PROVE  PageInv'
    <2>1. req'[r] = x /\ Only(r) /\ page'[p] = g /\ OnlyPage(p)
      BY <1>0 DEF Only, OnlyPage, PageInv
    <2> QED
      BY <1>0, <2>1, RequestStarts
  <1>1. ASSUME NEW p \in Pages, NEW r \in Requests, SubmitLogin(p, r) PROVE PageInv'
    <2> DEFINE x == [NoRequest EXCEPT !.kind = "login", !.from = p, !.at = "find"]
               g == [page[p] EXCEPT !.crossed = @ \/ Awaits(p)]
    <2>1. req' = [req EXCEPT ![r] = x] /\ page' = [page EXCEPT ![p] = g]
      BY <1>1 DEF SubmitLogin, Serve
    <2>2. /\ NoRequest \in RequestType
          /\ "find" \in Steps /\ "login" \in Kinds
      BY NoRequestOK DEF RequestOK, Steps, Kinds
    <2>3. /\ x \in RequestType
          /\ x.kind = "login" /\ x.from = p /\ x.at = "find"
      BY <2>2 DEF RequestType
    <2> HIDE DEF x
    <2>4. RequestOK(x)
      BY <2>3, Parameters DEF RequestOK
    <2>5. Awaits(p) \in BOOLEAN /\ PageOK(page[p])
      BY <1>b DEF Awaits
    <2>6. PageOK(g) /\ g.crossed = (page[p].crossed \/ Awaits(p))
          /\ g.token = page[p].token /\ g.fetch = page[p].fetch
      BY <2>5 DEF PageOK, PageType
    <2> HIDE DEF g
    <2>7. ~g.crossed => ~page[p].crossed /\ Linked(x, g) /\ \A q \in Requests : req[q].from # p
      BY <1>1, <2>3, <2>6 DEF SubmitLogin, Awaits, Linked
    <2> QED
      BY <1>0, <2>1, <2>3, <2>4, <2>6, <2>7
  <1>2. ASSUME NEW p \in Pages, NEW r \in Requests, NEW fetch, SendProfile(p, r, fetch)
        PROVE  PageInv'
    <2> DEFINE w == WithToken(p, "profile")
               x == [w EXCEPT !.nav = (fetch = "nav")]
               g == [page[p] EXCEPT !.fetch = @ \ {fetch}]
    <2>1. req' = [req EXCEPT ![r] = x] /\ page' = [page EXCEPT ![p] = g]
      BY <1>2 DEF SendProfile, Serve
    <2>2. PageOK(page[p]) /\ fetch \in page[p].fetch /\ page[p].token \in Token
      BY <1>2, <1>b DEF SendProfile, PageOK, PageType
    <2>3. /\ NoRequest \in RequestType /\ page[p].token.role \in Roles
          /\ "version" \in Steps /\ "profile" \in Kinds
      BY <2>2, NoRequestOK DEF RequestOK, Steps, Kinds, Token
    <2>4. /\ w \in RequestType /\ w.at = "version"
          /\ w.kind = "profile" /\ w.from = p /\ w.token = page[p].token
      BY <2>2, <2>3 DEF RequestType, WithToken
    <2> HIDE DEF w
    <2>5. (fetch = "nav") \in BOOLEAN
      OBVIOUS
    <2>6. /\ x \in RequestType /\ x.at = "version"
          /\ x.kind = "profile" /\ x.from = p /\ x.token = page[p].token
      BY <2>4, <2>5 DEF RequestType
    <2> HIDE DEF x
    <2>7. RequestOK(x)
      BY <2>2, <2>6, Parameters DEF RequestOK
    <2>8. /\ PageOK(g) /\ g.crossed = page[p].crossed /\ g.token = page[p].token
          /\ g.fetch = page[p].fetch \ {fetch}
      BY <2>2 DEF PageOK, PageType
    <2> HIDE DEF g
    <2>9. ASSUME ~g.crossed
          PROVE  ~page[p].crossed /\ Linked(x, g) /\ \A q \in Requests : req[q].from # p
      <3>1. ~page[p].crossed
        BY <2>8, <2>9
      <3>2. \A q \in Requests : req[q].from # p
        BY <2>2, <3>1 DEF PageInv, Linked
      <3>3. g.fetch = {}
        BY <2>2, <2>8, <3>1 DEF PageOK, PageType, Fetches
      <3> QED
        BY <2>6, <2>8, <3>1, <3>2, <3>3 DEF Linked
    <2> QED
      BY <1>0, <2>1, <2>6, <2>7, <2>8, <2>9
  <1>3. ASSUME NEW p \in Pages, NEW r \in Requests, NEW o \in Orgs, AskSwitch(p, r, o)
        PROVE  PageInv'
    <2> DEFINE x == [WithToken(p, "switch") EXCEPT !.target = o]
               g == [page[p] EXCEPT !.crossed = @ \/ Awaits(p)]
    <2>1. req' = [req EXCEPT ![r] = x] /\ page' = [page EXCEPT ![p] = g]
      BY <1>3 DEF AskSwitch, Serve
    <2>2. PageOK(page[p]) /\ page[p].token # None /\ page[p].token \in Token
      BY <1>3, <1>b DEF AskSwitch, PageOK, PageType
    <2>3. /\ NoRequest \in RequestType /\ page[p].token.role \in Roles
          /\ "version" \in Steps /\ "switch" \in Kinds
      BY <2>2, NoRequestOK DEF RequestOK, Steps, Kinds, Token
    <2>4. /\ x \in RequestType /\ x.at = "version"
          /\ x.kind = "switch" /\ x.from = p /\ x.token = page[p].token /\ x.target = o
      BY <2>2, <2>3 DEF RequestType, WithToken
    <2> HIDE DEF x
    <2>5. RequestOK(x)
      BY <2>2, <2>4, Parameters DEF RequestOK
    <2>6. Awaits(p) \in BOOLEAN
      BY DEF Awaits
    <2>7. PageOK(g) /\ g.crossed = (page[p].crossed \/ Awaits(p))
          /\ g.token = page[p].token /\ g.fetch = page[p].fetch
      BY <2>2, <2>6 DEF PageOK, PageType
    <2> HIDE DEF g
    <2>8. ~g.crossed => ~page[p].crossed /\ Linked(x, g) /\ \A q \in Requests : req[q].from # p
      BY <2>2, <2>4, <2>7 DEF Awaits, Linked
    <2> QED
      BY <1>0, <2>1, <2>4, <2>5, <2>7, <2>8
  <1>4. ASSUME NEW p \in Pages, SignOut(p) PROVE PageInv'
    <2> DEFINE g == [Logout(page[p]) EXCEPT !.crossed = Awaits(p)]
    <2>1. page' = [page EXCEPT ![p] = g] /\ UNCHANGED req
      BY <1>4 DEF SignOut
    <2>2. page'[p] = g /\ OnlyPage(p)
      BY <2>1 DEF OnlyPage, PageInv
    <2>3. Awaits(p) \in BOOLEAN /\ PageOK(page[p])
      BY <1>b DEF Awaits
    <2>4. PageOK(g) /\ g.crossed = Awaits(p)
      BY <2>3 DEF Logout, PageOK, PageType, Fetches
    <2> HIDE DEF g
    <2>5. g.crossed \/ \A q \in Requests : req[q].from # p
      BY <2>4 DEF Awaits
    <2> QED
      BY <2>1, <2>2, <2>4, <2>5, PageChanges
  <1>5. ASSUME NEW p \in Pages, Reload(p) PROVE PageInv'
    <2> DEFINE g == [SignedOut EXCEPT !.at = "app", !.token = page[p].token,
                                      !.fetch = {"due"}, !.covered = TRUE]
    <2>1. page' = [page EXCEPT ![p] = g]
      BY <1>5 DEF Reload
    <2>2. page'[p] = g /\ OnlyPage(p)
      BY <2>1 DEF OnlyPage, PageInv
    <2>3. page[p].token \in Token /\ page[p].token # None
      BY <1>5, <1>b DEF Reload, PageOK, PageType
    <2>4. PageOK(g)
      BY <2>3, SignedOutOK DEF PageOK, PageType, SignedOut, Fetches
    <2> HIDE DEF g
    <2>5. req' = [r \in Requests |-> IF req[r].from = p
                                     THEN [req[r] EXCEPT !.from = None] ELSE req[r]]
      BY <1>5 DEF Reload
    <2>6. req' = [q \in Requests |-> req'[q]]
      BY <2>5
    <2> QED
      BY <2>2, <2>4, <2>5, <2>6, PageLeaves
  <1>6. ASSUME NEW r \in Requests, GetVersion(r) PROVE PageInv'
    <2>1. CASE Get(version) = None
      BY <1>6, <2>1, <1>a, StepTaken DEF GetVersion, Steps, RequestOK
    <2>2. CASE Get(version) # None
      BY <1>6, <2>2, Comparing DEF GetVersion
    <2> QED
      BY <2>1, <2>2
  <1>7. ASSUME NEW r \in Requests, ReadVersion(r) PROVE PageInv'
    <2>1. CASE Alive
      <3>1. /\ req' = [req EXCEPT ![r].at = "fill", ![r].version = row.version]
            /\ UNCHANGED page /\ req[r].at = "row"
        BY <1>7, <2>1 DEF ReadVersion
      <3>2. req'[r] = [req[r] EXCEPT !.at = "fill", !.version = row.version] /\ Only(r)
        BY <3>1 DEF Only, PageInv
      <3>3. row.version \in Versions
        BY DEF RestInv, Row
      <3>4. RequestOK(req[r]) /\ req[r] \in RequestType /\ "fill" \in Steps
        BY <1>a DEF RequestOK, Steps
      <3>5. /\ req'[r] \in RequestType /\ req'[r].at = "fill"
            /\ req'[r].kind = req[r].kind /\ req'[r].from = req[r].from
            /\ req'[r].token = req[r].token /\ req'[r].target = req[r].target
        BY <3>2, <3>3, <3>4 DEF RequestType
      <3>6. req[r].kind \in {"profile", "switch"}
        BY <3>1, <3>4 DEF RequestOK
      <3>7. RequestOK(req'[r])
        BY <3>1, <3>4, <3>5, <3>6, FurtherOn
      <3> QED
        BY <3>1, <3>2, <3>5, <3>7, RequestGoesOn
    <2>2. CASE ~Alive
      BY <1>7, <2>2, Refusing DEF ReadVersion
    <2> QED
      BY <2>1, <2>2
  <1>8. ASSUME NEW r \in Requests, FillVersion(r) PROVE PageInv'
    BY <1>8, <1>a, StepTaken DEF FillVersion, Steps, RequestOK
  <1>9. ASSUME NEW r \in Requests, ExpireVersion(r) PROVE PageInv'
    BY <1>9, Comparing DEF ExpireVersion
  <1>10. ASSUME NEW r \in Requests, GetKeys(r) PROVE PageInv'
    <2>1. CASE Get(keys) = None
      BY <1>10, <2>1, StepTaken DEF GetKeys, Steps
    <2>2. CASE Get(keys) # None
      <3>1. Get(keys) \in Rights
        BY <2>2 DEF Get, RestInv, Key
      <3>2. After(req[r].kind) \in {"answer", "handler"}
        BY DEF After
      <3> QED
        BY <1>10, <2>2, <3>1, <3>2, RightsTaken DEF GetKeys, Steps
    <2> QED
      BY <2>1, <2>2
  <1>11. ASSUME NEW r \in Requests, GetIds(r) PROVE PageInv'
    <2>1. CASE Get(ids) = None
      BY <1>11, <2>1, StepTaken DEF GetIds, Steps
    <2>2. CASE Get(ids) # None
      <3>1. Get(ids) \in Rights
        BY <2>2 DEF Get, RestInv, Key
      <3> QED
        BY <1>11, <2>2, <3>1, RightsTaken DEF GetIds, Steps
    <2> QED
      BY <2>1, <2>2
  <1>12. ASSUME NEW r \in Requests, ReadRights(r) PROVE PageInv'
    <2>1. req[r].role \in Roles /\ row.override \in Override
      BY <1>a DEF RequestOK, RequestType, RestInv, Row
    <2>2. Effective(req[r].role, row.override) \in Rights
      BY <2>1, RightsOf
    <2> QED
      BY <1>12, <2>2, RightsTaken DEF ReadRights, Steps
  <1>13. ASSUME NEW r \in Requests, SetIds(r) PROVE PageInv'
    BY <1>13, StepTaken DEF SetIds, Steps
  <1>14. ASSUME NEW r \in Requests, SetKeys(r) PROVE PageInv'
    <2>1. After(req[r].kind) \in {"answer", "handler"}
      BY DEF After
    <2> QED
      BY <1>14, <2>1, StepTaken DEF SetKeys, Steps
  <1>15. ASSUME NEW r \in Requests, FindUser(r) PROVE PageInv'
    <2>1. CASE Alive
      <3>1. /\ req' = [req EXCEPT ![r].at = "read", ![r].role = row.role,
                                  ![r].target = row.org, ![r].version = row.version]
            /\ UNCHANGED page /\ req[r].at = "find"
        BY <1>15, <2>1 DEF FindUser
      <3>2. /\ req'[r] = [req[r] EXCEPT !.at = "read", !.role = row.role,
                                        !.target = row.org, !.version = row.version]
            /\ Only(r)
        BY <3>1 DEF Only, PageInv
      <3>3. row.version \in Versions /\ row.role \in Roles /\ row.org \in Orgs
        BY DEF RestInv, Row
      <3>4. RequestOK(req[r]) /\ req[r] \in RequestType /\ "read" \in Steps
        BY <1>a DEF RequestOK, Steps
      <3>5. /\ req'[r] \in RequestType /\ req'[r].at = "read"
            /\ req'[r].kind = req[r].kind /\ req'[r].from = req[r].from
            /\ req'[r].token = req[r].token /\ req'[r].target \in Orgs
        BY <3>2, <3>3, <3>4 DEF RequestType
      <3>6. RequestOK(req'[r])
        BY <3>1, <3>4, <3>5, FurtherOn
      <3> QED
        BY <3>1, <3>2, <3>5, <3>6, RequestGoesOn
    <2>2. CASE ~Alive
      <3>1. req' = Done(r) /\ UNCHANGED page /\ req[r].kind = "login"
        BY <1>15, <1>a, <2>2 DEF FindUser, RequestOK
      <3>2. Only(r) /\ req'[r] = NoRequest
        BY <3>1 DEF Done, Only, PageInv
      <3>3. req[r].from # None => req[r].from \in Pages
        BY <1>a DEF RequestOK, RequestType
      <3>4. req[r].from # None => OnlyPage(req[r].from) /\ PageOK(page'[req[r].from])
        BY <1>b, <3>1, <3>3 DEF OnlyPage, PageInv
      <3>5. RequestOK(req'[r]) /\ req'[r].from = None
        BY <3>2, NoRequestOK DEF NoRequest
      <3> QED
        BY <3>1, <3>2, <3>4, <3>5, RequestEnds
    <2> QED
      BY <2>1, <2>2
  <1>16. ASSUME NEW r \in Requests, FinishLogin(r) PROVE PageInv'
    <2> DEFINE g == page[req[r].from]
               t == Signed(r, req[r].role, "login")
               f == SignedIn(g, t)
    <2>1. req' = Done(r) /\ ToPage(r, f)
      BY <1>16 DEF FinishLogin, Answer
    <2>2. t \in Token /\ t # None
      <3>1. req[r].role \in Roles /\ req[r].version \in Versions /\ req[r].target \in Orgs
        BY <1>16, <1>a DEF FinishLogin, RequestOK, RequestType
      <3> QED
        BY <3>1, Parameters DEF Signed, Token
    <2>3. ASSUME req[r].from # None
          PROVE  PageOK(f) /\ (f.crossed \/ ~g.crossed)
      <3>1. PageOK(g) /\ (~g.crossed => g.fetch = {} /\ g.token = None)
        BY <1>16, <2>3, AwaitedOnly DEF FinishLogin, Linked
      <3> HIDE DEF g, t
      <3>2. /\ f \in PageType /\ f.at = "login" /\ f.token = t /\ f.crossed = g.crossed
            /\ f.fetch = g.fetch \cup {"nav"} /\ f.shown = g.shown
        BY <2>2, <3>1 DEF SignedIn, PageOK, PageType, Fetches
      <3> QED
        BY <2>2, <3>1, <3>2 DEF PageOK, PageType, Fetches
    <2> HIDE DEF f
    <2> QED
      BY <2>1, <2>3, Answering
  <1>17. ASSUME NEW r \in Requests, LoadProfile(r) PROVE PageInv'
    <2>1. CASE Alive
      <3>1. /\ req' = [req EXCEPT ![r].at = "keys", ![r].kind = "rights",
                                  ![r].role = row.role, ![r].rights = {}]
            /\ UNCHANGED page /\ req[r].kind = "profile" /\ req[r].at = "handler"
        BY <1>17, <2>1 DEF LoadProfile
      <3>2. /\ req'[r] = [req[r] EXCEPT !.at = "keys", !.kind = "rights",
                                        !.role = row.role, !.rights = {}]
            /\ Only(r)
        BY <3>1 DEF Only, PageInv
      <3>3. /\ row.role \in Roles /\ {} \in Rights
            /\ "keys" \in Steps /\ "rights" \in Kinds
        BY DEF RestInv, Row, Rights, Steps, Kinds
      <3>4. RequestOK(req[r]) /\ req[r] \in RequestType /\ req[r].token \in Token
        BY <1>a, <3>1 DEF RequestOK
      <3>5. /\ req'[r] \in RequestType /\ req'[r].at = "keys"
            /\ req'[r].kind = "rights" /\ req'[r].from = req[r].from
            /\ req'[r].token = req[r].token
        BY <3>2, <3>3, <3>4 DEF RequestType
      <3>6. RequestOK(req'[r])
        BY <3>4, <3>5, Parameters DEF RequestOK
      <3> QED
        BY <3>1, <3>2, <3>5, <3>6, RequestGoesOn
    <2>2. CASE ~Alive
      BY <1>17, <2>2, Failing DEF LoadProfile
    <2> QED
      BY <2>1, <2>2
  <1>18. ASSUME NEW r \in Requests, AnswerProfile(r) PROVE PageInv'
    <2> DEFINE g == page[req[r].from]
               t == req[r].token
               to == IF req[r].nav /\ g.token # None THEN "app" ELSE g.at
               f == [g EXCEPT !.at = to, !.covered = FALSE, !.due = FALSE, !.shown = t.org]
    <2>1. req' = Done(r) /\ ToPage(r, f)
      BY <1>18 DEF AnswerProfile, Answer
    <2>2. t \in Token /\ t.org \in Orgs
      BY <1>18, <1>a DEF AnswerProfile, RequestOK, RequestType, Token
    <2>3. ASSUME req[r].from # None
          PROVE  PageOK(f) /\ (f.crossed \/ ~g.crossed)
      <3>1. PageOK(g) /\ (~g.crossed => g.token = t)
        BY <1>18, <2>3, AwaitedOnly DEF AnswerProfile, Linked
      <3>2. t # None
        BY <2>2, Parameters
      <3>3. to \in {"login", "app"} /\ (to = "app" => g.token # None)
        BY <3>1 DEF PageOK, PageType
      <3> HIDE DEF g, t, to
      <3> QED
        BY <2>2, <3>1, <3>2, <3>3 DEF PageOK, PageType
    <2> HIDE DEF f
    <2> QED
      BY <2>1, <2>3, Answering
  <1>19. ASSUME NEW r \in Requests, LoadSwitch(r) PROVE PageInv'
    <2>1. CASE MaySwitch(r) /\ Alive /\ req[r].target \in Scope[row.org]
      <3>1. /\ req' = [req EXCEPT ![r].at = "answer", ![r].version = row.version,
                                  ![r].rights = {}]
            /\ UNCHANGED page /\ req[r].at = "handler"
        BY <1>19, <2>1 DEF LoadSwitch
      <3>2. /\ req'[r] = [req[r] EXCEPT !.at = "answer", !.version = row.version,
                                        !.rights = {}]
            /\ Only(r)
        BY <3>1 DEF Only, PageInv
      <3>3. row.version \in Versions /\ {} \in Rights /\ "answer" \in Steps
        BY DEF RestInv, Row, Rights, Steps
      <3>4. RequestOK(req[r]) /\ req[r] \in RequestType
        BY <1>a DEF RequestOK
      <3>5. /\ req'[r] \in RequestType /\ req'[r].at = "answer"
            /\ req'[r].kind = req[r].kind /\ req'[r].from = req[r].from
            /\ req'[r].token = req[r].token /\ req'[r].target = req[r].target
        BY <3>2, <3>3, <3>4 DEF RequestType
      <3>6. RequestOK(req'[r])
        BY <3>1, <3>4, <3>5, FurtherOn
      <3> QED
        BY <3>1, <3>2, <3>5, <3>6, RequestGoesOn
    <2>2. CASE ~(MaySwitch(r) /\ Alive /\ req[r].target \in Scope[row.org])
      BY <1>19, <2>2, Failing DEF LoadSwitch
    <2> QED
      BY <2>1, <2>2
  <1>20. ASSUME NEW r \in Requests, FinishSwitch(r) PROVE PageInv'
    <2> DEFINE g == page[req[r].from]
               t == Signed(r, req[r].token.role, "switch")
               more == AwaitsMore(r)
               h == Switched(g, t, more)
               f == [h EXCEPT !.shown = None]
    <2>1. req' = Done(r) /\ ToPage(r, f)
      BY <1>20 DEF FinishSwitch, Answer
    <2>2. t \in Token /\ t # None
      <3>1. /\ req[r].token.role \in Roles /\ req[r].version \in Versions
            /\ req[r].target \in Orgs
        BY <1>20, <1>a DEF FinishSwitch, RequestOK, RequestType, Token
      <3> QED
        BY <3>1, Parameters DEF Signed, Token
    <2>3. ASSUME req[r].from # None
          PROVE  PageOK(f) /\ (f.crossed \/ NothingElse(req[r].from, r) \/ ~g.crossed)
      <3>1. PageOK(g) /\ (~g.crossed => NothingElse(req[r].from, r) /\ g.token # None)
        BY <1>20, <2>3, AwaitedOnly DEF FinishSwitch, Linked
      <3>2. more \in BOOLEAN /\ (~more => NothingElse(req[r].from, r))
        BY DEF AwaitsMore, NothingElse
      <3>3. NothingElse(req[r].from, r) => g.fetch = {}
        BY DEF NothingElse
      <3> HIDE DEF g, t, more
      <3>4. /\ h \in PageType /\ h.token = t /\ h.at = g.at
            /\ h.crossed = (g.crossed /\ (more \/ g.token = None))
            /\ (g.token # None => h.fetch \subseteq g.fetch \cup {"due"})
        BY <2>2, <3>1, <3>2 DEF Switched, PageOK, PageType, Fetches
      <3> HIDE DEF h
      <3>5. /\ f \in PageType /\ f.token = t /\ f.at = h.at /\ f.crossed = h.crossed
            /\ f.fetch = h.fetch /\ f.shown = None
        BY <3>4 DEF PageType
      <3> HIDE DEF f
      <3>6. ~f.crossed => NothingElse(req[r].from, r) /\ g.token # None
        BY <3>1, <3>2, <3>4, <3>5
      <3>7. ~f.crossed => f.fetch \subseteq {"due"}
        BY <3>3, <3>4, <3>5, <3>6
      <3> QED
        BY <2>2, <3>5, <3>6, <3>7 DEF PageOK, Fetches
    <2> HIDE DEF f
    <2> QED
      BY <2>1, <2>3, Answering
  <1>21. ASSUME NEW r \in Requests, Rejected(r) PROVE PageInv'
    BY <1>21, Refusing, Failing DEF Rejected
  <1>22. ASSUME NEW r \in Requests, CallFails(r) \/ ExpireFails(r) PROVE PageInv'
    BY <1>21, <1>22 DEF CallFails, ExpireFails
  <1>23. ASSUME NEW r \in Requests, Timeout(r) PROVE PageInv'
    <2> DEFINE p == req[r].from
               f == Failed(page[p], req[r])
               x == [req[r] EXCEPT !.from = None]
    <2>1. p # None /\ req' = [req EXCEPT ![r] = x] /\ page' = [page EXCEPT ![p] = f]
      BY <1>23 DEF Timeout, ToPage
    <2>2. p \in Pages /\ RequestOK(req[r])
      BY <1>a, <2>1 DEF RequestOK, RequestType
    <2>3. RequestOK(x) /\ x.from = None
      BY <2>2 DEF RequestOK, RequestType
    <2> HIDE DEF x
    <2>4. PageOK(f) /\ f.crossed = page[p].crossed
      BY <2>1, FailedOK
    <2> HIDE DEF f
    <2>5. /\ req'[r] = x /\ Only(r)
          /\ OnlyPage(p) /\ page'[p] = f
      BY <2>1, <2>2 DEF Only, OnlyPage, PageInv
    <2>6. PageOK(page'[p]) /\ (page'[p].crossed \/ ~page[p].crossed)
      BY <1>b, <2>2, <2>4, <2>5 DEF PageOK, PageType
    <2> QED
      BY <2>1, <2>3, <2>5, <2>6, RequestEnds
  <1>24. ASSUME Crash PROVE PageInv'
    <2>1. ASSUME NEW r \in Requests
          PROVE  /\ RequestOK(req'[r]) /\ req'[r].from = req[r].from
                 /\ req[r].from # None => req'[r].kind = req[r].kind /\ req'[r].at = "lost"
      <3>1. CASE req[r].from = None
        BY <1>24, <3>1, NoRequestOK DEF Crash, NoRequest
      <3>2. CASE req[r].from # None
        <4> DEFINE x == [NoRequest EXCEPT !.kind = req[r].kind, !.from = req[r].from,
                                          !.nav = req[r].nav, !.at = "lost"]
        <4>1. req'[r] = x
          BY <1>24, <3>2 DEF Crash
        <4>2. /\ req[r].kind \in Kinds /\ req[r].from \in Pages \cup {None}
              /\ req[r].nav \in BOOLEAN /\ req[r].kind # None
          BY <1>a, <3>2 DEF RequestOK, RequestType
        <4>3. NoRequest \in RequestType /\ "lost" \in Steps
          BY NoRequestOK DEF RequestOK, Steps
        <4>4. /\ x \in RequestType /\ x.kind = req[r].kind /\ x.from = req[r].from
              /\ x.at = "lost"
          BY <4>2, <4>3 DEF RequestType
        <4> HIDE DEF x
        <4> QED
          BY <4>1, <4>2, <4>4 DEF RequestOK
      <3> QED
        BY <3>1, <3>2
    <2>2. req' = [r \in Requests |-> req'[r]] /\ UNCHANGED page
      BY <1>24 DEF Crash
    <2>3. req' \in [Requests -> RequestType]
      BY <2>1, <2>2 DEF RequestOK
    <2>4. ASSUME NEW r \in Requests, NEW p \in Pages, req'[r].from = p, ~page[p].crossed
          PROVE  Linked(req'[r], page[p])
      <3>1. req[r].from = p /\ req'[r].kind = req[r].kind /\ req'[r].at = "lost"
        BY <2>1, <2>4, Parameters
      <3>2. Linked(req[r], page[p])
        BY <2>4, <3>1 DEF PageInv
      <3> QED
        BY <3>1, <3>2 DEF Linked
    <2> QED
      BY <2>1, <2>2, <2>3, <2>4 DEF PageInv
  <1>25. ASSUME NEW s \in Saves,
                AskCreate(s) \/ AskDestroy(s) \/ AskUpdate(s) \/ AskView(s)
         PROVE  PageInv'
    BY <1>25, PageSame DEF AskCreate, AskDestroy, AskUpdate, AskView, StartSave
  <1>26. ASSUME NEW s \in Saves, Administers(s) PROVE PageInv'
    BY <1>26, PageSame DEF Administers, SaveUnchanged, CheckEmail, Insert, CheckRoles, Remove,
       CheckUpdate, Commit, Reread, ReadSaved, SetSaved, ReadBump, WriteBump, CacheBump
  <1>27. ASSUME NEW s \in Saves, SaveFails(s) PROVE PageInv'
    BY <1>27, PageSame DEF SaveFails
  <1>28. CASE ExpireKey
    BY <1>28, PageSame DEF ExpireKey, KeyUnchanged
  <1>29. CASE UNCHANGED vars
    BY <1>29, PageSame DEF vars
  <1>31. ASSUME NEW r \in Requests, Lose(r) PROVE PageInv'
    BY <1>31, Failing DEF Lose
  <1>30. ASSUME NEW r \in Requests, Serves(r) PROVE PageInv'
    BY <1>31, <1>30, <1>6, <1>7, <1>8, <1>9, <1>10, <1>11, <1>12, <1>13, <1>14, <1>15, <1>16,
       <1>17, <1>18, <1>19, <1>20 DEF Serves
  <1> QED
    BY <1>1, <1>2, <1>3, <1>4, <1>5, <1>22, <1>23, <1>24, <1>25, <1>26, <1>27, <1>28,
       <1>29, <1>30 DEF Next

-----------------------------------------------------------------------------
LEMMA RestInitial == Init => RestInv
  <1> SUFFICES ASSUME Init PROVE RestInv
    OBVIOUS
  <1>1. row \in Row
    BY Parameters DEF Init, Row
  <1>2. NoSave \in SaveType
    BY Parameters DEF NoSave, SaveType, SaveSteps, Rights
  <1>3. save \in [Saves -> SaveType]
    BY <1>2 DEF Init
  <1>4. \A s \in Saves : save[s].at \notin {"check", "commit"}
    BY DEF Init, NoSave
  <1>5. 0 \in 0 .. MaxEvents
    BY Parameters
  <1> QED
    BY <1>1, <1>3, <1>4, <1>5 DEF Init, RestInv, Key

LEMMA RestSame ==
    ASSUME RestInv, UNCHANGED <<row, redisVars, save, historyVars>>,
           events' \in 0 .. MaxEvents
    PROVE  RestInv'
  BY DEF RestInv, redisVars, historyVars, Key

LEMMA BumpedType ==
    ASSUME NEW v \in Versions
    PROVE  Bumped(v) \in Versions
  BY Parameters DEF Bumped, Versions

(* What the administrators' requests do to their own record.               *)
LEMMA SaveTypes ==
    ASSUME RestInv, NEW s \in Saves, NEW x \in SaveType,
           x.at \in {"check", "commit"} => x.patch \in Patches,
           save' = [save EXCEPT ![s] = x]
    PROVE  /\ save' \in [Saves -> SaveType]
           /\ \A t \in Saves : save'[t].at \in {"check", "commit"} => save'[t].patch \in Patches
  <1>1. \A t \in Saves : save'[t] = IF t = s THEN x ELSE save[t]
    BY DEF RestInv
  <1>2. save' \in [Saves -> SaveType]
    BY DEF RestInv
  <1> QED
    BY <1>1, <1>2 DEF RestInv

LEMMA SaveSteps1 ==
    ASSUME RestInv, NEW s \in Saves, NEW step \in SaveSteps,
           step \in {"check", "commit"} => save[s].at = "check",
           save' = SaveAt(s, step)
    PROVE  /\ save' \in [Saves -> SaveType]
           /\ \A t \in Saves : save'[t].at \in {"check", "commit"} => save'[t].patch \in Patches
  <1> DEFINE x == [save[s] EXCEPT !.at = step]
  <1>1. save[s] \in SaveType
    BY DEF RestInv
  <1>2. x \in SaveType /\ x.at = step /\ x.patch = save[s].patch
    BY <1>1 DEF SaveType
  <1>3. save' = [save EXCEPT ![s] = x]
    BY DEF SaveAt
  <1>4. x.at \in {"check", "commit"} => x.patch \in Patches
    BY <1>2 DEF RestInv
  <1> HIDE DEF x
  <1> QED
    BY <1>2, <1>3, <1>4, SaveTypes

LEMMA NoSaveType == NoSave \in SaveType /\ NoSave.at = "idle"
  BY Parameters DEF NoSave, SaveType, SaveSteps, Rights

LEMMA SaveEnds ==
    ASSUME RestInv, NEW s \in Saves, save' = SaveDone(s)
    PROVE  /\ save' \in [Saves -> SaveType]
           /\ \A t \in Saves : save'[t].at \in {"check", "commit"} => save'[t].patch \in Patches
  BY NoSaveType, SaveTypes DEF SaveDone

LEMMA RestStep == PageInv /\ RestInv /\ [Next]_vars => RestInv'
  <1> SUFFICES ASSUME PageInv, RestInv, [Next]_vars PROVE RestInv'
    OBVIOUS
  <1>a. \A r \in Requests : req[r] \in RequestType
    BY DEF PageInv
  <1>b. \A s \in Saves : save[s] \in SaveType
    BY DEF RestInv
  <1>d. \A cost \in Nat : Counts(cost) => events' \in 0 .. MaxEvents
    BY Parameters DEF Counts, RestInv
  <1>c. \A k : Fault(k) => faulty' \in BOOLEAN /\ events' \in 0 .. MaxEvents
    BY <1>d, Parameters DEF Fault
  <1>e. ASSUME UNCHANGED events PROVE events' \in 0 .. MaxEvents
    BY <1>e DEF RestInv
  <1>f. \A p : GoesOn(p) => events' \in 0 .. MaxEvents
    BY <1>d, <1>e, Parameters DEF GoesOn
  <1>1. ASSUME NEW p \in Pages, NEW r \in Requests,
               \/ SubmitLogin(p, r) \/ \E fetch \in Fetches : SendProfile(p, r, fetch)
               \/ \E o \in Orgs : AskSwitch(p, r, o)
        PROVE  RestInv'
    BY <1>1, <1>e, <1>f, RestSame DEF SubmitLogin, SendProfile, AskSwitch, Serve
  <1>2. ASSUME NEW p \in Pages, SignOut(p) \/ Reload(p) PROVE RestInv'
    BY <1>2, <1>f, RestSame DEF SignOut, Reload
  <1>3. ASSUME NEW r \in Requests, Serves(r) PROVE RestInv'
    <2>1. CASE GetVersion(r) \/ ReadVersion(r) \/ GetKeys(r) \/ GetIds(r) \/ ReadRights(r)
      BY <2>1, <1>e, RestSame DEF GetVersion, ReadVersion, GetKeys, GetIds, ReadRights,
         RequestUnchanged
    <2>2. CASE FindUser(r) \/ FinishLogin(r) \/ LoadProfile(r) \/ AnswerProfile(r)
                \/ LoadSwitch(r) \/ FinishSwitch(r) \/ Lose(r)
      BY <2>2, <1>e, RestSame DEF FindUser, FinishLogin, LoadProfile, AnswerProfile, LoadSwitch,
         FinishSwitch, Lose, Answer, AnswerUnchanged, RequestUnchanged
    <2>3. CASE FillVersion(r)
      <3>1. version' \in Key(Versions)
        BY <2>3, <1>a DEF FillVersion, Key, RequestType
      <3> QED
        BY <2>3, <3>1 DEF FillVersion, RequestUnchanged, RestInv, historyVars, Key
    <2>4. CASE ExpireVersion(r)
      <3>1. version' \in Key(Versions)
        BY <2>4 DEF ExpireVersion, RestInv, Key
      <3> QED
        BY <2>4, <3>1 DEF ExpireVersion, RequestUnchanged, RestInv, historyVars, Key
    <2>5. CASE SetIds(r) \/ SetKeys(r)
      <3>1. Cached(req[r].rights) \in Key(Rights)
        BY <1>a DEF Cached, Key, RequestType
      <3> QED
        BY <2>5, <3>1 DEF SetIds, SetKeys, RequestUnchanged, RestInv, historyVars
    <2> QED
      BY <1>3, <2>1, <2>2, <2>3, <2>4, <2>5 DEF Serves
  <1>4. ASSUME NEW r \in Requests, CallFails(r) \/ Timeout(r) PROVE RestInv'
    BY <1>4, <1>c DEF CallFails, Timeout, FaultUnchanged, RestInv, redisVars
  <1>5. ASSUME NEW r \in Requests, ExpireFails(r) PROVE RestInv'
    <2>1. [val |-> req[r].rights, ttl |-> FALSE] \in Key(Rights)
      BY <1>a DEF Key, RequestType
    <2>2. ids' \in Key(Rights) /\ keys' \in Key(Rights) /\ version' = version
      BY <1>5, <2>1 DEF ExpireFails, RestInv
    <2> QED
      BY <1>5, <1>c, <2>2 DEF ExpireFails, FaultUnchanged, RestInv
  <1>6. CASE Crash
    <2>1. save' = [s \in Saves |-> NoSave]
      BY <1>6 DEF Crash
    <2>2. save' \in [Saves -> SaveType] /\ \A s \in Saves : save'[s].at = "idle"
      BY <2>1, NoSaveType
    <2> QED
      BY <1>6, <1>c, <2>2 DEF Crash, FaultUnchanged, RestInv, redisVars
  <1>7. CASE ExpireKey
    BY <1>7 DEF ExpireKey, KeyUnchanged, RestInv, historyVars, Key
  <1>8. ASSUME NEW s \in Saves, NEW step \in {"email", "roles", "reread", "check"},
               NEW patch \in Patches \cup {None}, NEW admin \in Roles,
               step = "check" => patch \in Patches,
               StartSave(s, step, patch, admin)
        PROVE  RestInv'
    <2> DEFINE x == [NoSave EXCEPT !.at = step, !.patch = patch, !.admin = admin]
    <2>1. x \in SaveType /\ x.at = step /\ x.patch = patch
      BY NoSaveType DEF SaveType, SaveSteps
    <2>2. save' = [save EXCEPT ![s] = x]
      BY <1>8 DEF StartSave
    <2>3. x.at \in {"check", "commit"} => x.patch \in Patches
      BY <1>8, <2>1
    <2> HIDE DEF x
    <2>4. /\ save' \in [Saves -> SaveType]
          /\ \A t \in Saves : save'[t].at \in {"check", "commit"} => save'[t].patch \in Patches
      BY <2>1, <2>2, <2>3, SaveTypes
    <2>5. events' \in 0 .. MaxEvents
      BY <1>8, <1>d DEF StartSave
    <2> QED
      BY <1>8, <2>4, <2>5 DEF StartSave, RestInv, redisVars, historyVars
  <1>9. ASSUME NEW s \in Saves,
               AskCreate(s) \/ AskDestroy(s) \/ AskUpdate(s) \/ AskView(s)
        PROVE  RestInv'
    <2>1. CASE AskCreate(s) \/ AskDestroy(s) \/ AskView(s)
      BY <2>1, <1>8, Parameters DEF AskCreate, AskDestroy, AskView
    <2>2. CASE AskUpdate(s)
      <3>1. PICK patch \in Patches, admin \in Admins : StartSave(s, "check", patch, admin)
        BY <2>2 DEF AskUpdate
      <3> QED
        BY <1>8, <3>1, Parameters
    <2> QED
      BY <1>9, <2>1, <2>2
  <1>10. ASSUME NEW s \in Saves, SaveFails(s) PROVE RestInv'
    <2>1. save' = SaveDone(s)
      BY <1>10 DEF SaveFails
    <2> QED
      BY <1>10, <1>c, <2>1, SaveEnds DEF SaveFails, FaultUnchanged, RestInv, redisVars
  <1>11. ASSUME NEW s \in Saves, Administers(s) PROVE RestInv'
    <2>1. CASE CheckEmail(s) \/ CheckRoles(s) \/ CheckUpdate(s)
      <3>1. /\ save' \in [Saves -> SaveType]
            /\ \A t \in Saves : save'[t].at \in {"check", "commit"} => save'[t].patch \in Patches
        BY <2>1, SaveSteps1, SaveEnds DEF CheckEmail, CheckRoles, CheckUpdate, SaveSteps
      <3> QED
        BY <2>1, <3>1 DEF CheckEmail, CheckRoles, CheckUpdate, SaveUnchanged, RestInv, redisVars
    <2>2. CASE Insert(s) \/ Remove(s)
      <3>1. row' \in Row
        <4>1. CASE Insert(s)
          BY <4>1, Parameters DEF Insert, Created, RestInv
        <4>2. CASE Remove(s)
          <5>1. row' = [row EXCEPT !.life = "deleted", !.override = [allow |-> {}, deny |-> {}]]
            BY <4>2 DEF Remove, Deleted
          <5>2. [allow |-> {}, deny |-> {}] \in Override
            BY DEF Override
          <5> QED
            BY <5>1, <5>2 DEF RestInv, Row
        <4> QED
          BY <2>2, <4>1, <4>2
      <3>2. save' = SaveDone(s)
        BY <2>2 DEF Insert, Remove
      <3> QED
        BY <2>2, <3>1, <3>2, SaveEnds DEF Insert, Remove, SaveUnchanged, RestInv, redisVars
    <2>3. CASE Commit(s)
      <3>1. CASE ~Alive
        <4>1. save' = SaveDone(s) /\ UNCHANGED <<row, owed>>
          BY <2>3, <3>1 DEF Commit
        <4> QED
          BY <2>3, <4>1, SaveEnds DEF Commit, SaveUnchanged, RestInv, redisVars
      <3>2. CASE Alive
        <4> DEFINE patch == save[s].patch
        <4>1. /\ row' = Patched(patch) /\ save' = SaveAt(s, "reread")
              /\ owed' = (owed \/ ~patch.quiet)
          BY <2>3, <3>2 DEF Commit
        <4>2. patch \in Patch
          BY <2>3, Parameters DEF Commit, RestInv
        <4> HIDE DEF patch
        <4>3. /\ Kept(patch.role, row.role) \in Roles
              /\ Kept(patch.org, row.org) \in Orgs
              /\ Kept(patch.override, row.override) \in Override
          BY <4>2 DEF Kept, Patch, RestInv, Row
        <4>4. row' \in Row
          BY <4>1, <4>3 DEF Patched, RestInv, Row
        <4>5. "reread" \in SaveSteps
          BY DEF SaveSteps
        <4>6. owed' \in BOOLEAN
          BY <4>1
        <4> QED
          BY <2>3, <4>1, <4>4, <4>5, <4>6, SaveSteps1 DEF Commit, SaveUnchanged, RestInv, redisVars
      <3> QED
        BY <3>1, <3>2
    <2>4. CASE Reread(s)
      <3>1. CASE Alive
        <4> DEFINE x == [save[s] EXCEPT !.at = "rights", !.role = row.role]
        <4>1. save' = [save EXCEPT ![s] = x]
          BY <2>4, <3>1 DEF Reread
        <4>2. x \in SaveType /\ x.at = "rights"
          BY <1>b DEF SaveType, SaveSteps, RestInv, Row
        <4> HIDE DEF x
        <4> QED
          BY <2>4, <4>1, <4>2, SaveTypes DEF Reread, SaveUnchanged, RestInv, redisVars
      <3>2. CASE ~Alive
        <4>1. save' = SaveDone(s)
          BY <2>4, <3>2 DEF Reread
        <4> QED
          BY <2>4, <4>1, SaveEnds DEF Reread, SaveUnchanged, RestInv, redisVars
      <3> QED
        BY <3>1, <3>2
    <2>5. CASE ReadSaved(s)
      <3> DEFINE e == Effective(save[s].role, row.override)
                 x == [save[s] EXCEPT !.at = "ids", !.rights = e]
      <3>1. save' = [save EXCEPT ![s] = x]
        BY <2>5 DEF ReadSaved
      <3>2. save[s].role \in Roles /\ row.override \in Override
        BY <1>b DEF SaveType, RestInv, Row
      <3>3. e \in Rights
        BY <3>2, RightsOf
      <3> HIDE DEF e
      <3>4. x \in SaveType /\ x.at = "ids"
        BY <1>b, <3>3 DEF SaveType, SaveSteps
      <3> HIDE DEF x
      <3> QED
        BY <2>5, <3>1, <3>4, SaveTypes DEF ReadSaved, SaveUnchanged, RestInv, redisVars
    <2>6. CASE SetSaved(s)
      <3>1. ids' \in Key(Rights)
        BY <2>6, <1>b DEF SetSaved, Cached, Key, SaveType
      <3>2. [NoSave EXCEPT !.at = "bump"] \in SaveType /\ [NoSave EXCEPT !.at = "bump"].at = "bump"
        BY NoSaveType DEF SaveType, SaveSteps
      <3>3. /\ save' \in [Saves -> SaveType]
            /\ \A t \in Saves : save'[t].at \in {"check", "commit"} => save'[t].patch \in Patches
        BY <2>6, <3>2, SaveTypes, SaveEnds DEF SetSaved
      <3> QED
        BY <2>6, <3>1, <3>3 DEF SetSaved, SaveUnchanged, RestInv
    <2>7. CASE ReadBump(s)
      <3> DEFINE x == [save[s] EXCEPT !.at = "write", !.version = row.version]
      <3>1. x \in SaveType /\ x.at = "write"
        BY <1>b DEF SaveType, SaveSteps, RestInv, Row
      <3>2. save' = [save EXCEPT ![s] = x] \/ save' = SaveDone(s)
        BY <2>7 DEF ReadBump
      <3> HIDE DEF x
      <3>3. /\ save' \in [Saves -> SaveType]
            /\ \A t \in Saves : save'[t].at \in {"check", "commit"} => save'[t].patch \in Patches
        BY <3>1, <3>2, SaveTypes, SaveEnds
      <3>4. overlap' \in BOOLEAN
        BY <2>7 DEF ReadBump
      <3> QED
        BY <2>7, <3>3, <3>4 DEF ReadBump, SaveUnchanged, RestInv, redisVars
    <2>8. CASE WriteBump(s)
      <3> DEFINE v == Bumped(save[s].version)
                 x == [save[s] EXCEPT !.at = "cache", !.version = v]
      <3>1. v \in Versions
        BY <1>b, BumpedType DEF SaveType
      <3>2. \/ save' = SaveDone(s) /\ UNCHANGED <<row, owed, wrapped>>
            \/ /\ save' = [save EXCEPT ![s] = x] /\ row' = [row EXCEPT !.version = v]
               /\ owed' \in BOOLEAN /\ wrapped' \in BOOLEAN
        BY <2>8 DEF WriteBump
      <3> HIDE DEF v
      <3>3. x \in SaveType /\ x.at = "cache"
        BY <1>b, <3>1 DEF SaveType, SaveSteps
      <3> HIDE DEF x
      <3>4. /\ save' \in [Saves -> SaveType]
            /\ \A t \in Saves : save'[t].at \in {"check", "commit"} => save'[t].patch \in Patches
        BY <3>2, <3>3, SaveTypes, SaveEnds
      <3>5. row' \in Row /\ owed' \in BOOLEAN /\ wrapped' \in BOOLEAN
        BY <3>1, <3>2 DEF RestInv, Row
      <3> QED
        BY <2>8, <3>4, <3>5 DEF WriteBump, SaveUnchanged, RestInv, redisVars
    <2>9. CASE CacheBump(s)
      <3>1. save' = SaveDone(s) /\ version' \in Key(Versions)
        BY <2>9, <1>b DEF CacheBump, Key, SaveType
      <3> QED
        BY <2>9, <3>1, SaveEnds DEF CacheBump, SaveUnchanged, RestInv
    <2> QED
      BY <1>11, <2>1, <2>2, <2>3, <2>4, <2>5, <2>6, <2>7, <2>8, <2>9 DEF Administers
  <1>12. CASE UNCHANGED vars
    BY <1>12, <1>e, RestSame DEF vars
  <1> QED
    BY <1>1, <1>2, <1>3, <1>4, <1>5, <1>6, <1>7, <1>9, <1>10, <1>11, <1>12 DEF Next

-----------------------------------------------------------------------------
(* The types hold, and a request, a page and the two together are what     *)
(* their steps take them to be.                                            *)
LEMMA PageAndRest == Spec => [](PageInv /\ RestInv)
  BY PageInitial, RestInitial, PageStep, RestStep, PTL DEF Spec

(* The rows, keys, requests and pages are of their types, whatever is      *)
(* saved, cached, refused, lost or interrupted.                            *)
THEOREM TypeCorrect == Spec => []TypeOK
  <1>1. PageInv /\ RestInv => TypeOK
    BY DEF PageInv, RestInv, TypeOK, RequestType, PageType, SaveType, Kinds
  <1> QED
    BY <1>1, PageAndRest, PTL

(* What a page shows was fetched for the organisation of its token as long *)
(* as its user waits for each login and switch to be answered, because the *)
(* page then awaits one answer at most: no late answer, refusal, failure,  *)
(* lost connection or crash puts one organisation's data under another's   *)
(* token, and a user who did not wait is where others are after the page   *)
(* is loaded again, or signs out or has switched with nothing under way.   *)
THEOREM ShownIsForTokenCorrect == Spec => []ShownIsForToken
  <1>1. PageInv => ShownIsForToken
    BY DEF PageInv, PageOK, ShownIsForToken
  <1> QED
    BY <1>1, PageAndRest, PTL

-----------------------------------------------------------------------------
(* What a step leaves of the tokens that are signed or about to be.        *)
KeepsSigning(q) ==
    (req'[q].kind = "login" /\ req'[q].at \notin {"find", "lost"}) =>
        /\ Signing(q)
        /\ req'[q].role = req[q].role /\ req'[q].target = req[q].target
        /\ req'[q].version = req[q].version

KeepsToken(p) == page'[p].token = page[p].token \/ page'[p].token = None

KeepsTokens ==
    (\A q \in Requests : KeepsSigning(q)) /\ (\A p \in Pages : KeepsToken(p))

(* A token true for the row stays so.                                      *)
TrueAfter(role, org, v) ==
    /\ row'.life # "unborn"
    /\ ~wrapped' => /\ v <= row'.version
                    /\ v = row'.version /\ ~owed' => role = row'.role /\ org = row'.org

KeepsTrue ==
    \A role, org : \A v \in Versions : TrueFor(role, org, v) => TrueAfter(role, org, v)

LEMMA SameRowKeepsTrue ==
    ASSUME UNCHANGED <<row, owed, wrapped>>
    PROVE  KeepsTrue
  BY DEF KeepsTrue, TrueFor, TrueAfter

(* What is signed, or about to be, is signed for the row or was.           *)
LEMMA TokensTrue ==
    ASSUME PageInv, PageInv', KeepsTrue,
           \A q \in Requests : req'[q].kind = "login" /\ req'[q].at \notin {"find", "lost"} =>
              TrueFor(req'[q].role, req'[q].target, req'[q].version),
           \A p \in Pages : ByLogin(page'[p].token) =>
              TrueFor(page'[p].token.role, page'[p].token.org, page'[p].token.version)
    PROVE  TokenInv'
  <1>1. ASSUME NEW q \in Requests, Signing(q)'
        PROVE  TrueFor(req[q].role, req[q].target, req[q].version)'
    <2> DEFINE x == req'[q]
    <2>1. x.version \in Versions
      BY DEF PageInv, RequestType
    <2>2. TrueFor(x.role, x.target, x.version)
      BY <1>1 DEF Signing
    <2>3. TrueAfter(x.role, x.target, x.version)
      BY <2>1, <2>2 DEF KeepsTrue
    <2> QED
      BY <2>3 DEF TrueFor, TrueAfter
  <1>2. ASSUME NEW p \in Pages, ByLogin(page[p].token)'
        PROVE  TrueFor(page[p].token.role, page[p].token.org, page[p].token.version)'
    <2> DEFINE t == page'[p].token
    <2>1. t.version \in Versions
      BY <1>2 DEF ByLogin, PageInv, PageType, Token
    <2>2. TrueFor(t.role, t.org, t.version)
      BY <1>2 DEF ByLogin
    <2>3. TrueAfter(t.role, t.org, t.version)
      BY <2>1, <2>2 DEF KeepsTrue
    <2> QED
      BY <2>3 DEF TrueFor, TrueAfter
  <1> QED
    BY <1>1, <1>2 DEF TokenInv

LEMMA TokensKept ==
    ASSUME PageInv, PageInv', TokenInv, KeepsTrue, KeepsTokens
    PROVE  TokenInv'
  <1>1. ASSUME NEW q \in Requests, req'[q].kind = "login", req'[q].at \notin {"find", "lost"}
        PROVE  TrueFor(req'[q].role, req'[q].target, req'[q].version)
    BY <1>1 DEF KeepsTokens, KeepsSigning, TokenInv
  <1>2. ASSUME NEW p \in Pages, ByLogin(page'[p].token)
        PROVE  TrueFor(page'[p].token.role, page'[p].token.org, page'[p].token.version)
    BY <1>2 DEF KeepsTokens, KeepsToken, TokenInv, ByLogin
  <1> QED
    BY <1>1, <1>2, TokensTrue

LEMMA NoneSigned ==
    ASSUME UNCHANGED <<req, page>>
    PROVE  KeepsTokens
  BY DEF KeepsTokens, KeepsSigning, KeepsToken, Signing

LEMMA DoneKeeps ==
    ASSUME PageInv, NEW r \in Requests, req' = Done(r)
    PROVE  \A q \in Requests : KeepsSigning(q)
  BY Parameters DEF Done, KeepsSigning, Signing, PageInv, NoRequest

(* A request at a step that belongs to no login.                           *)
LEMMA OtherKeeps ==
    ASSUME PageInv, NEW r \in Requests, NEW x, req' = [req EXCEPT ![r] = x],
           x.kind # "login" \/ x.at = "find"
    PROVE  \A q \in Requests : KeepsSigning(q)
  BY DEF KeepsSigning, Signing, PageInv

(* A step of one that signs, with the role, organisation and version.      *)
LEMMA StepKeeps ==
    ASSUME PageInv, NEW r \in Requests, NEW x, req' = [req EXCEPT ![r] = x],
           x.kind = req[r].kind, req[r].at \notin {"find", "lost"},
           x.role = req[r].role, x.target = req[r].target, x.version = req[r].version
    PROVE  \A q \in Requests : KeepsSigning(q)
  BY DEF KeepsSigning, Signing, PageInv

LEMMA SamePageKeeps ==
    ASSUME UNCHANGED page
    PROVE  \A p \in Pages : KeepsToken(p)
  BY DEF KeepsToken

LEMMA OnePageKeeps ==
    ASSUME PageInv, NEW p, NEW g, page' = [page EXCEPT ![p] = g],
           g.token = page[p].token \/ g.token = None
    PROVE  \A q \in Pages : KeepsToken(q)
  BY DEF KeepsToken, PageInv

LEMMA FailKeeps ==
    ASSUME PageInv, NEW r \in Requests, Fail(r)
    PROVE  KeepsTokens
  <1>1. \A q \in Requests : KeepsSigning(q)
    BY DoneKeeps DEF Fail
  <1>2. CASE req[r].from = None
    BY <1>1, <1>2, SamePageKeeps DEF Fail, ToPage, KeepsTokens
  <1>3. CASE req[r].from # None
    <2> DEFINE p == req[r].from
               g == Failed(page[p], req[r])
    <2>1. p \in Pages
      BY <1>3 DEF PageInv, RequestType
    <2>2. page' = [page EXCEPT ![p] = g]
      BY <1>3 DEF Fail, ToPage
    <2>3. g.token = page[p].token \/ g.token = None
      BY <2>1, FailedPage DEF PageInv
    <2> HIDE DEF g, p
    <2> QED
      BY <1>1, <2>2, <2>3, OnePageKeeps DEF KeepsTokens
  <1> QED
    BY <1>2, <1>3

LEMMA RefuseKeeps ==
    ASSUME PageInv, NEW r \in Requests, Refuse(r)
    PROVE  KeepsTokens
  <1> DEFINE p == req[r].from
  <1>1. CASE p # None /\ page[p].token # None
    <2>1. /\ page' = [page EXCEPT ![p] = SignedOut]
          /\ req' = [q \in Requests |->
                      IF q = r THEN NoRequest
                      ELSE IF req[q].from = p THEN [req[q] EXCEPT !.from = None]
                      ELSE req[q]]
      BY <1>1 DEF Refuse
    <2>2. SignedOut.token = None
      BY DEF SignedOut
    <2>3. \A g \in Pages : KeepsToken(g)
      BY <2>1, <2>2, OnePageKeeps
    <2>4. ASSUME NEW q \in Requests PROVE KeepsSigning(q)
      <3>1. CASE q = r
        BY <2>1, <3>1, Parameters DEF KeepsSigning, NoRequest
      <3>2. CASE q # r /\ req[q].from = p
        <4>1. req'[q] = [req[q] EXCEPT !.from = None] /\ req[q] \in RequestType
          BY <2>1, <3>2 DEF PageInv
        <4> QED
          BY <4>1 DEF KeepsSigning, Signing, RequestType
      <3>3. CASE q # r /\ req[q].from # p
        <4>1. req'[q] = req[q]
          BY <2>1, <3>3
        <4> QED
          BY <4>1 DEF KeepsSigning, Signing
      <3> QED
        BY <3>1, <3>2, <3>3
    <2> QED
      BY <2>3, <2>4 DEF KeepsTokens
  <1>2. CASE ~(p # None /\ page[p].token # None)
    BY <1>2, FailKeeps DEF Refuse
  <1> QED
    BY <1>1, <1>2

LEMMA RejectedKeeps ==
    ASSUME PageInv, NEW r \in Requests, Rejected(r)
    PROVE  KeepsTokens
  BY RefuseKeeps, FailKeeps DEF Rejected

LEMMA CompareKeeps ==
    ASSUME PageInv, NEW r \in Requests, NEW v, Compare(r, v), req[r].at \in {"version", "ttl"}
    PROVE  KeepsTokens
  <1>1. CASE v = req[r].token.version
    <2> DEFINE x == [req[r] EXCEPT !.at = "keys", !.version = 1]
    <2>1. req' = [req EXCEPT ![r] = x] /\ UNCHANGED page
      BY <1>1 DEF Compare
    <2>2. req[r] \in RequestType /\ req[r].kind # "login"
      BY DEF PageInv, RequestOK
    <2>3. x.kind # "login"
      BY <2>2 DEF RequestType
    <2> HIDE DEF x
    <2> QED
      BY <2>1, <2>3, OtherKeeps, SamePageKeeps DEF KeepsTokens
  <1>2. CASE v # req[r].token.version
    BY <1>2, RefuseKeeps DEF Compare
  <1> QED
    BY <1>1, <1>2

(* Administrators raise the version, or owe it, when they change more than *)
(* a name.                                                                 *)
LEMMA SavesKeepTrue ==
    ASSUME RestInv, NEW s \in Saves, Administers(s)
    PROVE  KeepsTrue
  <1>1. CASE UNCHANGED <<row, owed, wrapped>>
    BY <1>1, SameRowKeepsTrue
  <1>2. CASE Insert(s)
    <2>1. CASE row.life = "unborn"
      BY <2>1 DEF KeepsTrue, TrueFor
    <2>2. CASE row.life # "unborn"
      BY <1>2, <2>2, <1>1 DEF Insert, Created
    <2> QED
      BY <2>1, <2>2
  <1>3. CASE Remove(s)
    <2>1. row' = [row EXCEPT !.life = "deleted", !.override = [allow |-> {}, deny |-> {}]]
      BY <1>3 DEF Remove, Deleted
    <2>2. /\ row'.life = "deleted" /\ row'.version = row.version
          /\ row'.role = row.role /\ row'.org = row.org
      BY <2>1 DEF RestInv, Row
    <2>3. UNCHANGED <<owed, wrapped>>
      BY <1>3 DEF Remove
    <2> QED
      BY <2>2, <2>3 DEF KeepsTrue, TrueFor, TrueAfter
  <1>4. CASE Commit(s) /\ Alive
    <2> DEFINE patch == save[s].patch
    <2>1. /\ row' = Patched(patch) /\ owed' = (owed \/ ~patch.quiet)
          /\ UNCHANGED wrapped /\ patch \in Patches
      BY <1>4 DEF Commit, RestInv
    <2>2. patch.quiet => patch.role = None /\ patch.org = None
      BY <2>1, Parameters
    <2> HIDE DEF patch
    <2>3. /\ row'.life = row.life /\ row'.version = row.version
          /\ row'.role = Kept(patch.role, row.role) /\ row'.org = Kept(patch.org, row.org)
      BY <2>1 DEF Patched, RestInv, Row
    <2>4. patch.quiet => row'.role = row.role /\ row'.org = row.org
      BY <2>2, <2>3 DEF Kept
    <2>5. owed \in BOOLEAN /\ patch.quiet \in BOOLEAN
      BY <2>1, Parameters DEF RestInv, Patch
    <2>6. ~owed' => ~owed /\ row'.role = row.role /\ row'.org = row.org
      BY <2>1, <2>4, <2>5
    <2>7. row'.life = row.life /\ row'.version = row.version /\ wrapped' = wrapped
      BY <2>1, <2>3
    <2> QED
      BY <2>6, <2>7 DEF KeepsTrue, TrueFor, TrueAfter
  <1>5. CASE WriteBump(s) /\ Alive
    <2> DEFINE v == Bumped(save[s].version)
    <2>1. /\ row' = [row EXCEPT !.version = v]
          /\ owed' = (owed /\ v = row.version)
          /\ wrapped' = (wrapped \/ v < row.version)
      BY <1>5 DEF WriteBump
    <2>2. v \in Versions /\ row.version \in Versions
      BY BumpedType DEF RestInv, SaveType, Row
    <2> HIDE DEF v
    <2>3. /\ row'.life = row.life /\ row'.role = row.role /\ row'.org = row.org
          /\ row'.version = v
      BY <2>1 DEF RestInv, Row
    <2>4. ASSUME NEW role, NEW org, NEW u \in Versions, TrueFor(role, org, u)
          PROVE  TrueAfter(role, org, u)
      <3>1. row'.life # "unborn"
        BY <2>3, <2>4 DEF TrueFor
      <3>2. ASSUME ~wrapped'
            PROVE  /\ u <= v
                   /\ u = v /\ ~owed' => role = row.role /\ org = row.org
        <4>1. ~wrapped /\ ~(v < row.version)
          BY <2>1, <3>2
        <4>2. u <= row.version
          BY <2>4, <4>1 DEF TrueFor
        <4>3. u <= v
          BY <2>2, <4>1, <4>2, Parameters DEF Versions
        <4>4. u = v => u = row.version
          BY <2>2, <4>1, <4>2, Parameters DEF Versions
        <4>5. u = v /\ ~owed' => ~owed
          BY <2>1, <4>4
        <4>6. u = v /\ ~owed' => role = row.role /\ org = row.org
          BY <2>4, <4>1, <4>4, <4>5 DEF TrueFor
        <4> QED
          BY <4>3, <4>6
      <3> QED
        BY <2>3, <3>1, <3>2 DEF TrueAfter
    <2> QED
      BY <2>4 DEF KeepsTrue
  <1>6. CASE CheckEmail(s) \/ CheckRoles(s) \/ CheckUpdate(s) \/ Reread(s) \/ ReadSaved(s)
             \/ SetSaved(s) \/ ReadBump(s) \/ CacheBump(s)
    BY <1>1, <1>6 DEF CheckEmail, CheckRoles, CheckUpdate, Reread, ReadSaved, SetSaved,
       ReadBump, CacheBump
  <1>7. CASE (Commit(s) \/ WriteBump(s)) /\ ~Alive
    BY <1>1, <1>7 DEF Commit, WriteBump
  <1> QED
    BY <1>2, <1>3, <1>4, <1>5, <1>6, <1>7 DEF Administers

LEMMA TokenInitial == Init => TokenInv
  <1> SUFFICES ASSUME Init PROVE TokenInv
    OBVIOUS
  <1>1. \A r \in Requests : ~Signing(r)
    BY Parameters DEF Init, NoRequest, Signing
  <1>2. \A p \in Pages : page[p].token = None
    BY DEF Init, SignedOut
  <1> QED
    BY <1>1, <1>2 DEF TokenInv, ByLogin

(* The steps of a request: the one that finds the user reads the row, the  *)
(* one that signs hands out what was read.                                 *)
LEMMA ServesTokens ==
    ASSUME PageInv, PageInv', RestInv, TokenInv, NEW r \in Requests, Serves(r)
    PROVE  TokenInv'
  <1>a. req[r] \in RequestType /\ RequestOK(req[r])
    BY DEF PageInv
  <1>b. UNCHANGED <<row, owed, wrapped>>
    BY DEF Serves, RequestUnchanged, historyVars, GetVersion, ReadVersion, FillVersion,
       ExpireVersion, GetKeys, GetIds, ReadRights, SetIds, SetKeys, FindUser, FinishLogin,
       LoadProfile, AnswerProfile, LoadSwitch, FinishSwitch, Lose, Answer, AnswerUnchanged
  <1>c. KeepsTrue
    BY <1>b, SameRowKeepsTrue
  <1>d. KeepsTokens => TokenInv'
    BY <1>c, TokensKept
  <1>1. ASSUME NEW step, req' = At(r, step), UNCHANGED page, req[r].at \notin {"find", "lost"}
        PROVE  TokenInv'
    <2> DEFINE x == [req[r] EXCEPT !.at = step]
    <2>1. req' = [req EXCEPT ![r] = x]
      BY <1>1 DEF At
    <2>2. /\ x.kind = req[r].kind /\ x.role = req[r].role
          /\ x.target = req[r].target /\ x.version = req[r].version
      BY <1>a DEF RequestType
    <2> HIDE DEF x
    <2> QED
      BY <1>1, <1>d, <2>1, <2>2, StepKeeps, SamePageKeeps DEF KeepsTokens
  <1>2. ASSUME NEW step, NEW rights, UNCHANGED page, req[r].at \notin {"find", "lost"},
               req' = [req EXCEPT ![r].at = step, ![r].rights = rights]
        PROVE  TokenInv'
    <2> DEFINE x == [req[r] EXCEPT !.at = step, !.rights = rights]
    <2>1. req' = [req EXCEPT ![r] = x]
      BY <1>2
    <2>2. /\ x.kind = req[r].kind /\ x.role = req[r].role
          /\ x.target = req[r].target /\ x.version = req[r].version
      BY <1>a DEF RequestType
    <2> HIDE DEF x
    <2> QED
      BY <1>2, <1>d, <2>1, <2>2, StepKeeps, SamePageKeeps DEF KeepsTokens
  <1>3. ASSUME NEW x, req' = [req EXCEPT ![r] = x], UNCHANGED page, x.kind # "login"
        PROVE  TokenInv'
    BY <1>3, <1>d, OtherKeeps, SamePageKeeps DEF KeepsTokens
  <1>4. CASE GetVersion(r)
    <2>1. CASE Get(version) = None
      BY <1>1, <1>4, <2>1 DEF GetVersion
    <2>2. CASE Get(version) # None
      BY <1>4, <1>d, <2>2, CompareKeeps DEF GetVersion
    <2> QED
      BY <2>1, <2>2
  <1>5. CASE ReadVersion(r)
    <2>1. CASE Alive
      <3> DEFINE x == [req[r] EXCEPT !.at = "fill", !.version = row.version]
      <3>1. req' = [req EXCEPT ![r] = x] /\ UNCHANGED page /\ req[r].at = "row"
        BY <1>5, <2>1 DEF ReadVersion
      <3>2. x.kind # "login"
        BY <1>a, <3>1 DEF RequestOK, RequestType
      <3> HIDE DEF x
      <3> QED
        BY <1>3, <3>1, <3>2
    <2>2. CASE ~Alive
      BY <1>5, <1>d, <2>2, RefuseKeeps DEF ReadVersion
    <2> QED
      BY <2>1, <2>2
  <1>6. CASE FillVersion(r) \/ SetIds(r) \/ SetKeys(r)
    BY <1>1, <1>6 DEF FillVersion, SetIds, SetKeys
  <1>7. CASE ExpireVersion(r)
    BY <1>7, <1>d, CompareKeeps DEF ExpireVersion
  <1>8. CASE GetKeys(r) \/ GetIds(r) \/ ReadRights(r)
    <2>1. CASE GetKeys(r)
      BY <1>1, <1>2, <2>1 DEF GetKeys
    <2>2. CASE GetIds(r)
      BY <1>1, <1>2, <2>2 DEF GetIds
    <2>3. CASE ReadRights(r)
      BY <1>2, <2>3 DEF ReadRights
    <2> QED
      BY <1>8, <2>1, <2>2, <2>3
  <1>9. CASE FindUser(r)
    <2>1. CASE Alive
      <3> DEFINE x == [req[r] EXCEPT !.at = "read", !.role = row.role,
                                     !.target = row.org, !.version = row.version]
      <3>1. req' = [req EXCEPT ![r] = x] /\ UNCHANGED page
        BY <1>9, <2>1 DEF FindUser
      <3>2. x.role = row.role /\ x.target = row.org /\ x.version = row.version
        BY <1>a DEF RequestType
      <3> HIDE DEF x
      <3>3. row.version <= row.version
        BY Parameters DEF RestInv, Row, Versions
      <3>4. TrueFor(x.role, x.target, x.version)
        BY <2>1, <3>2, <3>3 DEF Alive, TrueFor
      <3>5. ASSUME NEW q \in Requests, req'[q].kind = "login", req'[q].at \notin {"find", "lost"}
            PROVE  TrueFor(req'[q].role, req'[q].target, req'[q].version)
        <4>1. CASE q = r
          BY <3>1, <3>4, <4>1 DEF PageInv
        <4>2. CASE q # r
          BY <3>1, <3>5, <4>2 DEF PageInv, TokenInv, Signing
        <4> QED
          BY <4>1, <4>2
      <3>6. \A p \in Pages : ByLogin(page'[p].token) =>
               TrueFor(page'[p].token.role, page'[p].token.org, page'[p].token.version)
        BY <3>1 DEF TokenInv
      <3> QED
        BY <1>c, <3>5, <3>6, TokensTrue
    <2>2. CASE ~Alive
      BY <1>9, <1>d, <2>2, DoneKeeps, SamePageKeeps DEF FindUser, KeepsTokens
    <2> QED
      BY <2>1, <2>2
  <1>10. CASE FinishLogin(r)
    <2> DEFINE t == Signed(r, req[r].role, "login")
               o == page[req[r].from]
               g == SignedIn(o, t)
    <2>1. req' = Done(r) /\ ToPage(r, g)
      BY <1>10 DEF FinishLogin, Answer
    <2>2. \A q \in Requests : KeepsSigning(q)
      BY <2>1, DoneKeeps
    <2>3. CASE req[r].from = None
      BY <1>d, <2>1, <2>2, <2>3, SamePageKeeps DEF ToPage, KeepsTokens
    <2>4. CASE req[r].from # None
      <3> DEFINE p == req[r].from
      <3>1. p \in Pages
        BY <1>a, <2>4 DEF RequestType
      <3>2. page' = [page EXCEPT ![p] = g]
        BY <2>1, <2>4 DEF ToPage
      <3>3. g.token = t
        <4>1. o \in PageType
          BY <3>1 DEF PageInv
        <4> HIDE DEF o, t
        <4> QED
          BY <4>1 DEF PageType, SignedIn
      <3> HIDE DEF g
      <3>4. TrueFor(t.role, t.org, t.version)
        <4>1. Signing(r)
          BY <1>10 DEF FinishLogin, Signing
        <4>2. TrueFor(req[r].role, req[r].target, req[r].version)
          BY <4>1 DEF TokenInv
        <4> QED
          BY <4>2 DEF Signed
      <3> HIDE DEF t
      <3>5. ASSUME NEW u \in Pages, ByLogin(page'[u].token)
            PROVE  TrueFor(page'[u].token.role, page'[u].token.org, page'[u].token.version)
        <4>1. CASE u = p
          BY <3>1, <3>2, <3>3, <3>4, <4>1 DEF PageInv
        <4>2. CASE u # p
          BY <3>2, <3>5, <4>2 DEF PageInv, TokenInv, ByLogin
        <4> QED
          BY <4>1, <4>2
      <3>6. ASSUME NEW q \in Requests, req'[q].kind = "login", req'[q].at \notin {"find", "lost"}
            PROVE  TrueFor(req'[q].role, req'[q].target, req'[q].version)
        BY <2>2, <3>6 DEF KeepsSigning, TokenInv
      <3> QED
        BY <1>c, <3>5, <3>6, TokensTrue
    <2> QED
      BY <2>3, <2>4
  <1>11. CASE LoadProfile(r)
    <2>1. CASE Alive
      <3> DEFINE x == [req[r] EXCEPT !.at = "keys", !.kind = "rights",
                                     !.role = row.role, !.rights = {}]
      <3>1. req' = [req EXCEPT ![r] = x] /\ UNCHANGED page
        BY <1>11, <2>1 DEF LoadProfile
      <3>2. x.kind # "login"
        BY <1>a DEF RequestType
      <3> HIDE DEF x
      <3> QED
        BY <1>3, <3>1, <3>2
    <2>2. CASE ~Alive
      BY <1>11, <1>d, <2>2, FailKeeps DEF LoadProfile
    <2> QED
      BY <2>1, <2>2
  <1>12. CASE AnswerProfile(r)
    <2> DEFINE o == page[req[r].from]
               to == IF req[r].nav /\ o.token # None THEN "app" ELSE o.at
               g == [o EXCEPT !.at = to, !.covered = FALSE, !.due = FALSE,
                              !.shown = req[r].token.org]
    <2>1. req' = Done(r) /\ ToPage(r, g)
      BY <1>12 DEF AnswerProfile, Answer
    <2>2. CASE req[r].from = None
      BY <1>d, <2>1, <2>2, DoneKeeps, SamePageKeeps DEF ToPage, KeepsTokens
    <2>3. CASE req[r].from # None
      <3>1. page' = [page EXCEPT ![req[r].from] = g]
        BY <2>1, <2>3 DEF ToPage
      <3>2. g.token = page[req[r].from].token
        BY <1>a, <2>3 DEF RequestType, PageInv, PageType
      <3> HIDE DEF g
      <3> QED
        BY <1>d, <2>1, <3>1, <3>2, DoneKeeps, OnePageKeeps DEF KeepsTokens
    <2> QED
      BY <2>2, <2>3
  <1>13. CASE LoadSwitch(r)
    <2>1. CASE MaySwitch(r) /\ Alive /\ req[r].target \in Scope[row.org]
      <3> DEFINE x == [req[r] EXCEPT !.at = "answer", !.version = row.version, !.rights = {}]
      <3>1. req' = [req EXCEPT ![r] = x] /\ UNCHANGED page /\ req[r].kind = "switch"
        BY <1>13, <2>1 DEF LoadSwitch
      <3>2. x.kind # "login"
        BY <1>a, <3>1 DEF RequestType
      <3> HIDE DEF x
      <3> QED
        BY <1>3, <3>1, <3>2
    <2>2. CASE ~(MaySwitch(r) /\ Alive /\ req[r].target \in Scope[row.org])
      BY <1>13, <1>d, <2>2, FailKeeps DEF LoadSwitch
    <2> QED
      BY <2>1, <2>2
  <1>14. CASE FinishSwitch(r)
    <2> DEFINE t == Signed(r, req[r].token.role, "switch")
               o == page[req[r].from]
               more == AwaitsMore(r)
               g == [Switched(o, t, more) EXCEPT !.shown = None]
    <2>1. req' = Done(r) /\ ToPage(r, g)
      BY <1>14 DEF FinishSwitch, Answer
    <2>2. \A q \in Requests : KeepsSigning(q)
      BY <2>1, DoneKeeps
    <2>3. CASE req[r].from = None
      BY <1>d, <2>1, <2>2, <2>3, SamePageKeeps DEF ToPage, KeepsTokens
    <2>4. CASE req[r].from # None
      <3> DEFINE p == req[r].from
      <3>1. p \in Pages
        BY <1>a, <2>4 DEF RequestType
      <3>2. page' = [page EXCEPT ![p] = g]
        BY <2>1, <2>4 DEF ToPage
      <3>3. g.token = t
        <4>1. o \in PageType
          BY <3>1 DEF PageInv
        <4> HIDE DEF o, t, more
        <4> QED
          BY <4>1 DEF PageType, Switched
      <3>4. ~ByLogin(t)
        BY DEF Signed, ByLogin
      <3> HIDE DEF g, t
      <3>5. ASSUME NEW u \in Pages, ByLogin(page'[u].token)
            PROVE  TrueFor(page'[u].token.role, page'[u].token.org, page'[u].token.version)
        <4>1. u # p
          BY <3>1, <3>2, <3>3, <3>4, <3>5 DEF PageInv
        <4> QED
          BY <3>2, <3>5, <4>1 DEF PageInv, TokenInv
      <3>6. ASSUME NEW q \in Requests, req'[q].kind = "login", req'[q].at \notin {"find", "lost"}
            PROVE  TrueFor(req'[q].role, req'[q].target, req'[q].version)
        BY <2>2, <3>6 DEF KeepsSigning, TokenInv
      <3> QED
        BY <1>c, <3>5, <3>6, TokensTrue
    <2> QED
      BY <2>3, <2>4
  <1>15. CASE Lose(r)
    BY <1>15, <1>d, FailKeeps DEF Lose
  <1> QED
    BY <1>15, <1>4, <1>5, <1>6, <1>7, <1>8, <1>9, <1>10, <1>11, <1>12, <1>13, <1>14 DEF Serves

LEMMA TokenStep == PageInv /\ PageInv' /\ RestInv /\ TokenInv /\ [Next]_vars => TokenInv'
  <1> SUFFICES ASSUME PageInv, PageInv', RestInv, TokenInv, [Next]_vars PROVE TokenInv'
    OBVIOUS
  <1>d. KeepsTokens /\ UNCHANGED <<row, owed, wrapped>> => TokenInv'
    BY SameRowKeepsTrue, TokensKept
  <1>e. UNCHANGED <<req, page, row, owed, wrapped>> => TokenInv'
    BY <1>d, NoneSigned
  <1>0. ASSUME NEW p, NEW r \in Requests, NEW x, NEW g,
               req' = [req EXCEPT ![r] = x], page' = [page EXCEPT ![p] = g],
               UNCHANGED <<row, owed, wrapped>>,
               x.kind # "login" \/ x.at = "find", g.token = page[p].token
        PROVE  TokenInv'
    BY <1>0, <1>d, OtherKeeps, OnePageKeeps DEF KeepsTokens
  <1>1. ASSUME NEW p \in Pages, NEW r \in Requests,
               \/ SubmitLogin(p, r) \/ \E fetch \in Fetches : SendProfile(p, r, fetch)
               \/ \E o \in Orgs : AskSwitch(p, r, o)
        PROVE  TokenInv'
    <2>0. page[p] \in PageType
      BY DEF PageInv
    <2>1. UNCHANGED <<row, owed, wrapped>>
      BY <1>1 DEF SubmitLogin, SendProfile, AskSwitch, Serve, historyVars
    <2> DEFINE c == [page[p] EXCEPT !.crossed = @ \/ Awaits(p)]
    <2>2. c.token = page[p].token
      BY <2>0 DEF PageType
    <2>3. CASE SubmitLogin(p, r)
      <3> DEFINE x == [NoRequest EXCEPT !.kind = "login", !.from = p, !.at = "find"]
      <3>1. req' = [req EXCEPT ![r] = x] /\ x.at = "find" /\ page' = [page EXCEPT ![p] = c]
        BY <2>3 DEF SubmitLogin, Serve, NoRequest
      <3> HIDE DEF x, c
      <3> QED
        BY <1>0, <2>1, <2>2, <3>1
    <2>4. ASSUME NEW fetch, SendProfile(p, r, fetch) PROVE TokenInv'
      <3> DEFINE x == [WithToken(p, "profile") EXCEPT !.nav = (fetch = "nav")]
                 g == [page[p] EXCEPT !.fetch = @ \ {fetch}]
      <3>1. req' = [req EXCEPT ![r] = x] /\ x.kind # "login" /\ page' = [page EXCEPT ![p] = g]
        BY <2>4 DEF SendProfile, Serve, WithToken, NoRequest
      <3>2. g.token = page[p].token
        BY <2>0 DEF PageType
      <3> HIDE DEF x, g
      <3> QED
        BY <1>0, <2>1, <3>1, <3>2
    <2>5. ASSUME NEW o \in Orgs, AskSwitch(p, r, o) PROVE TokenInv'
      <3> DEFINE x == [WithToken(p, "switch") EXCEPT !.target = o]
      <3>1. req' = [req EXCEPT ![r] = x] /\ x.kind # "login" /\ page' = [page EXCEPT ![p] = c]
        BY <2>5 DEF AskSwitch, Serve, WithToken, NoRequest
      <3> HIDE DEF x, c
      <3> QED
        BY <1>0, <2>1, <2>2, <3>1
    <2> QED
      BY <1>1, <2>3, <2>4, <2>5
  <1>2. ASSUME NEW p \in Pages, SignOut(p) PROVE TokenInv'
    <2> DEFINE g == [Logout(page[p]) EXCEPT !.crossed = Awaits(p)]
    <2>1. page' = [page EXCEPT ![p] = g]
      BY <1>2 DEF SignOut
    <2>2. g.token = None
      BY DEF Logout, PageInv, PageType
    <2> HIDE DEF g
    <2>3. UNCHANGED <<req, row, owed, wrapped>>
      BY <1>2 DEF SignOut, historyVars
    <2> QED
      BY <1>d, <2>1, <2>2, <2>3, OnePageKeeps DEF KeepsTokens, KeepsSigning, Signing
  <1>3. ASSUME NEW p \in Pages, Reload(p) PROVE TokenInv'
    <2> DEFINE g == [SignedOut EXCEPT !.at = "app", !.token = page[p].token,
                                      !.fetch = {"due"}, !.covered = TRUE]
    <2>1. page' = [page EXCEPT ![p] = g] /\ g.token = page[p].token
      BY <1>3 DEF Reload, SignedOut
    <2> HIDE DEF g
    <2>2. UNCHANGED <<row, owed, wrapped>>
      BY <1>3 DEF Reload, historyVars
    <2>3. ASSUME NEW q \in Requests PROVE KeepsSigning(q)
      <3>1. req'[q] = IF req[q].from = p THEN [req[q] EXCEPT !.from = None] ELSE req[q]
        BY <1>3 DEF Reload
      <3>2. req[q] \in RequestType
        BY DEF PageInv
      <3> QED
        BY <3>1, <3>2 DEF KeepsSigning, Signing, RequestType
    <2> QED
      BY <1>d, <2>1, <2>2, <2>3, OnePageKeeps DEF KeepsTokens
  <1>4. ASSUME NEW r \in Requests, CallFails(r) \/ ExpireFails(r) PROVE TokenInv'
    <2>1. Rejected(r) /\ UNCHANGED <<row, owed, wrapped>>
      BY <1>4 DEF CallFails, ExpireFails, FaultUnchanged
    <2> QED
      BY <1>d, <2>1, RejectedKeeps
  <1>5. ASSUME NEW r \in Requests, Timeout(r) PROVE TokenInv'
    <2> DEFINE p == req[r].from
               g == Failed(page[p], req[r])
               x == [req[r] EXCEPT !.from = None]
    <2>1. /\ req' = [req EXCEPT ![r] = x] /\ page' = [page EXCEPT ![p] = g] /\ p # None
          /\ UNCHANGED <<row, owed, wrapped>>
      BY <1>5 DEF Timeout, ToPage, FaultUnchanged
    <2>2. req[r] \in RequestType /\ p \in Pages /\ PageOK(page[p])
      BY <2>1 DEF PageInv, RequestType
    <2>3. g.token = page[p].token \/ g.token = None
      BY <2>2, FailedPage
    <2>4. \A q \in Requests : KeepsSigning(q)
      BY <2>1, <2>2 DEF KeepsSigning, Signing, PageInv, RequestType
    <2> HIDE DEF g, p
    <2> QED
      BY <1>d, <2>1, <2>3, <2>4, OnePageKeeps DEF KeepsTokens
  <1>6. CASE Crash
    <2>1. ASSUME NEW q \in Requests PROVE KeepsSigning(q)
      <3>1. req'[q].kind = None \/ req'[q].at = "lost"
        BY <1>6 DEF Crash, NoRequest
      <3> QED
        BY <3>1, Parameters DEF KeepsSigning
    <2>2. \A p \in Pages : KeepsToken(p)
      BY <1>6, SamePageKeeps DEF Crash
    <2> QED
      BY <1>6, <1>d, <2>1, <2>2 DEF Crash, FaultUnchanged, KeepsTokens
  <1>7. ASSUME NEW s \in Saves,
               AskCreate(s) \/ AskDestroy(s) \/ AskUpdate(s) \/ AskView(s) \/ SaveFails(s)
        PROVE  TokenInv'
    BY <1>7, <1>e DEF AskCreate, AskDestroy, AskUpdate, AskView, StartSave, SaveFails,
       FaultUnchanged, historyVars
  <1>8. ASSUME NEW s \in Saves, Administers(s) PROVE TokenInv'
    <2>1. UNCHANGED <<req, page>>
      BY <1>8 DEF Administers, SaveUnchanged, CheckEmail, Insert, CheckRoles, Remove,
         CheckUpdate, Commit, Reread, ReadSaved, SetSaved, ReadBump, WriteBump, CacheBump
    <2> QED
      BY <1>8, <2>1, SavesKeepTrue, NoneSigned, TokensKept
  <1>9. CASE ExpireKey
    BY <1>9, <1>e DEF ExpireKey, KeyUnchanged, historyVars
  <1>10. CASE UNCHANGED vars
    BY <1>10, <1>e DEF vars, historyVars
  <1> QED
    BY <1>1, <1>2, <1>3, <1>4, <1>5, <1>6, <1>7, <1>8, <1>9, <1>10, ServesTokens DEF Next

(* A token that a login signed for the version the row has now carries the *)
(* role and the organisation the row has now, whatever the row becomes     *)
(* between the calls of the login, unless a change is committed whose      *)
(* version is not written or a smaller version came back.                  *)
THEOREM CurrentTokensAreTrueCorrect == Spec => []CurrentTokensAreTrue
  <1>1. TokenInv => CurrentTokensAreTrue
    BY DEF TokenInv, TrueFor, ByLogin, CurrentTokensAreTrue
  <1>2. Spec => []TokenInv
    BY PageAndRest, TokenInitial, TokenStep, PTL DEF Spec
  <1> QED
    BY <1>1, <1>2, PTL

-----------------------------------------------------------------------------
(* A step after which the key is no worse than before: it raises no        *)
(* version, and leaves the request or the save that mends the key at its   *)
(* step, or it is a fault.                                                 *)
KeepsBumping ==
    /\ UNCHANGED overlap
    /\ row'.version = row.version /\ (row'.life = "unborn" => row.life = "unborn")
    /\ \A s \in Saves : save'[s].at \in {"write", "cache"} =>
          save'[s].at = save[s].at /\ save'[s].version = save[s].version
    /\ \A r \in Requests :
          req'[r].at = "fill" => req[r].at = "fill" \/ row'.life # "unborn"

KeepsMending ==
    /\ faulty' = faulty
    /\ \A s \in Saves : save[s].at = "cache" => save'[s].at = "cache"
    /\ \A r \in Requests : req[r].at = "ttl" => req'[r].at = "ttl"

LEMMA KeyKept ==
    ASSUME KeyInv, KeepsBumping,
           \/ version' = None
           \/ version # None /\ version' # None /\ version'.ttl
           \/ version' = version /\ (KeepsMending \/ faulty')
    PROVE  KeyInv'
  <1>1. ASSUME ~overlap'
        PROVE  /\ \A s, t \in Saves : Bumping(s)' /\ Bumping(t)' => s = t
               /\ \A s \in Saves : save'[s].at = "cache" => save'[s].version = row'.version
    BY <1>1 DEF KeyInv, KeepsBumping, Bumping
  <1>2. ASSUME row'.life = "unborn"
        PROVE  /\ version' = None
               /\ \A s \in Saves : ~Bumping(s)'
               /\ \A r \in Requests : req'[r].at # "fill"
    BY <1>2 DEF KeyInv, KeepsBumping, Bumping
  <1>3. CASE version' = None \/ version'.ttl \/ faulty'
    BY <1>1, <1>2, <1>3 DEF KeyInv, VersionKeyFollows, StaleForGood
  <1>4. CASE version' = version /\ KeepsMending
    <2>1. StaleForGood' => StaleForGood
      BY <1>4 DEF KeepsBumping, StaleForGood
    <2>2. VersionKeyFollows'
      BY <1>4, <2>1 DEF KeyInv, VersionKeyFollows, KeepsBumping, KeepsMending
    <2> QED
      BY <1>1, <1>2, <2>2 DEF KeyInv
  <1> QED
    BY <1>3, <1>4

(* Nothing of the administrators moves, nor the row or the overlap.        *)
LEMMA NoBumping ==
    ASSUME UNCHANGED <<overlap, row, save>>,
           \A r \in Requests : req'[r].at = "fill" => req[r].at = "fill" \/ row.life # "unborn"
    PROVE  KeepsBumping
  BY DEF KeepsBumping

LEMMA KeySame ==
    ASSUME KeyInv, UNCHANGED <<row, version, req, save, overlap, faulty>>
    PROVE  KeyInv'
  BY KeyKept DEF KeepsBumping, KeepsMending

(* Where the requests are after an answer.                                 *)
Answered(r) ==
    \A q \in Requests : req'[q].at = IF q = r THEN "idle" ELSE req[q].at

LEMMA RefuseSteps ==
    ASSUME PageInv, NEW r \in Requests, Refuse(r)
    PROVE  Answered(r)
  <1> SUFFICES ASSUME NEW q \in Requests
               PROVE  req'[q].at = IF q = r THEN "idle" ELSE req[q].at
    BY DEF Answered
  <1>1. \/ q = r /\ req'[q] = NoRequest
        \/ q # r /\ req'[q] = [req[q] EXCEPT !.from = None]
        \/ q # r /\ req'[q] = req[q]
    BY DEF Refuse, Fail, Done, PageInv
  <1>2. req[q] \in RequestType
    BY DEF PageInv
  <1> QED
    BY <1>1, <1>2 DEF NoRequest, RequestType

LEMMA FailSteps ==
    ASSUME PageInv, NEW r \in Requests, Fail(r)
    PROVE  Answered(r)
  BY DEF Fail, Done, PageInv, NoRequest, Answered

LEMMA RejectedSteps ==
    ASSUME PageInv, NEW r \in Requests, Rejected(r)
    PROVE  Answered(r)
  BY RefuseSteps, FailSteps DEF Rejected

(* The request r leaves a step other than the EXPIRE of the version.       *)
LEMMA RequestMoves ==
    ASSUME KeyInv, NEW r \in Requests, req[r].at # "ttl",
           \A q \in Requests \ {r} : req'[q].at = req[q].at,
           req'[r].at = "fill" => row.life # "unborn",
           UNCHANGED <<row, version, save, overlap, faulty>>
    PROVE  KeyInv'
  <1>1. KeepsBumping
    BY NoBumping
  <1>2. KeepsMending
    BY DEF KeepsMending
  <1> QED
    BY <1>1, <1>2, KeyKept

(* The administrator's request s leaves a step other than the SET of the   *)
(* version, and comes to one that neither writes nor caches it.            *)
LEMMA SaveMoves ==
    ASSUME KeyInv, RestInv, NEW s \in Saves, NEW x, save' = [save EXCEPT ![s] = x],
           x.at \notin {"write", "cache"}, save[s].at # "cache",
           UNCHANGED <<version, req, overlap, faulty>>,
           row'.version = row.version, row'.life = "unborn" => row.life = "unborn"
    PROVE  KeyInv'
  <1>1. \A t \in Saves : save'[t] = IF t = s THEN x ELSE save[t]
    BY DEF RestInv
  <1>2. KeepsBumping
    BY <1>1 DEF KeepsBumping
  <1>3. KeepsMending
    BY <1>1 DEF KeepsMending
  <1> QED
    BY <1>2, <1>3, KeyKept

LEMMA KeyInitial == Init => KeyInv
  <1> SUFFICES ASSUME Init PROVE KeyInv
    OBVIOUS
  <1>1. \A s \in Saves : save[s].at = "idle"
    BY DEF Init, NoSave
  <1>2. \A r \in Requests : req[r].at = "idle"
    BY DEF Init, NoRequest
  <1> QED
    BY <1>1, <1>2 DEF Init, KeyInv, Bumping, VersionKeyFollows, StaleForGood

LEMMA ServesKey ==
    ASSUME PageInv, RestInv, KeyInv, NEW r \in Requests, Serves(r)
    PROVE  KeyInv'
  <1>a. UNCHANGED <<row, save, overlap, faulty>>
    BY DEF Serves, RequestUnchanged, historyVars, GetVersion, ReadVersion, FillVersion,
       ExpireVersion, GetKeys, GetIds, ReadRights, SetIds, SetKeys, FindUser, FinishLogin,
       LoadProfile, AnswerProfile, LoadSwitch, FinishSwitch, Lose, Answer, AnswerUnchanged
  <1>b. req[r] \in RequestType
    BY DEF PageInv
  <1>c. ASSUME NEW x, req' = [req EXCEPT ![r] = x], x.at # "fill", req[r].at # "ttl",
               UNCHANGED version
        PROVE  KeyInv'
    BY <1>a, <1>c, RequestMoves DEF PageInv
  <1>d. ASSUME Answered(r), req[r].at # "ttl", UNCHANGED version PROVE KeyInv'
    BY <1>a, <1>d, RequestMoves DEF Answered
  <1>e. ASSUME NEW step, req' = At(r, step), step # "fill", req[r].at # "ttl",
               UNCHANGED version
        PROVE  KeyInv'
    <2> DEFINE x == [req[r] EXCEPT !.at = step]
    <2>1. req' = [req EXCEPT ![r] = x] /\ x.at = step
      BY <1>b, <1>e DEF At, RequestType
    <2> HIDE DEF x
    <2> QED
      BY <1>c, <1>e, <2>1
  <1>f. ASSUME req' = Done(r), req[r].at # "ttl", UNCHANGED version PROVE KeyInv'
    <2>1. req' = [req EXCEPT ![r] = NoRequest] /\ NoRequest.at # "fill"
      BY <1>f DEF Done, NoRequest
    <2> QED
      BY <1>c, <1>f, <2>1
  <1>g. ASSUME NEW v, Compare(r, v)
        PROVE  \A q \in Requests : req'[q].at = IF q # r THEN req[q].at
                                                ELSE IF v = req[r].token.version THEN "keys"
                                                ELSE "idle"
    <2>1. CASE v = req[r].token.version
      <3>1. req' = [req EXCEPT ![r].at = "keys", ![r].version = 1]
        BY <1>g, <2>1 DEF Compare
      <3>2. req'[r] = [req[r] EXCEPT !.at = "keys", !.version = 1]
            /\ \A q \in Requests \ {r} : req'[q] = req[q]
        BY <3>1 DEF PageInv
      <3>3. req'[r].at = "keys"
        BY <1>b, <3>2 DEF RequestType
      <3> QED
        BY <2>1, <3>2, <3>3
    <2>2. CASE v # req[r].token.version
      BY <1>g, <2>2, RefuseSteps DEF Compare, Answered
    <2> QED
      BY <2>1, <2>2
  <1>1. CASE GetVersion(r)
    <2>1. CASE Get(version) = None
      BY <1>1, <1>e, <2>1 DEF GetVersion, redisVars
    <2>2. CASE Get(version) # None
      <3>1. Compare(r, Get(version)) /\ req[r].at = "version" /\ UNCHANGED version
        BY <1>1, <2>2 DEF GetVersion, redisVars
      <3> QED
        BY <1>a, <1>g, <3>1, RequestMoves
    <2> QED
      BY <2>1, <2>2
  <1>2. CASE ReadVersion(r)
    <2>1. CASE Alive
      <3>1. /\ req' = [req EXCEPT ![r].at = "fill", ![r].version = row.version]
            /\ req[r].at = "row" /\ UNCHANGED version
        BY <1>2, <2>1 DEF ReadVersion, redisVars
      <3>2. \A q \in Requests \ {r} : req'[q] = req[q]
        BY <3>1 DEF PageInv
      <3>3. row.life # "unborn"
        BY <2>1 DEF Alive
      <3> QED
        BY <1>a, <3>1, <3>2, <3>3, RequestMoves
    <2>2. CASE ~Alive
      BY <1>2, <1>d, <2>2, RefuseSteps DEF ReadVersion, redisVars
    <2> QED
      BY <2>1, <2>2
  <1>3. CASE FillVersion(r)
    <2>1. req' = [req EXCEPT ![r].at = "ttl"] /\ req[r].at = "fill"
      BY <1>3 DEF FillVersion, At
    <2>2. req'[r].at = "ttl" /\ \A q \in Requests \ {r} : req'[q] = req[q]
      BY <1>b, <2>1 DEF PageInv, RequestType
    <2>3. row.life # "unborn"
      BY <2>1 DEF KeyInv
    <2>4. VersionKeyFollows'
      BY <2>2 DEF VersionKeyFollows
    <2> QED
      BY <1>a, <2>3, <2>4 DEF KeyInv, Bumping
  <1>4. CASE ExpireVersion(r)
    <2>1. /\ version' = IF version = None THEN None ELSE [version EXCEPT !.ttl = TRUE]
          /\ Compare(r, req[r].version)
      BY <1>4 DEF ExpireVersion
    <2>2. version' = None \/ (version # None /\ version'.ttl /\ version' # None)
      <3>1. CASE version = None
        BY <2>1, <3>1
      <3>2. CASE version # None
        <4>1. version' = [version EXCEPT !.ttl = TRUE]
          BY <2>1, <3>2
        <4>2. version'.ttl
          BY <3>2, <4>1 DEF RestInv, Key
        <4> QED
          BY <3>2, <4>2
      <3> QED
        BY <3>1, <3>2
    <2>3. KeepsBumping
      BY <1>a, <1>g, <2>1, NoBumping
    <2> QED
      BY <2>2, <2>3, KeyKept
  <1>5. CASE GetKeys(r)
    <2>1. CASE Get(keys) = None
      BY <1>5, <1>e, <2>1 DEF GetKeys, redisVars
    <2>2. CASE Get(keys) # None
      <3> DEFINE x == [req[r] EXCEPT !.at = After(req[r].kind), !.rights = Get(keys)]
      <3>1. req' = [req EXCEPT ![r] = x] /\ req[r].at = "keys" /\ UNCHANGED version
        BY <1>5, <2>2 DEF GetKeys, redisVars
      <3>2. x.at # "fill"
        BY <1>b DEF RequestType, After
      <3> HIDE DEF x
      <3> QED
        BY <1>c, <3>1, <3>2
    <2> QED
      BY <2>1, <2>2
  <1>6. CASE GetIds(r)
    <2>1. CASE Get(ids) = None
      BY <1>6, <1>e, <2>1 DEF GetIds, redisVars
    <2>2. CASE Get(ids) # None
      <3> DEFINE x == [req[r] EXCEPT !.at = "setKeys", !.rights = Get(ids)]
      <3>1. req' = [req EXCEPT ![r] = x] /\ req[r].at = "ids" /\ UNCHANGED version
        BY <1>6, <2>2 DEF GetIds, redisVars
      <3>2. x.at # "fill"
        BY <1>b DEF RequestType
      <3> HIDE DEF x
      <3> QED
        BY <1>c, <3>1, <3>2
    <2> QED
      BY <2>1, <2>2
  <1>7. CASE ReadRights(r)
    <2> DEFINE x == [req[r] EXCEPT !.at = "setIds",
                                   !.rights = Effective(req[r].role, row.override)]
    <2>1. req' = [req EXCEPT ![r] = x] /\ req[r].at = "read" /\ UNCHANGED version
      BY <1>7 DEF ReadRights, redisVars
    <2>2. x.at # "fill"
      BY <1>b DEF RequestType
    <2> HIDE DEF x
    <2> QED
      BY <1>c, <2>1, <2>2
  <1>8. CASE SetIds(r) \/ SetKeys(r)
    <2>1. After(req[r].kind) # "fill"
      BY DEF After
    <2> QED
      BY <1>8, <1>e, <2>1 DEF SetIds, SetKeys
  <1>9. CASE FindUser(r)
    <2>1. CASE Alive
      <3> DEFINE x == [req[r] EXCEPT !.at = "read", !.role = row.role,
                                     !.target = row.org, !.version = row.version]
      <3>1. req' = [req EXCEPT ![r] = x] /\ req[r].at = "find" /\ UNCHANGED version
        BY <1>9, <2>1 DEF FindUser, AnswerUnchanged, redisVars
      <3>2. x.at # "fill"
        BY <1>b DEF RequestType
      <3> HIDE DEF x
      <3> QED
        BY <1>c, <3>1, <3>2
    <2>2. CASE ~Alive
      BY <1>9, <1>f, <2>2 DEF FindUser, AnswerUnchanged, redisVars
    <2> QED
      BY <2>1, <2>2
  <1>10. CASE FinishLogin(r) \/ AnswerProfile(r) \/ FinishSwitch(r)
    BY <1>10, <1>f DEF FinishLogin, AnswerProfile, FinishSwitch, Answer, AnswerUnchanged,
       redisVars
  <1>11. CASE LoadProfile(r)
    <2>1. CASE Alive
      <3> DEFINE x == [req[r] EXCEPT !.at = "keys", !.kind = "rights",
                                     !.role = row.role, !.rights = {}]
      <3>1. req' = [req EXCEPT ![r] = x] /\ req[r].at = "handler" /\ UNCHANGED version
        BY <1>11, <2>1 DEF LoadProfile, AnswerUnchanged, redisVars
      <3>2. x.at # "fill"
        BY <1>b DEF RequestType
      <3> HIDE DEF x
      <3> QED
        BY <1>c, <3>1, <3>2
    <2>2. CASE ~Alive
      BY <1>11, <1>d, <2>2, FailSteps DEF LoadProfile, AnswerUnchanged, redisVars
    <2> QED
      BY <2>1, <2>2
  <1>12. CASE LoadSwitch(r)
    <2>1. CASE MaySwitch(r) /\ Alive /\ req[r].target \in Scope[row.org]
      <3> DEFINE x == [req[r] EXCEPT !.at = "answer", !.version = row.version, !.rights = {}]
      <3>1. req' = [req EXCEPT ![r] = x] /\ req[r].at = "handler" /\ UNCHANGED version
        BY <1>12, <2>1 DEF LoadSwitch, AnswerUnchanged, redisVars
      <3>2. x.at # "fill"
        BY <1>b DEF RequestType
      <3> HIDE DEF x
      <3> QED
        BY <1>c, <3>1, <3>2
    <2>2. CASE ~(MaySwitch(r) /\ Alive /\ req[r].target \in Scope[row.org])
      BY <1>12, <1>d, <2>2, FailSteps DEF LoadSwitch, AnswerUnchanged, redisVars
    <2> QED
      BY <2>1, <2>2
  <1>13. CASE Lose(r)
    BY <1>13, <1>d, FailSteps DEF Lose, AnswerUnchanged, redisVars
  <1> QED
    BY <1>1, <1>2, <1>3, <1>4, <1>5, <1>6, <1>7, <1>8, <1>9, <1>10, <1>11, <1>12, <1>13 DEF Serves

(* Two saves that are both past reading the version overlap; one alone     *)
(* caches what it wrote.                                                   *)
LEMMA AdministersKey ==
    ASSUME PageInv, RestInv, KeyInv, NEW s \in Saves, Administers(s)
    PROVE  KeyInv'
  <1>a. UNCHANGED <<req, faulty>>
    BY DEF Administers, SaveUnchanged, CheckEmail, Insert, CheckRoles, Remove,
       CheckUpdate, Commit, Reread, ReadSaved, SetSaved, ReadBump, WriteBump, CacheBump
  <1>b. save[s] \in SaveType
    BY DEF RestInv
  <1>c. ASSUME NEW step, save' = SaveAt(s, step) \/ save' = SaveDone(s),
               step \notin {"write", "cache"}, save[s].at # "cache",
               UNCHANGED <<version, overlap>>,
               row'.version = row.version, row'.life = "unborn" => row.life = "unborn"
        PROVE  KeyInv'
    <2> DEFINE x == [save[s] EXCEPT !.at = step]
    <2>1. x.at = step /\ (save' = SaveAt(s, step) => save' = [save EXCEPT ![s] = x])
      BY <1>b DEF SaveAt, SaveType
    <2>2. NoSave.at = "idle" /\ (save' = SaveDone(s) => save' = [save EXCEPT ![s] = NoSave])
      BY DEF SaveDone, NoSave
    <2> HIDE DEF x
    <2> QED
      BY <1>a, <1>c, <2>1, <2>2, SaveMoves
  <1>1. CASE CheckEmail(s) \/ CheckRoles(s) \/ CheckUpdate(s)
    BY <1>1, <1>c DEF CheckEmail, CheckRoles, CheckUpdate, redisVars
  <1>2. CASE Insert(s)
    <2>1. save' = SaveDone(s) /\ UNCHANGED <<version, overlap>> /\ save[s].at = "insert"
      BY <1>2 DEF Insert, redisVars
    <2>2. CASE row.life # "unborn"
      BY <1>2, <1>c, <2>1, <2>2 DEF Insert, Created
    <2>3. CASE row.life = "unborn"
      <3>1. row'.life # "unborn"
        BY <1>2, <2>3, Parameters DEF Insert, Created
      <3>2. \A t \in Saves : ~Bumping(t)'
        BY <2>1, <2>3 DEF SaveDone, NoSave, KeyInv, Bumping, RestInv
      <3>3. version' = None
        BY <2>1, <2>3 DEF KeyInv
      <3> QED
        BY <3>1, <3>2, <3>3 DEF KeyInv, Bumping, VersionKeyFollows, StaleForGood
    <2> QED
      BY <2>2, <2>3
  <1>3. CASE Remove(s)
    <2>1. row' = [row EXCEPT !.life = "deleted", !.override = [allow |-> {}, deny |-> {}]]
      BY <1>3 DEF Remove, Deleted
    <2>2. row'.version = row.version /\ row'.life = "deleted"
      BY <2>1 DEF RestInv, Row
    <2> QED
      BY <1>3, <1>c, <2>2 DEF Remove, redisVars
  <1>4. CASE Commit(s)
    <2>1. row'.version = row.version /\ row'.life = row.life
      <3>1. CASE Alive
        <4>1. row' = Patched(save[s].patch)
          BY <1>4, <3>1 DEF Commit
        <4> QED
          BY <4>1 DEF Patched, RestInv, Row
      <3>2. CASE ~Alive
        BY <1>4, <3>2 DEF Commit
      <3> QED
        BY <3>1, <3>2
    <2>2. save' = SaveAt(s, "reread") \/ save' = SaveDone(s)
      BY <1>4 DEF Commit
    <2> QED
      BY <1>4, <1>c, <2>1, <2>2 DEF Commit, redisVars
  <1>5. CASE Reread(s)
    <2>1. CASE Alive
      <3> DEFINE x == [save[s] EXCEPT !.at = "rights", !.role = row.role]
      <3>1. save' = [save EXCEPT ![s] = x] /\ save[s].at = "reread"
            /\ UNCHANGED <<row, version, overlap>>
        BY <1>5, <2>1 DEF Reread, redisVars
      <3>2. x.at = "rights"
        BY <1>b DEF SaveType
      <3> HIDE DEF x
      <3> QED
        BY <1>a, <3>1, <3>2, SaveMoves
    <2>2. CASE ~Alive
      BY <1>5, <1>c, <2>2 DEF Reread, redisVars
    <2> QED
      BY <2>1, <2>2
  <1>6. CASE ReadSaved(s)
    <2> DEFINE x == [save[s] EXCEPT !.at = "ids",
                                    !.rights = Effective(save[s].role, row.override)]
    <2>1. save' = [save EXCEPT ![s] = x] /\ save[s].at = "rights"
          /\ UNCHANGED <<row, version, overlap>>
      BY <1>6 DEF ReadSaved, redisVars
    <2>2. x.at = "ids"
      BY <1>b DEF SaveType
    <2> HIDE DEF x
    <2> QED
      BY <1>a, <2>1, <2>2, SaveMoves
  <1>7. CASE SetSaved(s)
    <2> DEFINE x == [NoSave EXCEPT !.at = "bump"]
    <2>1. /\ save' = SaveDone(s) \/ save' = [save EXCEPT ![s] = x]
          /\ save[s].at = "ids" /\ UNCHANGED <<row, version, overlap>>
      BY <1>7 DEF SetSaved
    <2>2. x.at = "bump"
      BY DEF NoSave
    <2> HIDE DEF x
    <2>3. CASE save' = SaveDone(s)
      BY <1>c, <2>1, <2>3
    <2>4. CASE save' = [save EXCEPT ![s] = x]
      BY <1>a, <2>1, <2>2, <2>4, SaveMoves
    <2> QED
      BY <2>1, <2>3, <2>4
  <1>8. CASE ReadBump(s)
    <2> DEFINE x == [save[s] EXCEPT !.at = "write", !.version = row.version]
    <2>0. /\ save[s].at = "bump" /\ UNCHANGED <<row, version>>
          /\ overlap' = (overlap \/ \E t \in Saves : Bumping(t))
      BY <1>8 DEF ReadBump, redisVars, Bumping
    <2>1. CASE Alive
      <3>1. save' = [save EXCEPT ![s] = x]
        BY <1>8, <2>1 DEF ReadBump
      <3>2. x.at = "write"
        BY <1>b DEF SaveType
      <3> HIDE DEF x
      <3>3. \A t \in Saves : save'[t] = IF t = s THEN x ELSE save[t]
        BY <3>1 DEF RestInv
      <3>4. ASSUME ~overlap'
            PROVE  /\ \A t, u \in Saves : Bumping(t)' /\ Bumping(u)' => t = u
                   /\ \A t \in Saves : save'[t].at # "cache"
        <4>1. \A t \in Saves : ~Bumping(t)
          BY <2>0, <3>4
        <4> QED
          BY <3>2, <3>3, <4>1 DEF Bumping
      <3>5. row'.life # "unborn"
        BY <2>0, <2>1 DEF Alive
      <3>6. VersionKeyFollows'
        <4>1. \A t \in Saves : save[t].at = "cache" => save'[t].at = "cache"
          BY <2>0, <3>3
        <4>2. overlap => overlap'
          BY <2>0
        <4>3. UNCHANGED <<row, version, req, faulty>>
          BY <1>a, <2>0
        <4> QED
          BY <4>1, <4>2, <4>3 DEF KeyInv, VersionKeyFollows, StaleForGood
      <3> QED
        BY <3>4, <3>5, <3>6 DEF KeyInv
    <2>2. CASE ~Alive
      <3>1. save' = [save EXCEPT ![s] = NoSave] /\ NoSave.at = "idle"
        BY <1>8, <2>2 DEF ReadBump, SaveDone, NoSave
      <3>2. \A t \in Saves : save'[t] = IF t = s THEN NoSave ELSE save[t]
        BY <3>1 DEF RestInv
      <3>3. \A t \in Saves : Bumping(t)' => Bumping(t) /\ save'[t] = save[t]
        BY <3>1, <3>2 DEF Bumping
      <3>4. overlap => overlap'
        BY <2>0
      <3>5. VersionKeyFollows'
        <4>1. \A t \in Saves : save[t].at = "cache" => save'[t].at = "cache"
          BY <2>0, <3>2
        <4>2. UNCHANGED <<row, version, req, faulty>>
          BY <1>a, <2>0
        <4> QED
          BY <3>4, <4>1, <4>2 DEF KeyInv, VersionKeyFollows, StaleForGood
      <3>6. ASSUME ~overlap'
            PROVE  /\ \A t, u \in Saves : Bumping(t)' /\ Bumping(u)' => t = u
                   /\ \A t \in Saves : save'[t].at = "cache" => save'[t].version = row'.version
        <4>1. \A t \in Saves : save'[t].at = "cache" => Bumping(t)'
          BY DEF Bumping
        <4> QED
          BY <2>0, <3>3, <3>4, <3>6, <4>1 DEF KeyInv
      <3>7. ASSUME row'.life = "unborn"
            PROVE  /\ version' = None /\ \A t \in Saves : ~Bumping(t)'
                   /\ \A r \in Requests : req'[r].at # "fill"
        BY <1>a, <2>0, <3>3, <3>7 DEF KeyInv
      <3> QED
        BY <3>5, <3>6, <3>7 DEF KeyInv
    <2> QED
      BY <2>1, <2>2
  <1>9. CASE WriteBump(s)
    <2>1. CASE Alive
      <3> DEFINE v == Bumped(save[s].version)
                 x == [save[s] EXCEPT !.at = "cache", !.version = v]
      <3>1. /\ row' = [row EXCEPT !.version = v] /\ save' = [save EXCEPT ![s] = x]
            /\ save[s].at = "write" /\ UNCHANGED overlap
        BY <1>9, <2>1 DEF WriteBump
      <3>2. row'.version = v /\ row'.life = row.life
        BY <3>1 DEF RestInv, Row
      <3>3. x.at = "cache" /\ x.version = v
        BY <1>b DEF SaveType
      <3> HIDE DEF x, v
      <3>4. \A t \in Saves : save'[t] = IF t = s THEN x ELSE save[t]
        BY <3>1 DEF RestInv
      <3>5. \A t \in Saves : Bumping(t)' = Bumping(t)
        BY <3>1, <3>3, <3>4 DEF Bumping
      <3>6. ASSUME ~overlap'
            PROVE  /\ \A t, u \in Saves : Bumping(t)' /\ Bumping(u)' => t = u
                   /\ \A t \in Saves : save'[t].at = "cache" => save'[t].version = row'.version
        <4>1. Bumping(s) /\ \A t \in Saves : save'[t].at = "cache" => Bumping(t)'
          BY <3>1 DEF Bumping
        <4>2. \A t, u \in Saves : Bumping(t)' /\ Bumping(u)' => t = u
          BY <3>1, <3>5, <3>6 DEF KeyInv
        <4>3. \A t \in Saves : save'[t].at = "cache" => t = s
          BY <3>5, <4>1, <4>2
        <4> QED
          BY <3>2, <3>3, <3>4, <4>2, <4>3
      <3>7. row'.life # "unborn"
        BY <2>1, <3>2 DEF Alive
      <3>8. VersionKeyFollows'
        BY <3>3, <3>4 DEF VersionKeyFollows
      <3> QED
        BY <3>6, <3>7, <3>8 DEF KeyInv
    <2>2. CASE ~Alive
      BY <1>9, <1>c, <2>2 DEF WriteBump, redisVars
    <2> QED
      BY <2>1, <2>2
  <1>10. CASE CacheBump(s)
    <2>1. /\ version' = [val |-> save[s].version, ttl |-> FALSE]
          /\ save' = [save EXCEPT ![s] = NoSave] /\ NoSave.at = "idle"
          /\ save[s].at = "cache" /\ UNCHANGED <<row, overlap>>
      BY <1>10 DEF CacheBump, SaveDone, NoSave
    <2>2. \A t \in Saves : save'[t] = IF t = s THEN NoSave ELSE save[t]
      BY <2>1 DEF RestInv
    <2>3. \A t \in Saves : Bumping(t)' => Bumping(t) /\ save'[t] = save[t]
      BY <2>1, <2>2 DEF Bumping
    <2>4. row.life # "unborn"
      BY <2>1 DEF KeyInv, Bumping
    <2>5. ~overlap' => ~StaleForGood'
      <3>1. ~overlap => save[s].version = row.version
        BY <2>1 DEF KeyInv
      <3> QED
        BY <2>1, <3>1 DEF StaleForGood
    <2>6. ASSUME ~overlap'
          PROVE  /\ \A t, u \in Saves : Bumping(t)' /\ Bumping(u)' => t = u
                 /\ \A t \in Saves : save'[t].at = "cache" => save'[t].version = row'.version
      <3>1. \A t \in Saves : save'[t].at = "cache" => Bumping(t)'
        BY DEF Bumping
      <3> QED
        BY <2>1, <2>3, <2>6, <3>1 DEF KeyInv
    <2> QED
      BY <2>1, <2>4, <2>5, <2>6 DEF KeyInv, VersionKeyFollows
  <1> QED
    BY <1>1, <1>2, <1>3, <1>4, <1>5, <1>6, <1>7, <1>8, <1>9, <1>10 DEF Administers

LEMMA KeyStep == PageInv /\ RestInv /\ KeyInv /\ [Next]_vars => KeyInv'
  <1> SUFFICES ASSUME PageInv, RestInv, KeyInv, [Next]_vars PROVE KeyInv'
    OBVIOUS
  <1>a. \A k : Fault(k) => faulty'
    BY DEF Fault
  <1>1. ASSUME NEW p \in Pages, NEW r \in Requests,
               \/ SubmitLogin(p, r) \/ \E fetch \in Fetches : SendProfile(p, r, fetch)
               \/ \E o \in Orgs : AskSwitch(p, r, o)
        PROVE  KeyInv'
    <2>1. PICK x : Serve(r, x) /\ x.at # "fill"
      <3>1. CASE SubmitLogin(p, r)
        <4>1. [NoRequest EXCEPT !.kind = "login", !.from = p, !.at = "find"].at # "fill"
          BY DEF NoRequest
        <4> QED
          BY <3>1, <4>1 DEF SubmitLogin
      <3>2. ASSUME NEW fetch, SendProfile(p, r, fetch)
            PROVE  \E x : Serve(r, x) /\ x.at # "fill"
        <4>1. [WithToken(p, "profile") EXCEPT !.nav = (fetch = "nav")].at # "fill"
          BY DEF WithToken, NoRequest
        <4> QED
          BY <3>2, <4>1 DEF SendProfile
      <3>3. ASSUME NEW o \in Orgs, AskSwitch(p, r, o)
            PROVE  \E x : Serve(r, x) /\ x.at # "fill"
        <4>1. [WithToken(p, "switch") EXCEPT !.target = o].at # "fill"
          BY DEF WithToken, NoRequest
        <4> QED
          BY <3>3, <4>1 DEF AskSwitch
      <3> QED
        BY <1>1, <3>1, <3>2, <3>3
    <2>2. /\ req' = [req EXCEPT ![r] = x]
          /\ UNCHANGED <<row, version, save, overlap, faulty>>
      BY <2>1 DEF Serve, redisVars, historyVars
    <2>3. req[r].at # "ttl"
      BY <2>1, Parameters DEF Serve, PageInv, RequestOK
    <2>4. req'[r] = x /\ \A q \in Requests \ {r} : req'[q] = req[q]
      BY <2>2 DEF PageInv
    <2> QED
      BY <2>1, <2>2, <2>3, <2>4, RequestMoves
  <1>2. ASSUME NEW p \in Pages, SignOut(p) PROVE KeyInv'
    BY <1>2, KeySame DEF SignOut, redisVars, historyVars
  <1>3. ASSUME NEW p \in Pages, Reload(p) PROVE KeyInv'
    <2>1. UNCHANGED <<row, version, save, overlap, faulty>>
      BY <1>3 DEF Reload, redisVars, historyVars
    <2>2. \A q \in Requests : req'[q].at = req[q].at
      BY <1>3 DEF Reload, PageInv, RequestType
    <2>3. KeepsBumping /\ KeepsMending
      BY <2>1, <2>2, NoBumping DEF KeepsMending
    <2> QED
      BY <2>1, <2>3, KeyKept
  <1>4. ASSUME NEW r \in Requests, CallFails(r) \/ ExpireFails(r) PROVE KeyInv'
    <2>1. /\ Rejected(r) /\ faulty'
          /\ UNCHANGED <<row, version, save, overlap>>
      BY <1>4, <1>a DEF CallFails, ExpireFails, FaultUnchanged, redisVars
    <2>2. \A q \in Requests : req'[q].at = "idle" \/ req'[q].at = req[q].at
      BY <2>1, RejectedSteps DEF Answered
    <2>3. KeepsBumping
      BY <2>1, <2>2, NoBumping
    <2> QED
      BY <2>1, <2>3, KeyKept
  <1>5. ASSUME NEW r \in Requests, Timeout(r) PROVE KeyInv'
    <2>1. /\ req' = [req EXCEPT ![r].from = None] /\ faulty'
          /\ UNCHANGED <<row, version, save, overlap>>
      BY <1>5, <1>a DEF Timeout, FaultUnchanged, redisVars
    <2>2. \A q \in Requests : req'[q].at = req[q].at
      BY <2>1 DEF PageInv, RequestType
    <2>3. KeepsBumping
      BY <2>1, <2>2, NoBumping
    <2> QED
      BY <2>1, <2>3, KeyKept
  <1>6. CASE Crash
    <2>1. faulty' /\ UNCHANGED <<row, version, overlap>>
      BY <1>6, <1>a DEF Crash, FaultUnchanged, redisVars
    <2>2. \A r \in Requests : req'[r].at # "fill"
      BY <1>6 DEF Crash, NoRequest
    <2>3. \A s \in Saves : save'[s].at = "idle"
      BY <1>6 DEF Crash, NoSave
    <2>4. KeepsBumping
      BY <2>1, <2>2, <2>3 DEF KeepsBumping
    <2> QED
      BY <2>1, <2>4, KeyKept
  <1>7. CASE ExpireKey
    <2>1. /\ version' = None \/ version' = version
          /\ UNCHANGED <<row, req, save, overlap, faulty>>
      BY <1>7 DEF ExpireKey, KeyUnchanged, historyVars
    <2>2. KeepsBumping /\ KeepsMending
      BY <2>1, NoBumping DEF KeepsMending
    <2> QED
      BY <2>1, <2>2, KeyKept
  <1>8. ASSUME NEW s \in Saves, NEW step \in {"email", "roles", "reread", "check"},
               NEW patch, NEW admin, StartSave(s, step, patch, admin)
        PROVE  KeyInv'
    <2> DEFINE x == [NoSave EXCEPT !.at = step, !.patch = patch, !.admin = admin]
    <2>1. /\ save' = [save EXCEPT ![s] = x] /\ save[s].at = "idle"
          /\ UNCHANGED <<row, version, req, overlap, faulty>>
      BY <1>8 DEF StartSave, redisVars, historyVars
    <2>2. x.at = step
      BY DEF NoSave
    <2> HIDE DEF x
    <2> QED
      BY <2>1, <2>2, SaveMoves
  <1>9. ASSUME NEW s \in Saves,
               AskCreate(s) \/ AskDestroy(s) \/ AskUpdate(s) \/ AskView(s)
        PROVE  KeyInv'
    BY <1>8, <1>9 DEF AskCreate, AskDestroy, AskUpdate, AskView
  <1>10. ASSUME NEW s \in Saves, SaveFails(s) PROVE KeyInv'
    <2>1. /\ save' = [save EXCEPT ![s] = NoSave] /\ NoSave.at = "idle" /\ faulty'
          /\ UNCHANGED <<row, version, req, overlap>>
      BY <1>10, <1>a DEF SaveFails, SaveDone, NoSave, FaultUnchanged, redisVars
    <2>2. KeepsBumping
      BY <2>1 DEF KeepsBumping, RestInv
    <2> QED
      BY <2>1, <2>2, KeyKept
  <1>11. CASE UNCHANGED vars
    BY <1>11, KeySame DEF vars, redisVars, historyVars
  <1> QED
    BY <1>1, <1>2, <1>3, <1>4, <1>5, <1>6, <1>7, <1>9, <1>10, <1>11, ServesKey,
       AdministersKey DEF Next

(* The version in Redis that requests are compared with is behind the row  *)
(* for good only when two saves overlapped or a call failed: a save that   *)
(* reads, writes and caches alone leaves it the row's, and what a request  *)
(* filled in meanwhile expires.                                            *)
THEOREM VersionKeyFollowsCorrect == Spec => []VersionKeyFollows
  <1>1. KeyInv => VersionKeyFollows
    BY DEF KeyInv
  <1>2. Spec => []KeyInv
    BY PageAndRest, KeyInitial, KeyStep, PTL DEF Spec
  <1> QED
    BY <1>1, <1>2, PTL
=============================================================================
