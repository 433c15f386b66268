--------------------------- MODULE Organisations ---------------------------
(* OrganisationController: the tree of organisations, the path the trigger *)
(* trg_set_org_path keeps per row, and the hash iotrack.live:organisations *)
(* of Redis, which access profiles and the lookup of API keys read.  The   *)
(* backend writes the hash after the row, unawaited but for a creation;    *)
(* the parser and the replay service each replace it from the table, when  *)
(* they start and every minute.                                            *)
EXTENDS Tables

CONSTANTS
    Copiers,        \* the services that copy the table to the hash
    MaxFaults       \* bound on failures

ASSUME FaultBound == MaxFaults \in Nat

VARIABLES
    hash,           \* the hash: a row per organisation
    jobs,           \* writes of the hash nobody waits for
    sync,           \* rows per service that it has selected, or NoRow
    crossed,        \* organisations written while another write was under way
    deep,           \* organisations two or more levels below one that moved
    failures        \* how many failures there have been

hashVars == <<hash, jobs, sync, crossed, deep, failures>>
orgVars  == <<rowVars, callVars, hashVars>>

HashInit ==
    /\ hash = org
    /\ jobs = {} /\ sync = [s \in Copiers |-> NoRow]
    /\ crossed = {} /\ deep = {} /\ failures = 0

(* Services whose copy of the table is on its way to the hash.             *)
Copying == {s \in Copiers : sync[s] # NoRow}

(* A failure, and the copies, count against the budget too.                *)
Fails ==
    /\ "failure" \in left.ops
    /\ failures < MaxFaults
    /\ failures' = failures + 1

OrgOps == {"newOrg", "org", "noOrgs"}

(* A write of table or hash is under way, besides the request c.           *)
Pending(c) ==
    \/ jobs # {} \/ Copying # {}
    \/ \E e \in Calls \ {c} : call[e].op \in OrgOps

Cross(c, S) == crossed' = crossed \cup (IF Pending(c) THEN S ELSE {})

-----------------------------------------------------------------------------
(* app.set_organisation_path, which overrides any path the statement sets. *)
PathUnder(o, p, t) == IF p = None THEN <<o>> ELSE Append(t[p].path, o)

(* The database starts with the paths its trigger gives.                   *)
ASSUME StartPaths ==
    \A o \in Below(InitOrg) : InitOrg[o].path = PathUnder(o, InitOrg[o].parent, InitOrg)

Children(o) == {x \in OrgRows : org[x].parent = o}

(* What hangs below o, o included, whatever is above it.                   *)
Subtree(o) == Under(o, org) \cap OrgRows

FarBelow(o) == Subtree(o) \ ({o} \cup Children(o))

(* Mutant of Repathed: the rest of the tree keeps its paths.               *)
RepathedNot(t, early) == t

(* Organisation.updatePaths, one UPDATE of every row below a root.  The    *)
(* trigger takes the parent's path as it is when the row's turn comes: of  *)
(* the rows in early it is still the old one.  (The paths in a tree that   *)
(* was cut off from the root, which nobody can change any more, are left   *)
(* out.)                                                                   *)
Repathed(t, early) ==
    LET New[o \in Below(t)] ==
            IF t[o].parent = None THEN <<o>>
            ELSE Append(IF o \in early THEN t[t[o].parent].path
                        ELSE New[t[o].parent], o)
    IN  [o \in Orgs |-> IF o \in Below(t) THEN [t[o] EXCEPT !.path = New[o]]
                        ELSE t[o]]

-----------------------------------------------------------------------------
(* OrganisationController.store *)
AskNewOrg(c, who, p) ==
    /\ Ask(c, [op |-> "newOrg", step |-> "check", by |-> who, parent |-> p])
    /\ UNCHANGED <<rowVars, hashVars>>

CheckNewOrg(c) ==
    /\ At(c, "newOrg", "check")
    /\ UNCHANGED hashVars
    /\ IF call[c].parent \in Scope
       THEN Goes(c, [call[c] EXCEPT !.step = "insert"]) /\ UNCHANGED rowVars
       ELSE Refuse(c)

(* Organisation.create *)
NewOrg(o, p) == [parent |-> p, path |-> PathUnder(o, p, org)]

InsertOrg(c) ==
    LET p   == call[c].parent
        o   == NextId(Orgs)
        row == NewOrg(o, p) IN
    /\ At(c, "newOrg", "insert")
    /\ fresh \cap Orgs # {}
    /\ UNCHANGED <<hash, jobs, sync, failures>>
    /\ IF org[p] # NoRow
       THEN /\ org' = [org EXCEPT ![o] = row]
            /\ fresh' = fresh \ {o}
            /\ deep' = IF p \in deep THEN deep \cup {o} ELSE deep
            /\ Cross(c, {o})
            /\ UNCHANGED <<asset, device, group, user>>
            /\ Goes(c, [op |-> "newOrg", step |-> "hadd", by |-> call[c].by,
                        parent |-> p, id |-> o, row |-> row])
       ELSE Refuse(c) /\ UNCHANGED <<crossed, deep>>

(* The awaited hadd, and the answer.                                       *)
HashNewOrg(c) ==
    /\ At(c, "newOrg", "hadd")
    /\ hash' = [hash EXCEPT ![call[c].id] = call[c].row]
    /\ Cross(c, {call[c].id})
    /\ UNCHANGED <<rowVars, jobs, sync, deep, failures>>
    /\ Answers(c, [o \in {call[c].id} |-> call[c].row])

(* Redis fails: 500, and the row is there.                                 *)
HashNewOrgFails(c) ==
    /\ At(c, "newOrg", "hadd")
    /\ Fails
    /\ crossed' = crossed \cup {call[c].id}
    /\ UNCHANGED <<rowVars, hash, jobs, sync, deep>>
    /\ Answers(c, Refused)

-----------------------------------------------------------------------------
(* OrganisationController.update: a new parent, none, or another field.    *)
AskOrg(c, who, o, p) ==
    /\ Ask(c, [op |-> "org", step |-> "check", by |-> who, id |-> o, parent |-> p])
    /\ UNCHANGED <<rowVars, hashVars>>

CheckOrg(c) ==
    LET o == call[c].id IN
    /\ At(c, "org", "check")
    /\ UNCHANGED hashVars
    /\ IF o \in OrgRows \ {Root, Archive} /\ o \in Scope
       THEN Goes(c, [call[c] EXCEPT !.step = "write"]) /\ UNCHANGED rowVars
       ELSE Refuse(c)

(* Organisation.updateByID *)
Reparented(k) == [org EXCEPT ![k.id] = NewOrg(k.id, k.parent)]

(* The transaction.  The organisations answered, and written to the hash,  *)
(* are those below this one (computeAccessibleOrganisationIds runs outside *)
(* the transaction, but its own subtree does not depend on its parent).    *)
WriteOrg(c) ==
    LET k == call[c] IN
    /\ At(c, "org", "write")
    /\ UNCHANGED <<hash, sync, failures>>
    /\ IF org[k.id] # NoRow /\ (k.parent \in {Keep, None} \/ org[k.parent] # NoRow)
       THEN /\ IF k.parent = Keep
               THEN UNCHANGED <<org, deep>>
               ELSE /\ \E early \in SUBSET (Below(Reparented(k)) \ {Root}) :
                           org' = Repathed(Reparented(k), early)
                    /\ deep' = deep \cup FarBelow(k.id)
                                    \cup (IF k.parent \in deep THEN Subtree(k.id) ELSE {})
            /\ jobs' = jobs \cup {[o \in Subtree(k.id) |-> org'[o]]}
            /\ Cross(c, Subtree(k.id))
            /\ UNCHANGED <<asset, device, group, user, fresh>>
            /\ Answers(c, [o \in Subtree(k.id) |-> org'[o]])
       ELSE Refuse(c) /\ UNCHANGED <<jobs, crossed, deep>>

-----------------------------------------------------------------------------
(* OrganisationController.destroy *)
AskNoOrgs(c, who, S) ==
    /\ Ask(c, [op |-> "noOrgs", step |-> "check", by |-> who, ids |-> S])
    /\ UNCHANGED <<rowVars, hashVars>>

CheckNoOrgs(c) ==
    LET S == call[c].ids IN
    /\ At(c, "noOrgs", "check")
    /\ UNCHANGED hashVars
    /\ IF /\ S \cap OrgRows # {}
          /\ S \cap {Root, Archive} = {}
          /\ \A o \in S : Children(o) = {}
       THEN Goes(c, [call[c] EXCEPT !.step = "delete"]) /\ UNCHANGED rowVars
       ELSE Refuse(c)

(* Mutant of Forget: nobody tells Redis.                                   *)
ForgetNot(S) == jobs

(* The hdel of what was deleted.                                           *)
Forget(S) == jobs \cup {[o \in S |-> NoRow]}

(* deleteMany: a child of somebody else's making stops it, or a user (ON   *)
(* DELETE RESTRICT).  It waits for rows the update of an asset has locked. *)
DeleteOrgs(c) ==
    LET S == call[c].ids IN
    /\ At(c, "noOrgs", "delete")
    /\ \A o \in S : ~Locked(o)
    /\ \A a \in AssetRows : asset[a] \in S => ~Locked(a)
    /\ \A d \in DeviceRows : device[d].org \in S => ~Locked(d)
    /\ UNCHANGED <<hash, sync, deep, failures>>
    /\ IF /\ \A o \in S : Children(o) \subseteq S
          /\ \A u \in UserRows : user[u].org \notin S
       THEN /\ org' = Without(org, S)
            /\ Archived(S)
            /\ jobs' = Forget(S)
            /\ Cross(c, S)
            /\ UNCHANGED <<group, user, fresh>>
            /\ Answers(c, S)
       ELSE Refuse(c) /\ UNCHANGED <<jobs, crossed>>

-----------------------------------------------------------------------------
(* The unawaited hadd of the next organisation (in some order), or hdel.   *)
HashJob(j) ==
    LET o == CHOOSE x \in DOMAIN j : TRUE IN
    /\ hash' = [hash EXCEPT ![o] = j[o]]
    /\ jobs' = (jobs \ {j}) \cup
               (IF DOMAIN j = {o} THEN {} ELSE {[x \in DOMAIN j \ {o} |-> j[x]]})
    /\ UNCHANGED <<rowVars, callVars, sync, crossed, deep, failures>>

(* Redis fails: the loop ends.                                             *)
HashJobFails(j) ==
    /\ Fails
    /\ jobs' = jobs \ {j}
    /\ crossed' = crossed \cup DOMAIN j
    /\ UNCHANGED <<rowVars, callVars, hash, sync, deep>>

(* A service's sync: SELECT, then the Lua script that replaces the hash.   *)
(* While nothing is written it would change nothing.                       *)
SelectOrgs(s) ==
    /\ "sync" \in left.ops
    /\ s \notin Copying
    /\ hash # org \/ jobs # {} \/ Copying # {} \/ \E c \in Calls : call[c].op \in OrgOps
    /\ sync' = [sync EXCEPT ![s] = org]
    /\ UNCHANGED <<rowVars, callVars, hash, jobs, crossed, deep, failures>>

ReplaceOrgs(s) ==
    /\ s \in Copying
    /\ hash' = sync[s]
    /\ sync' = [sync EXCEPT ![s] = NoRow]
    /\ crossed' = IF jobs = {} /\ Copying = {s} /\ \A c \in Calls : call[c].op \notin OrgOps
                  THEN crossed \cap {o \in Orgs : sync[s][o] # org[o]}
                  ELSE crossed
    /\ UNCHANGED <<rowVars, callVars, jobs, deep, failures>>

OrgNext(c) ==
    \/ CheckNewOrg(c) \/ InsertOrg(c) \/ HashNewOrg(c) \/ HashNewOrgFails(c)
    \/ CheckOrg(c) \/ WriteOrg(c)
    \/ CheckNoOrgs(c) \/ DeleteOrgs(c)

HashNext ==
    \/ \E j \in jobs : HashJob(j) \/ HashJobFails(j)
    \/ \E s \in Copiers : SelectOrgs(s) \/ ReplaceOrgs(s)

-----------------------------------------------------------------------------
(* What profiles and key lookups read from Redis names the parent the      *)
(* table names, although nobody waits for the hash to be written, unless   *)
(* an organisation was written while another write, or the copy of one of  *)
(* the two services, was under way, or Redis failed.                       *)
HashFollows ==
    \A o \in Orgs \ crossed :
        \/ \E j \in jobs : o \in DOMAIN j
        \/ \E c \in Calls : At(c, "newOrg", "hadd") /\ call[c].id = o
        \/ hash[o] = NoRow /\ org[o] = NoRow
        \/ hash[o] # NoRow /\ org[o] # NoRow /\ hash[o].parent = org[o].parent

(* "Recompute path values for whole org tree" (updatePaths): the path of   *)
(* an organisation is its parent's path and itself.  The trigger fires for *)
(* every row of that statement too, so two or more levels below a moved    *)
(* organisation the old path may stay.                                     *)
PathsFollow ==
    \A o \in Below(org) \ deep :
        org[o].path = PathUnder(o, org[o].parent, org)

(* Both copies of the tree, the one in Redis and the one in the column     *)
(* path, follow the parents although each is written after them.           *)
OrgsFollow == HashFollows /\ PathsFollow
=============================================================================
