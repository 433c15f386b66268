------------------------------- MODULE Groups ------------------------------
(* GroupController for groups of assets (the other three types run the     *)
(* same code on tables of their own).  The update is a transaction at READ *)
(* COMMITTED: it deletes the members it sees, inserts the request's and    *)
(* stores their number.                                                    *)
EXTENDS Tables

VARIABLE mixed      \* groups two overlapping updates have written

groupVars == <<rowVars, callVars, mixed>>

(* GroupController.store: the name is free, or another request took it     *)
(* meanwhile (UNIQUE).                                                     *)
AskNewGroup(c, who) ==
    /\ Ask(c, [op |-> "newGroup", step |-> "insert", by |-> who])
    /\ UNCHANGED <<rowVars, mixed>>

InsertGroup(c) ==
    /\ At(c, "newGroup", "insert")
    /\ UNCHANGED mixed
    /\ \/ LET g == NextId(Groups) IN
          /\ fresh \cap Groups # {}
          /\ group' = [group EXCEPT ![g] = [members |-> {}, items |-> 0]]
          /\ fresh' = fresh \ {g}
          /\ UNCHANGED <<org, asset, device, user>>
          /\ Answers(c, [id |-> g, items |-> 0])
       \/ Refuse(c)

(* GroupController.index *)
AskItems(c, who, g) ==
    /\ Ask(c, [op |-> "items", step |-> "read", by |-> who, id |-> g])
    /\ UNCHANGED <<rowVars, mixed>>

ReadItems(c) ==
    LET g == call[c].id IN
    /\ At(c, "items", "read")
    /\ UNCHANGED <<rowVars, mixed>>
    /\ Answers(c, IF group[g] = NoRow THEN Refused ELSE group[g].members)

(* GroupController.update.  entities_ids, or Keep for a change of name.    *)
AskGroup(c, who, g, S) ==
    /\ Ask(c, [op |-> "group", step |-> "check", by |-> who, id |-> g,
               members |-> S, doomed |-> {}, met |-> FALSE])
    /\ UNCHANGED <<rowVars, mixed>>

(* Mutant of Deleted: the old members stay.                                *)
DeletedNone(g) == {}

(* The rows the DELETE finds.                                              *)
Deleted(g) == group[g].members

(* The request's checks, and the transaction's DELETE: its snapshot has    *)
(* the members that are committed now.                                     *)
DeleteMembers(c) ==
    LET k == call[c] IN
    /\ At(c, "group", "check")
    /\ UNCHANGED mixed
    /\ IF group[k.id] # NoRow
       THEN /\ Goes(c, [k EXCEPT !.step = "commit",
                                 !.doomed = Deleted(k.id)])
            /\ UNCHANGED rowVars
       ELSE Refuse(c)

(* createMany, the count, and the commit.  A member another update has     *)
(* inserted since the DELETE is skipped; an asset that is gone (P2003) and *)
(* a deleted group (P2025) roll back.  Of what the transaction in progress *)
(* of another request meant to delete, the rows replaced now are gone, and *)
(* the new ones it does not see.                                           *)
CommitGroup(c) ==
    LET k    == call[c]
        kept == group[k.id].members \ k.doomed
        rest == {e \in Calls \ {c} : At(e, "group", "commit") /\ call[e].id = k.id} IN
    /\ At(c, "group", "commit")
    /\ IF group[k.id] = NoRow
       THEN Refuse(c) /\ UNCHANGED mixed
       ELSE IF k.members = Keep
       THEN /\ Answers(c, [id |-> k.id, items |-> group[k.id].items])
            /\ UNCHANGED <<rowVars, mixed>>
       ELSE IF k.members \subseteq AssetRows
       THEN /\ group' = [group EXCEPT ![k.id] =
                            [members |-> kept \cup k.members,
                             items   |-> Cardinality(k.members)]]
            /\ mixed' = IF k.met THEN mixed \cup {k.id} ELSE mixed \ {k.id}
            /\ UNCHANGED left
            /\ call' = [e \in Calls |->
                          IF e = c
                          THEN IF k.by = "page"
                               THEN [op |-> "group", step |-> "answer", by |-> "page",
                                     asked |-> k,
                                     body |-> [id |-> k.id, items |-> Cardinality(k.members)]]
                               ELSE Idle
                          ELSE IF e \in rest
                          THEN [call[e] EXCEPT !.doomed = @ \cap kept, !.met = TRUE]
                          ELSE call[e]]
            /\ UNCHANGED <<org, asset, device, user, fresh>>
       ELSE Refuse(c) /\ UNCHANGED mixed

(* GroupController.destroy *)
AskNoGroups(c, who, S) ==
    /\ Ask(c, [op |-> "noGroups", step |-> "delete", by |-> who, ids |-> S])
    /\ UNCHANGED <<rowVars, mixed>>

DeleteGroups(c) ==
    LET S == call[c].ids IN
    /\ At(c, "noGroups", "delete")
    /\ UNCHANGED mixed
    /\ IF S \cap GroupRows # {}
       THEN /\ group' = Without(group, S)
            /\ UNCHANGED <<org, asset, device, user, fresh>>
            /\ Answers(c, S)
       ELSE Refuse(c)

GroupNext(c) ==
    \/ InsertGroup(c) \/ ReadItems(c)
    \/ DeleteMembers(c) \/ CommitGroup(c)
    \/ DeleteGroups(c)

-----------------------------------------------------------------------------
(* The count shown for a group is never below its members: rows that go    *)
(* with their asset leave it too high, and only two updates that overlap   *)
(* leave members nobody counted.                                           *)
CountCovers ==
    \A g \in GroupRows \ mixed : Cardinality(group[g].members) <= group[g].items
=============================================================================
