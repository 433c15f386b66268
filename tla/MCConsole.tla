----------------------------- MODULE MCConsole -----------------------------
(* Four organisations in a line and beside it, two assets and two devices, *)
(* one group; ids are left for one more of each.                           *)
EXTENDS Console, TLC

CONSTANTS root, archive, o3, o4, o5, o6, a1, a2, a3, d1, d2, d3, g1, g2, g3, u1, u2, u3,
          s1, s2, s3, p1, p2, p3, p4

(* Slots for requests are alike, and the services that copy.               *)
Alike == Permutations(Calls) \cup Permutations(Copiers)

MCInitOrg ==
    root :> [parent |-> None, path |-> <<root>>]
    @@ archive :> [parent |-> root, path |-> <<root, archive>>]
    @@ o3 :> [parent |-> root, path |-> <<root, o3>>]
    @@ o4 :> [parent |-> o3, path |-> <<root, o3, o4>>]
    @@ o5 :> [parent |-> o4, path |-> <<root, o3, o4, o5>>]
    @@ o6 :> NoRow

MCInitAsset == a1 :> o3 @@ a2 :> o4 @@ a3 :> NoRow

MCInitDevice ==
    d1 :> [org |-> o3, asset |-> a1]
    @@ d2 :> [org |-> o3, asset |-> None]
    @@ d3 :> NoRow

MCInitGroup ==
    g1 :> [members |-> {a1, a2}, items |-> 2]
    @@ g2 :> [members |-> {a2}, items |-> 1]
    @@ g3 :> NoRow

MCInitUser ==
    u1 :> [org |-> o3, denied |-> {}]
    @@ u2 :> [org |-> o4, denied |-> {a2}]
    @@ u3 :> NoRow

Fix(id, time) == [id |-> id, at |-> time]

MCReports ==
    { [asset |-> a1, from |-> 1, to |-> 4,
       segments |-> << [id |-> s1, points |-> <<Fix(p1, 1), Fix(p2, 2)>>],
                       [id |-> s2, points |-> << >>],
                       [id |-> s3, points |-> <<Fix(p3, 4)>>] >>],
      [asset |-> a2, from |-> 3, to |-> 3,
       segments |-> << [id |-> s1, points |-> <<Fix(p4, 3)>>] >>],
      [asset |-> a2, from |-> 3, to |-> 3,
       segments |-> << [id |-> s1, points |-> << >>], [id |-> s2, points |-> << >>] >>] }

FleetOps == {"newAsset", "asset", "noAssets", "newDevice", "device", "noDevices"}

(* The page and one other administrator, or the page alone, at one part of *)
(* the console each; and what crosses the parts.                           *)
Both(ops)  == [page |-> 1, other |-> 1, forms |-> 0, late |-> {}, ops |-> ops]
Alone(ops) == [page |-> 2, other |-> 0, forms |-> 0, late |-> {}, ops |-> ops]

MCBudgets ==
    { Both(FleetOps),
      Alone(FleetOps \cup {"failure"}),
      [page |-> 2, other |-> 1, forms |-> 0, late |-> {}, ops |-> {"asset"}],
      Both(OrgOps),
      Both({"newOrg", "noOrgs", "profile", "sync", "failure"}),
      Both({"asset", "noAssets", "noOrgs", "failure"}),
      Both({"newGroup", "group", "noGroups", "newAsset", "noAssets", "failure"}),
      [page |-> 0, other |-> 1, forms |-> 0, late |-> {}, ops |-> {"org", "sync"}],
      Alone({"noOrgs", "newOrg", "org", "newAsset", "asset", "noAssets", "newDevice"}),
      [page |-> 4, other |-> 0, forms |-> 0, late |-> {a2}, ops |-> {"noOrgs", "items", "group"}],
      [page |-> 3, other |-> 1, forms |-> 0, late |-> {a2}, ops |-> {"items", "group"}],
      [page |-> 3, other |-> 0, forms |-> 2, late |-> {},
       ops |-> {"users", "user", "newUser", "access", "noUsers"}],
      [page |-> 2, other |-> 1, forms |-> 1, late |-> {},
       ops |-> {"users", "user", "access", "noAssets"}],
      [page |-> 0, other |-> 0, forms |-> 0, late |-> {}, ops |-> {"report"}] }
=============================================================================
