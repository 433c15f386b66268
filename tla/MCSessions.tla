----------------------------- MODULE MCSessions -----------------------------
(* One page of a user in a tree of two organisations, two roles, and       *)
(* administrators that change its role, its rights or only its name.       *)
EXTENDS Sessions, TLC

CONSTANTS p1, r1, r2, s1, root, admin, home, branch, switch, edit

MCRolePerms == [r \in {root, admin} |-> IF r = root THEN {switch} ELSE {switch, edit}]
MCScope     == [o \in {home, branch} |-> IF o = home THEN {home, branch} ELSE {branch}]
MCNewUser   == [life |-> "alive", role |-> admin, org |-> home, version |-> 1,
                override |-> [allow |-> {}, deny |-> {}]]
NoChange    == [role |-> None, org |-> None, override |-> None, quiet |-> FALSE]
MCPatches   == {[role |-> root, org |-> branch, quiet |-> FALSE,
                 override |-> [allow |-> {}, deny |-> {switch}]],
                [NoChange EXCEPT !.quiet = TRUE]}

=============================================================================
