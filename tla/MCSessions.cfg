\* One page, two requests and one save at once; two saves or faults in all, or
\* one hasty step or timeout, which leaves a second request under way.
CONSTANTS
    p1 = p1
    r1 = r1
    r2 = r2
    s1 = s1
    root = root
    admin = admin
    home = home
    branch = branch
    switch = switch
    edit = edit
    None = None
    Pages = {p1}
    Requests = {r1, r2}
    Saves = {s1}
    Roles = {root, admin}
    Root = root
    RolePerms <- MCRolePerms
    Switch = switch
    Scope <- MCScope
    Patches <- MCPatches
    NewUser <- MCNewUser
    Admins = {root}
    MaxVersion = 2
    Faults <- AllFaults
    MaxEvents = 2
    HastyCost = 2
SPECIFICATION FairSpec
INVARIANTS
    TypeOK
    CurrentTokensAreTrue
    ShownIsForToken
    VersionKeyFollows
PROPERTIES
    SignInSucceeds
    RightsSettle
CHECK_DEADLOCK FALSE
