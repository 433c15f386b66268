CONSTANTS
    root = root
    archive = archive
    o3 = o3
    o4 = o4
    o5 = o5
    o6 = o6
    a1 = a1
    a2 = a2
    a3 = a3
    d1 = d1
    d2 = d2
    d3 = d3
    g1 = g1
    g2 = g2
    g3 = g3
    u1 = u1
    u2 = u2
    u3 = u3
    Users = {u1, u2, u3}
    Orgs = {root, archive, o3, o4, o5, o6}
    Root = root
    Archive = archive
    Assets = {a1, a2, a3}
    Devices = {d1, d2, d3}
    Groups = {g1, g2, g3}
    Calls = {c1, c2}
    NoRow = NoRow
    None = None
    Keep = Keep
    Detach = Detach
    InitOrg <- MCInitOrg
    InitAsset <- MCInitAsset
    InitDevice <- MCInitDevice
    InitGroup <- MCInitGroup
    InitUser <- MCInitUser
    Budgets <- MCBudgets
    Copiers = {replay, parser}
    MaxFaults = 1
    s1 = s1
    s2 = s2
    s3 = s3
    p1 = p1
    p2 = p2
    p3 = p3
    p4 = p4
    Nothing = Nothing
    Accounts = {here, there}
    Reports <- MCReports
    MaxAsked = 2
SYMMETRY Alike
SPECIFICATION ConsoleSpec
INVARIANTS
    TypeOK
    AttachedAgree
    OrgsFollow
    CountCovers
    
    MembersKept
    SelectionIsShown
    ShownIsAsked
PROPERTIES
    SavedTicks
CHECK_DEADLOCK FALSE
