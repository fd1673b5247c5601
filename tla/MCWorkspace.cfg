SPECIFICATION Spec
CONSTANTS
    o = o
    mem = mem
    A = A
    B = B
    p1 = p1
    p2 = p2
    q1 = q1
    s = s
    i1 = i1
    i2 = i2
    t1 = t1
    r1 = r1
    r2 = r2
    r3 = r3
    None = None
    Users = {o, mem}
    Accounts = {A, B}
    Projects = {p1, p2, q1}
    Tokens = {t1}
    Requests = {r1, r2, r3}
    Optional = {"threads", "incidents"}
    Slugs = {s}
    Issues = {i1, i2}
    Owners = {o}
    AccountOf <- MCAccountOf
    Starts <- MCStarts
    SlugOf <- MCSlugOf
CONSTRAINT Small
SYMMETRY Permuted
CHECK_DEADLOCK FALSE
INVARIANTS
    
    TrailExplains
    AccountsAreIslands
PROPERTIES
    SavedGrantsHeld
    IssuesFollowTheirSlug
