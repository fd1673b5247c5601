SPECIFICATION BoundedSpec
CONSTANTS
    Contracts = {c1, c2}
    Hooks = {h1, h2}
    Requests = {r1, r2}
    Kinds = {"tokens"}
    PaidPlans = {"solo", "studio"}
    Limit <- MCLimit
    Unlimited = Unlimited
    None = None
    MaxTime = 2
    MaxUsed = 2
INVARIANTS
    MirrorIsSound
PROPERTIES
    
    ShowsNewestEvent
    MirrorConverges
