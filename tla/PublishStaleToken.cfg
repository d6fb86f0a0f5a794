CONSTANTS
    Publishers = {p1, p2}
    i1 = i1
    Articles = {i1}
    KeyOf <- OneArticle
    Direct = {hook}
    Elsewhere = elsewhere
    NoRow = noRow
    Updates <- SomeUpdates
    MaxPubRequests = 3
    MaxEpoch = 2
    Clients = {host}
    Methods = {bearer}
    Askers = {q1}
    DefaultLimit = 2
    EndpointLimit = 1
    KeyLimits = {1}
    Window = 2
    MaxClock = 4
    MaxEvaluating = 1
    MaxHits = 3
    Admins = {a1, a2}
    Callers = {r1}
    KeyNames = {alice, bob}
    MaxApiKeys = 3
    Sensors = {n1, n2}
    Signals = {s1}
    NoCandidate = noCandidate
    Records <- SomeRecords
    HookIds = {h1, h2}
    Interested = {h1, h2}
    Keepers = {k1, k2}
    Firers = {f1}
    MaxEvents = 2
    MaxAttempts = 2
    RequestIds = {e1, e2}
    Proposals <- NearlyGood
    MaxTrail = 1
SPECIFICATION Spec
INVARIANTS PublishReenrolls
CHECK_DEADLOCK FALSE
