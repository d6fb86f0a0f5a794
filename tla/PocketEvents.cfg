CONSTANTS
    d1 = d1
    d2 = d2
    d3 = d3
    k1 = k1
    v = v
    s1 = s1
    s2 = s2
    c = c
    p = p
    q = q
    Sources = {s1, s2}
    Conversations = {v}
    Deliveries = {d1, d2, d3}
    IdemKeys = {k1}
    Consents = {c}
    Purposes = {p, q}
    NoDelivery = noDelivery
    NoKey = noKey
    NoConsent = noConsent
    NoPurpose = noPurpose
    Messages <- SomeMessages
    Records <- SomeRecords
    Loop = loop
    Workers = {w1}
    Readers = {r1}
    MaxFaults = 1
SPECIFICATION Spec
INVARIANTS TypeOK WithdrawnIsNotServed WithheldIsWithdrawn LostOnlyIfCut
PROPERTIES RevokedStoresNothing
