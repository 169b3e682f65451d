CONSTANTS
    c1 = c1
    c2 = c2
    k1 = k1
    k2 = k2
    Clients <- TwoClients
    Keys <- TwoKeys
    Interval = 2
SPECIFICATION FairSpec
PROPERTY FreshKept
