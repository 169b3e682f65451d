CONSTANTS
    p1 = p1
    w = w
    Callers <- OneCaller
    Watchers <- OneWatcher
    MaxToken = 3
SPECIFICATION FairSpec
INVARIANT UnauthorizedNeedsExpiry
PROPERTY FreshTokenKept
PROPERTY DoReturns
