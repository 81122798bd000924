SPECIFICATION FairSpec
CONSTANTS
    a = a
    b = b
    p = p
    q = q
    r1 = r1
    r2 = r2
    x = x
    y = y
    None = None
    Clients <- Two
    Processes = {p, q}
    Homes <- Either
    Requests = {r1, r2}
    Calls <- MCCalls
    Inputs = {x, y}
    MaxCalls = 3
    MaxFaults = 1
INVARIANTS TakesEffectOnce SuccessIsOnRecord NothingLost
PROPERTIES EveryCallEnds
CHECK_DEADLOCK FALSE
