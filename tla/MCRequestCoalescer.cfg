SPECIFICATION FairSpec
CONSTANTS
    r1 = r1
    r2 = r2
    r3 = r3
    r4 = r4
    k1 = k1
    k2 = k2
    NoChan = NoChan
    Keys = {k1, k2}
    KeyOf <- MCKeyOf
    Requests = {r1, r2, r3, r4}
    BodyLen = 1
PROPERTIES
    SubscribedWaiterServed
    ImplementsSingleFlight
CHECK_DEADLOCK FALSE
