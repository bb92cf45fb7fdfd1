CONSTANTS
    Requesters = {a, b, c, d}
    Sectors = {1, 2, 3}
    MaxRequests = 6
    NoRequest = NoRequest
SPECIFICATION FairSpec
INVARIANTS OneActive ListExact
PROPERTIES SweepsInOrder EveryRequestServed
CHECK_DEADLOCK FALSE
