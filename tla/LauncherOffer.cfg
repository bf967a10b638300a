SPECIFICATION Spec
CONSTANTS
    r1 = r1
    r2 = r2
    Requests = {r1, r2}
    MaxClicks = 2
    Services = 2
    MaxCrashes = 2
    Components = 2
    Browser = 1
    Versions = 2
    MaxPublished = 1
CHECK_DEADLOCK FALSE
INVARIANTS
    OffersCanBeAnswered
