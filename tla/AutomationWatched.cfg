SPECIFICATION Spec
CONSTANTS
    r1 = r1
    w1 = w1
    w2 = w2
    c1 = c1
    c2 = c2
    s1 = s1
    None = None
    Rules = {r1}
    Sessions = {s1}
    SessionOf <- OneSession
    Watchers = {w1, w2}
    Callers = {c1, c2}
    MaxOperations = 3
    MaxFailures = 0
    MaxRestarts = 0
CHECK_DEADLOCK FALSE
INVARIANTS
    EnabledRulesAreWatched
