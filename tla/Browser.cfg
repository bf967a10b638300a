SPECIFICATION Spec
CONSTANTS
    a = a
    b = b
    main = main
    other = other
    None = None
    Blank = Blank
    Pages = {a, b}
    UrlOf <- MCUrlOf
    Start = a
    Sessions = {main, other}
    Default = main
    Tasks = {"t1"}
    Directs = {"d1"}
    DirectActions = {"click", "close"}
    Named = {main}
    Seen = {"plain", "challenge"}
    Files <- MCFiles
    Goals <- MCGoals
    NoBox = NoBox
    Shown <- MCShown
    Wants <- MCWants
    MaxActions = 6
    MaxEvents = 2
CHECK_DEADLOCK FALSE
INVARIANTS
    TypeOK
    ActionsDoNotOverlap
    NobodyIsStuck
PROPERTIES
    TasksActOnWhatTheySaw
    
    NoChangeIsNotSuccess
