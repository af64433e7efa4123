SPECIFICATION MCSpec
CONSTANTS
    Users <- Executing
    Binds = {"load", "one", "result", "result-final"}
    InfoCommand = TRUE
    EventCap = 7
    MaxPartial = 1
    Commands <- SomeCommands
    Height = 2
    MaxRequests = 3
    NoItem = "no item"
    BgActions = {"a", "b"}
    PerAction = 1
    AtOnce = 1
    MaxJobs = 3
    Groups = {"prompt"}
CHECK_DEADLOCK FALSE
PROPERTY LoopReturns
