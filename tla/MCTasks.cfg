SPECIFICATION MCSpec
CONSTANTS
    Users <- SomeUsers
    Binds = {"load"}
    InfoCommand = TRUE
    EventCap = 7
    MaxPartial = 1
    Commands <- SomeCommands
    Height = 2
    MaxRequests = 3
    NoItem = "no item"
    BgActions = {"a", "b"}
    PerAction = 1
    AtOnce = 1
    MaxJobs = 3
    Groups = {"locks", "preview", "background"}
CHECK_DEADLOCK FALSE
PROPERTIES LoopReturns WaitEnds QuitQuits PreviewSettles LastIsCalled
