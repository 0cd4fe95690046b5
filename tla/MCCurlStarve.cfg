SPECIFICATION BusyCurlSpec
CONSTANTS
    f1 = f1
    f2 = f2
    f3 = f3
    h1 = h1
    Fetches <- MCFetches
    Hosts <- MCHosts
    Host <- MCHost
    MaxFetchers = 2
    MaxPerHost = 1
    Messages = {"FINISHED", "ERROR"}
    UsesFdset = FALSE
    StartMayFail = FALSE
    Replies = {"ok"}
    AbortsIn = {}
    Abortable = {}
    Reuse = TRUE
PROPERTIES
    QueuedIsServed
CHECK_DEADLOCK FALSE
