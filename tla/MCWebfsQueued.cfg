SPECIFICATION WebfsSpec
CONSTANTS
    f1 = f1
    f2 = f2
    f3 = f3
    h1 = h1
    h2 = h2
    Fetches <- MCFetches2
    Hosts <- MCHosts
    Host <- MCHost2
    MaxFetchers = 2
    MaxPerHost = 1
    Messages = {"HEADER", "DATA", "FINISHED", "ERROR", "REDIRECT", "NOTMODIFIED"}
    UsesFdset = FALSE
    StartMayFail = FALSE
    None = None
    Starts = {"body"}
    StartsIn = {"ERROR", "REDIRECT"}
    AbortsIn = {}
    AbortsQueued = TRUE
    ReadErrors = FALSE
    Reuse = FALSE
PROPERTIES
    SilentAfterAbort
CHECK_DEADLOCK FALSE
