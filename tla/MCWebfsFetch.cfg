SPECIFICATION FairWebfsSpec
CONSTANTS
    f1 = f1
    f2 = f2
    f3 = f3
    h1 = h1
    h2 = h2
    Fetches <- MCFetches3
    Hosts <- MCHosts
    Host <- MCHost3
    MaxFetchers = 2
    MaxPerHost = 1
    Messages = {"HEADER", "DATA", "FINISHED", "ERROR", "REDIRECT", "NOTMODIFIED"}
    UsesFdset = FALSE
    StartMayFail = FALSE
    None = None
    Starts = {"body", "redirect", "notmodified", "refused", "noclone", "noconn"}
    StartsIn = {"REDIRECT"}
    AbortsIn = {"DATA"}
    AbortsQueued = FALSE
    ReadErrors = TRUE
    Reuse = TRUE
INVARIANTS
    HeldIsLive
PROPERTIES
    OneCompletion
    EveryListedEnds
