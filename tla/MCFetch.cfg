SPECIFICATION Spec
CONSTANTS
    f1 = f1
    f2 = f2
    f3 = f3
    h1 = h1
    h2 = h2
    Fetches <- MCFetches
    Hosts <- MCHosts
    Host <- MCHost
    MaxFetchers = 2
    MaxPerHost = 1
    Messages = {"DATA", "FINISHED", "ERROR"}
    UsesFdset = TRUE
    StartMayFail = FALSE
INVARIANTS
    Limits
    RingsAgree
    NoneForgotten
PROPERTIES
    FifoPerHost
