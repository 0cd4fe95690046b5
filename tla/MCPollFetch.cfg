SPECIFICATION FairPollSpec
CONSTANTS
    f1 = f1
    f2 = f2
    f3 = f3
    h1 = h1
    Fetches <- MCFetches
    Hosts <- MCHosts
    Host <- MCHost
    MaxFetchers = 2
    MaxPerHost = 1
    Messages = {"HEADER", "DATA", "FINISHED", "ERROR", "REDIRECT", "NOTMODIFIED"}
    UsesFdset = FALSE
    StartMayFail = FALSE
    NFetchers = 2
    Fetcherd <- MCFetcherd
    Replies = {"content", "malformed", "partial", "redirect", "notmodified", "truncated", "nothing"}
    Reuse = TRUE
INVARIANTS
    HeldIsAttached
PROPERTIES
    ToldOnce
    EveryFetchEnds
