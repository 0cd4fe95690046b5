SPECIFICATION CurlSpec
CONSTANTS
    f1 = f1
    f2 = f2
    h1 = h1
    Fetches <- MCFetches
    Hosts <- MCHosts
    Host <- MCHost
    MaxFetchers = 2
    MaxPerHost = 2
    Messages = {"PROGRESS", "CERTS", "HEADER", "DATA", "FINISHED", "TIMEDOUT", "ERROR", "REDIRECT", "NOTMODIFIED", "AUTH", "CERT_ERR", "SSL_ERR"}
    UsesFdset = TRUE
    StartMayFail = FALSE
    Replies = {"ok", "redirect"}
    AbortsIn = {"PROGRESS", "HEADER", "DATA", "REDIRECT"}
    Abortable <- MCAbortable
    Reuse = FALSE
INVARIANTS
    HandlesAgree
PROPERTIES
    OneCompletion
    ImplementsFetch
