SPECIFICATION Spec
CONSTANTS
    o1 = o1  o2 = o2  o3 = o3  u1 = u1  u2 = u2
    Objects = {o1, o2}
    Users = {u1, u2}
    Urls = {"a"}
    None = None  Husk = Husk  Nowhere = Nowhere
    Targets = {Nowhere}
    Messages = {"PROGRESS", "NOTMODIFIED", "REDIRECT", "TIMEDOUT", "AUTH", "SSL_ERR", "UNASKED"}
    Headers = {}
    Calls = {"retrieve", "release", "clone", "abort", "force_stream"}
    Results = {"OK", "NOMEM"}
    FetchAttempts = 2  RedirectLimit = 0  MaxLen = 1  MaxCount = 2
    NoMemory = TRUE
SYMMETRY TwoIdentities
INVARIANTS ListsAgree IteratorsValid
PROPERTIES CalledWhileHeld
