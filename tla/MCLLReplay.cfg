SPECIFICATION Spec
CONSTANTS
    o1 = o1  o2 = o2  o3 = o3  u1 = u1  u2 = u2
    Objects = {o1, o2}
    Users = {u1, u2}
    Urls = {"a", "b"}
    None = None  Husk = Husk  Nowhere = Nowhere
    Targets = {"a", "b"}
    Messages = {"HEADER", "DATA", "FINISHED", "REDIRECT", "NOTMODIFIED"}
    Headers = {"validator"}
    Calls = {"retrieve", "force", "stream", "invalidate"}
    Results = {"OK", "NEED_DATA"}
    FetchAttempts = 1  RedirectLimit = 1  MaxLen = 1  MaxCount = 2
    NoMemory = TRUE
SYMMETRY TwoIdentities
INVARIANTS CaughtUp FetchIffIncomplete
PROPERTIES ReplayKept
CHECK_DEADLOCK FALSE
