SPECIFICATION Spec
CONSTANTS
    o1 = o1  o2 = o2  o3 = o3  u1 = u1  u2 = u2
    Objects = {o1, o2}
    Users = {u1, u2}
    Urls = {"a"}
    None = None  Husk = Husk  Nowhere = Nowhere
    Targets = {}
    Messages = {"CERTS", "HEADER", "FINISHED"}
    Headers = {"status"}
    Calls = {"retrieve"}
    Results = {"OK", "NEED_DATA"}
    FetchAttempts = 1  RedirectLimit = 0  MaxLen = 1  MaxCount = 2
    NoMemory = FALSE
SYMMETRY TwoIdentities
PROPERTIES ReplayKept
CHECK_DEADLOCK FALSE
