SPECIFICATION StoreSpec
CONSTANTS
    u1 = u1  u2 = u2  o1 = o1  o2 = o2  o3 = o3
    None = None
    Urls <- MCUrls
    Objs <- MCObjs
    Versions = {1, 2}
    Size <- MCSizeGrows
    Hash <- MCHash
    LastBlock = 2
    Limit = 12
    Hysteresis = 1
    MaxStarts = 1
    Faults = {"read"}
INVARIANT ServedOwn
CHECK_DEADLOCK FALSE
