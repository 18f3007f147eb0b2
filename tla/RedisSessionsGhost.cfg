\* One session that expires while its index entry does not.
CONSTANTS
    Users = {u1}
    SessionIDs = {s1}
    Handlers = {h1}
    None = None
    MaxSessionsPerUser = 1
    RefreshTTL = 2
    IndexSlack = 1
    MaxLatency = 1
    MaxTime = 4
    MaxTokens = 1
SPECIFICATION Spec
INVARIANTS
    EverySessionHasTTL
