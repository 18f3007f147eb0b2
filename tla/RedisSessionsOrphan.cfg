\* One session, refreshed until its index key has expired.
CONSTANTS
    Users = {u1}
    SessionIDs = {s1}
    Handlers = {h1}
    None = None
    MaxSessionsPerUser = 1
    RefreshTTL = 2
    IndexSlack = 1
    MaxLatency = 1
    MaxTime = 4
    MaxTokens = 3
SPECIFICATION Spec
PROPERTIES
    LogoutAllRevokesAll
