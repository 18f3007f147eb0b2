\* Two sessions of one user: logins that purge and evict while tokens are
\* refreshed and expire.  Time 4 is past the expiry (3) and the index key (4)
\* of a login at time 1.
CONSTANTS
    Users = {u1}
    SessionIDs = {s1, s2}
    Handlers = {h1, h2}
    None = None
    MaxSessionsPerUser = 1
    RefreshTTL = 2
    IndexSlack = 1
    MaxLatency = 1
    MaxTime = 4
    MaxTokens = 2
SYMMETRY Symmetry
SPECIFICATION Spec
INVARIANTS
    IndexAgrees
    LiveIsIndexed
    
PROPERTIES
    LogoutAllRevokesIndexed
