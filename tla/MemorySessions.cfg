\* Two users with a limit of one session, two requests at a time, three tokens
\* for two rotations that race; a session stored at time 1 expires after time 3,
\* and at time 4 a login drops it.
CONSTANTS
    Users = {u1, u2}
    SessionIDs = {s1, s2}
    Handlers = {h1, h2}
    None = None
    MaxSessionsPerUser = 1
    RefreshTTL = 2
    MaxLatency = 1
    MaxTime = 4
    MaxTokens = 3
SYMMETRY Symmetry
SPECIFICATION Spec
INVARIANTS
    StoreLimit
PROPERTIES
    DroppedForOwnLogin
    ProlongedInTime
    ImplementsContract
