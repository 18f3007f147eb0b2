\* Two users' sessions and three tokens each: a refresh replayed while other
\* refreshes, logouts and logins of both users run.
CONSTANTS
    Users = {u1, u2}
    SessionIDs = {s1, s2}
    Handlers = {h1, h2}
    None = None
    MaxSessionsPerUser = 1
    RefreshTTL = 2
    IndexSlack = 1
    MaxLatency = 1
    MaxTime = 1
    MaxTokens = 3
SYMMETRY Symmetry
SPECIFICATION Spec
INVARIANTS
    TypeOK
    TokensFormAChain
PROPERTIES
    ImplementsContract
