\* Three logins, two at a time, compete for one slot, so that they evict each
\* other and overshoot; no symmetry, one property is temporal.
CONSTANTS
    Users = {u1}
    SessionIDs = {s1, s2, s3}
    Handlers = {h1, h2}
    None = None
    MaxSessionsPerUser = 1
    RefreshTTL = 2
    IndexSlack = 1
    MaxLatency = 1
    MaxTime = 1
    MaxTokens = 1
SPECIFICATION FairSpec
INVARIANTS
    BoundedOvershoot
PROPERTIES
    LoginTerminates
