\* Cycles on two streamers that outlive their locks, overlap and may hang for
\* good; no symmetry, one property is temporal.
CONSTANTS
    Streamers = {x1, x2}
    Workers = {w1, w2}
    Admins = {a1}
    None = None
    LockTTL = 2
    MaxBusy = 3
    MaxRuns = 3
    MaxPosts = 0
SPECIFICATION FairSpec
INVARIANTS
    RunsAreDistinct
    
PROPERTIES
    LockFrees
