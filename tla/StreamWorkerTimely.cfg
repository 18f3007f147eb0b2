\* Three cycles of two workers on one streamer, each shorter than its lock, and
\* two administrators posting decisions to the same history.
CONSTANTS
    Streamers = {x1}
    Workers = {w1, w2}
    Admins = {a1, a2}
    None = None
    LockTTL = 2
    MaxBusy = 1
    MaxRuns = 3
    MaxPosts = 2
SYMMETRY Symmetry
SPECIFICATION Spec
INVARIANTS
    TypeOK
    Exclusive
    RunsInOrder
    RealTimeOrder
