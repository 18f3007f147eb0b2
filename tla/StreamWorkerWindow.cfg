\* A cycle outlives its lock and unlocks the next one; a third worker enters.
CONSTANTS
    Streamers = {x1}
    Workers = {w1, w2, w3}
    Admins = {}
    None = None
    LockTTL = 2
    MaxBusy = 3
    MaxRuns = 3
    MaxPosts = 0
SPECIFICATION Spec
PROPERTIES
    OneCyclePerWindow
