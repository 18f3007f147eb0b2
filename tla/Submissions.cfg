\* Two submissions a window for one user, who names two streamers, while a client
\* reads pages of two; no symmetry, one property is temporal.
CONSTANTS
    Users = {u1}
    Names = {n1, n2}
    Requests = {p1, p2}
    Readers = {r1}
    NoUser = NoUser
    Limit = 2
    Window = 2
    PageSize = 2
    MaxItems = 4
SPECIFICATION FairSpec
INVARIANTS
    TypeOK
    RateBound
    NoFalseRefusal
    PagesAreStable
PROPERTIES
    LimitLifts
