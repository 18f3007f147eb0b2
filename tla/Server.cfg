\* Three logins of one user, two at a time, in a server in any environment.
CONSTANTS
    Users = {u1}
    Handlers = {h1, h2}
    NoUser = NoUser
    MaxLogins = 3
    MaxAge = 1
    MaxTime = 2
SPECIFICATION ServerSpec
INVARIANTS
    TypeOK
    StoresOpen
    
    TokenNamesProfile
PROPERTIES
    CreatedOnce
    LastLoginStored
    ReplyCreated
    
    ShutdownEnds
