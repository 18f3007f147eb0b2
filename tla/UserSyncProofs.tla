--------------------------- MODULE UserSyncProofs ---------------------------
(***************************************************************************)
(* The properties of UserSync for any number of users, handlers and        *)
(* logins, over either repository.                                         *)
(***************************************************************************)
EXTENDS UserSync, TLAPS

\* Logins in flight are numbered apart, and none of them is over.
InFlightOK ==
    /\ \A n \in ended : n <= logins
    /\ \A p \in Handlers : req[p].at # "idle" =>
        /\ req[p].user \in Users
        /\ req[p].n \in 1..logins
        /\ req[p].n \notin ended
        /\ req[p].before \subseteq ended
        /\ \A q \in Handlers : req[q].at # "idle" /\ req[q].n = req[p].n => q = p

\* Since Get found no profile, only a login in flight can have stored one.
CreateOK ==
    \A p \in Handlers : req[p].at = "create" /\ profile[req[p].user] # Absent =>
        /\ profile[req[p].user].created \notin req[p].before
        /\ profile[req[p].user].data \notin req[p].before

\* A profile that Get found is still there, as old as it was.
UpdateOK ==
    \A p \in Handlers : req[p].at = "update" =>
        /\ profile[req[p].user] # Absent
        /\ profile[req[p].user].created = req[p].seen.created

IInv == TypeOK /\ InFlightOK /\ CreateOK /\ UpdateOK

LEMMA InitIInv == Init => IInv
  BY LoginsAssumption DEF Init, IInv, TypeOK, InFlightOK, CreateOK, UpdateOK,
     NoRequest, NoReply, Absent, Profiles, Logins

\* What a step may do to the profile of a login's user: nothing, or store the
\* fields of the login that takes the step, in a profile as old as it was.
Stores(p) ==
    LET u == req[p].user
    IN  /\ req[p].at \in {"create", "update"}
        /\ profile' \in [Users -> Profiles]
        /\ \A x \in Users : x # u => profile'[x] = profile[x]
        /\ profile'[u] # Absent
        /\ \/ profile'[u] = profile[u]
           \/ /\ profile'[u].data = req[p].n
              /\ profile'[u].created =
                    IF profile[u] = Absent THEN req[p].n ELSE profile[u].created

LEMMA CreateStores ==
  ASSUME IInv, NEW p \in Handlers, req[p].at = "create",
         profile' = [profile EXCEPT ![req[p].user] =
                        IF @ = Absent THEN [created |-> req[p].n, data |-> req[p].n] ELSE @]
  PROVE  Stores(p)
<1>1. req[p].user \in Users /\ req[p].n \in Logins /\ profile \in [Users -> Profiles]
  BY DEF IInv, TypeOK, InFlightOK, Logins
<1>2. [created |-> req[p].n, data |-> req[p].n] \in Profiles
  BY <1>1 DEF Profiles
<1>3. [created |-> req[p].n, data |-> req[p].n] # Absent
  BY <1>1, LoginsAssumption DEF Absent, Logins
<1>. QED  BY <1>1, <1>2, <1>3 DEF Stores

LEMMA UpdateStores ==
  ASSUME IInv, NEW p \in Handlers, req[p].at = "update",
         profile' = [profile EXCEPT ![req[p].user] = Updated(p)]
  PROVE  Stores(p)
<1> DEFINE u == req[p].user
<1>1. u \in Users /\ req[p].n \in Logins /\ profile \in [Users -> Profiles]
  BY DEF IInv, TypeOK, InFlightOK, Logins
<1>2. profile[u] # Absent /\ profile[u].created = req[p].seen.created
  BY DEF IInv, UpdateOK
<1>3. Updated(p) = [created |-> profile[u].created, data |-> req[p].n]
  BY <1>2 DEF Updated
<1>4. Updated(p) \in Profiles /\ Updated(p) # Absent
  BY <1>1, <1>3, LoginsAssumption DEF Profiles, Absent, Logins
<1>5. Updated(p).data = req[p].n /\ Updated(p).created = profile[u].created
  BY <1>3
<1>. QED  BY <1>1, <1>2, <1>4, <1>5 DEF Stores

\* The end of a login in flight, whatever it replies, after its store.
LEMMA ReturnStep ==
  ASSUME IInv, NEW p \in Handlers, req[p].at # "idle",
         NEW r \in [user: Users \union {NoUser}, n: Logins \union {0},
                    created: Logins \union {0}, before: SUBSET Logins],
         Return(p, r), Stores(p) \/ UNCHANGED profile,
         UNCHANGED <<backend, logins>>
  PROVE  IInv'
<1>1. /\ req' = [req EXCEPT ![p] = NoRequest]
      /\ ended' = ended \union {req[p].n}
      /\ reply' = r /\ logins' = logins /\ backend' = backend
  BY DEF Return
<1>2. /\ TypeOK
      /\ req[p].n \in 1..logins /\ req[p].user \in Users
      /\ req[p].n \in Logins
  BY DEF IInv, InFlightOK, TypeOK, Logins
<1>3. /\ req'[p].at = "idle"
      /\ \A q \in Handlers : q # p => req'[q] = req[q]
  BY <1>1, <1>2 DEF TypeOK, NoRequest
<1>4. TypeOK'
  <2>1. profile' \in [Users -> Profiles]
    BY <1>2 DEF TypeOK, Stores
  <2>2. req'  \in [Handlers ->
                  [at: {"idle", "get", "create", "update"}, user: Users \union {NoUser},
                   n: Logins \union {0}, seen: Profiles, before: SUBSET Logins]]
    BY <1>1, <1>2 DEF TypeOK, NoRequest, Absent, Profiles
  <2>. QED  BY <1>1, <1>2, <2>1, <2>2 DEF TypeOK
<1>5. InFlightOK'
  <2>1. \A n \in ended' : n <= logins'
    BY <1>1, <1>2 DEF IInv, InFlightOK
  <2>2. ASSUME NEW q \in Handlers, req'[q].at # "idle"
        PROVE  /\ req'[q].user \in Users
               /\ req'[q].n \in 1..logins'
               /\ req'[q].n \notin ended'
               /\ req'[q].before \subseteq ended'
               /\ \A x \in Handlers : req'[x].at # "idle" /\ req'[x].n = req'[q].n => x = q
    <3>1. q # p /\ req'[q] = req[q] /\ req[q].at # "idle"
      BY <1>3, <2>2
    <3>2. req[q].n # req[p].n
      BY <3>1 DEF IInv, InFlightOK
    <3>. QED  BY <1>1, <1>3, <3>1, <3>2 DEF IInv, InFlightOK
  <2>. QED  BY <2>1, <2>2 DEF InFlightOK
<1>6. CreateOK'
  <2> SUFFICES ASSUME NEW q \in Handlers, req'[q].at = "create",
                      profile'[req'[q].user] # Absent
               PROVE  /\ profile'[req'[q].user].created \notin req'[q].before
                      /\ profile'[req'[q].user].data \notin req'[q].before
    BY DEF CreateOK
  <2>1. q # p /\ req'[q] = req[q] /\ req[q].user \in Users
    BY <1>3 DEF IInv, InFlightOK
  <2>2. req[p].n \notin req[q].before
    BY <2>1 DEF IInv, InFlightOK
  <2>3. CASE profile'[req[q].user] = profile[req[q].user]
    BY <2>1, <2>3 DEF IInv, CreateOK
  <2>4. CASE profile'[req[q].user] # profile[req[q].user]
    <3>1. /\ req[q].user = req[p].user
          /\ profile'[req[q].user].data = req[p].n
          /\ profile'[req[q].user].created =
                IF profile[req[q].user] = Absent THEN req[p].n
                ELSE profile[req[q].user].created
      BY <2>1, <2>4 DEF Stores
    <3>. QED  BY <2>1, <2>2, <3>1 DEF IInv, CreateOK
  <2>. QED  BY <2>3, <2>4
<1>7. UpdateOK'
  <2> SUFFICES ASSUME NEW q \in Handlers, req'[q].at = "update"
               PROVE  /\ profile'[req'[q].user] # Absent
                      /\ profile'[req'[q].user].created = req'[q].seen.created
    BY DEF UpdateOK
  <2>1. q # p /\ req'[q] = req[q] /\ req[q].user \in Users
    BY <1>3 DEF IInv, InFlightOK
  <2>2. /\ profile[req[q].user] # Absent
        /\ profile[req[q].user].created = req[q].seen.created
    BY <2>1 DEF IInv, UpdateOK
  <2>3. /\ profile'[req[q].user] # Absent
        /\ profile'[req[q].user].created = profile[req[q].user].created
    BY <2>1, <2>2 DEF Stores
  <2>. QED  BY <2>1, <2>2, <2>3
<1>. QED  BY <1>4, <1>5, <1>6, <1>7 DEF IInv

LEMMA BeginStep ==
  ASSUME IInv, NEW p \in Handlers, NEW u \in Users, Begin(p, u)
  PROVE  IInv'
<1>1. /\ req[p].at = "idle" /\ logins < MaxLogins /\ logins' = logins + 1
      /\ req' = [req EXCEPT ![p] =
                   [at |-> "get", user |-> u, n |-> logins + 1, seen |-> Absent,
                    before |-> ended]]
      /\ backend' = backend /\ profile' = profile /\ ended' = ended /\ reply' = reply
  BY DEF Begin
<1>2. TypeOK /\ logins \in Nat
  BY LoginsAssumption DEF IInv, TypeOK
<1>3. /\ req'[p] = [at |-> "get", user |-> u, n |-> logins + 1, seen |-> Absent,
                    before |-> ended]
      /\ \A q \in Handlers : q # p => req'[q] = req[q]
  BY <1>1, <1>2 DEF TypeOK
<1>4. TypeOK'
  BY <1>1, <1>2, LoginsAssumption DEF TypeOK, Logins, Absent, Profiles
<1>5. InFlightOK'
  <2>1. \A n \in ended : n <= logins /\ n \in Int
    BY <1>2 DEF IInv, InFlightOK, TypeOK, Logins
  <2>2. ASSUME NEW q \in Handlers, req'[q].at # "idle"
        PROVE  /\ req'[q].user \in Users
               /\ req'[q].n \in 1..logins'
               /\ req'[q].n \notin ended'
               /\ req'[q].before \subseteq ended'
               /\ \A x \in Handlers : req'[x].at # "idle" /\ req'[x].n = req'[q].n => x = q
    <3>1. CASE q = p
      BY <1>1, <1>2, <1>3, <2>1, <3>1 DEF IInv, InFlightOK
    <3>2. CASE q # p
      BY <1>1, <1>2, <1>3, <2>2, <3>2 DEF IInv, InFlightOK
    <3>. QED  BY <3>1, <3>2
  <2>3. \A n \in ended' : n <= logins'
    BY <1>1, <1>2, <2>1
  <2>. QED  BY <2>2, <2>3 DEF InFlightOK
<1>6. CreateOK' /\ UpdateOK'
  BY <1>1, <1>3 DEF IInv, CreateOK, UpdateOK
<1>. QED  BY <1>4, <1>5, <1>6 DEF IInv

LEMMA GetStep ==
  ASSUME IInv, NEW p \in Handlers, Get(p)
  PROVE  IInv'
<1> DEFINE found == profile[req[p].user]
<1>1. /\ req[p].at = "get"
      /\ req' = [req EXCEPT ![p].seen = found,
                            ![p].at = IF found = Absent THEN "create" ELSE "update"]
      /\ UNCHANGED <<backend, profile, logins, ended, reply>>
  BY DEF Get
<1>2. TypeOK /\ found \in Profiles /\ req[p].user \in Users
  BY <1>1 DEF IInv, InFlightOK, TypeOK
<1>3. /\ req'[p].at = IF found = Absent THEN "create" ELSE "update"
      /\ req'[p].seen = found /\ req'[p].user = req[p].user
      /\ req'[p].n = req[p].n /\ req'[p].before = req[p].before
      /\ \A q \in Handlers : q # p => req'[q] = req[q]
  BY <1>1, <1>2 DEF TypeOK
<1>4. TypeOK'
  BY <1>1, <1>2 DEF TypeOK
<1>5. /\ profile' = profile /\ logins' = logins /\ ended' = ended
      /\ req'[p].at \in {"create", "update"}
      /\ \A q \in Handlers : /\ req'[q].user = req[q].user /\ req'[q].n = req[q].n
                            /\ req'[q].before = req[q].before
      /\ \A q \in Handlers : req'[q].at # "idle" => req[q].at # "idle"
  <2>1. req'[p].at \in {"create", "update"}
    BY <1>3
  <2>2. ASSUME NEW q \in Handlers
        PROVE  /\ req'[q].user = req[q].user /\ req'[q].n = req[q].n
               /\ req'[q].before = req[q].before
               /\ req'[q].at # "idle" => req[q].at # "idle"
    <3>1. CASE q = p
      BY <1>1, <1>3, <3>1
    <3>2. CASE q # p
      BY <1>3, <3>2
    <3>. QED  BY <3>1, <3>2
  <2>. QED  BY <1>1, <2>1, <2>2
<1>6. InFlightOK'
  BY <1>5 DEF IInv, InFlightOK
<1>7. CreateOK'
  <2> SUFFICES ASSUME NEW q \in Handlers, req'[q].at = "create",
                      profile'[req'[q].user] # Absent
               PROVE  /\ profile'[req'[q].user].created \notin req'[q].before
                      /\ profile'[req'[q].user].data \notin req'[q].before
    BY DEF CreateOK
  <2>1. q # p
    BY <1>3, <1>5
  <2>. QED  BY <1>3, <1>5, <2>1 DEF IInv, CreateOK
<1>8. UpdateOK'
  <2> SUFFICES ASSUME NEW q \in Handlers, req'[q].at = "update"
               PROVE  /\ profile'[req'[q].user] # Absent
                      /\ profile'[req'[q].user].created = req'[q].seen.created
    BY DEF UpdateOK
  <2>1. CASE q = p
    BY <1>3, <1>5, <2>1
  <2>2. CASE q # p
    BY <1>3, <1>5, <2>2 DEF IInv, UpdateOK
  <2>. QED  BY <2>1, <2>2
<1>. QED  BY <1>4, <1>6, <1>7, <1>8 DEF IInv

LEMMA RestartStep ==
  ASSUME IInv, Restart
  PROVE  IInv'
<1>1. TypeOK /\ \A p \in Handlers : req[p].at # "idle" => req[p].n \in 1..logins
  BY DEF IInv, InFlightOK
<1>2. \A p \in Handlers : req'[p].at = "idle"
  BY DEF Restart, NoRequest
<1>3. ended' \subseteq Logins /\ \A n \in ended' : n <= logins'
  <2>1. ASSUME NEW n \in ended' PROVE n \in Logins /\ n <= logins'
    <3>1. CASE n \in ended
      BY <1>1, <3>1 DEF Restart, TypeOK, IInv, InFlightOK
    <3>2. CASE n \notin ended
      <4>1. PICK q \in Handlers : req[q].at # "idle" /\ n = req[q].n
        BY <2>1, <3>2 DEF Restart
      <4>. QED  BY <1>1, <4>1, LoginsAssumption DEF Restart, TypeOK, Logins
    <3>. QED  BY <3>1, <3>2
  <2>. QED  BY <2>1
<1>4. TypeOK'
  <2>1. profile' \in [Users -> Profiles]
    BY <1>1 DEF Restart, TypeOK, Absent, Profiles
  <2>2. NoRequest \in [at: {"idle", "get", "create", "update"}, user: Users \union {NoUser},
                       n: Logins \union {0}, seen: Profiles, before: SUBSET Logins]
    BY DEF NoRequest, Absent, Profiles
  <2>. QED  BY <1>1, <1>3, <2>1, <2>2 DEF Restart, TypeOK
<1>. QED  BY <1>2, <1>3, <1>4 DEF IInv, InFlightOK, CreateOK, UpdateOK

\* Every other step ends a login, with its profile stored or not.
LEMMA EndOfLogin ==
  ASSUME IInv, NEW p \in Handlers, Create(p) \/ Update(p) \/ Fail(p)
  PROVE  /\ req[p].at # "idle"
         /\ Stores(p) \/ UNCHANGED profile
         /\ UNCHANGED <<backend, logins>>
         /\ \E r \in [user: Users \union {NoUser}, n: Logins \union {0},
                      created: Logins \union {0}, before: SUBSET Logins] : Return(p, r)
<1> DEFINE Replies == [user: Users \union {NoUser}, n: Logins \union {0},
                       created: Logins \union {0}, before: SUBSET Logins]
<1>1. /\ reply \in Replies
      /\ req[p] \in [at: {"idle", "get", "create", "update"}, user: Users \union {NoUser},
                   n: Logins \union {0}, seen: Profiles, before: SUBSET Logins]
  BY DEF IInv, TypeOK
<1>2. \A c \in Logins \union {0} :
        [user |-> req[p].user, n |-> req[p].n, created |-> c,
         before |-> req[p].before] \in Replies
  BY <1>1
<1>3. CASE Create(p)
  BY <1>1, <1>2, <1>3, CreateStores DEF Create, Success
<1>4. CASE Update(p)
  <2>1. req[p].seen.created \in Logins \union {0}
    BY <1>1 DEF Profiles
  <2>. QED  BY <1>2, <1>4, <2>1, UpdateStores DEF Update, Success
<1>5. CASE Fail(p)
  BY <1>1, <1>5, CreateStores, UpdateStores DEF Fail
<1>. QED  BY <1>3, <1>4, <1>5

LEMMA StepIInv == IInv /\ [Next]_vars => IInv'
<1> SUFFICES ASSUME IInv, [Next]_vars PROVE IInv'
  OBVIOUS
<1>1. CASE UNCHANGED vars
  BY <1>1 DEF IInv, TypeOK, InFlightOK, CreateOK, UpdateOK, vars
<1>2. CASE Restart
  BY <1>2, RestartStep
<1>3. ASSUME NEW p \in Handlers, Step(p) PROVE IInv'
  <2>1. CASE Get(p)
    BY <2>1, GetStep
  <2>2. CASE Create(p) \/ Update(p) \/ Fail(p)
    BY <2>2, EndOfLogin, ReturnStep
  <2>. QED  BY <1>3, <2>1, <2>2 DEF Step
<1>4. ASSUME NEW p \in Handlers, NEW u \in Users, Begin(p, u) PROVE IInv'
  BY <1>4, BeginStep
<1>. QED  BY <1>1, <1>2, <1>3, <1>4 DEF Next

LEMMA Invariance == Spec => []IInv
  BY InitIInv, StepIInv, PTL DEF Spec

\* The types of the repository, of the logins in flight and of the replies.
THEOREM TypeCorrect == Spec => []TypeOK
  BY Invariance, PTL DEF IInv

\* A step that writes a profile stores it for the user of the login.
LEMMA WriterStores ==
  ASSUME IInv, [Next]_vars, ~Restart, profile' # profile
  PROVE  \E p \in Handlers : Stores(p)
<1>1. PICK p \in Handlers : Create(p) \/ Update(p) \/ Fail(p)
  BY DEF Next, Step, Begin, Get, vars
<1>. QED  BY <1>1, EndOfLogin

\* Neither repository ever changes the creation time of a profile.
THEOREM ProfileCreatedOnce == Spec => CreatedOnce
<1>1. ASSUME IInv, [Next]_vars, NEW u \in Users,
             profile[u] # Absent, profile'[u] # Absent
      PROVE  profile'[u].created = profile[u].created
  <2>1. CASE Restart
    BY <1>1, <2>1 DEF Restart
  <2>2. CASE profile' = profile
    BY <2>2
  <2>3. CASE ~Restart /\ profile' # profile
    <3>1. PICK p \in Handlers : Stores(p)
      BY <1>1, <2>3, WriterStores
    <3>. QED  BY <1>1, <3>1 DEF Stores
  <2>. QED  BY <2>1, <2>2, <2>3
<1>2. IInv /\ [Next]_vars =>
        [\A u \in Users : profile[u] # Absent /\ profile'[u] # Absent =>
            profile'[u].created = profile[u].created]_vars
  BY <1>1
<1>. QED  BY <1>2, Invariance, PTL DEF Spec, CreatedOnce

\* Only a login that succeeds replies, with the profile it has seen or made.
LEMMA Replies ==
  ASSUME IInv, [Next]_vars, reply' # reply
  PROVE  \E p \in Handlers :
            /\ req[p].at \in {"create", "update"}
            /\ reply'.user = req[p].user /\ reply'.n = req[p].n
            /\ reply'.before = req[p].before
            /\ \/ Create(p) /\ reply'.created = req[p].n
               \/ Update(p) /\ reply'.created = req[p].seen.created
<1>1. PICK p \in Handlers : Create(p) \/ Update(p)
  BY DEF Next, Step, Begin, Get, Fail, Return, Restart, vars
<1>2. \A c : Success(p, c) =>
        /\ reply'.user = req[p].user /\ reply'.n = req[p].n
        /\ reply'.before = req[p].before /\ reply'.created = c
  BY DEF Success, Return
<1>3. /\ req[p].at \in {"create", "update"}
      /\ Create(p) => Success(p, req[p].n)
      /\ Update(p) => Success(p, req[p].seen.created)
  BY <1>1 DEF Create, Update
<1>4. CASE Create(p)
  BY <1>2, <1>3, <1>4
<1>5. CASE Update(p)
  BY <1>2, <1>3, <1>5
<1>. QED  BY <1>1, <1>4, <1>5

\* What is stored when a login replies: its own fields, or, if it lost the race
\* to create the profile, those of a login that overlapped with it.
LEMMA StoredAtReply ==
  ASSUME IInv, NEW p \in Handlers, Create(p) \/ Update(p)
  PROVE  LET u == req[p].user
         IN  /\ profile'[u].data \notin req[p].before
             /\ Create(p) => \/ profile'[u].created = req[p].n
                             \/ profile'[u].created \notin req[p].before
             /\ Update(p) => profile'[u].created = req[p].seen.created
<1> DEFINE u == req[p].user
<1>1. /\ u \in Users /\ req[p].n \notin req[p].before
      /\ profile \in [Users -> Profiles]
  BY DEF IInv, TypeOK, InFlightOK, Create, Update
<1>2. CASE Create(p)
  <2>1. profile'[u] = IF profile[u] = Absent
                      THEN [created |-> req[p].n, data |-> req[p].n] ELSE profile[u]
    BY <1>1, <1>2 DEF Create
  <2>. QED  BY <1>1, <1>2, <2>1 DEF IInv, CreateOK, Create, Update
<1>3. CASE Update(p)
  <2>1. profile'[u] = Updated(p) /\ profile[u].created = req[p].seen.created
    BY <1>1, <1>3 DEF Update, IInv, UpdateOK
  <2>2. profile'[u].data = req[p].n /\ profile'[u].created = req[p].seen.created
    BY <2>1 DEF Updated
  <2>. QED  BY <1>1, <1>3, <2>2 DEF Create, Update
<1>. QED  BY <1>2, <1>3

\* A login never returns over the fields of a login that was over before it.
THEOREM LastLoginIsStored == Spec => LastLoginStored
<1>1. IInv /\ [Next]_vars =>
        [reply' # reply => profile'[reply'.user].data \notin reply'.before]_vars
  BY Replies, StoredAtReply
<1>. QED  BY <1>1, Invariance, PTL DEF Spec, LastLoginStored

\* The creation time a login returns is the stored one, or its own when it lost
\* the race to create the profile.
THEOREM ReplyIsStored == Spec => ReplyCreated
<1>1. IInv /\ [Next]_vars =>
        [reply' # reply =>
            \/ reply'.created = profile'[reply'.user].created
            \/ /\ reply'.created = reply'.n
               /\ profile'[reply'.user].created \notin reply'.before]_vars
  <2> SUFFICES ASSUME IInv, [Next]_vars, reply' # reply
               PROVE  \/ reply'.created = profile'[reply'.user].created
                      \/ /\ reply'.created = reply'.n
                         /\ profile'[reply'.user].created \notin reply'.before
    OBVIOUS
  <2>1. PICK p \in Handlers :
            /\ reply'.user = req[p].user /\ reply'.n = req[p].n
            /\ reply'.before = req[p].before
            /\ \/ Create(p) /\ reply'.created = req[p].n
               \/ Update(p) /\ reply'.created = req[p].seen.created
    BY Replies
  <2>. QED  BY <2>1, StoredAtReply
<1>. QED  BY <1>1, Invariance, PTL DEF Spec, ReplyCreated

=============================================================================
