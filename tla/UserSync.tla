------------------------------ MODULE UserSync ------------------------------
(***************************************************************************)
(* User profiles: SyncTelegramProfile of users.Service (src/internal/users *)
(* /service.go), which every login calls, over InMemoryRepository          *)
(* (memory.go) or PostgresRepository (postgres.go).                        *)
(*                                                                         *)
(* A login reads the profile and then creates or updates it: two           *)
(* operations of the repository, each atomic, that concurrent logins of    *)
(* one user interleave.  Logins are numbered as they begin; the number     *)
(* stands for the Telegram fields the login brings and for the time it     *)
(* reads, which the code keeps in CreatedAt and UpdatedAt.  The id and the *)
(* referral code are functions of the Telegram id and stay out.            *)
(***************************************************************************)
EXTENDS Integers, FiniteSets

CONSTANTS
    Users,      \* Telegram ids
    Handlers,
    NoUser,     \* not a user
    MaxLogins   \* bound: logins ever begun

ASSUME LoginsAssumption == MaxLogins \in Nat /\ NoUser \notin Users

VARIABLES
    backend,    \* the repository main chose at start-up
    profile,    \* profile[u]: the stored record, or Absent
    logins,     \* how many logins have begun
    req,        \* req[p]: SyncTelegramProfile in progress
    ended,      \* history: the logins that have returned or died
    reply       \* history: the last profile a login returned

vars == <<backend, profile, logins, req, ended, reply>>

Logins == 1..MaxLogins

\* created and data: the logins whose time, and whose fields, are stored.
Absent == [created |-> 0, data |-> 0]
Profiles == [created: Logins \union {0}, data: Logins \union {0}]

NoRequest == [at |-> "idle", user |-> NoUser, n |-> 0, seen |-> Absent, before |-> {}]
NoReply == [user |-> NoUser, n |-> 0, created |-> 0, before |-> {}]

TypeOK ==
    /\ backend \in {"memory", "postgres"}
    /\ profile \in [Users -> Profiles]
    /\ logins \in 0..MaxLogins
    /\ req \in [Handlers ->
                  [at: {"idle", "get", "create", "update"}, user: Users \union {NoUser},
                   n: Logins \union {0}, seen: Profiles, before: SUBSET Logins]]
    /\ ended \subseteq Logins
    /\ reply \in [user: Users \union {NoUser}, n: Logins \union {0},
                  created: Logins \union {0}, before: SUBSET Logins]

Init ==
    /\ backend \in {"memory", "postgres"}
    /\ profile = [u \in Users |-> Absent]
    /\ logins = 0
    /\ req = [p \in Handlers |-> NoRequest]
    /\ ended = {}
    /\ reply = NoReply

-----------------------------------------------------------------------------

\* The login is over, with this reply or, when it failed, with none.
Return(p, r) ==
    /\ req' = [req EXCEPT ![p] = NoRequest]
    /\ ended' = ended \union {req[p].n}
    /\ reply' = r

\* The profile returned to the client has the login's own fields.
Success(p, created) ==
    Return(p, [user |-> req[p].user, n |-> req[p].n, created |-> created,
               before |-> req[p].before])

\* before is for the properties: the logins that were over by now.
Begin(p, u) ==
    /\ req[p].at = "idle"
    /\ logins < MaxLogins
    /\ logins' = logins + 1
    /\ req' = [req EXCEPT ![p] =
                 [at |-> "get", user |-> u, n |-> logins + 1, seen |-> Absent,
                  before |-> ended]]
    /\ UNCHANGED <<backend, profile, ended, reply>>

\* GetByTelegramID, and the choice it leads to.
Get(p) ==
    LET found == profile[req[p].user]
    IN  /\ req[p].at = "get"
        /\ req' = [req EXCEPT ![p].seen = found,
                              ![p].at = IF found = Absent THEN "create" ELSE "update"]
        /\ UNCHANGED <<backend, profile, logins, ended, reply>>

\* Mutant: the insert replaces a record that is there.
Create_Replaces(p) ==
    /\ req[p].at = "create"
    /\ profile' = [profile EXCEPT ![req[p].user] = [created |-> req[p].n, data |-> req[p].n]]
    /\ Success(p, req[p].n)
    /\ UNCHANGED <<backend, logins>>

\* Create: an existing record is left untouched, by "ON CONFLICT DO NOTHING" as
\* by the map, and the login still returns the profile it did not store.
Create(p) ==
    LET new == [created |-> req[p].n, data |-> req[p].n]
    IN  /\ req[p].at = "create"
        /\ profile' = [profile EXCEPT ![req[p].user] = IF @ = Absent THEN new ELSE @]
        /\ Success(p, req[p].n)
        /\ UNCHANGED <<backend, logins>>

\* Mutant: the values of two columns are swapped.
Updated_Swapped(p) ==
    LET u == req[p].user
    IN  [created |-> IF backend = "memory" THEN req[p].seen.created ELSE profile[u].created,
         data |-> u]

\* Mutant: only UpdatedAt is written.
Updated_Kept(p) ==
    LET u == req[p].user
    IN  [created |-> IF backend = "memory" THEN req[p].seen.created ELSE profile[u].created,
         data |-> profile[u].data]

\* Update of the map stores the whole profile; the statement leaves created_at.
Updated(p) ==
    LET u == req[p].user
    IN  [created |-> IF backend = "memory" THEN req[p].seen.created ELSE profile[u].created,
         data |-> req[p].n]

\* Mutant: a login that finds the profile returns it renewed, CreatedAt included.
Update_Renewed(p) ==
    LET u == req[p].user
    IN  /\ req[p].at = "update"
        /\ profile[u] # Absent
        /\ profile' = [profile EXCEPT ![u] = Updated(p)]
        /\ Success(p, req[p].n)
        /\ UNCHANGED <<backend, logins>>

\* Update: the last writer wins, whenever it read.  ErrNotFound cannot be: only
\* a restart, which ends the login too, removes a profile.
Update(p) ==
    LET u == req[p].user
    IN  /\ req[p].at = "update"
        /\ profile[u] # Absent
        /\ profile' = [profile EXCEPT ![u] = Updated(p)]
        /\ Success(p, req[p].seen.created)
        /\ UNCHANGED <<backend, logins>>

\* The database fails, before the statement or after it: the login fails.
Fail(p) ==
    LET u == req[p].user
        new == [created |-> req[p].n, data |-> req[p].n]
    IN  /\ backend = "postgres"
        /\ \/ req[p].at # "idle" /\ UNCHANGED profile
           \/ /\ req[p].at = "create"
              /\ profile' = [profile EXCEPT ![u] = IF @ = Absent THEN new ELSE @]
           \/ req[p].at = "update" /\ profile' = [profile EXCEPT ![u] = Updated(p)]
        /\ Return(p, reply)
        /\ UNCHANGED <<backend, logins>>

\* The process stops and starts again: the logins in flight are over, and the
\* map is empty.
Restart ==
    /\ profile' = IF backend = "memory" THEN [u \in Users |-> Absent] ELSE profile
    /\ req' = [p \in Handlers |-> NoRequest]
    /\ ended' = ended \union {req[p].n : p \in {q \in Handlers : req[q].at # "idle"}}
    /\ UNCHANGED <<backend, logins, reply>>

Step(p) == Get(p) \/ Create(p) \/ Update(p) \/ Fail(p)

Next ==
    \/ \E p \in Handlers : (\E u \in Users : Begin(p, u)) \/ Step(p)
    \/ Restart

Spec == Init /\ [][Next]_vars

-----------------------------------------------------------------------------
(* Properties.                                                             *)

\* A stored profile keeps its creation time for good, although the map is
\* written with whole profiles read earlier and the insert races with others.
CreatedOnce ==
    [][\A u \in Users :
          profile[u] # Absent /\ profile'[u] # Absent =>
              profile'[u].created = profile[u].created]_vars

\* When a login returns, the fields stored are its own or those of a login that
\* overlapped with it: no earlier login's fields come back.
LastLoginStored ==
    [][reply' # reply => profile'[reply'.user].data \notin reply'.before]_vars

\* The creation time returned is the stored one, except to a login that raced
\* with the one that created the profile, and returned its own.
ReplyCreated ==
    [][reply' # reply =>
          \/ reply'.created = profile'[reply'.user].created
          \/ /\ reply'.created = reply'.n
             /\ profile'[reply'.user].created \notin reply'.before]_vars

=============================================================================
