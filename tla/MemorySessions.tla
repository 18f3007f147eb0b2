--------------------------- MODULE MemorySessions --------------------------
(***************************************************************************)
(* Refresh sessions in memory: the auth Service (src/internal/auth/        *)
(* service.go) over InMemoryRefreshSessionStore (refresh_store_memory.go), *)
(* the store of a server that runs without Redis.                          *)
(*                                                                         *)
(* Every operation of the store is one step, under its mutex; a refresh    *)
(* and a logout take two of them (Get, then Rotate or RevokeSession), and  *)
(* other requests run in between.  The store ignores its context, so a     *)
(* request stops early only with the process, which loses every session.   *)
(* Tokens are numbered as in RedisSessions; time is discrete.              *)
(***************************************************************************)
EXTENDS Integers, FiniteSets

CONSTANTS
    Users, SessionIDs, Handlers,
    None,                \* neither a user nor a session id
    MaxSessionsPerUser,  \* the store's limit
    RefreshTTL,          \* Service.refreshTTL
    MaxLatency,          \* bound: the longest a request is in flight
    MaxTime,             \* bound: the clock stops here
    MaxTokens            \* bound: tokens minted for one session

\* NewInMemoryRefreshSessionStore replaces a limit below 1 by 5.
ASSUME LimitAssumption == MaxSessionsPerUser \in Nat \ {0}

ASSUME TimeAssumption ==
    /\ RefreshTTL \in Nat /\ MaxLatency \in Nat /\ MaxLatency < RefreshTTL
    /\ MaxTime \in Nat \ {0}
    /\ MaxTokens \in Nat \ {0}

ASSUME NamesAssumption ==
    /\ None \notin Users /\ None \notin SessionIDs
    /\ IsFiniteSet(SessionIDs)

VARIABLES
    clock,
    sessions,   \* sessions[s]: the entry of the map, or Absent
    pc, req,    \* the next store operation of a handler, and its locals
    minted,     \* minted[s]: how many tokens were minted for s
    known,      \* known[s]: the tokens of s that reached a client
    opened,     \* history: the sessions that Create has stored
    exchanged   \* history: <<s, old, new>> for every Rotate that succeeded

vars == <<clock, sessions, pc, req, minted, known, opened, exchanged>>

Tokens == 1..MaxTokens
Times == 0..(MaxTime + RefreshTTL)

Absent == [user |-> None, token |-> 0, expires |-> 0, revoked |-> FALSE]
NoRequest == [user |-> None, sid |-> None, token |-> 0, next |-> 0, at |-> 0]

Entries ==
    [user: Users \union {None}, token: Tokens \union {0}, expires: Times, revoked: BOOLEAN]
Requests ==
    [user: Users \union {None}, sid: SessionIDs \union {None},
     token: Tokens \union {0}, next: Tokens \union {0}, at: 0..MaxTime]

TypeOK ==
    /\ clock \in 1..MaxTime
    /\ sessions \in [SessionIDs -> Entries]
    /\ pc \in [Handlers -> {"idle", "create", "get", "rotate", "logout_get", "revoke"}]
    /\ req \in [Handlers -> Requests]
    /\ minted \in [SessionIDs -> 0..MaxTokens]
    /\ known \in [SessionIDs -> SUBSET Tokens]
    /\ opened \subseteq SessionIDs
    /\ exchanged \subseteq SessionIDs \X Tokens \X Tokens

Init ==
    /\ clock = 1
    /\ sessions = [s \in SessionIDs |-> Absent]
    /\ pc = [p \in Handlers |-> "idle"]
    /\ req = [p \in Handlers |-> NoRequest]
    /\ minted = [s \in SessionIDs |-> 0]
    /\ known = [s \in SessionIDs |-> {}]
    /\ opened = {}
    /\ exchanged = {}

-----------------------------------------------------------------------------

Stored(s) == sessions[s].user # None

\* Rotate would accept the current token: it does not look at the expiry.
Live(s) == Stored(s) /\ ~sessions[s].revoked

\* cleanupExpiredLocked keeps these of all users' sessions.
Unexpired == {s \in SessionIDs : Stored(s) /\ sessions[s].expires >= clock}

SessionsOf(u) == {s \in SessionIDs : sessions[s].user = u}

Goto(p, label, locals) ==
    /\ pc' = [pc EXCEPT ![p] = label]
    /\ req' = [req EXCEPT ![p] = locals]

Finish(p) == Goto(p, "idle", NoRequest)

\* The reply reaches the client, with the token that was minted, or is lost.
Reply(s, t) == known' \in {known, [known EXCEPT ![s] = @ \union {t}]}

-----------------------------------------------------------------------------
(* Login: Service.Authenticate, createRefreshSession and Create.           *)

BeginLogin(p, u) ==
    /\ pc[p] = "idle"
    /\ \E s \in SessionIDs :
        /\ minted[s] = 0
        /\ minted' = [minted EXCEPT ![s] = 1]
        /\ Goto(p, "create", [NoRequest EXCEPT !.user = u, !.sid = s, !.next = 1, !.at = clock])
    /\ UNCHANGED <<clock, sessions, known, opened, exchanged>>

\* Mutant: the limit is compared with > instead of >=.
Victims_OffByOne(u) ==
    LET mine == SessionsOf(u) \intersect Unexpired
        first == {v \in mine : \A s \in mine : sessions[v].expires <= sessions[s].expires}
    IN  IF Cardinality(mine) > MaxSessionsPerUser THEN {{v} : v \in first} ELSE {{}}

\* Mutant: the sessions of all users are counted, and the first of them evicted.
Victims_AnyUser(u) ==
    LET first == {v \in Unexpired : \A s \in Unexpired : sessions[v].expires <= sessions[s].expires}
    IN  IF Cardinality(Unexpired) >= MaxSessionsPerUser THEN {{v} : v \in first} ELSE {{}}

\* What Create evicts of a user's unexpired sessions, revoked ones included:
\* the one that expires first (any of them, on a tie), if the limit is reached.
Victims(u) ==
    LET mine == SessionsOf(u) \intersect Unexpired
        first == {v \in mine : \A s \in mine : sessions[v].expires <= sessions[s].expires}
    IN  IF Cardinality(mine) >= MaxSessionsPerUser THEN {{v} : v \in first} ELSE {{}}

\* Create: expired sessions are dropped, one may be evicted, the new one added.
Create(p) ==
    LET r == req[p]
        expires == r.at + RefreshTTL
    IN  /\ pc[p] = "create"
        /\ expires > clock
        /\ \E gone \in Victims(r.user) :
            sessions' = [s \in SessionIDs |->
                IF s = r.sid
                THEN [user |-> r.user, token |-> r.next, expires |-> expires, revoked |-> FALSE]
                ELSE IF s \in Unexpired \ gone THEN sessions[s] ELSE Absent]
        /\ opened' = opened \union {r.sid}
        /\ Reply(r.sid, r.next)
        /\ Finish(p)
        /\ UNCHANGED <<clock, minted, exchanged>>

-----------------------------------------------------------------------------
(* Refresh: Service.Refresh, Get and Rotate.                               *)

BeginRefresh(p, s, t) ==
    /\ pc[p] = "idle"
    /\ t \in known[s]
    /\ Goto(p, "get", [NoRequest EXCEPT !.sid = s, !.token = t, !.at = clock])
    /\ UNCHANGED <<clock, sessions, minted, known, opened, exchanged>>

\* Mutant: Get returns expired sessions as well.
Presentable_Expired(r) == Stored(r.sid) /\ sessions[r.sid].token = r.token

\* Get finds the session unexpired now, hence also when the request arrived.
Presentable(r) == r.sid \in Unexpired /\ sessions[r.sid].token = r.token

\* Mutant: Rotate does not compare the token again.
Rotatable_AnyToken(r) == Live(r.sid)

\* Rotate's own checks, made again under the lock.
Rotatable(r) == Live(r.sid) /\ sessions[r.sid].token = r.token

RefreshGet(p) ==
    LET r == req[p]
    IN  /\ pc[p] = "get"
        /\ Presentable(r) /\ ~sessions[r.sid].revoked
        /\ minted[r.sid] < MaxTokens
        /\ minted' = [minted EXCEPT ![r.sid] = @ + 1]
        /\ Goto(p, "rotate", [r EXCEPT !.next = minted[r.sid] + 1])
        /\ UNCHANGED <<clock, sessions, known, opened, exchanged>>

Rotate(p) ==
    LET r == req[p]
    IN  /\ pc[p] = "rotate"
        /\ Rotatable(r)
        /\ sessions' = [sessions EXCEPT ![r.sid] =
                           [@ EXCEPT !.token = r.next, !.expires = r.at + RefreshTTL]]
        /\ exchanged' = exchanged \union {<<r.sid, r.token, r.next>>}
        /\ Reply(r.sid, r.next)
        /\ Finish(p)
        /\ UNCHANGED <<clock, minted, opened>>

RefreshRefused(p) ==
    LET r == req[p]
    IN  /\ \/ pc[p] = "get" /\ ~(Presentable(r) /\ ~sessions[r.sid].revoked)
           \/ pc[p] = "rotate" /\ ~Rotatable(r)
        /\ Finish(p)
        /\ UNCHANGED <<clock, sessions, minted, known, opened, exchanged>>

-----------------------------------------------------------------------------
(* Logout and logout-all.                                                  *)

BeginLogout(p, s, t) ==
    /\ pc[p] = "idle"
    /\ t \in known[s]
    /\ Goto(p, "logout_get", [NoRequest EXCEPT !.sid = s, !.token = t, !.at = clock])
    /\ UNCHANGED <<clock, sessions, minted, known, opened, exchanged>>

\* Service.Logout's Get and its check of the token; the session may be revoked.
LogoutGet(p) ==
    /\ pc[p] = "logout_get"
    /\ Presentable(req[p])
    /\ Goto(p, "revoke", req[p])
    /\ UNCHANGED <<clock, sessions, minted, known, opened, exchanged>>

\* RevokeSession: whatever token the session has by now.
RevokeSession(p) ==
    /\ pc[p] = "revoke"
    /\ Stored(req[p].sid)
    /\ sessions' = [sessions EXCEPT ![req[p].sid].revoked = TRUE]
    /\ Finish(p)
    /\ UNCHANGED <<clock, minted, known, opened, exchanged>>

LogoutRefused(p) ==
    /\ \/ pc[p] = "logout_get" /\ ~Presentable(req[p])
       \/ pc[p] = "revoke" /\ ~Stored(req[p].sid)
    /\ Finish(p)
    /\ UNCHANGED <<clock, sessions, minted, known, opened, exchanged>>

\* Service.LogoutAll: RevokeUserSessions is a single operation of the store.
LogoutAll(u) ==
    /\ sessions' = [s \in SessionIDs |->
                       IF sessions[s].user = u
                       THEN [sessions[s] EXCEPT !.revoked = TRUE]
                       ELSE sessions[s]]
    /\ UNCHANGED <<clock, pc, req, minted, known, opened, exchanged>>

-----------------------------------------------------------------------------

\* The process stops and starts again: the map and the requests are gone.
Restart ==
    /\ sessions' = [s \in SessionIDs |-> Absent]
    /\ pc' = [p \in Handlers |-> "idle"]
    /\ req' = [p \in Handlers |-> NoRequest]
    /\ UNCHANGED <<clock, minted, known, opened, exchanged>>

Tick ==
    /\ clock < MaxTime
    /\ \A p \in Handlers : pc[p] # "idle" => clock - req[p].at < MaxLatency
    /\ clock' = clock + 1
    /\ UNCHANGED <<sessions, pc, req, minted, known, opened, exchanged>>

Begin(p) ==
    \/ \E u \in Users : BeginLogin(p, u)
    \/ \E s \in SessionIDs, t \in Tokens : BeginRefresh(p, s, t) \/ BeginLogout(p, s, t)

Step(p) ==
    \/ Create(p)
    \/ RefreshGet(p) \/ Rotate(p) \/ RefreshRefused(p)
    \/ LogoutGet(p) \/ RevokeSession(p) \/ LogoutRefused(p)

Next ==
    \/ \E p \in Handlers : Begin(p) \/ Step(p)
    \/ \E u \in Users : LogoutAll(u)
    \/ Restart
    \/ Tick

Spec == Init /\ [][Next]_vars

-----------------------------------------------------------------------------
(* Properties.                                                             *)

\* A user never has more sessions than the limit, revoked and expired ones
\* included: Create evicts one session only, and that suffices because no
\* other operation adds one (unlike in RedisSessions).
StoreLimit ==
    \A u \in Users : Cardinality(SessionsOf(u)) <= MaxSessionsPerUser

\* While the process lives, a session is dropped before it expires only for a login
\* of its own user that finds the limit reached: Create drops the expired sessions
\* of all users on the way.
DroppedForOwnLogin ==
    [][\A s \in Unexpired : ~Stored(s)' /\ (\E x \in SessionIDs : Stored(x)') =>
          /\ \E x \in opened' \ opened : sessions'[x].user = sessions[s].user
          /\ Cardinality(SessionsOf(sessions[s].user) \intersect Unexpired) = MaxSessionsPerUser
          /\ \A x \in SessionIDs : Stored(x)' /\ sessions[x].user = sessions[s].user =>
                sessions[s].expires <= sessions[x].expires]_vars

\* Rotate does not look at the expiry, and an expired session stays in the map
\* until some user's next login: a session that has expired is still prolonged
\* only by a request that arrived before it did.
ProlongedInTime ==
    [][\A p \in Handlers : Rotate(p) =>
          /\ req[p].at <= sessions[req[p].sid].expires
          /\ clock <= sessions[req[p].sid].expires + MaxLatency]_vars

\* The promise of the RefreshSessionStore interface.
Contract == INSTANCE SessionContract WITH
    NoToken <- 0,
    status <- [s \in SessionIDs |->
                  IF s \notin opened THEN "unused" ELSE IF Live(s) THEN "live" ELSE "dead"],
    current <- [s \in SessionIDs |-> IF Live(s) THEN sessions[s].token ELSE 0]

\* Every interleaving of requests on the map is a behaviour of the contract:
\* a session revoked, evicted or dropped between the two operations of a
\* refresh does not come back, and a token is exchanged once.
ImplementsContract == Contract!Spec

\* Whatever requests race between Get and Rotate, the refresh tokens of a session
\* are one chain with one good end: Rotate compares the token once more.
TokensFormAChain == Contract!TokensFormAChain

\* No rotation brings a session back that was revoked or dropped since its Get.
EndedForGood == Contract!EndedForGood

=============================================================================
