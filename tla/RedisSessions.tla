--------------------------- MODULE RedisSessions ---------------------------
(***************************************************************************)
(* Refresh sessions on Redis: the auth Service (src/internal/auth/         *)
(* service.go) over RedisRefreshSessionStore (refresh_store.go).           *)
(*                                                                         *)
(* A handler is one HTTP request in flight, on any replica: it runs one    *)
(* Redis command, or one MULTI/EXEC transaction, per step, so the steps of *)
(* the handlers interleave at the granularity Redis serialises them.  A    *)
(* handler may stop after any step (Redis error, cancelled context, crash  *)
(* of the replica), and the reply of a committed transaction may be lost.  *)
(*                                                                         *)
(* Time is in whole seconds, the granularity of expires_at, of the index   *)
(* scores and of EXPIRE as go-redis sends it.  Redis and the replicas      *)
(* share one clock.  Tokens are numbered in the order they are minted for  *)
(* a session: fresh numbers stand for fresh random secrets, and equal      *)
(* numbers for equal hashes.                                               *)
(***************************************************************************)
EXTENDS Integers, FiniteSets

CONSTANTS
    Users, SessionIDs, Handlers,
    None,                \* neither a user nor a session id
    MaxSessionsPerUser,  \* RefreshStoreConfig.MaxSessionsPerUser
    RefreshTTL,          \* Service.refreshTTL
    IndexSlack,          \* the 24 hours a user index outlives its last login
    MaxLatency,          \* bound: the longest a request is in flight
    MaxTime,             \* bound: the clock stops here
    MaxTokens            \* bound: tokens minted for one session

\* NewRedisRefreshSessionStore replaces a limit below 1 by 5.
ASSUME LimitAssumption == MaxSessionsPerUser \in Nat \ {0}

\* Redis calls time out (dial, read and write timeouts of the client) long
\* before the days a session lasts.
ASSUME TimeAssumption ==
    /\ RefreshTTL \in Nat /\ IndexSlack \in Nat /\ MaxLatency \in Nat
    /\ MaxLatency < RefreshTTL
    /\ MaxTime \in Nat \ {0}
    /\ MaxTokens \in Nat \ {0}

ASSUME NamesAssumption ==
    /\ None \notin Users /\ None \notin SessionIDs
    /\ IsFiniteSet(SessionIDs) /\ IsFiniteSet(Handlers)

VARIABLES
    clock,
    hash,           \* hash[s]: the Redis hash refresh:session:<s>
    index,          \* index[u][s]: score of s in the zset refresh:user:<u>, or 0
    indexDeadline,  \* indexDeadline[u]: when that zset expires, or Never
    pc,             \* pc[p]: the next command of handler p
    req,            \* req[p]: the local variables of handler p
    minted,         \* minted[s]: how many tokens were minted for s
    known,          \* known[s]: the tokens of s that reached a client
    opened,         \* history: the sessions that Create has stored
    exchanged,      \* history: <<s, old, new>> for every committed Rotate
    orphaned        \* history: sessions whose index entry was lost with the zset

store == <<hash, index, indexDeadline>>
history == <<opened, exchanged, orphaned>>
vars == <<clock, store, pc, req, minted, known, history>>

Never == -1

Tokens == 1..MaxTokens
Times == 0..(MaxTime + RefreshTTL + IndexSlack + MaxLatency)

\* A hash without fields is a key that does not exist.
Absent ==
    [user |-> None, token |-> 0, expires |-> 0, revoked |-> FALSE, deadline |-> Never]

NoRequest ==
    [user |-> None, sid |-> None, token |-> 0, next |-> 0, at |-> 0, ttl |-> 0,
     victim |-> None, ids |-> {}, seen |-> Absent, prior |-> {}]

Labels ==
    {"idle",
     "scan", "purge", "card", "oldest", "evict", "unindex", "add",  \* login
     "get", "watch", "exec",                                       \* refresh
     "logout_get", "revoke_get", "revoke",                         \* logout
     "range", "revoke_all"}                                        \* logout-all

LoginLabels == {"scan", "purge", "card", "oldest", "evict", "unindex", "add"}

Hashes ==
    [user: Users \union {None}, token: Tokens \union {0}, expires: Times,
     revoked: BOOLEAN, deadline: Times \union {Never}]

Requests ==
    [user: Users \union {None}, sid: SessionIDs \union {None},
     token: Tokens \union {0}, next: Tokens \union {0}, at: 0..MaxTime,
     ttl: 0..RefreshTTL, victim: SessionIDs \union {None},
     ids: SUBSET SessionIDs, seen: Hashes, prior: SUBSET SessionIDs]

TypeOK ==
    /\ clock \in 1..MaxTime
    /\ hash \in [SessionIDs -> Hashes]
    /\ index \in [Users -> [SessionIDs -> Times]]
    /\ indexDeadline \in [Users -> Times \union {Never}]
    /\ pc \in [Handlers -> Labels]
    /\ req \in [Handlers -> Requests]
    /\ minted \in [SessionIDs -> 0..MaxTokens]
    /\ known \in [SessionIDs -> SUBSET Tokens]
    /\ opened \subseteq SessionIDs
    /\ exchanged \subseteq SessionIDs \X Tokens \X Tokens
    /\ orphaned \subseteq SessionIDs

Init ==
    /\ clock = 1
    /\ hash = [s \in SessionIDs |-> Absent]
    /\ index = [u \in Users |-> [s \in SessionIDs |-> 0]]
    /\ indexDeadline = [u \in Users |-> Never]
    /\ pc = [p \in Handlers |-> "idle"]
    /\ req = [p \in Handlers |-> NoRequest]
    /\ minted = [s \in SessionIDs |-> 0]
    /\ known = [s \in SessionIDs |-> {}]
    /\ opened = {}
    /\ exchanged = {}
    /\ orphaned = {}

-----------------------------------------------------------------------------
(* What Redis holds.                                                       *)

\* parseRefreshSession succeeds: HSET revoked_at alone leaves the rest unset.
Parsable(h) == h.user # None

\* The store would rotate this session for its current token.
Usable(h) == Parsable(h) /\ ~h.revoked

Live(s) == Usable(hash[s])

SessionsOf(u) == {s \in SessionIDs : hash[s].user = u /\ ~hash[s].revoked}

\* ZRANGE 0 -1
Members(u) == {s \in SessionIDs : index[u][s] > 0}

\* ZRANGEBYSCORE -inf (now-1)
Expired(u) == {s \in Members(u) : index[u][s] <= clock - 1}

\* ZRANGE 0 0, with equal scores in any order
OldestMembers(u) ==
    {s \in Members(u) : \A o \in Members(u) : index[u][s] <= index[u][o]}

\* DEL of a set of session hashes
Delete(S) == hash' = [s \in SessionIDs |-> IF s \in S THEN Absent ELSE hash[s]]

\* HSET revoked_at on a set of session hashes: it creates the hash if the key
\* is gone, and leaves the key's TTL alone.
Revoke(S) ==
    hash' = [s \in SessionIDs |->
                IF s \in S THEN [hash[s] EXCEPT !.revoked = TRUE] ELSE hash[s]]

\* Mutant: the entry stays in the index.
KeepInIndex(u, S) == UNCHANGED <<index, indexDeadline>>

\* ZREM of a set of members: Redis removes a zset, and its TTL, when it empties.
RemoveFromIndex(u, S) ==
    /\ index' = [index EXCEPT ![u] =
                    [s \in SessionIDs |-> IF s \in S THEN 0 ELSE index[u][s]]]
    /\ indexDeadline' = [indexDeadline EXCEPT ![u] =
                            IF Members(u) \subseteq S THEN Never ELSE @]

-----------------------------------------------------------------------------
(* Handlers.                                                               *)

Goto(p, label, locals) ==
    /\ pc' = [pc EXCEPT ![p] = label]
    /\ req' = [req EXCEPT ![p] = locals]

Finish(p) == Goto(p, "idle", NoRequest)

\* The reply reaches the client, with the token that was minted, or is lost.
Reply(s, t) == known' \in {known, [known EXCEPT ![s] = @ \union {t}]}

-----------------------------------------------------------------------------
(* Login: Service.Authenticate, createRefreshSession and Create.           *)

\* The init data is verified, the profile synced, a fresh session id and its
\* first refresh token are minted; expires_at is now + refreshTTL.
BeginLogin(p, u) ==
    /\ pc[p] = "idle"
    /\ \E s \in SessionIDs :
        /\ minted[s] = 0
        /\ minted' = [minted EXCEPT ![s] = 1]
        /\ Goto(p, "scan", [NoRequest EXCEPT !.user = u, !.sid = s, !.next = 1, !.at = clock])
    /\ UNCHANGED <<clock, store, known, history>>

\* Create computes the TTL left and looks up the expired members.
Scan(p) ==
    LET r == req[p]
        ttl == r.at + RefreshTTL - clock
    IN  /\ pc[p] = "scan"
        /\ ttl > 0
        /\ IF Expired(r.user) = {}
           THEN Goto(p, "card", [r EXCEPT !.ttl = ttl])
           ELSE Goto(p, "purge", [r EXCEPT !.ttl = ttl, !.ids = Expired(r.user)])
        /\ UNCHANGED <<clock, store, minted, known, history>>

\* cleanupExpiredUserSessions deletes what the scan returned.
Purge(p) ==
    LET r == req[p]
    IN  /\ pc[p] = "purge"
        /\ Delete(r.ids)
        /\ RemoveFromIndex(r.user, r.ids)
        /\ Goto(p, "card", [r EXCEPT !.ids = {}])
        /\ UNCHANGED <<clock, minted, known, history>>

\* Mutant: count <= max lets one more session in.
Card_OffByOne(p) ==
    LET r == req[p]
    IN  /\ pc[p] = "card"
        /\ IF Cardinality(Members(r.user)) <= MaxSessionsPerUser
           THEN Goto(p, "add", r)
           ELSE Goto(p, "oldest", r)
        /\ UNCHANGED <<clock, store, minted, known, history>>

\* ZCARD: room for one more session, or another eviction first.
Card(p) ==
    LET r == req[p]
    IN  /\ pc[p] = "card"
        /\ IF Cardinality(Members(r.user)) < MaxSessionsPerUser
           THEN Goto(p, "add", r)
           ELSE Goto(p, "oldest", r)
        /\ UNCHANGED <<clock, store, minted, known, history>>

\* ZRANGE 0 0: the member that expires first, if the index still has one.
Oldest(p) ==
    LET r == req[p]
    IN  /\ pc[p] = "oldest"
        /\ \/ /\ Members(r.user) = {}
              /\ Goto(p, "add", r)
           \/ \E v \in OldestMembers(r.user) :
                Goto(p, "evict", [r EXCEPT !.victim = v])
        /\ UNCHANGED <<clock, store, minted, known, history>>

\* DEL of the victim's hash, whatever has become of it since Oldest.
Evict(p) ==
    LET r == req[p]
    IN  /\ pc[p] = "evict"
        /\ Delete({r.victim})
        /\ Goto(p, "unindex", r)
        /\ UNCHANGED <<clock, index, indexDeadline, minted, known, history>>

\* Mutant: the loop goes on without removing the victim from the index.
Unindex_Forgotten(p) ==
    LET r == req[p]
    IN  /\ pc[p] = "unindex"
        /\ Goto(p, "card", [r EXCEPT !.victim = None])
        /\ UNCHANGED <<clock, store, minted, known, history>>

\* ZREM of the victim, then the loop counts again.
Unindex(p) ==
    LET r == req[p]
    IN  /\ pc[p] = "unindex"
        /\ RemoveFromIndex(r.user, {r.victim})
        /\ Goto(p, "card", [r EXCEPT !.victim = None])
        /\ UNCHANGED <<clock, hash, minted, known, history>>

\* Mutant: ZADD is forgotten, the session is stored but never indexed.
Add_NotIndexed(p) ==
    LET r == req[p]
    IN  /\ pc[p] = "add"
        /\ hash' = [hash EXCEPT ![r.sid] =
                       [@ EXCEPT !.user = r.user, !.token = r.next,
                                 !.expires = r.at + RefreshTTL, !.deadline = clock + r.ttl]]
        /\ opened' = opened \union {r.sid}
        /\ Reply(r.sid, r.next)
        /\ Finish(p)
        /\ UNCHANGED <<clock, index, indexDeadline, minted, exchanged, orphaned>>

\* Mutant: HSET user_id is given the session id.
Add_SwappedID(p) ==
    LET r == req[p]
    IN  /\ pc[p] = "add"
        /\ hash' = [hash EXCEPT ![r.sid] =
                       [@ EXCEPT !.user = r.sid, !.token = r.next,
                                 !.expires = r.at + RefreshTTL, !.deadline = clock + r.ttl]]
        /\ index' = [index EXCEPT ![r.user][r.sid] = r.at + RefreshTTL]
        /\ indexDeadline' = [indexDeadline EXCEPT ![r.user] = clock + r.ttl + IndexSlack]
        /\ opened' = opened \union {r.sid}
        /\ Reply(r.sid, r.next)
        /\ Finish(p)
        /\ UNCHANGED <<clock, minted, exchanged, orphaned>>

\* MULTI: HSET and EXPIRE of the session, ZADD and EXPIRE of the user index.
Add(p) ==
    LET r == req[p]
        expires == r.at + RefreshTTL
    IN  /\ pc[p] = "add"
        /\ hash' = [hash EXCEPT ![r.sid] =
                       [@ EXCEPT !.user = r.user, !.token = r.next,
                                 !.expires = expires, !.deadline = clock + r.ttl]]
        /\ index' = [index EXCEPT ![r.user][r.sid] = expires]
        /\ indexDeadline' = [indexDeadline EXCEPT ![r.user] = clock + r.ttl + IndexSlack]
        /\ opened' = opened \union {r.sid}
        /\ Reply(r.sid, r.next)
        /\ Finish(p)
        /\ UNCHANGED <<clock, minted, exchanged, orphaned>>

-----------------------------------------------------------------------------
(* Refresh: Service.Refresh and Rotate.                                    *)

\* A client presents a token it has received, current or already exchanged.
BeginRefresh(p, s, t) ==
    /\ pc[p] = "idle"
    /\ t \in known[s]
    /\ Goto(p, "get", [NoRequest EXCEPT !.sid = s, !.token = t, !.at = clock])
    /\ UNCHANGED <<clock, store, minted, known, history>>

\* Get, the Service's checks, and the next token.
RefreshGet(p) ==
    LET r == req[p]
        h == hash[r.sid]
    IN  /\ pc[p] = "get"
        /\ Usable(h) /\ h.expires >= r.at /\ h.token = r.token
        /\ minted[r.sid] < MaxTokens
        /\ minted' = [minted EXCEPT ![r.sid] = @ + 1]
        /\ Goto(p, "watch", [r EXCEPT !.next = minted[r.sid] + 1])
        /\ UNCHANGED <<clock, store, known, history>>

\* WATCH and HGETALL: Rotate repeats the checks on what it reads itself.
Watch(p) ==
    LET r == req[p]
        h == hash[r.sid]
    IN  /\ pc[p] = "watch"
        /\ Usable(h) /\ h.token = r.token
        /\ Goto(p, "exec", [r EXCEPT !.seen = h, !.ttl = r.at + RefreshTTL - clock])
        /\ UNCHANGED <<clock, store, minted, known, history>>

\* An error of Get or of the checks, before or inside the WATCH.
RefreshRefused(p) ==
    LET r == req[p]
        h == hash[r.sid]
    IN  /\ \/ pc[p] = "get" /\ ~(Usable(h) /\ h.expires >= r.at /\ h.token = r.token)
           \/ pc[p] = "watch" /\ ~(Usable(h) /\ h.token = r.token)
        /\ Finish(p)
        /\ UNCHANGED <<clock, store, minted, known, history>>

\* MULTI of Rotate: HSET token_hash, expires_at; EXPIRE; ZADD the user index.
\* The zset's own TTL is not extended, and a zset that ZADD has to create
\* has none.
CommitRotation(p) ==
    LET r == req[p]
        expires == r.at + RefreshTTL
    IN  /\ hash' = [hash EXCEPT ![r.sid] =
                       [@ EXCEPT !.token = r.next, !.expires = expires,
                                 !.deadline = clock + r.ttl]]
        /\ index' = [index EXCEPT ![r.seen.user][r.sid] = expires]
        /\ exchanged' = exchanged \union {<<r.sid, r.token, r.next>>}
        /\ Reply(r.sid, r.next)

\* Mutant: no WATCH, the transaction commits whatever happened since HGETALL.
Exec_NoWatch(p) ==
    LET r == req[p]
    IN  /\ pc[p] = "exec"
        /\ CommitRotation(p)
        /\ Finish(p)
        /\ UNCHANGED <<clock, indexDeadline, minted, opened, orphaned>>

\* Mutant: Rotate forgets ZADD, the index keeps the expiry of the first token.
Exec_NoZAdd(p) ==
    LET r == req[p]
    IN  /\ pc[p] = "exec"
        /\ hash[r.sid] = r.seen
        /\ hash' = [hash EXCEPT ![r.sid] =
                       [@ EXCEPT !.token = r.next, !.expires = r.at + RefreshTTL,
                                 !.deadline = clock + r.ttl]]
        /\ exchanged' = exchanged \union {<<r.sid, r.token, r.next>>}
        /\ Reply(r.sid, r.next)
        /\ Finish(p)
        /\ UNCHANGED <<clock, index, indexDeadline, minted, opened, orphaned>>

\* Mutant: Rotate forgets EXPIRE, the key keeps the TTL of its login.
Exec_NoExpire(p) ==
    LET r == req[p]
    IN  /\ pc[p] = "exec"
        /\ hash[r.sid] = r.seen
        /\ hash' = [hash EXCEPT ![r.sid] =
                       [@ EXCEPT !.token = r.next, !.expires = r.at + RefreshTTL]]
        /\ index' = [index EXCEPT ![r.seen.user][r.sid] = r.at + RefreshTTL]
        /\ exchanged' = exchanged \union {<<r.sid, r.token, r.next>>}
        /\ Reply(r.sid, r.next)
        /\ Finish(p)
        /\ UNCHANGED <<clock, indexDeadline, minted, opened, orphaned>>

\* Mutant: Rotate writes the session it read back as a whole, unwatched.
Exec_WriteBack(p) ==
    LET r == req[p]
        expires == r.at + RefreshTTL
    IN  /\ pc[p] = "exec"
        /\ hash' = [hash EXCEPT ![r.sid] =
                       [r.seen EXCEPT !.token = r.next, !.expires = expires,
                                      !.deadline = clock + r.ttl]]
        /\ index' = [index EXCEPT ![r.seen.user][r.sid] = expires]
        /\ exchanged' = exchanged \union {<<r.sid, r.token, r.next>>}
        /\ Reply(r.sid, r.next)
        /\ Finish(p)
        /\ UNCHANGED <<clock, indexDeadline, minted, opened, orphaned>>

\* EXEC commits only if the watched hash was not written since HGETALL; every
\* writer of a usable hash changes its value, so comparing values is WATCH.
Exec(p) ==
    LET r == req[p]
    IN  /\ pc[p] = "exec"
        /\ hash[r.sid] = r.seen
        /\ CommitRotation(p)
        /\ Finish(p)
        /\ UNCHANGED <<clock, indexDeadline, minted, opened, orphaned>>

\* redis.TxFailedErr: "refresh session concurrent update".
ExecFailed(p) ==
    /\ pc[p] = "exec"
    /\ hash[req[p].sid] # req[p].seen
    /\ Finish(p)
    /\ UNCHANGED <<clock, store, minted, known, history>>

-----------------------------------------------------------------------------
(* Logout: Service.Logout and RevokeSession.                               *)

BeginLogout(p, s, t) ==
    /\ pc[p] = "idle"
    /\ t \in known[s]
    /\ Goto(p, "logout_get", [NoRequest EXCEPT !.sid = s, !.token = t, !.at = clock])
    /\ UNCHANGED <<clock, store, minted, known, history>>

\* The Service's Get: the token must be the session's current one, which may
\* be revoked or expired.
LogoutGet(p) ==
    LET h == hash[req[p].sid]
    IN  /\ pc[p] = "logout_get"
        /\ Parsable(h) /\ h.token = req[p].token
        /\ Goto(p, "revoke_get", req[p])
        /\ UNCHANGED <<clock, store, minted, known, history>>

\* RevokeSession's own Get: whose index to update.
RevokeGet(p) ==
    LET h == hash[req[p].sid]
    IN  /\ pc[p] = "revoke_get"
        /\ Parsable(h)
        /\ Goto(p, "revoke", [req[p] EXCEPT !.user = h.user])
        /\ UNCHANGED <<clock, store, minted, known, history>>

LogoutRefused(p) ==
    LET h == hash[req[p].sid]
    IN  /\ \/ pc[p] = "logout_get" /\ ~(Parsable(h) /\ h.token = req[p].token)
           \/ pc[p] = "revoke_get" /\ ~Parsable(h)
        /\ Finish(p)
        /\ UNCHANGED <<clock, store, minted, known, history>>

\* MULTI: HSET revoked_at, ZREM.
RevokeSession(p) ==
    LET r == req[p]
    IN  /\ pc[p] = "revoke"
        /\ Revoke({r.sid})
        /\ RemoveFromIndex(r.user, {r.sid})
        /\ Finish(p)
        /\ UNCHANGED <<clock, minted, known, history>>

-----------------------------------------------------------------------------
(* Logout-all: Service.LogoutAll and RevokeUserSessions.                   *)

\* prior is for the properties: the user's sessions when the request arrived.
BeginLogoutAll(p, u) ==
    /\ pc[p] = "idle"
    /\ Goto(p, "range", [NoRequest EXCEPT !.user = u, !.at = clock, !.prior = SessionsOf(u)])
    /\ UNCHANGED <<clock, store, minted, known, history>>

\* ZRANGE 0 -1: an empty index is success.
RangeAll(p) ==
    LET r == req[p]
    IN  /\ pc[p] = "range"
        /\ IF Members(r.user) = {}
           THEN Finish(p)
           ELSE Goto(p, "revoke_all", [r EXCEPT !.ids = Members(r.user)])
        /\ UNCHANGED <<clock, store, minted, known, history>>

\* Mutant: the sessions leave the index, but HSET revoked_at is forgotten.
RevokeAll_ZRemOnly(p) ==
    LET r == req[p]
    IN  /\ pc[p] = "revoke_all"
        /\ RemoveFromIndex(r.user, r.ids)
        /\ Finish(p)
        /\ UNCHANGED <<clock, hash, minted, known, history>>

\* MULTI: HSET revoked_at and ZREM for every id the range returned.
RevokeAll(p) ==
    LET r == req[p]
    IN  /\ pc[p] = "revoke_all"
        /\ Revoke(r.ids)
        /\ RemoveFromIndex(r.user, r.ids)
        /\ Finish(p)
        /\ UNCHANGED <<clock, minted, known, history>>

-----------------------------------------------------------------------------
(* Failures and time.                                                      *)

\* A command fails, the request is cancelled, or its replica stops.
Abort(p) ==
    /\ pc[p] # "idle"
    /\ Finish(p)
    /\ UNCHANGED <<clock, store, minted, known, history>>

\* A second passes: Redis drops the keys whose TTL is over.
Tick ==
    LET over(d) == d # Never /\ d <= clock + 1
        lost == {u \in Users : over(indexDeadline[u])}
    IN  /\ clock < MaxTime
        /\ \A p \in Handlers : pc[p] # "idle" => clock - req[p].at < MaxLatency
        /\ clock' = clock + 1
        /\ hash' = [s \in SessionIDs |->
                       IF over(hash[s].deadline) THEN Absent ELSE hash[s]]
        /\ index' = [u \in Users |->
                        IF u \in lost THEN [s \in SessionIDs |-> 0] ELSE index[u]]
        /\ indexDeadline' = [u \in Users |->
                                IF u \in lost THEN Never ELSE indexDeadline[u]]
        /\ orphaned' = orphaned \union UNION {Members(u) : u \in lost}
        /\ UNCHANGED <<pc, req, minted, known, opened, exchanged>>

Begin(p) ==
    \/ \E u \in Users : BeginLogin(p, u) \/ BeginLogoutAll(p, u)
    \/ \E s \in SessionIDs, t \in Tokens : BeginRefresh(p, s, t) \/ BeginLogout(p, s, t)

\* One command of a request in flight.
Step(p) ==
    \/ Scan(p) \/ Purge(p) \/ Card(p) \/ Oldest(p) \/ Evict(p) \/ Unindex(p) \/ Add(p)
    \/ RefreshGet(p) \/ Watch(p) \/ RefreshRefused(p) \/ Exec(p) \/ ExecFailed(p)
    \/ LogoutGet(p) \/ RevokeGet(p) \/ LogoutRefused(p) \/ RevokeSession(p)
    \/ RangeAll(p) \/ RevokeAll(p)

Next ==
    \/ \E p \in Handlers : Begin(p) \/ Step(p) \/ Abort(p)
    \/ Tick

Spec == Init /\ [][Next]_vars

\* A request in flight goes on: the Go scheduler runs its goroutine and every
\* Redis command returns, with a reply or with a timeout.
FairSpec == Spec /\ \A p \in Handlers : WF_vars(Step(p))

-----------------------------------------------------------------------------
(* Properties.                                                             *)

\* A refresh token buys at most one successor, whatever requests race with it
\* ("refresh token replay is rejected after rotation"): Rotate's WATCH.
EachTokenExchangedOnce ==
    \A d, e \in exchanged : d[1] = e[1] /\ d[2] = e[2] => d = e

\* The index never lies about a session it names: an entry whose hash still
\* parses is a session of that very user, not revoked, with the score equal to
\* its expiry.  The purge of Create deletes sessions on the word of the score.
IndexAgrees ==
    \A u \in Users : \A s \in Members(u) : Parsable(hash[s]) =>
        /\ hash[s].user = u
        /\ hash[s].expires = index[u][s]
        /\ ~hash[s].revoked

\* Logout-all and the session limit see only what is indexed: every session
\* that can be refreshed is in its user's index, unless the zset expired under
\* it.  Create, the eviction's two separate commands, Rotate and both
\* revocations keep it so in any interleaving.
LiveIsIndexed ==
    \A s \in SessionIDs : Live(s) => s \in Members(hash[s].user) \union orphaned

\* Redis keeps a session's key until the expiry the session records, and no
\* longer than a request takes after it.
TTLCoversExpiry ==
    \A s \in SessionIDs : Parsable(hash[s]) =>
        /\ hash[s].expires <= hash[s].deadline
        /\ hash[s].deadline <= hash[s].expires + MaxLatency

\* Concurrent logins may each find room for one more session, so the limit can
\* be exceeded, but by no more than the other logins in flight.
BoundedOvershoot ==
    \A u \in Users :
        Cardinality(SessionsOf(u) \ orphaned)
            <= MaxSessionsPerUser + Cardinality(Handlers) - 1

\* RevokeUserSessions returns nil: nothing indexed, or its transaction committed.
LogoutAllSucceeds(p) ==
    \/ RangeAll(p) /\ Finish(p)
    \/ RevokeAll(p)

\* A successful logout-all leaves none of the sessions the user had when it
\* began, whatever logins, refreshes and evictions ran meanwhile, except those
\* whose index entry was lost with the zset.
LogoutAllRevokesIndexed ==
    [][\A p \in Handlers : LogoutAllSucceeds(p) =>
          \A s \in req[p].prior \ orphaned : ~Live(s)']_vars

\* A login ends: the eviction loop of Create makes progress with every turn.
LoginTerminates ==
    \A p \in Handlers : pc[p] \in LoginLabels ~> pc[p] \notin LoginLabels

\* The promise of the RefreshSessionStore interface.
Contract == INSTANCE SessionContract WITH
    NoToken <- 0,
    status <- [s \in SessionIDs |->
                  IF s \notin opened THEN "unused" ELSE IF Live(s) THEN "live" ELSE "dead"],
    current <- [s \in SessionIDs |-> IF Live(s) THEN hash[s].token ELSE 0]

\* Every interleaving of handlers on Redis is a behaviour of the contract: no
\* session comes back to life, and only a live session's current token is
\* ever exchanged.
ImplementsContract == Contract!Spec

\* Whatever requests race for a session, in Rotate's WATCH or on either side of
\* it, its refresh tokens are one chain with one good end ("refresh token replay
\* is rejected after rotation").
TokensFormAChain == Contract!TokensFormAChain

\* No step of a request that is still in flight brings a session back to life that
\* another one revoked or evicted, or that expired.
EndedForGood == Contract!EndedForGood

-----------------------------------------------------------------------------
(* What the documentation says, and the code does not.                     *)

\* "revoke-all immediately invalidates prior refresh sessions."
LogoutAllRevokesAll ==
    [][\A p \in Handlers : LogoutAllSucceeds(p) =>
          \A s \in req[p].prior : ~Live(s)']_vars

\* "Refresh session is stored in Redis (session:{id} with TTL)", "Redis TTL
\* gives automatic expiry": every session hash has a TTL.
EverySessionHasTTL ==
    \A s \in SessionIDs : hash[s] # Absent => hash[s].deadline # Never

=============================================================================
