# FunPot Go core: TLA+ models and proofs

TLA+ models of the FunPot backend (`src/`), the TLC configurations that check
them on small instances, and TLAPS proofs of what matters most. Every
definition is translated from the Go code; `PROJECT.json` maps each one to its
lines, lists the runs, the mutants that show what each property can catch, the
hazards and the findings. Run the tools in this directory:

    tlc -workers 2 -config RedisSessionsTime.cfg MCRedisSessions
    tlapm RedisSessionsProofs.tla

## 1. The system

One Go binary (`src/cmd/server/main.go`) serves an HTTP API. Several replicas
may share one Redis and one PostgreSQL; everything else is kept in the process.

| Part | Code | State it keeps | Operations that change it |
| --- | --- | --- | --- |
| Refresh sessions on Redis | `internal/auth/refresh_store.go`, `service.go` | a hash per session (`user_id`, `token_hash`, `expires_at`, `revoked_at`) with a TTL; a sorted set of session ids per user, scored by expiry, with a TTL of its own | Create (purge, evict, add), Rotate, RevokeSession, RevokeUserSessions; key expiry |
| Refresh sessions in memory | `internal/auth/refresh_store_memory.go`, `service.go` | a map under one mutex | the same; no eviction by time except in Create |
| User profiles | `internal/users/*` | one record per Telegram id, in PostgreSQL or in a map | SyncTelegramProfile: Get, then Create or Update |
| Streamer submissions | `internal/streamers/service.go` | the slice of streamers; per user a count and the end of its window | Submit: limiter, validator, append |
| LLM decision history | `internal/streamers/service.go` | a slice per streamer, a counter of ids | RecordLLMDecision: number, stamp, append |
| Stage A worker | `internal/media/*` | a lock with a TTL per streamer, a counter of runs | ProcessStreamer: TryLock, CreateRun, Capture, Classify, record, Unlock |
| Games, prompts | `internal/games`, `internal/prompts` | a map; versions per stage | CRUD with unique slugs; Create, Activate |
| HTTP routing, access control, init data | `internal/app/router.go`, `internal/auth/jwt.go`, `middleware.go`, `telegram.go`, `internal/admin` | none | start the operations above |
| Life cycle, configuration, connections | `cmd/server/main.go`, `internal/app/app.go`, `internal/config`, `pkg/cache`, `pkg/database` | the environment; which clients are open and which stores are in use | start-up, signal, graceful shutdown, deferred calls, exit |
| Live events, telemetry | `internal/events`, `pkg/telemetry` | fixed at start-up | none |

How they interact. A login (`POST /api/auth/telegram`) checks the Telegram init
data, syncs the profile, and opens a session; a refresh and the two logouts
work on the session store alone. Access tokens are checked by signature only:
revoking a session does not affect the access tokens already issued. An
administrator's request and the Stage A worker record decisions in the same
history. The worker is not started by `main.go` at this commit; it is modelled
as a set of callers of `ProcessStreamer`, which is how its tests use it.

Where the difficulty lies:

* A request to the Redis store is a sequence of commands; only the two-key
  transactions (MULTI) and Rotate (WATCH) are atomic. Requests of all replicas
  interleave with each other and with key expiry, and may stop between any two
  commands. The user index is a second copy of what the hashes say, with a
  different life time.
* The in-memory store is atomic per operation, but a refresh or a logout is two
  operations, and the checks of the second differ from those of the first.
* The worker's lock expires under a slow cycle, and Unlock does not know whose
  lock it deletes. The decision history orders ids, timestamps and positions
  under two different mutexes and none.
* A profile is read and written in separate operations, without a transaction.
* The submission limiter and the list of streamers are under different mutexes,
  with a call to an external validator in between.
* Start-up opens up to three clients and chooses the stores by different switches;
  shutdown lets requests finish, but not for ever, and closes the clients under
  whatever is left. Tokens outlive the process, its map of profiles does not.

## 2. The modules

| Module | What it is |
| --- | --- |
| `SessionContract` | the abstract specification: what the `RefreshSessionStore` interface promises, whatever the store |
| `SessionContractProofs` | what follows from the contract alone |
| `RedisSessions`, `MCRedisSessions` | the Service over the Redis store, one Redis command per step |
| `RedisSessionsProofs` | its inductive invariant and the refinement of the contract |
| `MemorySessions`, `MCMemorySessions` | the Service over the in-memory store, one operation per step |
| `MemorySessionsProofs` | its inductive invariant and the refinement of the contract |
| `DecisionLog` | RecordLLMDecision and ListLLMDecisions |
| `StreamWorker`, `MCStreamWorker` | ProcessStreamer over the lock and the run store, composed with `DecisionLog` (INSTANCE) and the administrators' requests |
| `StreamWorkerProofs` | the proofs of both |
| `Submissions`, `SubmissionsProofs` | Submit, the limiter, List and a client that reads page after page, and their proofs |
| `UserSync`, `UserSyncProofs` | SyncTelegramProfile over either repository, and its proofs |
| `Lifecycle` | the process: main and App.Run, over the configuration |
| `Server`, `ServerProofs` | the logins of `UserSync` (EXTENDS) inside the process of `Lifecycle` (INSTANCE), with init data and access tokens, and its proofs |
| `Games` | the edits of the games catalogue |
| `Prompts` | the versions of the prompts |
| `Catalogue`, `MCCatalogue` | the process that serves `Games` (EXTENDS) and `Prompts` (INSTANCE) |
| `CatalogueProofs` | the proofs of all three |

`MCCatalogue` defines the spellings of its slugs; the other MC modules add only
the symmetry sets. Operators named `X_Something` and
introduced by "Mutant:" are faulty versions of `X`; no specification uses them.

### SessionContract

`status` (unused, live, dead), the `current` token of each session and the
history of exchanges. `Open` stores a new session and may end others in the same
step (the in-memory eviction does), `Exchange` replaces the current token of a
live session by one never issued before, `Retire` ends live sessions for good.
Both stores implement it (`ImplementsContract`): "live" means that the store's
Rotate would accept the current token, so expiry, eviction, purge and both
revocations are `Retire`. Its promises are that the tokens of a session form one
chain (`TokensFormAChain`): none is exchanged twice (`EachTokenExchangedOnce`), none
is the successor of two, and only the last is good; and that what has ended stays
ended (`EndedForGood`). The modules of both stores state them through the refinement.

### RedisSessions

`hash[s]` is the session hash with the deadline of its TTL; `index[u][s]` the
score in the user's sorted set, whose own deadline is `indexDeadline[u]`. A
handler `p` has a program counter and locals; each label is the Redis command it
sends next:

    login       scan -> (purge) -> card -> (oldest -> evict -> unindex -> card)* -> add
    refresh     get -> watch -> exec
    logout      logout_get -> revoke_get -> revoke
    logout-all  range -> revoke_all

`Add`, `RevokeSession` and `RevokeAll` are MULTI transactions and one step each.
`Exec` commits if the hash still equals what `Watch` read, which is what WATCH
amounts to here: every command that touches a usable hash changes its value.
`Abort` ends a handler between any two commands (error, cancelled context, crash
of a replica), and `Reply` may lose the answer of a transaction that committed.
`Tick` advances the clock and drops the keys whose TTL is over.

Details that matter and are kept: Create sets the TTL of the user index, Rotate
does not; ZREM of the last member removes the sorted set with its TTL, so a
later ZADD creates one without; HSET on a missing key creates a hash with that
one field, which does not parse as a session; the purge goes by the score, the
Service by the stored expiry, Redis by the TTL, and the three are computed at
different moments.

Abstractions: one clock in whole seconds for Redis and all replicas (the
granularity of `expires_at`, of the scores and of EXPIRE); a token is its number
in the order of minting, so equal numbers stand for equal hashes; a session id
is used for one login only (144 random bits).

### MemorySessions

The map as `sessions`, one step per store operation. `Victims` is the single
eviction of Create, which counts revoked sessions that have not expired;
`Restart` empties the map and ends the requests in flight. Get checks the expiry
and Rotate does not.

### DecisionLog and StreamWorker

`left[s]` is the time until TryLock can succeed again and `busy` the age of a
cycle, so time needs no bounded clock. A failed TryLock changes nothing and is
left out. `CycleFails` stands for errors of the capture, of the classifier and
of the validation in RecordLLMDecision; the label's normalisation is left out
because no property depends on it. A decision carries, for the properties, the
ids that had been returned when its recording began.

### Submissions

`rateLimit[u]` is the limiter's entry, with the time left in place of
`windowEnds`; -1 stands for both a zero time and one that is over, which the code
treats alike. The limiter's check is one step, the validator's answer (any) a
second, the append a third. `Matching` is List's loop over the slice, `reader` a client that asks for pages until one
is empty. A name set stands for a query. Ids, readings of the clock that no
operation looks for, are left out.

### UserSync

`backend` is chosen at start-up. Logins are numbered as they begin, and the
number stands for the Telegram fields they bring and the time they read: a
profile is the pair (login that created it, login whose fields it has). The map
is written with a whole profile, the SQL statement leaves `created_at` alone.
`Fail` is an error of the database, before or after the statement took effect.

### Lifecycle and Server

`env` holds the switches that decide what start-up does, `phase` is where `main`
is, and `open` the clients it has opened, in the order of their deferred `Close`:
the stack of deferred calls is the set of open clients. `Start` is `Load`, the
pool of PostgreSQL (by `DSN()`), the first Redis client, the first refresh store
and `setupRefreshSessionStore`, one step each; the first store may hold a client
that is nil, which its constructor does not notice, until the second replaces it.
`Die` is every other way a process ends: any failed step of start-up
(`logger.Fatal`, without the deferred calls), a crash, an error of the listener. A
process that is over may start again, in the same environment.

`Server` runs the logins of `UserSync` in it. A login may `Arrive` while the
process serves or drains, with init data of any earlier moment that `Accepted`
still takes, used before or not (`dated[n]`, its auth_date). `Sync` is the step of
SyncTelegramProfile that stores the profile or fails; `Answer` opens the refresh
session, which fails only on Redis, and issues the access token. `issued[u]` says
which process answered the last login of u: a token names its user and is checked
by its signature, so it stays valid whatever becomes of the process, and `Me` is
what `/api/me` makes of it. `Drain` is Shutdown returning nil, once no login is in
flight, `TimeOut` Shutdown returning the error of its context. `End` ends the
logins in flight and, without a database, the map of profiles.

### Games, Prompts and Catalogue

Create and Update of `Games` sanitize the request and read the clock before they
take the mutex (`Begin`), and check and write under it (`Create`, `Update`,
`Refuse`); Delete is one step. Edits are numbered as they begin: the number is
the time an edit has read and, for a creation, its game's id. `Sanitized` maps
what an administrator types to the slug the service keeps. Title, description,
rules and status, which no other game constrains, are left out.

In `Prompts`, Create and Activate are one critical section each. `activations`
stands for the clock, which Activate reads under the mutex: readings are distinct.
The version number is the place in the stage's sequence.

`Catalogue` interleaves the two: they share a process and a router, but no mutex
and no state.

## 3. The runs

| Run | Shows | Instance |
| --- | --- | --- |
| `redis_replay` | `TypeOK`; the tokens of a session form one chain that ends in the only good one (`TokensFormAChain`); every interleaving is a behaviour of the contract (`ImplementsContract`) | 2 users, 2 sessions, 2 handlers, 3 tokens, no time passing |
| `redis_time` | the index is true (`IndexAgrees`) and complete but for lost sorted sets (`LiveIsIndexed`); keys live as long as their sessions (`TTLCoversExpiry`); a logout-all that succeeds ends every indexed session the user had (`LogoutAllRevokesIndexed`) | 1 user, 2 sessions, 2 handlers, 2 tokens, times 1 to 4 with TTL 2 and slack 1 |
| `redis_login` | concurrent logins exceed the limit by at most the other logins in flight (`BoundedOvershoot`); every login ends (`LoginTerminates`) | 3 sessions for a limit of 1, 2 handlers |
| `memory` | the limit holds (`StoreLimit`); a session is dropped before its expiry only for a login of its own user at the limit (`DroppedForOwnLogin`); an expired session is prolonged only by a request that came in time (`ProlongedInTime`); `ImplementsContract` | 2 users, 2 sessions, limit 1, 3 tokens, times 1 to 4 |
| `worker_timely` | cycles shorter than their lock exclude each other (`Exclusive`) and record in order (`RunsInOrder`); decisions of calls that do not overlap are listed in their order (`RealTimeOrder`) | 2 workers and 2 administrators on one streamer, 3 runs, 2 posts |
| `worker_frees` | cycles that outlive their locks share neither runs (`RunsAreDistinct`) nor ids or places in the history (`ListedOnce`); a lock ends although its worker hangs (`LockFrees`) | 2 workers on 2 streamers, 3 runs, cycles of any length |
| `submissions` | at most twice the limit in a stretch as long as a window (`RateBound`); nobody is refused wrongly (`NoFalseRefusal`) or for ever (`LimitLifts`); a client reading pages misses and repeats nothing (`PagesAreStable`) | 1 user, limit 2, window 2, pages of 2, 4 streamers |
| `users` | the creation time stays (`CreatedOnce`); no earlier login's fields come back (`LastLoginStored`), nor fields much older than those stored (`FieldsBarelyStale`); what a login returns as creation time (`ReplyCreated`); no login finds its stores closed (`StoresOpen`); the process uses and reports the stores it was told to (`AsConfigured`); a token names a stored profile unless a restart emptied the map (`TokenNamesProfile`); a signal ends the process (`ShutdownEnds`) | 1 user, 2 handlers, 3 logins, times 0 to 2 with init data valid for 1, all 32 environments, restarts |
| `catalogue` | slugs stay unique in any spelling (`SlugsUnique`), deleted games stay deleted (`DeletedForGood`), edits keep the list's order (`ListKeepsOrder`); ids name one version (`IdsUnique`), one version per stage is active (`OneActivePerStage`), the one activated last (`LatestActivationWins`) | 2 administrators, 4 edits, 4 spellings of 2 slugs; 2 stages, 3 versions, 3 activations |
| `redis_orphan`, `redis_ghost`, `worker_window` | the findings of section 6 | the smallest instances that show them |

Why the bounds are enough. Two handlers are enough for every pair of requests to
interleave in every way, and the properties fail through pairs: one request acts
on what the other changed. `redis_login` has a third session because two logins
must overshoot while a third session is being evicted; `redis_replay` has three
tokens because two rotations have to race for one token; `redis_time` runs past
the expiry of a session (3) and of its index key (4), so that sessions are
orphaned and purged. One user is enough where requests of different users touch
disjoint keys, profiles or tokens (`users`); `redis_replay` and `memory` have two
where the code walks over the sessions of all. In `users` a third login meets what
two overlapping ones left, and time runs one past the age at which init data is
refused. The lock's TTL of 2 leaves room for a cycle that is shorter and
one that is longer. What the small instances cannot show, the proofs do for every
value of the constants: with the limit of 1 that `memory` has, a login at the limit
drops all its user had, so the clause of `DroppedForOwnLogin` that it drops no more
than it must is tried only by the proof. The type invariants of `MemorySessions` and
of `Catalogue`, that of `Server`'s own variables, `EndedForGood`, and
`TokensFormAChain` of the in-memory store are proved and not run: the last two follow
from `ImplementsContract`, which is.

Bounds that are not in the code: `MaxTime`, `MaxTokens`, `MaxRuns`, `MaxPosts`,
`MaxItems`, `MaxLogins`, `MaxEdits`, `MaxVersions` and `MaxActivations` cut the state space in the guards; `MaxLatency` is an
assumption on the system: a request is over within it, because Redis calls have
dial, read and write timeouts of seconds, and a session lasts 30 days by default
(`config.go`). `MaxAge` is no
bound: it is `initDataMaxAge`. A model that reaches a bound goes on with the remaining actions.

Fairness. `RedisSessions` assumes WF of the steps of a request in flight: the Go
scheduler runs its goroutine, and a command returns or times out. That other
logins keep adding entries is no obstacle, because session ids are finite in the
model; in the code, because each turn of the loop removes an entry and a request
is bounded by its context. `StreamWorker` and `Submissions` assume only that time
passes (WF of `Tick`), not that any worker or user goes on. `Server` assumes that
the deadline of Shutdown comes (WF of `TimeOut`; main gives the context a timeout)
and that the deferred calls run (WF of `Close` and of `Exit`), and nothing of the
requests: they may hang for ever.

## 4. The proofs

`RedisSessionsProofs` proves its theorems for any users, sessions, handlers and
bounds, from the assumptions named in `RedisSessions`: the limit is positive, the
sets are finite, and a request takes less time than a session lasts. The
properties are not inductive alone. The invariant is

    IInv == TypeOK /\ LocalsOK /\ FreshOK /\ TokensOK /\ OwnersOK
            /\ IndexAgrees /\ LiveIsIndexed /\ TTLCoversExpiry

* `LocalsOK`: what each program counter implies for a handler's locals. The
  properties speak of the store, but the next write comes from the locals.
* `FreshOK`: a session that Create has not stored has no hash and no entry, and
  only one handler is about to store it. Without it two logins could share an id.
* `TokensOK`: tokens that were exchanged, are current or are about to become
  current are all different and were minted; this is what makes the comparison
  of `Exec` as good as WATCH, and an exchange unique.
* `OwnersOK`: a hash keeps the user it was created for, and an entry is in that
  user's index, so that an eviction ends the session it means to end.

Each part has a lemma that one step preserves it, by cases over the kinds of
step (`StepKinds`, `SessionsOnlyDie`, `WriterNames` say what a step may do to the
hashes at all). The theorems:

* `TypeCorrect`, `TokensExchangedOnce`, `IndexIsTrue`, `IndexIsComplete`,
  `KeysOutliveSessions`: what `IInv` gives as it stands.
* `OvershootIsBounded`: `BoundedOvershoot`, from an invariant of its own. Several
  logins can find room for one session, so a login that has found room counts like
  the session it is about to add (`RoomOK`): a login finds room when fewer than the
  limit are indexed, and besides them at most all other handlers count; the
  step that adds the session trades one for the other.
* `LoginsAdvance`, `LoginsCanGoOn`: why the eviction loop of Create ends. What a login
  has ahead of it (`Work`) is four commands for each member of the index that it
  has not yet in hand, and the rest of its turn. Each of its commands lowers that,
  and a step of another request raises it only with a newly stored session or a
  new exchange; both only accumulate (`opened`, `exchanged`), and the bounds of the
  model make them finitely many. The second theorem says that the loop does not
  stop half way: the TTL Create computes is positive, and an index that is not
  empty has a member to evict.
* `LogoutAllIsComplete`: the action property of logout-all, from the invariant
  that a prior session of the request is dead, orphaned or still indexed.
* `RedisImplementsContract`: the refinement. A step that changes the set of live
  sessions opens one, exchanges one token, or ends some; the rest stutter.
* `RedisTokensChain`, `RedisEndsForGood`: the promises of the contract, from the
  refinement and the theorems of `SessionContractProofs`, instanced with the mapping.

`SessionContractProofs` proves `ContractExchangesOnce`, `ContractTokensChain` and
`ContractEndsForGood` from the contract alone: with the refinement, any store that
implements the contract has them. The invariant of the first adds that the token a
live session holds was never exchanged and that an unused session has exchanged
none. That of the second adds that every successor was issued to its session, so that
a fresh token is the successor of none: the chain only grows at its end. The third is
a property of each step: `Open` takes an unused session, and every other step leaves
a dead one dead.

`MemorySessionsProofs` proves `TypeCorrect`, `StoreLimitHolds`,
`ProlongedOnlyInTime`, `DroppedOnlyForOwnLogin` and `MemoryImplementsContract`,
from the assumptions that `RedisSessions` has too, and with the last, as for Redis,
`MemoryTokensChain` and `MemoryEndsForGood`. `FreshOK` is as above; `TokensOK`
says that the tokens of a session only grow from one exchange to the next; `LocalsOK` says that a refresh about to rotate arrived before its session
expired, however often others have prolonged it since; `StoreLimit` is inductive
with them because Create makes room under the mutex that it stores under.

`StreamWorkerProofs` proves `CyclesExclude`, `RunsStayDistinct`,
`DecisionsListedOnce`, `RunsStayInOrder` and `ListsFollowRealTime`, for any
workers, administrators and streamers, with `DecisionLog` composed in. The first
and the fourth need cycles that are shorter than the lock: the lock of a cycle then
has `LockTTL` less the cycle's age left (`LockOK`), so nobody else gets it. Given
that, no later run is in the history while a cycle has one to record (`NextRun`),
and what a cycle appends is in order. The other three hold of cycles of any length.
A call knows what was listed when it began, and
that is older than whatever it numbers and stamps (`LogOK`); so an item that
preceded another is before it in the slice (`OldestFirst`). `CallsOK` ties a
worker's call to its cycle: without it two calls could carry one run.

`TypeCorrect` of the same module is the type invariant with its bounds, and
takes counting: nothing stops a counter of ids at a bound but what ids stand for.
Every id that was given belongs to a call that is past its numbering or to one
decision, and the clock has been read once for each call that is past its
stamping at most (`IdsOK`); decisions and calls without a run are posts, and the
guard of `Post` counts them (`PostsOK`); those with a run map to the runs one to
one (`OnePerRun`, from `RunsAreDistinct` and `CallsOK`), and a cycle about to
create a run has its place among those left (`RunsOK`). So there are no more ids
than runs and posts together (`CounterBound`).

`LocksOnlyRunDown` and `TimeGoesOn` are the argument of `LockFrees`: while a lock is
held, only `Tick`, which takes one off it, and the Unlock of a cycle of its streamer
change it, and where cycles may hang, `Tick` can always happen. `WindowsHoldInTime` is
the other side of the finding `worker_window`: what the plan says of lock windows is
true of cycles that end before their lock does.

`SubmissionsProofs` proves `TypeCorrect`, `RateStaysBounded`,
`NobodyIsRefusedFalsely`, `PagesStayStable` and `RefusalsRunOut`, for any limit,
window, page size, users and queries. The last is the argument of `LimitLifts`: a user
at the limit has a window that is open, and only `Tick` changes it, towards its end.
The invariant has four parts:

* `WindowOK` relates the limiter to the history of admissions. While a user's
  window is open, the admissions since it began are the count, and those before
  it, as far back as a window reaches, are at most the limit; when it is over,
  all the recent ones are at most the limit. Hence the factor 2 of `RateBound`,
  and hence a refusal, which finds the count at the limit, was deserved.
* `RoomOK`: what is listed and what may yet be appended fit the bound.
* `InOrder`: a streamer's number is its place in the slice.
* `ReaderOK`: whatever a client has seen is on the pages it has read as they are
  now, and whatever was there when it began has been seen or is on a page to
  come, because the slice grows at its end only.

The sums over a stretch of time and the loop of List (`Matching`) are inductions
over data. The library states induction as a theorem about any predicate, which
the provers cannot instantiate; these lemmas go by the smallest counterexample
instead: a set of naturals that is not empty has a least element (`WFMin`), and
the step below it contradicts that it is one.

`UserSyncProofs` proves `TypeCorrect`, `ProfileCreatedOnce`, `LastLoginIsStored`
and `ReplyIsStored`, for any number of users, handlers and logins. The invariant
says that logins in flight are numbered apart and not yet over (`InFlightOK`),
that a login about to create has seen nothing stored by a login over before it
(`CreateOK`), and that a login about to update finds the profile it read, as old
as it was (`UpdateOK`).

`ServerProofs` shows first that the logins of a server are a behaviour of
`UserSync` (`ServerImplementsUserSync`): every step of the process is a step of a
login, a restart, or leaves the profiles alone. The invariant of `UserSync` and its
theorems hold of the server with that, in every environment. The invariant adds
what start-up has made of the environment so far (`ConfigOK`) and which clients
each phase has open (`ClientsOK`); that requests are in flight only between the
listener's start and the process's end (`QuietOK`); that a login about to be
answered has stored its profile (`TokensOK`); and that the logins over before another
began brought data at most `MaxAge` newer (`DatesOK`). From it follow
`ServerTypeCorrect`, `StoresStayOpen`, `ServesAsConfigured`, `TokensNameProfiles`
and `FieldsStayBarelyStale`, and the argument of `ShutdownEnds`: from the signal on,
each step of `main` ends the process or leaves it less to do (`ToGo`: the clients
still open, and App.Run while it waits), and nothing a request does gives it more
(`ShutdownOnlyAdvances`).

`CatalogueProofs` shows first that the process is a behaviour of either service
(`CatalogueImplementsServices`), so that an invariant of one is an invariant of
the whole. For the games it proves `SlugsStayUnique`, `DeletedStayDeleted` and
`ListStaysInOrder`, for any administrators, slugs and spellings, from the
assumption that sanitizing a slug leaves it as it is. The invariant adds that a
creation in progress has an id that nobody has seen and no other edit shares
(`InFlightOK`), and that equal slugs are stored under one id (`SlugsOK`). For the
prompts it proves `IdsStayUnique`, `OneStaysActive` and `LatestStaysActive` with no
assumption. The three need each other: the active version is unique because ids
are, and the last activation wins because no stored time is ahead of the clock
(`InRange`). `TypeCorrect` is about both.

Only model-checked: the liveness properties (`LoginTerminates`, `LockFrees`,
`LimitLifts`, `ShutdownEnds`), because fairness and ENABLED are out of the prover's
reach. The safety half of each is proved: what the fair steps bring down, and that no
other step puts it back.

| Liveness | Proved | Left to fairness |
| --- | --- | --- |
| `LoginTerminates` | `LoginsAdvance`, `LoginsCanGoOn` | a handler that can go on does |
| `LockFrees` | `LocksOnlyRunDown`, `TimeGoesOn` | time passes |
| `LimitLifts` | `RefusalsRunOut` | time passes |
| `ShutdownEnds` | `ShutdownOnlyAdvances` | the deadline comes, the deferred calls run |

Every invariant and action property of a passing run is a theorem.

## 5. What is not modelled

* Live events: a list that `main` passes empty and that nothing changes.
* Pure functions of a request and a key: the signature and the expiry of an access
  token, the list of administrators, the parsing and the HMAC of init data.
* Configuration: how each variable is parsed (a value that does not parse is one of
  the ways in which `Load` fails), and an environment that changes between two
  starts of the process.
* Telemetry: metrics and Sentry keep no state that the program reads. That
  `logger.Fatal` (`main.go:174`) skips their flush is noted in section 6.
* The connections of `net/http`: one that is accepted while Shutdown closes the
  idle ones is a request that does not arrive.
* Ids that are readings of the clock in nanoseconds (`streamers/service.go:123`):
  only the clock's resolution keeps them apart, and no operation looks one up.
* Retries inside the Redis client, clocks that differ between replicas, fractions
  of a second (EXPIRE rounds a TTL), loss of Redis data, a statement that runs on
  in PostgreSQL after its login has failed.
* Decoding of HTTP requests, status codes, wording, logging.
* List's product of page and page size is a Go `int`; pages are small in the model.

## 6. Findings

* `redis_orphan` (code). Rotate adds the session to the user index but does not
  extend the index's TTL (`refresh_store.go:185`; only Create does, line 132). A
  session that keeps being refreshed outlives the index by more than the last
  login's TTL plus 24 hours; logout-all then reads an empty index and reports
  success, and the session stays usable. The orchestration plan (line 248) says
  that revoke-all invalidates prior sessions immediately. `LogoutAllRevokesIndexed`
  is what does hold, and it is proved.
* `redis_ghost` (code). Revoking a session whose hash has just expired creates a
  hash with the single field `revoked_at` and no TTL (lines 204 and 224). It does
  not parse as a session, but stays in Redis for ever; the plan (lines 73, 82)
  counts on automatic expiry.
* `worker_window` (code). Unlock deletes the lock of the streamer, whoever holds
  it (`store_memory.go:48`). A cycle that outlived its TTL ends its successor's
  lock, and a third cycle starts in the second one's window; the plan (line 187)
  says that a duplicate cycle for the same window is rejected.

More differences, which need no run:

* Concurrent logins exceed the session limit (`BoundedOvershoot` says by how much),
  which the plan (line 75) says Redis is used to enforce.
* The limiter allows 3 submissions a minute (`streamers/service.go:233`), where
  `docs/idempotency_rate_limits.md:18` says 5 in 10 minutes.
* A decision's CreatedAt is read before the mutex that orders the history is taken
  (`streamers/service.go:176`), so overlapping calls can be listed against their
  timestamps, where `docs/openapi.yaml:194` promises latest first: `RealTimeOrder`,
  for calls that do not overlap, is what holds.
* `main.go:67` connects to PostgreSQL whenever `DSN()` is not empty, whatever
  `FUNPOT_DATABASE_ENABLED` says; `docs/local_setup.md:173` says that `false` keeps
  users in memory. The model does what the code does (`HasDSN`).
* The client of the refresh store is built without the Redis user name
  (`main.go:201`), which the first client has (`pkg/cache/redis.go:16`).
* `docs/local_setup.md:65` says that refresh sessions require Redis; `setupRefreshSessionStore`
  falls back to memory, as line 160 of the same document says.
* `docs/local_setup.md:167` says that shutdown flushes Sentry's events; a Shutdown that
  times out ends in `logger.Fatal`, which runs no deferred call.

## 7. Plan

All modules planned are written, and all safety properties of the passing runs
are proved, with the safety half of each liveness property. What is left is the
worker inside `Server`, once `main` starts one.
