------------------------------- MODULE Server -------------------------------
(***************************************************************************)
(* The logins of UserSync in the process of Lifecycle: requests are served *)
(* between start-up and shutdown, on the stores that start-up has chosen,  *)
(* and end with the process.                                               *)
(*                                                                         *)
(* Once the profile is stored, Authenticate (src/internal/auth/service.go) *)
(* opens a refresh session, if there is a store for it, and answers with   *)
(* an access token that names the user and outlives the process.           *)
(***************************************************************************)
EXTENDS UserSync, Sequences

CONSTANTS
    MaxAge,     \* initDataMaxAge
    MaxTime     \* bound: of the clock

ASSUME TimeAssumption == MaxAge \in Nat /\ MaxTime \in Nat

VARIABLES
    now,                      \* the clock, of Telegram and of the server
    dated,                    \* dated[n]: the auth_date of login n's init data
    env, phase, open, store,  \* the process, see Lifecycle
    answering,                \* answering[p]: the user whose profile p has stored
    issued                    \* issued[u]: which process answered u's last login

L == INSTANCE Lifecycle

userVars == <<backend, profile, logins, req, ended, reply>>
lifeVars == <<env, phase, open, store>>
tokenVars == <<answering, issued>>
serverVars == <<userVars, lifeVars, now, dated, tokenVars>>

\* None, this one, or one that is over.
Processes == {"none", "this", "past"}

ServerTypeOK ==
    /\ L!TypeOK
    /\ now \in 0..MaxTime
    /\ dated \in [Logins -> 0..MaxTime]
    /\ answering \in [Handlers -> Users \union {NoUser}]
    /\ issued \in [Users -> Processes]

ServerInit ==
    /\ Init
    /\ L!Init
    /\ backend = IF L!HasDSN THEN "postgres" ELSE "memory"
    /\ now = 0
    /\ dated = [n \in Logins |-> 0]
    /\ answering = [p \in Handlers |-> NoUser]
    /\ issued = [u \in Users |-> "none"]

Idle(p) == req[p].at = "idle" /\ answering[p] = NoUser

-----------------------------------------------------------------------------

Tick ==
    /\ now < MaxTime
    /\ now' = now + 1
    /\ UNCHANGED <<userVars, lifeVars, dated, tokenVars>>

\* Mutant: init data never expires.
Accepted_AnyAge(date) == TRUE

\* VerifyInitData, of data that Telegram has signed.
Accepted(date) == now - date <= MaxAge

\* A login with init data of any earlier time, used before or not.  A connection
\* accepted before the signal may bring its request after it.
Arrive(p, u, date) ==
    /\ phase \in {"serving", "draining"}
    /\ Idle(p)
    /\ Accepted(date)
    /\ Begin(p, u)
    /\ dated' = [dated EXCEPT ![logins'] = date]
    /\ UNCHANGED <<lifeVars, now, tokenVars>>

Read(p) == Get(p) /\ UNCHANGED <<lifeVars, now, dated, tokenVars>>

\* Mutant: the error of SyncTelegramProfile is not looked at.
Sync_Unchecked(p) ==
    /\ Create(p) \/ Update(p) \/ Fail(p)
    /\ answering' = [answering EXCEPT ![p] = req[p].user]
    /\ UNCHANGED <<lifeVars, now, dated, issued>>

\* SyncTelegramProfile has stored the profile, or failed, which ends the login.
Sync(p) ==
    /\ \/ (Create(p) \/ Update(p)) /\ answering' = [answering EXCEPT ![p] = req[p].user]
       \/ Fail(p) /\ UNCHANGED answering
    /\ UNCHANGED <<lifeVars, now, dated, issued>>

\* createRefreshSession and the answer.  When there is to be a session and Redis
\* fails, there is no token either.
Answer(p) ==
    /\ answering[p] # NoUser
    /\ \/ issued' = [issued EXCEPT ![answering[p]] = "this"]
       \/ store \in L!Clients /\ UNCHANGED issued
    /\ answering' = [answering EXCEPT ![p] = NoUser]
    /\ UNCHANGED <<userVars, lifeVars, now, dated>>

\* Starting, serving and stopping touch no login.
Run(step) == step /\ UNCHANGED <<userVars, now, dated, tokenVars>>

\* Mutant: Close of the HTTP server, in place of Shutdown, waits for nobody.
Drain_AtOnce == L!Drained /\ UNCHANGED <<userVars, now, dated, tokenVars>>

\* Shutdown waits for the requests in flight.
Drain ==
    /\ \A p \in Handlers : Idle(p)
    /\ L!Drained
    /\ UNCHANGED <<userVars, now, dated, tokenVars>>

\* The logins in flight end with the process.
End ==
    /\ Restart
    /\ answering' = [p \in Handlers |-> NoUser]
    /\ issued' = [u \in Users |-> IF issued[u] = "this" THEN "past" ELSE issued[u]]
    /\ UNCHANGED <<now, dated>>

\* Mutant: Shutdown has no timeout.
TimeOut_Never == (\A p \in Handlers : Idle(p)) /\ L!TimesOut /\ End

TimeOut == L!TimesOut /\ End

Exit == L!Exit /\ End

Die == L!Die /\ End

ServerNext ==
    \/ \E p \in Handlers :
          \/ \E u \in Users, date \in 0..now : Arrive(p, u, date)
          \/ Read(p) \/ Sync(p) \/ Answer(p)
    \/ Run(L!Start) \/ Run(L!Signal) \/ Drain \/ Run(L!Close)
    \/ TimeOut \/ Exit \/ Die \/ Tick

\* Go runs what is ready, and a deadline comes; nothing is assumed of requests.
ServerSpec ==
    /\ ServerInit
    /\ [][ServerNext]_serverVars
    /\ WF_serverVars(TimeOut)
    /\ WF_serverVars(Run(L!Close))
    /\ WF_serverVars(Exit)

-----------------------------------------------------------------------------
(* Properties.                                                             *)

\* GET /api/me: the token's signature is all that is asked of it.
Me(u) == IF profile[u] = Absent THEN 404 ELSE 200

\* What the requests of this process use.
InUse == (IF backend = "postgres" THEN {"db"} ELSE {}) \union (L!Clients \intersect {store})

\* A login in flight never finds its repository or its session store closed, or
\* never opened: neither start-up nor the deferred calls of main overlap with it.
StoresOpen ==
    (\E p \in Handlers : ~Idle(p)) => InUse \subseteq L!Range(open)

\* A process that serves uses what it was told to, and /readyz answers for it: no
\* enabled database gives way to the map, refresh sessions are in Redis whenever
\* there is one, and every server that logins depend on is pinged, although by
\* other clients than those they use.
AsConfigured ==
    phase = "serving" =>
        /\ env.dbEnabled => backend = "postgres"
        /\ store = "none" <=> ~env.refresh
        /\ env.redis => store # "memory"
        /\ \A up \in SUBSET {"postgres", "redis"} :
              L!Ready(up) => {L!ServerOf(c) : c \in InUse} \subseteq up

\* Whoever holds a token, from a login or from refreshes since, finds the profile
\* it names, in spite of failed logins; only after a restart without a database may
\* a valid token name nobody.
TokenNamesProfile ==
    \A u \in Users :
        issued[u] # "none" /\ Me(u) = 404 => backend = "memory" /\ issued[u] = "past"

\* The fields a login stores are at most MaxAge older than those it replaces:
\* nothing compares auth_date with the stored profile, and init data that is older
\* may follow, but only data that has not expired.
FieldsBarelyStale ==
    [][reply' # reply =>
          LET replaced == profile[reply'.user].data
          IN  replaced \in reply'.before => dated[replaced] <= dated[reply'.n] + MaxAge]_serverVars

\* A signal ends the process, whatever the requests in flight do.
ShutdownEnds == phase \in {"draining", "closing"} ~> phase = "off"

=============================================================================
