---------------------------- MODULE ServerProofs ----------------------------
(***************************************************************************)
(* The properties of Server for any users, handlers, logins and times, in  *)
(* any environment.  The logins of a server are logins of UserSync, so the *)
(* invariant and the theorems of UserSyncProofs hold of them.              *)
(***************************************************************************)
EXTENDS Server, UserSyncProofs, SequenceTheorems

\* What start-up has made of the environment so far.
ConfigOK ==
    /\ backend = IF L!HasDSN THEN "postgres" ELSE "memory"
    /\ phase # "off" => L!Loads

\* The clients that each step of start-up has left open, and the last store.
ClientsOK ==
    /\ phase \in {"cache", "store", "setup", "serving", "draining"} /\ L!HasDSN =>
          "db" \in L!Range(open)
    /\ phase \in {"store", "setup", "serving", "draining"} /\ env.redis =>
          "cache" \in L!Range(open)
    /\ phase = "setup" /\ ~env.refresh => store = "none"
    /\ phase \in {"serving", "draining"} =>
          /\ store = IF ~env.refresh THEN "none" ELSE IF env.redis THEN "sessions" ELSE "memory"
          /\ store = "sessions" => "sessions" \in L!Range(open)

\* Requests are in flight only while the process serves or drains.
QuietOK == phase \notin {"serving", "draining"} => \A p \in Handlers : Idle(p)

\* A login about to be answered has its profile stored, as has who holds a token.
TokensOK ==
    /\ \A p \in Handlers : answering[p] # NoUser => profile[answering[p]] # Absent
    /\ TokenNamesProfile

\* A login in flight brings data no older than MaxAge at its beginning.
DatesOK ==
    /\ \A n \in Logins : dated[n] <= now
    /\ \A p \in Handlers : req[p].at # "idle" =>
          \A m \in req[p].before : dated[m] <= dated[req[p].n] + MaxAge

SInv == IInv /\ ServerTypeOK /\ ConfigOK /\ ClientsOK /\ QuietOK /\ TokensOK /\ DatesOK

-----------------------------------------------------------------------------
(* The initial states, and what steps do.                                  *)

LEMMA InitSInv == ServerInit => SInv
<1> SUFFICES ASSUME ServerInit PROVE SInv
  OBVIOUS
<1>1. IInv
  BY InitIInv DEF ServerInit
<1>2. ServerTypeOK
  BY TimeAssumption DEF ServerInit, ServerTypeOK, Processes, L!Init, L!TypeOK, L!Phases, L!Stores
<1>3. ConfigOK /\ ClientsOK
  BY DEF ServerInit, ConfigOK, ClientsOK, L!Init
<1>4. QuietOK
  BY DEF ServerInit, QuietOK, Idle, Init, NoRequest
<1>5. TokensOK
  BY DEF ServerInit, TokensOK, TokenNamesProfile
<1>6. DatesOK
  BY DEF ServerInit, DatesOK, Init, NoRequest
<1>. QED  BY <1>1, <1>2, <1>3, <1>4, <1>5, <1>6 DEF SInv

\* Every step of the server is a step of UserSync, or leaves its variables alone.
LEMMA UserStep == [ServerNext]_serverVars => [Next]_vars
<1> SUFFICES ASSUME [ServerNext]_serverVars PROVE [Next]_vars
  OBVIOUS
<1>1. ASSUME NEW p \in Handlers, NEW u \in Users, NEW date \in 0..now, Arrive(p, u, date)
      PROVE  Next
  BY <1>1 DEF Arrive, Next
<1>2. ASSUME NEW p \in Handlers, Read(p) \/ Sync(p)
      PROVE  Next
  BY <1>2 DEF Read, Sync, Step, Next
<1>3. ASSUME NEW p \in Handlers, Answer(p)
      PROVE  UNCHANGED vars
  BY <1>3 DEF Answer, userVars, vars
<1>4. ASSUME Run(L!Start) \/ Run(L!Signal) \/ Drain \/ Run(L!Close) \/ Tick
      PROVE  UNCHANGED vars
  BY <1>4 DEF Run, Drain, Tick, userVars, vars
<1>5. ASSUME TimeOut \/ Exit \/ Die
      PROVE  Next
  BY <1>5 DEF TimeOut, Exit, Die, End, Next
<1>6. ASSUME UNCHANGED serverVars
      PROVE  UNCHANGED vars
  BY <1>6 DEF serverVars, userVars, vars
<1>. QED  BY <1>1, <1>2, <1>3, <1>4, <1>5, <1>6 DEF ServerNext

\* What appending a client, or doing nothing, leaves open.
LEMMA OpenIfOpens ==
  ASSUME NEW wanted \in BOOLEAN, NEW c \in L!Clients, open \in Seq(L!Clients), L!OpenIf(wanted, c)
  PROVE  /\ open' \in Seq(L!Clients)
         /\ L!Range(open) \subseteq L!Range(open')
         /\ wanted => c \in L!Range(open')
<1>1. CASE wanted
  <2>1. open' = Append(open, c)
    BY <1>1 DEF L!OpenIf
  <2>2. open' \in Seq(L!Clients) /\ Len(open') = Len(open) + 1
    BY <2>1
  <2>3. \A i \in 1..Len(open) : open'[i] = open[i]
    BY <2>1
  <2>4. open'[Len(open) + 1] = c
    BY <2>1
  <2>. QED  BY <2>2, <2>3, <2>4 DEF L!Range
<1>2. CASE ~wanted
  BY <1>2 DEF L!OpenIf
<1>. QED  BY <1>1, <1>2

\* What a step does to the process, as its own module sees it.
LEMMA LifeStep ==
  ASSUME [ServerNext]_serverVars
  PROVE  \/ UNCHANGED lifeVars
         \/ L!Boot \/ L!OpenDB \/ L!OpenCache \/ L!FirstStore \/ L!SetupStore \/ L!Signal
         \/ L!Drained /\ Drain
         \/ L!Close
         \/ L!Over /\ End
<1>1. ASSUME NEW p \in Handlers, NEW u \in Users, NEW date \in 0..now, Arrive(p, u, date)
      PROVE  UNCHANGED lifeVars
  BY <1>1 DEF Arrive
<1>2. ASSUME NEW p \in Handlers, Read(p) \/ Sync(p) \/ Answer(p)
      PROVE  UNCHANGED lifeVars
  BY <1>2 DEF Read, Sync, Answer
<1>3. ASSUME Run(L!Start)
      PROVE  \/ UNCHANGED lifeVars
             \/ L!Boot \/ L!OpenDB \/ L!OpenCache \/ L!FirstStore \/ L!SetupStore
  BY <1>3 DEF Run, L!Start, L!LoadFails, lifeVars
<1>4. ASSUME Run(L!Signal) \/ Run(L!Close)
      PROVE  L!Signal \/ L!Close
  BY <1>4 DEF Run
<1>5. ASSUME Drain
      PROVE  L!Drained /\ Drain
  BY <1>5 DEF Drain
<1>6. ASSUME TimeOut \/ Exit \/ Die
      PROVE  L!Over /\ End
  BY <1>6 DEF TimeOut, Exit, Die, L!TimesOut, L!Exit, L!Die
<1>7. ASSUME Tick \/ UNCHANGED serverVars
      PROVE  UNCHANGED lifeVars
  BY <1>7 DEF Tick, serverVars
<1>. QED  BY <1>1, <1>2, <1>3, <1>4, <1>5, <1>6, <1>7 DEF ServerNext

\* Only a login begins, ends or answers, and only the process ends them all.
LEMMA LoginStep ==
  ASSUME [ServerNext]_serverVars
  PROVE  \/ \E p \in Handlers, u \in Users, date \in 0..now : Arrive(p, u, date)
         \/ \E p \in Handlers : Read(p) \/ Sync(p) \/ Answer(p)
         \/ Tick
         \/ UNCHANGED <<userVars, now, dated, tokenVars>>
         \/ End
  BY DEF ServerNext, Run, Drain, TimeOut, Exit, Die, serverVars

-----------------------------------------------------------------------------
(* Each part of the invariant is preserved.                                *)

LEMMA LifeTypes == SInv /\ [ServerNext]_serverVars => L!TypeOK'
<1> SUFFICES ASSUME SInv, [ServerNext]_serverVars PROVE L!TypeOK'
  OBVIOUS
<1>1. L!TypeOK
  BY DEF SInv, ServerTypeOK
<1>2. CASE UNCHANGED lifeVars
  BY <1>1, <1>2 DEF lifeVars, L!TypeOK
<1>3. CASE L!Boot \/ L!Signal \/ L!Drained
  BY <1>1, <1>3 DEF L!TypeOK, L!Boot, L!Signal, L!Drained, L!Phases
<1>4. CASE L!OpenDB
  BY <1>1, <1>4, OpenIfOpens DEF L!TypeOK, L!OpenDB, L!Phases, L!Clients, L!HasDSN, L!Environments
<1>5. CASE L!OpenCache
  BY <1>1, <1>5, OpenIfOpens DEF L!TypeOK, L!OpenCache, L!Phases, L!Clients, L!Environments
<1>6. CASE L!FirstStore
  BY <1>1, <1>6 DEF L!TypeOK, L!FirstStore, L!Phases, L!Stores
<1>7. CASE L!SetupStore
  BY <1>1, <1>7, OpenIfOpens
     DEF L!TypeOK, L!SetupStore, L!Phases, L!Clients, L!Stores, L!Environments
<1>8. CASE L!Close
  <2>1. open \in Seq(L!Clients) /\ open # <<>> /\ open' = SubSeq(open, 1, Len(open) - 1)
    BY <1>1, <1>8 DEF L!TypeOK, L!Close, L!Front
  <2>2. open' \in Seq(L!Clients)
    BY <2>1
  <2>. QED  BY <1>1, <1>8, <2>2 DEF L!TypeOK, L!Close
<1>9. CASE L!Over
  BY <1>1, <1>9 DEF L!TypeOK, L!Over, L!Phases, L!Stores
<1>. QED  BY <1>2, <1>3, <1>4, <1>5, <1>6, <1>7, <1>8, <1>9, LifeStep

LEMMA TypesStep == SInv /\ [ServerNext]_serverVars => ServerTypeOK'
<1> SUFFICES ASSUME SInv, [ServerNext]_serverVars PROVE ServerTypeOK'
  OBVIOUS
<1>1. ServerTypeOK /\ IInv /\ IInv'
  BY UserStep, StepIInv DEF SInv
<1>2. L!TypeOK'
  BY LifeTypes
<1>3. ASSUME NEW p \in Handlers, NEW u \in Users, NEW date \in 0..now, Arrive(p, u, date)
      PROVE  ServerTypeOK'
  <2>1. now \in 0..MaxTime /\ date \in 0..MaxTime
    BY <1>1, TimeAssumption DEF ServerTypeOK
  <2>2. dated' = [dated EXCEPT ![logins'] = date] /\ UNCHANGED <<now, answering, issued>>
    BY <1>3 DEF Arrive, tokenVars
  <2>3. dated' \in [Logins -> 0..MaxTime]
    BY <1>1, <2>1, <2>2 DEF ServerTypeOK
  <2>. QED  BY <1>1, <1>2, <2>1, <2>2, <2>3 DEF ServerTypeOK
<1>4. ASSUME NEW p \in Handlers, Read(p) \/ Sync(p) \/ Answer(p)
      PROVE  ServerTypeOK'
  <2>1. req[p].user \in Users \union {NoUser}
    BY <1>1 DEF IInv, TypeOK
  <2>. QED  BY <1>1, <1>2, <1>4, <2>1 DEF Read, Sync, Answer, tokenVars, ServerTypeOK, Processes
<1>5. CASE Tick
  BY <1>1, <1>2, <1>5, TimeAssumption DEF Tick, tokenVars, ServerTypeOK
<1>6. CASE End
  BY <1>1, <1>2, <1>6 DEF End, ServerTypeOK, Processes
<1>7. CASE UNCHANGED <<userVars, now, dated, tokenVars>>
  BY <1>1, <1>2, <1>7 DEF tokenVars, ServerTypeOK
<1>. QED  BY <1>3, <1>4, <1>5, <1>6, <1>7, LoginStep

LEMMA ConfigStep == SInv /\ [ServerNext]_serverVars => ConfigOK'
<1> SUFFICES ASSUME SInv, [ServerNext]_serverVars PROVE ConfigOK'
  OBVIOUS
<1>1. ConfigOK
  BY DEF SInv
<1>2. backend' = backend
  BY UserStep DEF Next, Begin, Step, Get, Create, Update, Fail, Restart, vars
<1>3. env' = env /\ (phase = "off" => phase' = "off" \/ L!Loads)
  BY LifeStep DEF lifeVars, L!Boot, L!OpenDB, L!OpenCache, L!FirstStore, L!SetupStore,
     L!Signal, L!Drained, L!Close, L!Over
<1>. QED  BY <1>1, <1>2, <1>3 DEF ConfigOK, L!HasDSN, L!Loads

LEMMA ClientsStep == SInv /\ [ServerNext]_serverVars => ClientsOK'
<1> SUFFICES ASSUME SInv, [ServerNext]_serverVars PROVE ClientsOK'
  OBVIOUS
<1>1. ClientsOK /\ L!TypeOK
  BY DEF SInv, ServerTypeOK
<1>2. CASE UNCHANGED lifeVars
  BY <1>1, <1>2 DEF lifeVars, ClientsOK, L!HasDSN, L!Range
<1>3. CASE L!Boot \/ L!Drained \/ L!Close \/ L!Over
  BY <1>3 DEF ClientsOK, L!Boot, L!Drained, L!Close, L!Over
<1>4. CASE L!OpenDB
  <2>1. L!HasDSN => "db" \in L!Range(open')
    BY <1>1, <1>4, OpenIfOpens DEF L!TypeOK, L!OpenDB, L!Clients, L!HasDSN, L!Environments
  <2>. QED  BY <1>4, <2>1 DEF ClientsOK, L!OpenDB, L!HasDSN, L!Range
<1>5. CASE L!OpenCache
  <2>1. /\ env.redis => "cache" \in L!Range(open')
        /\ L!Range(open) \subseteq L!Range(open')
    BY <1>1, <1>5, OpenIfOpens DEF L!TypeOK, L!OpenCache, L!Clients, L!Environments
  <2>. QED  BY <1>1, <1>5, <2>1 DEF ClientsOK, L!OpenCache, L!HasDSN, L!Range
<1>6. CASE L!FirstStore
  BY <1>1, <1>6 DEF ClientsOK, L!FirstStore, L!HasDSN, L!Range
<1>7. CASE L!SetupStore
  <2>1. /\ env.refresh /\ env.redis => "sessions" \in L!Range(open')
        /\ L!Range(open) \subseteq L!Range(open')
    BY <1>1, <1>7, OpenIfOpens DEF L!TypeOK, L!SetupStore, L!Clients, L!Environments
  <2>. QED  BY <1>1, <1>7, <2>1 DEF ClientsOK, L!SetupStore, L!HasDSN, L!Range
<1>8. CASE L!Signal
  BY <1>1, <1>8 DEF ClientsOK, L!Signal, L!HasDSN, L!Range
<1>. QED  BY <1>2, <1>3, <1>4, <1>5, <1>6, <1>7, <1>8, LifeStep

LEMMA QuietStep == SInv /\ [ServerNext]_serverVars => QuietOK'
<1> SUFFICES ASSUME SInv, [ServerNext]_serverVars PROVE QuietOK'
  OBVIOUS
<1>1. QuietOK
  BY DEF SInv
<1>2. CASE End
  BY <1>2 DEF End, Restart, NoRequest, QuietOK, Idle
<1>3. CASE Drain
  BY <1>3 DEF Drain, QuietOK, Idle, userVars, tokenVars
<1>4. ASSUME NEW p \in Handlers, NEW u \in Users, NEW date \in 0..now, Arrive(p, u, date)
      PROVE  QuietOK'
  BY <1>4 DEF Arrive, QuietOK, lifeVars
<1>5. ASSUME NEW p \in Handlers, Read(p) \/ Sync(p) \/ Answer(p)
      PROVE  QuietOK'
  <2>1. ~Idle(p) /\ phase' = phase
    BY <1>5, EndOfLogin DEF Read, Sync, Answer, Get, Idle, lifeVars, SInv
  <2>. QED  BY <1>1, <2>1 DEF QuietOK
<1>6. CASE UNCHANGED <<userVars, now, dated, tokenVars>> /\ ~Drain
  <2>1. phase \in {"serving", "draining"} => phase' \in {"serving", "draining"} \/ End
    BY <1>6, LifeStep DEF lifeVars, L!Boot, L!OpenDB, L!OpenCache, L!FirstStore,
       L!SetupStore, L!Signal, L!Drained, L!Close, L!Over
  <2>. QED  BY <1>1, <1>2, <1>6, <2>1 DEF QuietOK, Idle, userVars, tokenVars
<1>7. CASE Tick
  BY <1>1, <1>7 DEF Tick, QuietOK, Idle, userVars, lifeVars, tokenVars
<1>. QED  BY <1>2, <1>3, <1>4, <1>5, <1>6, <1>7, LoginStep

LEMMA TokensStep == SInv /\ [ServerNext]_serverVars => TokensOK'
<1> SUFFICES ASSUME SInv, [ServerNext]_serverVars PROVE TokensOK'
  OBVIOUS
<1>1. TokensOK /\ IInv /\ TypeOK /\ ServerTypeOK /\ ConfigOK
  BY DEF SInv, IInv
<1>2. CASE End
  <2>1. /\ profile' = IF backend = "memory" THEN [u \in Users |-> Absent] ELSE profile
        /\ backend' = backend
        /\ answering' = [p \in Handlers |-> NoUser]
        /\ issued' = [u \in Users |-> IF issued[u] = "this" THEN "past" ELSE issued[u]]
    BY <1>2 DEF End, Restart
  <2>2. \A u \in Users : issued'[u] \in {"none", "past"} /\ (issued'[u] = "none" <=> issued[u] = "none")
    BY <1>1, <2>1 DEF ServerTypeOK, Processes
  <2>3. backend = "memory" => TokenNamesProfile'
    BY <2>1, <2>2 DEF TokenNamesProfile
  <2>4. backend # "memory" => TokenNamesProfile'
    BY <1>1, <2>1, <2>2 DEF TokensOK, TokenNamesProfile, Me
  <2>. QED  BY <2>1, <2>3, <2>4 DEF TokensOK
<1>3. ASSUME NEW p \in Handlers, Answer(p)
      PROVE  TokensOK'
  <2>1. /\ answering[p] \in Users /\ profile[answering[p]] # Absent
        /\ profile' = profile /\ backend' = backend
        /\ answering' = [answering EXCEPT ![p] = NoUser]
    BY <1>1, <1>3 DEF Answer, userVars, TokensOK, ServerTypeOK
  <2>2. \/ issued' = issued
        \/ issued' = [issued EXCEPT ![answering[p]] = "this"]
    BY <1>3 DEF Answer
  <2>3. TokenNamesProfile'
    BY <1>1, <2>1, <2>2 DEF TokensOK, TokenNamesProfile, Me, ServerTypeOK
  <2>. QED  BY <1>1, <2>1, <2>3 DEF TokensOK, ServerTypeOK
<1>4. ASSUME NEW p \in Handlers, Sync(p)
      PROVE  TokensOK'
  <2>1. /\ req[p].at # "idle"
        /\ Stores(p) \/ UNCHANGED profile
        /\ UNCHANGED <<backend, issued>>
    BY <1>1, <1>4, EndOfLogin DEF Sync
  <2>2. req[p].user \in Users
    BY <1>1, <2>1 DEF IInv, InFlightOK
  <2>3. \A u \in Users : profile[u] # Absent => profile'[u] # Absent
    BY <2>1, <2>2 DEF Stores
  <2>4. CASE Fail(p) /\ UNCHANGED answering
    BY <1>1, <2>1, <2>3, <2>4 DEF TokensOK, TokenNamesProfile, Me, ServerTypeOK
  <2>5. CASE (Create(p) \/ Update(p)) /\ answering' = [answering EXCEPT ![p] = req[p].user]
    <3>1. profile'[req[p].user] # Absent
      <4>1. CASE Create(p)
        BY <1>1, <2>2, <4>1, CreateStores DEF Create, Stores
      <4>2. CASE Update(p)
        BY <1>1, <2>2, <4>2, UpdateStores DEF Update, Stores
      <4>. QED  BY <2>5, <4>1, <4>2
    <3>. QED
      BY <1>1, <2>1, <2>2, <2>3, <2>5, <3>1 DEF TokensOK, TokenNamesProfile, Me, ServerTypeOK
  <2>. QED  BY <1>4, <2>4, <2>5 DEF Sync
<1>5. ASSUME UNCHANGED <<profile, backend, tokenVars>>
      PROVE  TokensOK'
  BY <1>1, <1>5 DEF TokensOK, TokenNamesProfile, Me, tokenVars
<1>6. ASSUME NEW p \in Handlers, Read(p) \/ \E u \in Users, date \in 0..now : Arrive(p, u, date)
      PROVE  UNCHANGED <<profile, backend, tokenVars>>
  BY <1>6 DEF Read, Get, Arrive, Begin, tokenVars
<1>7. CASE Tick \/ UNCHANGED <<userVars, now, dated, tokenVars>>
  BY <1>5, <1>7 DEF Tick, userVars
<1>. QED  BY <1>2, <1>3, <1>4, <1>5, <1>6, <1>7, LoginStep

LEMMA DatesStep == SInv /\ [ServerNext]_serverVars => DatesOK'
<1> SUFFICES ASSUME SInv, [ServerNext]_serverVars PROVE DatesOK'
  OBVIOUS
<1>1. DatesOK /\ IInv /\ TypeOK /\ ServerTypeOK
  BY DEF SInv, IInv
<1>2. ASSUME NEW p \in Handlers, NEW u \in Users, NEW date \in 0..now, Arrive(p, u, date)
      PROVE  DatesOK'
  <2> DEFINE n == logins + 1
  <2>1. /\ n \in Logins /\ now - date <= MaxAge /\ now' = now
        /\ dated' = [dated EXCEPT ![n] = date]
        /\ req' = [req EXCEPT ![p] = [at |-> "get", user |-> u, n |-> n, seen |-> Absent,
                                      before |-> ended]]
    BY <1>1, <1>2, LoginsAssumption DEF Arrive, Begin, Accepted, TypeOK, Logins
  <2>2. now \in Nat /\ date \in Nat /\ date <= now /\ dated \in [Logins -> Nat]
    BY <1>1, TimeAssumption DEF ServerTypeOK
  <2>3. \A m \in Logins : dated'[m] <= now'
    BY <1>1, <2>1, <2>2 DEF DatesOK
  <2>4. ended \subseteq Logins /\ n \notin ended
    BY <1>1 DEF IInv, TypeOK, InFlightOK, Logins
  <2>5. ASSUME NEW q \in Handlers, req'[q].at # "idle", NEW m \in req'[q].before
        PROVE  dated'[m] <= dated'[req'[q].n] + MaxAge
    <3>1. CASE q = p
      <4>1. m \in Logins /\ dated'[m] <= now /\ dated'[req'[q].n] = date
        BY <1>1, <2>1, <2>2, <2>3, <2>4, <2>5, <3>1 DEF TypeOK, ServerTypeOK
      <4>. QED  BY <2>1, <2>2, <4>1, TimeAssumption DEF ServerTypeOK
    <3>2. CASE q # p
      <4>1. req'[q] = req[q]
        BY <1>1, <2>1, <3>2 DEF TypeOK
      <4>2. m \in ended /\ req[q].n \in 1..logins /\ req[q].n # n
        BY <1>1, <2>5, <4>1 DEF IInv, TypeOK, InFlightOK
      <4>3. dated'[m] = dated[m] /\ dated'[req[q].n] = dated[req[q].n]
        BY <1>1, <2>1, <2>4, <4>2 DEF ServerTypeOK
      <4>. QED  BY <1>1, <2>5, <4>1, <4>3 DEF DatesOK
    <3>. QED  BY <3>1, <3>2
  <2>. QED  BY <2>3, <2>5 DEF DatesOK
<1>3. ASSUME UNCHANGED dated, now <= now',
             \A q \in Handlers : req'[q].at # "idle" =>
                 req[q].at # "idle" /\ req'[q].n = req[q].n /\ req'[q].before = req[q].before
      PROVE  DatesOK'
  <2>1. now \in Nat /\ now' \in Nat /\ \A n \in Logins : dated[n] \in Nat
    BY <1>1, TypesStep, TimeAssumption DEF ServerTypeOK
  <2>. QED  BY <1>1, <1>3, <2>1 DEF DatesOK
<1>4. ASSUME NEW p \in Handlers, Read(p) \/ Sync(p) \/ Answer(p)
      PROVE  DatesOK'
  <2>1. UNCHANGED <<now, dated>> /\ now \in Nat
    BY <1>1, <1>4, TimeAssumption DEF Read, Sync, Answer, ServerTypeOK
  <2>2. CASE Read(p)
    BY <1>1, <1>3, <2>1, <2>2 DEF Read, Get, TypeOK
  <2>3. CASE Sync(p)
    <3>1. req' = [req EXCEPT ![p] = NoRequest]
      BY <1>1, <2>3, EndOfLogin DEF Sync, Return
    <3>. QED  BY <1>1, <1>3, <2>1, <3>1 DEF TypeOK, NoRequest
  <2>4. CASE Answer(p)
    BY <1>3, <2>1, <2>4 DEF Answer, userVars
  <2>. QED  BY <1>4, <2>2, <2>3, <2>4
<1>5. CASE Tick
  BY <1>1, <1>3, <1>5, TimeAssumption DEF Tick, userVars, ServerTypeOK
<1>6. CASE End
  BY <1>1, <1>3, <1>6, TimeAssumption DEF End, Restart, NoRequest, ServerTypeOK
<1>7. CASE UNCHANGED <<userVars, now, dated, tokenVars>>
  BY <1>1, <1>3, <1>7, TimeAssumption DEF userVars, ServerTypeOK
<1>. QED  BY <1>2, <1>4, <1>5, <1>6, <1>7, LoginStep

-----------------------------------------------------------------------------
(* The theorems.                                                           *)

LEMMA StepSInv == SInv /\ [ServerNext]_serverVars => SInv'
  BY UserStep, StepIInv, TypesStep, ConfigStep, ClientsStep, QuietStep, TokensStep, DatesStep
     DEF SInv

LEMMA ServerInvariance == ServerSpec => []SInv
  BY InitSInv, StepSInv, PTL DEF ServerSpec

\* The logins that a server takes, in any environment and through its restarts, are
\* those of UserSync: whatever is proved of these holds of the server.
THEOREM ServerImplementsUserSync == ServerSpec => Spec
<1>1. ServerInit => Init
  BY DEF ServerInit
<1>. QED  BY <1>1, UserStep, PTL DEF ServerSpec, Spec

\* The types of the process, of the clock and of the tokens.
THEOREM ServerTypeCorrect == ServerSpec => []ServerTypeOK
  BY ServerInvariance, PTL DEF SInv

\* No login in flight finds its repository or its session store closed.
THEOREM StoresStayOpen == ServerSpec => []StoresOpen
<1>1. SInv => StoresOpen
  BY DEF SInv, ConfigOK, ClientsOK, QuietOK, StoresOpen, InUse, L!Clients
<1>. QED  BY <1>1, ServerInvariance, PTL

\* A process that serves uses the stores that its environment asks for, and /readyz
\* answers for every server that logins depend on.
THEOREM ServesAsConfigured == ServerSpec => []AsConfigured
<1>1. SInv /\ phase = "serving" =>
        \A up \in SUBSET {"postgres", "redis"} :
            L!Ready(up) => {L!ServerOf(c) : c \in InUse} \subseteq up
  BY DEF SInv, ConfigOK, ClientsOK, InUse, L!Clients, L!Ready, L!ServerOf
<1>2. SInv => AsConfigured
  BY <1>1 DEF SInv, ConfigOK, ClientsOK, AsConfigured, L!HasDSN, L!Loads
<1>. QED  BY <1>2, ServerInvariance, PTL

\* A valid token names a stored profile, unless a restart has emptied the map.
THEOREM TokensNameProfiles == ServerSpec => []TokenNamesProfile
  BY ServerInvariance, PTL DEF SInv, TokensOK

\* No login replaces fields that are more than MaxAge newer than its own.
THEOREM FieldsStayBarelyStale == ServerSpec => FieldsBarelyStale
<1>1. SInv /\ [ServerNext]_serverVars =>
        [reply' # reply =>
            LET replaced == profile[reply'.user].data
            IN  replaced \in reply'.before => dated[replaced] <= dated[reply'.n] + MaxAge]_serverVars
  <2> SUFFICES ASSUME SInv, [ServerNext]_serverVars, reply' # reply,
                      profile[reply'.user].data \in reply'.before
               PROVE  dated[profile[reply'.user].data] <= dated[reply'.n] + MaxAge
    OBVIOUS
  <2>1. PICK p \in Handlers : /\ req[p].at \in {"create", "update"}
                              /\ reply'.n = req[p].n
                              /\ reply'.before = req[p].before
    BY UserStep, Replies DEF SInv
  <2>. QED  BY <2>1 DEF SInv, DatesOK
<1>. QED  BY <1>1, ServerInvariance, PTL DEF ServerSpec, FieldsBarelyStale

\* How far from its end a process that was told to stop is: App.Run, and a deferred
\* call for each client.
ToGo == Len(open) + IF phase = "draining" THEN 1 ELSE 0

\* The process ends, or comes nearer to its end, or stays where it is.
Advances ==
    /\ ToGo \in Nat
    /\ \/ phase' = "off"
       \/ UNCHANGED lifeVars
       \/ phase' = "closing" /\ ToGo' < ToGo

\* main, from the signal on: every step of its own advances the shutdown, and no
\* request, however late, makes it serve again or open a client.
THEOREM ShutdownOnlyAdvances ==
  ServerSpec => [][(phase \in {"draining", "closing"}) => Advances]_serverVars
<1>1. ASSUME SInv, [ServerNext]_serverVars, phase \in {"draining", "closing"}
      PROVE  Advances
  <2>1. open \in Seq(L!Clients) /\ Len(open) \in Nat
    BY <1>1 DEF SInv, ServerTypeOK, L!TypeOK
  <2>2. ~(L!Boot \/ L!OpenDB \/ L!OpenCache \/ L!FirstStore \/ L!SetupStore \/ L!Signal)
    BY <1>1 DEF L!Boot, L!OpenDB, L!OpenCache, L!FirstStore, L!SetupStore, L!Signal
  <2>3. CASE L!Drained
    BY <2>1, <2>3 DEF L!Drained, ToGo, Advances
  <2>4. CASE L!Close
    <3>1. open # <<>> /\ open' = SubSeq(open, 1, Len(open) - 1) /\ phase = "closing" /\ phase' = phase
      BY <2>4 DEF L!Close, L!Front
    <3>2. Len(open) \in Nat \ {0} /\ \A i \in 1..(Len(open) - 1) : open[i] \in L!Clients
      <4>1. Len(open) \in Nat \ {0}
        BY <2>1, <3>1, EmptySeq
      <4>. QED  BY <2>1, <4>1, ElementOfSeq
    <3>3. Len(open') = Len(open) - 1
      <4> DEFINE n == Len(open) - 1
      <4>1. n \in Nat /\ \A i \in 1..n : open[i] \in L!Clients
        BY <3>2
      <4>2. Len(SubSeq(open, 1, n)) = IF 1 <= n THEN n - 1 + 1 ELSE 0
        <5>. HIDE DEF n
        <5>. QED  BY <4>1, SubSeqProperties
      <4>3. Len(SubSeq(open, 1, n)) = n
        <5>. HIDE DEF n
        <5>. QED  BY <4>1, <4>2
      <4>. QED  BY <3>1, <4>3
    <3>. QED  BY <2>1, <3>1, <3>2, <3>3 DEF ToGo, Advances
  <2>5. CASE L!Over
    BY <2>1, <2>5 DEF L!Over, ToGo, Advances
  <2>6. CASE UNCHANGED lifeVars
    BY <2>1, <2>6 DEF ToGo, Advances
  <2>. QED  BY <1>1, <2>2, <2>3, <2>4, <2>5, <2>6, LifeStep
<1>2. SInv /\ [ServerNext]_serverVars =>
        [(phase \in {"draining", "closing"}) => Advances]_serverVars
  BY <1>1
<1>. QED  BY <1>2, ServerInvariance, PTL DEF ServerSpec

=============================================================================
