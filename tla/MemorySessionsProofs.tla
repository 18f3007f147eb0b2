------------------------ MODULE MemorySessionsProofs ------------------------
(***************************************************************************)
(* The properties of MemorySessions for any users, sessions, handlers and  *)
(* bounds, and that the in-memory store implements SessionContract.        *)
(***************************************************************************)
EXTENDS MemorySessions, TLAPS, FiniteSetTheorems

\* A session that Create has not stored is in nobody's hands but one login's.
FreshOK ==
    /\ \A s \in SessionIDs : Stored(s) => s \in opened
    /\ \A s \in opened : minted[s] >= 1
    /\ \A p \in Handlers : pc[p] = "create" =>
          /\ req[p].user \in Users /\ req[p].sid \in SessionIDs /\ req[p].next = 1
          /\ req[p].sid \notin opened /\ minted[req[p].sid] >= 1
          /\ \A q \in Handlers : pc[q] = "create" /\ req[q].sid = req[p].sid => q = p

\* A request knows its session, and is not in flight for long; one about to rotate
\* arrived before the session expired, however often others have prolonged it.
LocalsOK ==
    \A p \in Handlers : pc[p] # "idle" =>
        /\ req[p].at <= clock /\ clock <= req[p].at + MaxLatency
        /\ req[p].sid \in SessionIDs
        /\ pc[p] = "rotate" =>
              /\ req[p].token \in Tokens /\ req[p].next \in Tokens
              /\ req[p].token < req[p].next /\ req[p].next <= minted[req[p].sid]
              /\ Stored(req[p].sid) => req[p].at <= sessions[req[p].sid].expires

\* Tokens of a session only grow, from one exchange to the next.
TokensOK ==
    /\ \A s \in SessionIDs : Stored(s) => sessions[s].token \in Tokens /\ sessions[s].token <= minted[s]
    /\ \A e \in exchanged :
          /\ e[1] \in opened
          /\ Stored(e[1]) => e[2] < e[3] /\ e[3] <= sessions[e[1]].token

IInv == TypeOK /\ FreshOK /\ LocalsOK /\ TokensOK /\ StoreLimit

-----------------------------------------------------------------------------
(* What steps do.                                                          *)

\* The steps that leave the map alone.
Silent ==
    /\ UNCHANGED <<sessions, opened, exchanged>>
    /\ \/ UNCHANGED <<clock, pc, req, minted, known>>
       \/ \E p \in Handlers :
             \/ Begin(p) \/ RefreshGet(p) \/ RefreshRefused(p) \/ LogoutGet(p) \/ LogoutRefused(p)
       \/ Tick

LEMMA StepKinds ==
  ASSUME [Next]_vars
  PROVE  \/ \E p \in Handlers : Create(p) \/ Rotate(p) \/ RevokeSession(p)
         \/ \E u \in Users : LogoutAll(u)
         \/ Restart
         \/ Silent
  BY DEF Next, Step, Begin, BeginLogin, BeginRefresh, BeginLogout, RefreshGet, RefreshRefused,
     LogoutGet, LogoutRefused, Tick, Silent, vars

LEMMA TypeStep == TypeOK /\ FreshOK /\ LocalsOK /\ [Next]_vars => TypeOK'
<1> SUFFICES ASSUME TypeOK, FreshOK, LocalsOK, [Next]_vars PROVE TypeOK'
  OBVIOUS
<1> USE TimeAssumption
<1>1. NoRequest \in Requests /\ Absent \in Entries
  BY DEF NoRequest, Requests, Absent, Entries, Times
<1>2. clock \in 0..MaxTime
  BY DEF TypeOK
<1>3. ASSUME NEW p \in Handlers, Create(p)
      PROVE  TypeOK'
  <2>1. /\ req[p].user \in Users /\ req[p].sid \in SessionIDs /\ req[p].next = 1
        /\ req[p].at \in 0..MaxTime
    BY <1>3 DEF Create, FreshOK, TypeOK, Requests
  <2>2. req[p].at + RefreshTTL \in Times /\ 1 \in Tokens
    BY <2>1 DEF Times, Tokens
  <2>3. [user |-> req[p].user, token |-> req[p].next, expires |-> req[p].at + RefreshTTL,
         revoked |-> FALSE] \in Entries
    BY <2>1, <2>2 DEF Entries
  <2>4. sessions' \in [SessionIDs -> Entries]
    BY <1>1, <1>3, <2>3 DEF Create, TypeOK
  <2>5. known' \in [SessionIDs -> SUBSET Tokens] /\ opened' \subseteq SessionIDs
    BY <1>3, <2>1, <2>2 DEF Create, Reply, TypeOK
  <2>. QED  BY <1>1, <1>3, <2>4, <2>5 DEF Create, Finish, Goto, TypeOK
<1>4. ASSUME NEW p \in Handlers, Rotate(p)
      PROVE  TypeOK'
  <2>1. /\ req[p].sid \in SessionIDs /\ req[p].token \in Tokens /\ req[p].next \in Tokens
        /\ req[p].at \in 0..MaxTime
    BY <1>4 DEF Rotate, LocalsOK, TypeOK, Requests
  <2>2. req[p].at + RefreshTTL \in Times
    BY <2>1 DEF Times
  <2>3. sessions' \in [SessionIDs -> Entries]
    <3>1. \A e \in Entries :
            [e EXCEPT !.token = req[p].next, !.expires = req[p].at + RefreshTTL] \in Entries
      BY <2>1, <2>2 DEF Entries
    <3>. QED  BY <1>4, <2>1, <3>1 DEF Rotate, TypeOK
  <2>4. known' \in [SessionIDs -> SUBSET Tokens] /\ exchanged' \subseteq SessionIDs \X Tokens \X Tokens
    BY <1>4, <2>1 DEF Rotate, Reply, TypeOK
  <2>. QED  BY <1>1, <1>4, <2>3, <2>4 DEF Rotate, Finish, Goto, TypeOK
<1>5. ASSUME NEW p \in Handlers, RevokeSession(p)
      PROVE  TypeOK'
  <2>1. sessions' \in [SessionIDs -> Entries]
    BY <1>5 DEF RevokeSession, TypeOK, Entries
  <2>. QED  BY <1>1, <1>5, <2>1 DEF RevokeSession, Finish, Goto, TypeOK
<1>6. ASSUME NEW u \in Users, LogoutAll(u)
      PROVE  TypeOK'
  <2>1. sessions' \in [SessionIDs -> Entries]
    BY <1>6 DEF LogoutAll, TypeOK, Entries
  <2>. QED  BY <1>6, <2>1 DEF LogoutAll, TypeOK
<1>7. CASE Restart
  BY <1>1, <1>7 DEF Restart, TypeOK
<1>8. CASE Silent
  <2>1. CASE UNCHANGED <<clock, pc, req, minted, known>>
    BY <1>8, <2>1 DEF Silent, TypeOK
  <2>2. ASSUME NEW p \in Handlers, NEW u \in Users, BeginLogin(p, u)
        PROVE  TypeOK'
    <3>1. PICK s \in SessionIDs :
             /\ minted' = [minted EXCEPT ![s] = 1]
             /\ Goto(p, "create", [NoRequest EXCEPT !.user = u, !.sid = s, !.next = 1, !.at = clock])
             /\ UNCHANGED <<clock, known>>
      BY <2>2 DEF BeginLogin
    <3>2. [NoRequest EXCEPT !.user = u, !.sid = s, !.next = 1, !.at = clock] \in Requests
      <4>1. 1 \in Tokens
        BY DEF Tokens
      <4>. QED  BY <1>2, <4>1 DEF NoRequest, Requests
    <3>3. req' \in [Handlers -> Requests]
      BY <3>1, <3>2 DEF Goto, TypeOK
    <3>4. minted' \in [SessionIDs -> 0..MaxTokens]
      BY <3>1 DEF TypeOK
    <3>. QED  BY <1>8, <3>1, <3>3, <3>4 DEF Goto, Silent, TypeOK
  <2>3. ASSUME NEW p \in Handlers, NEW s \in SessionIDs, NEW t \in Tokens,
               BeginRefresh(p, s, t) \/ BeginLogout(p, s, t)
        PROVE  TypeOK'
    <3>1. [NoRequest EXCEPT !.sid = s, !.token = t, !.at = clock] \in Requests
      BY <1>2 DEF NoRequest, Requests
    <3>2. req' \in [Handlers -> Requests]
      BY <2>3, <3>1 DEF BeginRefresh, BeginLogout, Goto, TypeOK
    <3>. QED  BY <1>8, <2>3, <3>2 DEF BeginRefresh, BeginLogout, Goto, Silent, TypeOK
  <2>4. ASSUME NEW p \in Handlers, RefreshGet(p)
        PROVE  TypeOK'
    <3>1. req[p] \in Requests /\ req[p].sid \in SessionIDs /\ minted[req[p].sid] \in 0..MaxTokens
      BY <2>4 DEF RefreshGet, TypeOK, LocalsOK
    <3>2. minted[req[p].sid] + 1 \in Tokens
      BY <2>4, <3>1 DEF RefreshGet, Tokens
    <3>3. minted' \in [SessionIDs -> 0..MaxTokens]
      BY <2>4, <3>1, <3>2 DEF RefreshGet, TypeOK, Tokens
    <3>4. [req[p] EXCEPT !.next = minted[req[p].sid] + 1] \in Requests
      BY <3>1, <3>2 DEF Requests
    <3>. QED  BY <1>8, <2>4, <3>3, <3>4 DEF RefreshGet, Goto, Silent, TypeOK
  <2>5. ASSUME NEW p \in Handlers, RefreshRefused(p) \/ LogoutGet(p) \/ LogoutRefused(p)
        PROVE  TypeOK'
    BY <1>1, <1>8, <2>5 DEF RefreshRefused, LogoutGet, LogoutRefused, Finish, Goto, Silent, TypeOK
  <2>6. CASE Tick
    BY <1>8, <2>6 DEF Tick, Silent, TypeOK
  <2>. QED  BY <1>8, <2>1, <2>2, <2>3, <2>4, <2>5, <2>6 DEF Silent, Begin
<1>. QED  BY <1>3, <1>4, <1>5, <1>6, <1>7, <1>8, StepKinds

\* What Create stores, and that it only drops other sessions.
LEMMA CreateStores ==
  ASSUME IInv, NEW p \in Handlers, Create(p)
  PROVE  /\ req[p].user \in Users /\ req[p].sid \in SessionIDs /\ req[p].sid \notin opened
         /\ ~Stored(req[p].sid) /\ minted[req[p].sid] >= 1
         /\ opened' = opened \union {req[p].sid} /\ exchanged' = exchanged
         /\ clock' = clock /\ minted' = minted /\ pc' = [pc EXCEPT ![p] = "idle"]
         /\ \A q \in Handlers \ {p} : req'[q] = req[q]
         /\ sessions'[req[p].sid].user = req[p].user /\ sessions'[req[p].sid].token = 1
         /\ sessions'[req[p].sid].expires = req[p].at + RefreshTTL
         /\ ~sessions'[req[p].sid].revoked
         /\ \A s \in SessionIDs : s # req[p].sid => sessions'[s] = sessions[s] \/ sessions'[s] = Absent
  <1>1. /\ req[p].user \in Users /\ req[p].sid \in SessionIDs /\ req[p].sid \notin opened
        /\ req[p].next = 1 /\ ~Stored(req[p].sid) /\ minted[req[p].sid] >= 1
    BY DEF Create, IInv, FreshOK
  <1>2. /\ opened' = opened \union {req[p].sid} /\ exchanged' = exchanged
        /\ clock' = clock /\ minted' = minted /\ pc' = [pc EXCEPT ![p] = "idle"]
        /\ \A q \in Handlers \ {p} : req'[q] = req[q]
    BY DEF Create, Finish, Goto, IInv, TypeOK
  <1>3. PICK gone \in Victims(req[p].user) :
          sessions' = [s \in SessionIDs |->
              IF s = req[p].sid
              THEN [user |-> req[p].user, token |-> req[p].next,
                    expires |-> req[p].at + RefreshTTL, revoked |-> FALSE]
              ELSE IF s \in Unexpired \ gone THEN sessions[s] ELSE Absent]
    BY DEF Create
  <1>. QED  BY <1>1, <1>2, <1>3

\* What Rotate stores: a later token, for a session that was there.
LEMMA RotateStores ==
  ASSUME IInv, NEW p \in Handlers, Rotate(p)
  PROVE  /\ req[p].sid \in SessionIDs /\ Live(req[p].sid)
         /\ sessions[req[p].sid].token = req[p].token
         /\ req[p].token \in Tokens /\ req[p].next \in Tokens
         /\ req[p].token < req[p].next /\ req[p].next <= minted[req[p].sid]
         /\ opened' = opened /\ exchanged' = exchanged \union {<<req[p].sid, req[p].token, req[p].next>>}
         /\ clock' = clock /\ minted' = minted /\ pc' = [pc EXCEPT ![p] = "idle"]
         /\ \A q \in Handlers \ {p} : req'[q] = req[q]
         /\ sessions'[req[p].sid].user = sessions[req[p].sid].user
         /\ sessions'[req[p].sid].token = req[p].next
         /\ sessions'[req[p].sid].expires = req[p].at + RefreshTTL
         /\ ~sessions'[req[p].sid].revoked
         /\ \A s \in SessionIDs : s # req[p].sid => sessions'[s] = sessions[s]
  <1>1. /\ req[p].sid \in SessionIDs /\ Live(req[p].sid)
        /\ sessions[req[p].sid].token = req[p].token
        /\ req[p].token \in Tokens /\ req[p].next \in Tokens
        /\ req[p].token < req[p].next /\ req[p].next <= minted[req[p].sid]
    BY DEF Rotate, Rotatable, IInv, LocalsOK
  <1>2. sessions[req[p].sid] \in Entries /\ ~sessions[req[p].sid].revoked
    BY <1>1 DEF IInv, TypeOK, Live
  <1>3. /\ opened' = opened /\ exchanged' = exchanged \union {<<req[p].sid, req[p].token, req[p].next>>}
        /\ clock' = clock /\ minted' = minted /\ pc' = [pc EXCEPT ![p] = "idle"]
        /\ \A q \in Handlers \ {p} : req'[q] = req[q]
    BY DEF Rotate, Finish, Goto, IInv, TypeOK
  <1>4. /\ sessions'[req[p].sid] = [sessions[req[p].sid] EXCEPT !.token = req[p].next,
                                                                !.expires = req[p].at + RefreshTTL]
        /\ \A s \in SessionIDs : s # req[p].sid => sessions'[s] = sessions[s]
    BY <1>1 DEF Rotate, IInv, TypeOK
  <1>. QED  BY <1>1, <1>2, <1>3, <1>4 DEF Entries

\* A revocation, a restart, and steps that leave the map alone.
Losing ==
    /\ opened' = opened /\ exchanged' = exchanged
    /\ \A s \in SessionIDs : sessions'[s] \in {sessions[s], [sessions[s] EXCEPT !.revoked = TRUE], Absent}

LEMMA OthersLose ==
  ASSUME IInv, [Next]_vars, \A p \in Handlers : ~Create(p) /\ ~Rotate(p)
  PROVE  Losing
  <1>1. ASSUME NEW p \in Handlers, RevokeSession(p)
        PROVE  Losing
    BY <1>1 DEF RevokeSession, Losing, IInv, TypeOK
  <1>2. ASSUME NEW u \in Users, LogoutAll(u)
        PROVE  Losing
    BY <1>2 DEF LogoutAll, Losing
  <1>3. CASE Restart
    BY <1>3 DEF Restart, Losing
  <1>4. CASE Silent
    BY <1>4 DEF Silent, Losing
  <1>. QED  BY <1>1, <1>2, <1>3, <1>4, StepKinds

-----------------------------------------------------------------------------
(* The limit, the freshness of a login's session.                          *)

\* Sessions are few: they have finitely many ids.
LEMMA Few ==
  ASSUME NEW S \in SUBSET SessionIDs
  PROVE  IsFiniteSet(S) /\ Cardinality(S) \in Nat
  BY NamesAssumption, FS_Subset, FS_CardinalityType

\* Create evicts one session only, and that is enough.
LEMMA LimitStep ==
  ASSUME IInv, [Next]_vars
  PROVE  StoreLimit'
<1> USE LimitAssumption, NamesAssumption
<1>1. ASSUME NEW u \in Users, \A s \in SessionIDs : sessions'[s].user = u => sessions[s].user = u
      PROVE  Cardinality(SessionsOf(u)') <= MaxSessionsPerUser
  <2>1. SessionsOf(u)' \subseteq SessionsOf(u) /\ SessionsOf(u) \subseteq SessionIDs
    BY <1>1 DEF SessionsOf
  <2>2. Cardinality(SessionsOf(u)') <= Cardinality(SessionsOf(u))
    BY <2>1, Few, FS_Subset
  <2>3. Cardinality(SessionsOf(u)) <= MaxSessionsPerUser
    BY DEF IInv, StoreLimit
  <2>4. Cardinality(SessionsOf(u)) \in Nat /\ Cardinality(SessionsOf(u)') \in Nat
    BY <2>1, Few
  <2>. QED  BY <2>2, <2>3, <2>4
<1>2. ASSUME NEW p \in Handlers, Create(p)
      PROVE  StoreLimit'
  <2>0. PICK s \in SessionIDs, u \in Users : s = req[p].sid /\ u = req[p].user
    BY <1>2, CreateStores
  <2> DEFINE mine == SessionsOf(u) \intersect Unexpired
  <2>1. ASSUME NEW w \in Users, w # u
        PROVE  Cardinality(SessionsOf(w)') <= MaxSessionsPerUser
    <3>1. ASSUME NEW x \in SessionIDs, sessions'[x].user = w
          PROVE  sessions[x].user = w
      <4>1. x # s
        BY <1>2, <2>0, <2>1, <3>1, CreateStores
      <4>2. sessions'[x] = sessions[x] \/ sessions'[x] = Absent
        BY <1>2, <2>0, <4>1, CreateStores
      <4>. QED  BY <3>1, <4>2 DEF Absent
    <3>. QED  BY <1>1, <3>1
  <2>2. PICK gone \in Victims(u) :
          \A x \in SessionIDs \ {s} : Stored(x)' => x \in Unexpired \ gone
    BY <1>2, <2>0 DEF Create, Stored, Absent
  <2>3. mine \in SUBSET SessionIDs /\ u \in Users
    BY DEF SessionsOf
  <2>4. SessionsOf(u)' \subseteq (mine \ gone) \union {s}
    <3>1. ASSUME NEW x \in SessionIDs, x # s, sessions'[x].user = u
          PROVE  x \in mine \ gone
      <4>1. sessions'[x] = sessions[x]
        BY <1>2, <2>0, <2>3, <3>1, CreateStores DEF Absent
      <4>2. x \in Unexpired \ gone
        BY <2>2, <2>3, <3>1 DEF Stored
      <4>. QED  BY <3>1, <4>1, <4>2 DEF SessionsOf
    <3>. QED  BY <3>1 DEF SessionsOf
  <2>5. Cardinality(mine \ gone) <= MaxSessionsPerUser - 1
    <3>1. CASE Cardinality(mine) >= MaxSessionsPerUser
      <4>1. PICK v \in mine : gone = {v}
        BY <3>1 DEF Victims
      <4>2. Cardinality(mine \ {v}) = Cardinality(mine) - 1
        BY <2>3, Few, FS_RemoveElement
      <4>3. mine \subseteq SessionsOf(u) /\ SessionsOf(u) \in SUBSET SessionIDs
        BY DEF SessionsOf
      <4>4. Cardinality(mine) <= Cardinality(SessionsOf(u))
        BY <4>3, Few, FS_Subset
      <4>5. Cardinality(SessionsOf(u)) <= MaxSessionsPerUser
        BY <2>3 DEF IInv, StoreLimit
      <4>6. Cardinality(SessionsOf(u)) \in Nat /\ Cardinality(mine) \in Nat
        BY <2>3, <4>3, Few
      <4>. QED  BY <4>1, <4>2, <4>4, <4>5, <4>6
    <3>2. CASE ~(Cardinality(mine) >= MaxSessionsPerUser)
      <4>1. gone = {}
        BY <3>2 DEF Victims
      <4>2. Cardinality(mine) \in Nat /\ mine \ gone = mine
        BY <2>3, <4>1, Few
      <4>3. ~(Cardinality(mine) >= MaxSessionsPerUser) /\ Cardinality(mine) \in Nat => Cardinality(mine) <= MaxSessionsPerUser - 1
        OBVIOUS
      <4>. QED  BY <3>2, <4>2, <4>3
    <3>. QED  BY <3>1, <3>2
  <2>6. Cardinality((mine \ gone) \union {s}) <= Cardinality(mine \ gone) + 1
    <3>1. IsFiniteSet(mine \ gone) /\ Cardinality(mine \ gone) \in Nat
      BY <2>3, Few
    <3>2. Cardinality((mine \ gone) \union {s}) =
              IF s \in mine \ gone THEN Cardinality(mine \ gone) ELSE Cardinality(mine \ gone) + 1
      BY <3>1, FS_AddElement
    <3>. QED  BY <3>1, <3>2
  <2>7. (mine \ gone) \union {s} \in SUBSET SessionIDs /\ mine \ gone \in SUBSET SessionIDs
    BY <2>3
  <2>8. Cardinality(SessionsOf(u)') <= Cardinality((mine \ gone) \union {s})
    BY <2>4, <2>7, Few, FS_Subset
  <2>9. /\ Cardinality(SessionsOf(u)') \in Nat /\ Cardinality(mine \ gone) \in Nat
        /\ Cardinality((mine \ gone) \union {s}) \in Nat
    <3>1. SessionsOf(u)' \in SUBSET SessionIDs
      BY DEF SessionsOf
    <3>. QED  BY <2>7, <3>1, Few
  <2>10. Cardinality(SessionsOf(u)') <= MaxSessionsPerUser
    BY <2>5, <2>6, <2>8, <2>9
  <2>. QED  BY <2>1, <2>10 DEF StoreLimit
<1>3. CASE \A p \in Handlers : ~Create(p)
  <2>1. ASSUME NEW u \in Users, NEW s \in SessionIDs, sessions'[s].user = u
        PROVE  sessions[s].user = u
    <3>0. sessions[s] \in Entries
      BY DEF IInv, TypeOK
    <3>1. ASSUME NEW p \in Handlers, Rotate(p)
          PROVE  sessions'[s].user = sessions[s].user
      <4>1. s # req[p].sid => sessions'[s] = sessions[s]
        BY <3>1, RotateStores
      <4>2. sessions'[req[p].sid].user = sessions[req[p].sid].user
        BY <3>1, RotateStores
      <4>. QED  BY <4>1, <4>2
    <3>2. CASE Losing
      BY <2>1, <3>0, <3>2 DEF Losing, Entries, Absent
    <3>. QED  BY <1>3, <2>1, <3>1, <3>2, OthersLose
  <2>. QED  BY <1>1, <2>1 DEF StoreLimit
<1>. QED  BY <1>2, <1>3

LEMMA GotoMovesOne ==
  ASSUME TypeOK, NEW p \in Handlers, NEW label, NEW locals, Goto(p, label, locals)
  PROVE  /\ pc'[p] = label /\ req'[p] = locals
         /\ \A q \in Handlers : q # p => pc'[q] = pc[q] /\ req'[q] = req[q]
  BY DEF Goto, TypeOK

\* A login's session is its own until Create stores it.
LEMMA FreshStep ==
  ASSUME IInv, [Next]_vars
  PROVE  FreshOK'
<1> USE NamesAssumption DEF IInv
<1>0. \A s \in SessionIDs : minted[s] \in Nat
  BY DEF TypeOK
<1>1. ASSUME NEW p \in Handlers, Create(p)
      PROVE  FreshOK'
  <2>1. \A s \in SessionIDs : Stored(s)' => s \in opened'
    BY <1>1, CreateStores DEF FreshOK, Stored, Absent
  <2>2. \A s \in opened' : minted'[s] >= 1
    BY <1>1, CreateStores DEF FreshOK
  <2>3. ASSUME NEW q \in Handlers, pc'[q] = "create"
        PROVE  q # p /\ pc[q] = "create" /\ req'[q] = req[q]
    BY <1>1, <2>3, CreateStores DEF TypeOK
  <2>4. ASSUME NEW q \in Handlers, pc'[q] = "create"
        PROVE  /\ req'[q].user \in Users /\ req'[q].sid \in SessionIDs /\ req'[q].next = 1
               /\ req'[q].sid \notin opened' /\ minted'[req'[q].sid] >= 1
               /\ \A z \in Handlers : pc'[z] = "create" /\ req'[z].sid = req'[q].sid => z = q
    <3>1. req[q].sid # req[p].sid /\ pc[p] = "create"
      BY <1>1, <2>3, <2>4 DEF FreshOK, Create
    <3>. QED  BY <1>1, <2>3, <2>4, <3>1, CreateStores DEF FreshOK
  <2>. QED  BY <2>1, <2>2, <2>4 DEF FreshOK
<1>2. ASSUME \A s \in SessionIDs : Stored(s)' => Stored(s), opened' = opened,
             minted' = minted,
             \A q \in Handlers : pc'[q] = "create" => pc[q] = "create" /\ req'[q] = req[q]
      PROVE  FreshOK'
  BY <1>2 DEF FreshOK
<1>3. ASSUME NEW p \in Handlers, Rotate(p)
      PROVE  FreshOK'
  <2>1. \A q \in Handlers : pc'[q] = "create" => pc[q] = "create" /\ req'[q] = req[q]
    BY <1>3, RotateStores DEF TypeOK
  <2>2. \A s \in SessionIDs : Stored(s)' => Stored(s)
    BY <1>3, RotateStores DEF Stored
  <2>. QED  BY <1>2, <1>3, <2>1, <2>2, RotateStores
<1>4. CASE \A p \in Handlers : ~Create(p) /\ ~Rotate(p)
  <2>0. /\ \A s \in SessionIDs : Stored(s)' => Stored(s)
        /\ opened' = opened
    <3>1. Losing
      BY <1>4, OthersLose
    <3>2. ASSUME NEW s \in SessionIDs, Stored(s)'
          PROVE  Stored(s)
      <4>1. sessions[s] \in Entries
        BY DEF TypeOK
      <4>. QED  BY <3>1, <3>2, <4>1 DEF Losing, Stored, Absent, Entries
    <3>. QED  BY <3>1, <3>2 DEF Losing
  <2>1. ASSUME NEW p \in Handlers, NEW label, NEW r, Goto(p, label, r), label # "create", minted' = minted
        PROVE  FreshOK'
    BY <1>2, <2>0, <2>1, GotoMovesOne
  <2>2. ASSUME NEW p \in Handlers, NEW u \in Users, BeginLogin(p, u)
        PROVE  FreshOK'
    <3>1. PICK s \in SessionIDs :
             /\ minted[s] = 0 /\ minted' = [minted EXCEPT ![s] = 1]
             /\ Goto(p, "create", [NoRequest EXCEPT !.user = u, !.sid = s, !.next = 1, !.at = clock])
      BY <2>2 DEF BeginLogin
    <3>2. /\ pc'[p] = "create" /\ req'[p].user = u /\ req'[p].sid = s /\ req'[p].next = 1
          /\ \A q \in Handlers : q # p => pc'[q] = pc[q] /\ req'[q] = req[q]
      <4> DEFINE r == [NoRequest EXCEPT !.user = u, !.sid = s, !.next = 1, !.at = clock]
      <4>1. r.user = u /\ r.sid = s /\ r.next = 1
        BY DEF NoRequest
      <4>2. /\ pc'[p] = "create" /\ req'[p] = r
            /\ \A q \in Handlers : q # p => pc'[q] = pc[q] /\ req'[q] = req[q]
        BY <3>1, GotoMovesOne
      <4>. QED  BY <4>1, <4>2
    <3>3. s \notin opened /\ \A q \in Handlers : pc[q] = "create" => req[q].sid # s
      BY <3>1 DEF FreshOK
    <3>4. minted'[s] = 1 /\ \A x \in SessionIDs : minted[x] >= 1 => minted'[x] >= 1
      BY <3>1 DEF TypeOK
    <3>5. \A x \in opened' : minted'[x] >= 1
      BY <2>0, <3>4 DEF FreshOK, TypeOK
    <3>6. ASSUME NEW q \in Handlers, pc'[q] = "create"
          PROVE  /\ req'[q].user \in Users /\ req'[q].sid \in SessionIDs /\ req'[q].next = 1
                 /\ req'[q].sid \notin opened' /\ minted'[req'[q].sid] >= 1
                 /\ \A z \in Handlers : pc'[z] = "create" /\ req'[z].sid = req'[q].sid => z = q
      <4>1. CASE q = p
        BY <2>0, <3>2, <3>3, <3>4, <4>1
      <4>2. CASE q # p
        BY <2>0, <3>2, <3>3, <3>4, <3>6, <4>2 DEF FreshOK
      <4>. QED  BY <4>1, <4>2
    <3>. QED  BY <2>0, <3>5, <3>6 DEF FreshOK
  <2>3. ASSUME NEW p \in Handlers, RefreshGet(p)
        PROVE  FreshOK'
    <3>1. Goto(p, "rotate", [req[p] EXCEPT !.next = minted[req[p].sid] + 1])
      BY <2>3 DEF RefreshGet
    <3>2. \A q \in Handlers : pc'[q] = "create" => pc[q] = "create" /\ req'[q] = req[q]
      BY <3>1, GotoMovesOne
    <3>3. \A x \in SessionIDs : minted[x] >= 1 => minted'[x] >= 1
      <4>1. req[p].sid \in SessionIDs => minted[req[p].sid] + 1 >= 1
        BY <1>0
      <4>. QED  BY <2>3, <4>1 DEF RefreshGet, TypeOK
    <3>. QED  BY <2>0, <3>2, <3>3 DEF FreshOK, TypeOK
  <2>4. ASSUME NEW p \in Handlers, NEW s \in SessionIDs, NEW t \in Tokens,
               BeginRefresh(p, s, t) \/ BeginLogout(p, s, t)
        PROVE  FreshOK'
    BY <2>1, <2>4 DEF BeginRefresh, BeginLogout
  <2>5. ASSUME NEW p \in Handlers,
               RefreshRefused(p) \/ LogoutGet(p) \/ LogoutRefused(p) \/ RevokeSession(p)
        PROVE  FreshOK'
    BY <2>1, <2>5 DEF RefreshRefused, LogoutGet, LogoutRefused, RevokeSession, Finish
  <2>6. CASE Restart
    BY <1>2, <2>0, <2>6 DEF Restart
  <2>7. ASSUME UNCHANGED <<pc, req, minted>>
        PROVE  FreshOK'
    BY <1>2, <2>0, <2>7
  <2>8. ASSUME NEW u \in Users, LogoutAll(u)
        PROVE  FreshOK'
    BY <2>7, <2>8 DEF LogoutAll
  <2>9. CASE Silent
    BY <2>2, <2>3, <2>4, <2>5, <2>7, <2>9 DEF Silent, Begin, Tick
  <2>. QED  BY <1>4, <2>5, <2>6, <2>8, <2>9, StepKinds
<1>. QED  BY <1>1, <1>3, <1>4

\* What LocalsOK says of one handler.
LocalsFit(p) ==
    /\ req[p].at <= clock /\ clock <= req[p].at + MaxLatency
    /\ req[p].sid \in SessionIDs
    /\ pc[p] = "rotate" =>
          /\ req[p].token \in Tokens /\ req[p].next \in Tokens
          /\ req[p].token < req[p].next /\ req[p].next <= minted[req[p].sid]
          /\ Stored(req[p].sid) => req[p].at <= sessions[req[p].sid].expires

\* A session is prolonged by requests that arrived at most MaxLatency ago: past
\* the present, so past the arrival of every other request.
LEMMA LocalsStep ==
  ASSUME IInv, [Next]_vars
  PROVE  LocalsOK'
<1> USE NamesAssumption, TimeAssumption
<1>0. /\ clock \in 0..MaxTime /\ \A s \in SessionIDs : minted[s] \in Nat /\ sessions[s] \in Entries
      /\ \A q \in Handlers : req[q] \in Requests /\ req[q].at \in Nat
      /\ \A q \in Handlers : pc[q] # "idle" => LocalsFit(q)
  BY DEF IInv, TypeOK, LocalsOK, LocalsFit, Requests
<1>1. ASSUME NEW q \in Handlers, LocalsFit(q), pc'[q] = pc[q], req'[q] = req[q], clock' = clock,
             \A s \in SessionIDs : minted[s] <= minted'[s],
             \A s \in SessionIDs : Stored(s)' =>
                 \/ Stored(s) /\ sessions'[s].expires = sessions[s].expires
                 \/ sessions'[s].expires \in Nat /\ clock <= sessions'[s].expires
      PROVE  LocalsFit(q)'
  <2>1. req[q].sid \in SessionIDs
    BY <1>1 DEF LocalsFit
  <2>2. pc[q] = "rotate" => req[q].next <= minted'[req[q].sid]
    <3>1. pc[q] = "rotate" => req[q].next \in Nat /\ minted[req[q].sid] \in Nat
                              /\ minted'[req[q].sid] \in Nat
      BY <1>0, <1>1, <2>1, TypeStep DEF LocalsFit, Tokens, IInv, TypeOK
    <3>. QED  BY <1>1, <2>1, <3>1 DEF LocalsFit
  <2>3. pc[q] = "rotate" /\ Stored(req[q].sid)' => req[q].at <= sessions'[req[q].sid].expires
    BY <1>0, <1>1, <2>1 DEF LocalsFit
  <2>. QED  BY <1>1, <2>1, <2>2, <2>3 DEF LocalsFit, Stored
<1>2. ASSUME NEW p \in Handlers, Create(p) \/ Rotate(p)
      PROVE  LocalsOK'
  <2>1. /\ clock' = clock /\ minted' = minted /\ pc' = [pc EXCEPT ![p] = "idle"]
        /\ \A q \in Handlers \ {p} : req'[q] = req[q]
        /\ sessions'[req[p].sid].expires = req[p].at + RefreshTTL
        /\ \A s \in SessionIDs : s # req[p].sid => sessions'[s] = sessions[s] \/ sessions'[s] = Absent
    BY <1>2, CreateStores, RotateStores
  <2>2. LocalsFit(p)
    BY <1>0, <1>2 DEF Create, Rotate
  <2>3. clock <= req[p].at + RefreshTTL /\ req[p].at + RefreshTTL \in Nat
    BY <1>0, <2>2 DEF LocalsFit
  <2>4. ASSUME NEW s \in SessionIDs, Stored(s)'
        PROVE  \/ Stored(s) /\ sessions'[s].expires = sessions[s].expires
               \/ sessions'[s].expires \in Nat /\ clock <= sessions'[s].expires
    BY <2>1, <2>3, <2>4 DEF Stored, Absent
  <2>5. ASSUME NEW q \in Handlers, pc'[q] # "idle"
        PROVE  LocalsFit(q)'
    <3>1. q # p /\ pc'[q] = pc[q] /\ req'[q] = req[q] /\ pc[q] # "idle"
      BY <2>1, <2>5 DEF IInv, TypeOK
    <3>2. \A s \in SessionIDs : minted[s] <= minted'[s]
      BY <1>0, <2>1
    <3>. QED  BY <1>0, <1>1, <2>1, <2>4, <3>1, <3>2
  <2>. QED  BY <2>5 DEF LocalsOK, LocalsFit
<1>3. CASE \A p \in Handlers : ~Create(p) /\ ~Rotate(p)
  <2>1. ASSUME NEW s \in SessionIDs, Stored(s)'
        PROVE  Stored(s) /\ sessions'[s].expires = sessions[s].expires
    <3>1. Losing
      BY <1>3, OthersLose
    <3>. QED  BY <1>0, <2>1, <3>1 DEF Losing, Stored, Absent, Entries
  <2>2. ASSUME NEW p \in Handlers, NEW label, NEW r, Goto(p, label, r), clock' = clock,
               \A s \in SessionIDs : minted[s] <= minted'[s],
               label # "idle" => LocalsFit(p)'
        PROVE  LocalsOK'
    <3>1. ASSUME NEW q \in Handlers, pc'[q] # "idle"
          PROVE  LocalsFit(q)'
      <4>1. pc'[p] = label /\ \A z \in Handlers : z # p => pc'[z] = pc[z] /\ req'[z] = req[z]
        BY <2>2, GotoMovesOne DEF IInv
      <4>2. CASE q = p
        BY <2>2, <3>1, <4>1, <4>2
      <4>3. CASE q # p
        BY <1>0, <1>1, <2>1, <2>2, <3>1, <4>1, <4>3
      <4>. QED  BY <4>2, <4>3
    <3>. QED  BY <3>1 DEF LocalsOK, LocalsFit
  <2>3. ASSUME NEW p \in Handlers, NEW label, NEW s \in SessionIDs, NEW r,
               Goto(p, label, r), r.sid = s, r.at = clock, label # "rotate", clock' = clock,
               \A x \in SessionIDs : minted[x] <= minted'[x]
        PROVE  LocalsOK'
    <3>1. pc'[p] = label /\ req'[p] = r
      BY <2>3, GotoMovesOne DEF IInv
    <3>2. LocalsFit(p)'
      BY <1>0, <2>3, <3>1 DEF LocalsFit
    <3>. QED  BY <2>2, <2>3, <3>2
  <2>4. \A x \in SessionIDs : minted' = minted => minted[x] <= minted'[x]
    BY <1>0
  <2>5. ASSUME NEW p \in Handlers, NEW u \in Users, BeginLogin(p, u)
        PROVE  LocalsOK'
    <3>1. PICK s \in SessionIDs :
             /\ minted[s] = 0 /\ minted' = [minted EXCEPT ![s] = 1]
             /\ Goto(p, "create", [NoRequest EXCEPT !.user = u, !.sid = s, !.next = 1, !.at = clock])
      BY <2>5 DEF BeginLogin
    <3> DEFINE r == [NoRequest EXCEPT !.user = u, !.sid = s, !.next = 1, !.at = clock]
    <3>2. r.sid = s /\ r.at = clock
      BY DEF NoRequest
    <3>3. \A x \in SessionIDs : minted[x] <= minted'[x]
      BY <1>0, <3>1
    <3>4. clock' = clock
      BY <2>5 DEF BeginLogin
    <3> HIDE DEF r
    <3>. QED  BY <2>3, <3>1, <3>2, <3>3, <3>4 DEF r
  <2>6. ASSUME NEW p \in Handlers, NEW s \in SessionIDs, NEW t \in Tokens,
               BeginRefresh(p, s, t) \/ BeginLogout(p, s, t)
        PROVE  LocalsOK'
    <3> DEFINE r == [NoRequest EXCEPT !.sid = s, !.token = t, !.at = clock]
    <3>1. r.sid = s /\ r.at = clock
      BY DEF NoRequest
    <3>2. (Goto(p, "get", r) \/ Goto(p, "logout_get", r)) /\ clock' = clock /\ minted' = minted
      BY <2>6 DEF BeginRefresh, BeginLogout
    <3> HIDE DEF r
    <3>. QED  BY <2>3, <2>4, <3>1, <3>2
  <2>7. ASSUME NEW p \in Handlers, RefreshGet(p)
        PROVE  LocalsOK'
    <3> DEFINE r == [req[p] EXCEPT !.next = minted[req[p].sid] + 1]
    <3>1. /\ pc[p] = "get" /\ req[p].sid \in Unexpired /\ sessions[req[p].sid].token = req[p].token
          /\ minted' = [minted EXCEPT ![req[p].sid] = @ + 1] /\ minted[req[p].sid] < MaxTokens
          /\ Goto(p, "rotate", r) /\ clock' = clock /\ sessions' = sessions
      BY <2>7 DEF RefreshGet, Presentable
    <3>2. LocalsFit(p) /\ req[p].sid \in SessionIDs /\ Stored(req[p].sid)
      BY <1>0, <3>1 DEF Unexpired
    <3>3. r.at = req[p].at /\ r.sid = req[p].sid /\ r.token = req[p].token
          /\ r.next = minted[req[p].sid] + 1
      BY <1>0 DEF Requests
    <3>4. req[p].token \in Tokens /\ req[p].token <= minted[req[p].sid]
      BY <3>1, <3>2 DEF IInv, TokensOK
    <3>5. r.next \in Tokens /\ req[p].token < r.next
      BY <1>0, <3>1, <3>2, <3>3, <3>4 DEF Tokens
    <3>6. minted'[req[p].sid] = r.next /\ \A x \in SessionIDs : minted[x] <= minted'[x]
      BY <1>0, <3>1, <3>2, <3>3 DEF IInv, TypeOK
    <3>7. req[p].at <= sessions[req[p].sid].expires
      <4>1. sessions[req[p].sid].expires \in Nat /\ clock <= sessions[req[p].sid].expires
        BY <1>0, <3>1, <3>2 DEF Unexpired, Entries, Times
      <4>. QED  BY <1>0, <3>2, <4>1 DEF LocalsFit
    <3>8. pc'[p] = "rotate" /\ req'[p] = r
      BY <3>1, GotoMovesOne DEF IInv
    <3> HIDE DEF r
    <3>9. LocalsFit(p)'
      BY <1>0, <3>1, <3>2, <3>3, <3>4, <3>5, <3>6, <3>7, <3>8 DEF LocalsFit
    <3>. QED  BY <2>2, <3>1, <3>6, <3>9
  <2>8. ASSUME NEW p \in Handlers, LogoutGet(p)
        PROVE  LocalsOK'
    <3>1. /\ pc[p] = "logout_get" /\ Goto(p, "revoke", req[p]) /\ clock' = clock /\ minted' = minted
      BY <2>8 DEF LogoutGet
    <3>2. LocalsFit(p)'
      <4>1. pc'[p] = "revoke" /\ req'[p] = req[p] /\ LocalsFit(p)
        BY <1>0, <3>1, GotoMovesOne DEF IInv
      <4>. QED  BY <3>1, <4>1 DEF LocalsFit
    <3>. QED  BY <2>2, <2>4, <3>1, <3>2
  <2>9. ASSUME NEW p \in Handlers, RefreshRefused(p) \/ LogoutRefused(p) \/ RevokeSession(p)
        PROVE  LocalsOK'
    BY <2>2, <2>4, <2>9 DEF RefreshRefused, LogoutRefused, RevokeSession, Finish
  <2>10. CASE Restart
    BY <2>10 DEF Restart, LocalsOK
  <2>11. ASSUME UNCHANGED <<clock, pc, req, minted>>
        PROVE  LocalsOK'
    <3>1. ASSUME NEW q \in Handlers, pc'[q] # "idle"
          PROVE  LocalsFit(q)'
      BY <1>0, <1>1, <2>1, <2>4, <2>11, <3>1
    <3>. QED  BY <3>1 DEF LocalsOK, LocalsFit
  <2>12. ASSUME NEW u \in Users, LogoutAll(u)
        PROVE  LocalsOK'
    BY <2>11, <2>12 DEF LogoutAll
  <2>13. CASE Tick
    <3>1. ASSUME NEW q \in Handlers, pc'[q] # "idle"
          PROVE  LocalsFit(q)'
      <4>1. LocalsFit(q) /\ clock - req[q].at < MaxLatency
        BY <1>0, <2>13, <3>1 DEF Tick
      <4>. QED  BY <1>0, <2>13, <4>1 DEF Tick, LocalsFit, Stored
    <3>. QED  BY <3>1 DEF LocalsOK, LocalsFit
  <2>14. CASE Silent
    BY <2>5, <2>6, <2>7, <2>8, <2>9, <2>11, <2>13, <2>14 DEF Silent, Begin
  <2>. QED  BY <1>3, <2>9, <2>10, <2>12, <2>14, StepKinds
<1>. QED  BY <1>2, <1>3

\* No session is exchanged for an older token of its own.
LEMMA TokensStep ==
  ASSUME IInv, [Next]_vars
  PROVE  TokensOK'
<1> USE NamesAssumption, TimeAssumption
<1>0. /\ \A s \in SessionIDs : minted[s] \in Nat /\ sessions[s] \in Entries
      /\ opened \subseteq SessionIDs /\ exchanged \subseteq SessionIDs \X Tokens \X Tokens
      /\ \A s \in SessionIDs : Stored(s) => sessions[s].token \in Tokens /\ sessions[s].token <= minted[s]
      /\ \A e \in exchanged : e[1] \in opened
      /\ \A e \in exchanged : Stored(e[1]) => e[2] < e[3] /\ e[3] <= sessions[e[1]].token
  BY DEF IInv, TypeOK, TokensOK
<1>1. ASSUME NEW p \in Handlers, Create(p)
      PROVE  TokensOK'
  <2>1. 1 \in Tokens
    BY DEF Tokens
  <2>2. ASSUME NEW s \in SessionIDs, Stored(s)'
        PROVE  sessions'[s].token \in Tokens /\ sessions'[s].token <= minted'[s]
    BY <1>0, <1>1, <2>1, <2>2, CreateStores DEF Stored, Absent
  <2>3. ASSUME NEW e \in exchanged, Stored(e[1])'
        PROVE  e[2] < e[3] /\ e[3] <= sessions'[e[1]].token
    <3>1. e[1] # req[p].sid /\ e[1] \in SessionIDs
      BY <1>0, <1>1, CreateStores
    <3>2. sessions'[e[1]] = sessions[e[1]]
      BY <1>1, <2>3, <3>1, CreateStores DEF Stored, Absent
    <3>. QED  BY <1>0, <2>3, <3>2 DEF Stored
  <2>. QED  BY <1>0, <1>1, <2>2, <2>3, CreateStores DEF TokensOK
<1>2. ASSUME NEW p \in Handlers, Rotate(p)
      PROVE  TokensOK'
  <2>1. PICK x \in SessionIDs, old \in Tokens, new \in Tokens :
            x = req[p].sid /\ old = req[p].token /\ new = req[p].next
    BY <1>2, RotateStores
  <2>2. /\ Live(x) /\ sessions[x].token = old /\ old < new /\ new <= minted[x]
        /\ opened' = opened /\ exchanged' = exchanged \union {<<x, old, new>>} /\ minted' = minted
        /\ sessions'[x].user = sessions[x].user /\ sessions'[x].token = new
        /\ \A s \in SessionIDs : s # x => sessions'[s] = sessions[s]
    BY <1>2, <2>1, RotateStores
  <2>3. ASSUME NEW s \in SessionIDs, Stored(s)'
        PROVE  sessions'[s].token \in Tokens /\ sessions'[s].token <= minted'[s]
    BY <1>0, <2>2, <2>3 DEF Stored
  <2>4. x \in opened
    BY <2>2 DEF IInv, FreshOK, Live
  <2>5. ASSUME NEW e \in exchanged, Stored(e[1])'
        PROVE  e[2] < e[3] /\ e[3] <= sessions'[e[1]].token
    <3>1. e[1] \in SessionIDs /\ e[2] \in Tokens /\ e[3] \in Tokens
      BY <1>0
    <3>2. CASE e[1] = x
      <4>1. e[2] < e[3] /\ e[3] <= old
        BY <1>0, <2>2, <3>2 DEF Live
      <4>. QED  BY <2>2, <3>1, <3>2, <4>1 DEF Tokens
    <3>3. CASE e[1] # x
      BY <1>0, <2>2, <2>5, <3>1, <3>3 DEF Stored
    <3>. QED  BY <3>2, <3>3
  <2>6. \A e \in exchanged' : e[1] \in opened'
    BY <1>0, <2>2, <2>4
  <2>7. \A e \in exchanged' : Stored(e[1])' => e[2] < e[3] /\ e[3] <= sessions'[e[1]].token
    <3>1. ASSUME NEW e \in exchanged', Stored(e[1])'
          PROVE  e[2] < e[3] /\ e[3] <= sessions'[e[1]].token
      <4>1. CASE e \in exchanged
        BY <2>5, <3>1, <4>1
      <4>2. CASE e = <<x, old, new>>
        BY <2>2, <4>2 DEF Tokens
      <4>. QED  BY <2>2, <4>1, <4>2
    <3>. QED  BY <3>1
  <2>. QED  BY <2>3, <2>6, <2>7 DEF TokensOK, Stored
<1>3. CASE \A p \in Handlers : ~Create(p) /\ ~Rotate(p)
  <2>1. Losing
    BY <1>3, OthersLose
  <2>2. ASSUME NEW s \in SessionIDs, Stored(s)'
        PROVE  Stored(s) /\ sessions'[s].token = sessions[s].token
    BY <1>0, <2>1, <2>2 DEF Losing, Stored, Absent, Entries
  <2>3. \A s \in SessionIDs : minted[s] <= minted'[s]
    <3>1. ASSUME NEW p \in Handlers, Begin(p) \/ RefreshGet(p)
          PROVE  \A s \in SessionIDs : minted[s] <= minted'[s]
      <4>1. CASE minted' = minted
        BY <1>0, <4>1
      <4>2. ASSUME NEW u \in Users, BeginLogin(p, u)
            PROVE  \A s \in SessionIDs : minted[s] <= minted'[s]
        BY <1>0, <4>2 DEF BeginLogin, IInv, TypeOK
      <4>3. CASE RefreshGet(p)
        BY <1>0, <4>3 DEF RefreshGet, IInv, TypeOK
      <4>. QED  BY <3>1, <4>1, <4>2, <4>3 DEF Begin, BeginRefresh, BeginLogout
    <3>2. CASE minted' = minted
      BY <1>0, <3>2
    <3>. QED  BY <1>3, <3>1, <3>2, StepKinds
         DEF Silent, RefreshRefused, LogoutGet, LogoutRefused, Tick, RevokeSession, LogoutAll, Restart
  <2>4. ASSUME NEW s \in SessionIDs, Stored(s)'
        PROVE  sessions'[s].token \in Tokens /\ sessions'[s].token <= minted'[s]
    <3>1. minted'[s] \in Nat
      BY TypeStep DEF IInv, TypeOK
    <3>. QED  BY <1>0, <2>2, <2>3, <2>4, <3>1 DEF Tokens
  <2>5. ASSUME NEW e \in exchanged, Stored(e[1])'
        PROVE  e[2] < e[3] /\ e[3] <= sessions'[e[1]].token
    BY <1>0, <2>2, <2>5
  <2>. QED  BY <1>0, <2>1, <2>4, <2>5 DEF TokensOK, Losing
<1>. QED  BY <1>1, <1>2, <1>3

-----------------------------------------------------------------------------
(* The theorems.                                                           *)

LEMMA InitIInv == Init => IInv
<1> SUFFICES ASSUME Init PROVE IInv
  OBVIOUS
<1> USE NamesAssumption, TimeAssumption, LimitAssumption DEF Init
<1>1. TypeOK
  <2>1. NoRequest \in Requests /\ Absent \in Entries
    BY DEF NoRequest, Requests, Absent, Entries, Times
  <2>. QED  BY <2>1 DEF TypeOK
<1>2. \A s \in SessionIDs : ~Stored(s)
  BY DEF Stored, Absent
<1>3. FreshOK /\ LocalsOK /\ TokensOK
  BY <1>2 DEF FreshOK, LocalsOK, TokensOK
<1>4. StoreLimit
  <2>1. ASSUME NEW u \in Users
        PROVE  Cardinality(SessionsOf(u)) <= MaxSessionsPerUser
    <3>1. SessionsOf(u) = {}
      BY DEF SessionsOf, Absent
    <3>. QED  BY <3>1, FS_EmptySet
  <2>. QED  BY <2>1 DEF StoreLimit
<1>. QED  BY <1>1, <1>3, <1>4 DEF IInv

LEMMA Invariance == Spec => []IInv
<1>1. IInv /\ [Next]_vars => IInv'
  BY TypeStep, LimitStep, FreshStep, LocalsStep, TokensStep DEF IInv
<1>. QED  BY InitIInv, <1>1, PTL DEF Spec

\* The variables of the auth service over the in-memory store keep their types.
THEOREM TypeCorrect == Spec => []TypeOK
<1>1. IInv => TypeOK
  BY DEF IInv
<1>. QED  BY <1>1, Invariance, PTL

\* Create's single eviction keeps every user within the limit, for any limit and
\* any number of logins, refreshes and logouts at a time.
THEOREM StoreLimitHolds == Spec => []StoreLimit
<1>1. IInv => StoreLimit
  BY DEF IInv
<1>. QED  BY <1>1, Invariance, PTL

\* Rotate never prolongs a session for a request that arrived after it expired.
THEOREM ProlongedOnlyInTime == Spec => ProlongedInTime
<1>1. ASSUME IInv, [Next]_vars, NEW p \in Handlers, Rotate(p)
      PROVE  /\ req[p].at <= sessions[req[p].sid].expires
             /\ clock <= sessions[req[p].sid].expires + MaxLatency
  <2>1. /\ req[p].sid \in SessionIDs /\ Stored(req[p].sid)
        /\ req[p].at <= sessions[req[p].sid].expires /\ clock <= req[p].at + MaxLatency
    BY <1>1 DEF IInv, LocalsOK, Rotate, Rotatable, Live
  <2>2. clock \in Nat /\ req[p].at \in Nat /\ sessions[req[p].sid].expires \in Nat
    <3>1. clock \in 1..MaxTime /\ req[p] \in Requests /\ sessions[req[p].sid] \in Entries
      BY <1>1, <2>1 DEF IInv, TypeOK
    <3>. QED  BY <3>1, TimeAssumption DEF Requests, Entries, Times
  <2>. QED  BY <2>1, <2>2, TimeAssumption
<1>2. IInv /\ [Next]_vars =>
        [\A p \in Handlers : Rotate(p) =>
            /\ req[p].at <= sessions[req[p].sid].expires
            /\ clock <= sessions[req[p].sid].expires + MaxLatency]_vars
  BY <1>1
<1>. QED  BY <1>2, Invariance, PTL DEF Spec, ProlongedInTime

\* An unexpired session is dropped by Create only, for a login of its own user that
\* finds the limit reached, and it is the first to expire of that user's sessions.
THEOREM DroppedOnlyForOwnLogin == Spec => DroppedForOwnLogin
<1>1. ASSUME IInv, [Next]_vars, NEW s \in Unexpired, ~Stored(s)', \E x \in SessionIDs : Stored(x)'
      PROVE  /\ \E x \in opened' \ opened : sessions'[x].user = sessions[s].user
             /\ Cardinality(SessionsOf(sessions[s].user) \intersect Unexpired) = MaxSessionsPerUser
             /\ \A x \in SessionIDs : Stored(x)' /\ sessions[x].user = sessions[s].user =>
                   sessions[s].expires <= sessions[x].expires
  <2>0. s \in SessionIDs /\ Stored(s) /\ sessions[s].user # None
    BY <1>1 DEF Unexpired, Stored
  <2>1. PICK p \in Handlers : Create(p)
    <3>1. ASSUME NEW p \in Handlers, Rotate(p)
          PROVE  Stored(s)'
      BY <1>1, <2>0, <3>1, RotateStores DEF Stored
    <3>2. ASSUME NEW p \in Handlers, RevokeSession(p)
          PROVE  Stored(s)'
      BY <1>1, <2>0, <3>2 DEF RevokeSession, Stored, IInv, TypeOK, Entries
    <3>3. ASSUME NEW u \in Users, LogoutAll(u)
          PROVE  Stored(s)'
      BY <1>1, <2>0, <3>3 DEF LogoutAll, Stored, IInv, TypeOK, Entries
    <3>4. CASE Restart
      BY <1>1, <3>4 DEF Restart, Stored, Absent
    <3>5. CASE Silent
      BY <1>1, <2>0, <3>5 DEF Silent, Stored
    <3>. QED  BY <1>1, <3>1, <3>2, <3>3, <3>4, <3>5, StepKinds
  <2>2. PICK sid \in SessionIDs, u \in Users : sid = req[p].sid /\ u = req[p].user
    BY <1>1, <2>1, CreateStores
  <2>3. /\ sessions'[sid].user = u /\ sid \in opened' \ opened /\ ~Stored(sid)
    BY <1>1, <2>1, <2>2, CreateStores
  <2>4. sid # s
    BY <2>0, <2>3
  <2>5. PICK gone \in Victims(u) :
          \A x \in SessionIDs : x # sid =>
              /\ x \in Unexpired \ gone => sessions'[x] = sessions[x]
              /\ x \notin Unexpired \ gone => sessions'[x] = Absent
    BY <2>1, <2>2 DEF Create
  <2>6. s \in gone
    BY <1>1, <2>0, <2>4, <2>5 DEF Stored
  <2> DEFINE mine == SessionsOf(u) \intersect Unexpired
  <2>7. /\ s \in mine /\ Cardinality(mine) >= MaxSessionsPerUser
        /\ \A x \in mine : sessions[s].expires <= sessions[x].expires
        /\ gone = {s}
    BY <2>6 DEF Victims
  <2>8. sessions[s].user = u
    BY <2>7 DEF SessionsOf
  <2>9. Cardinality(mine) = MaxSessionsPerUser
    <3>1. mine \subseteq SessionsOf(u) /\ SessionsOf(u) \in SUBSET SessionIDs
      BY DEF SessionsOf
    <3>2. Cardinality(mine) <= Cardinality(SessionsOf(u))
      BY <3>1, Few, FS_Subset
    <3>3. Cardinality(SessionsOf(u)) <= MaxSessionsPerUser
      BY <1>1 DEF IInv, StoreLimit
    <3>4. Cardinality(SessionsOf(u)) \in Nat /\ Cardinality(mine) \in Nat
      BY <3>1, Few
    <3>. QED  BY <2>7, <3>2, <3>3, <3>4, LimitAssumption
  <2>10. ASSUME NEW x \in SessionIDs, Stored(x)', sessions[x].user = u
         PROVE  sessions[s].expires <= sessions[x].expires
    <3>1. x # sid
      BY <2>0, <2>3, <2>8, <2>10 DEF Stored
    <3>2. x \in Unexpired
      BY <2>5, <2>10, <3>1 DEF Stored, Absent
    <3>3. x \in mine
      BY <2>10, <3>2 DEF SessionsOf
    <3>. QED  BY <2>7, <3>3
  <2>. QED  BY <2>3, <2>8, <2>9, <2>10
<1>2. IInv /\ [Next]_vars =>
        [\A s \in Unexpired : ~Stored(s)' /\ (\E x \in SessionIDs : Stored(x)') =>
            /\ \E x \in opened' \ opened : sessions'[x].user = sessions[s].user
            /\ Cardinality(SessionsOf(sessions[s].user) \intersect Unexpired) = MaxSessionsPerUser
            /\ \A x \in SessionIDs : Stored(x)' /\ sessions[x].user = sessions[s].user =>
                  sessions[s].expires <= sessions[x].expires]_vars
  BY <1>1
<1>. QED  BY <1>2, Invariance, PTL DEF Spec, DroppedForOwnLogin

-----------------------------------------------------------------------------
(* The contract.                                                           *)

ContractStatus ==
    [s \in SessionIDs |-> IF s \notin opened THEN "unused" ELSE IF Live(s) THEN "live" ELSE "dead"]

ContractCurrent == [s \in SessionIDs |-> IF Live(s) THEN sessions[s].token ELSE 0]

\* The sessions a step ends.
Ended == {s \in SessionIDs : Live(s) /\ ~Live(s)'}

LEMMA ContractStep ==
  ASSUME IInv, [Next]_vars
  PROVE  [Contract!Next]_(Contract!vars)
<1> USE NamesAssumption DEF ContractStatus, ContractCurrent
<1>0. /\ \A s \in SessionIDs : sessions[s] \in Entries
      /\ \A s \in SessionIDs : Live(s) => s \in opened
      /\ opened \subseteq SessionIDs
  BY DEF IInv, TypeOK, FreshOK, Live
<1>1. ASSUME NEW p \in Handlers, Create(p)
      PROVE  Contract!Next
  <2>1. PICK s \in SessionIDs : s = req[p].sid
    BY <1>1, CreateStores
  <2>2. /\ s \notin opened /\ ~Live(s) /\ opened' = opened \union {s} /\ exchanged' = exchanged
        /\ Live(s)' /\ sessions'[s].token = 1
    BY <1>1, <2>1, CreateStores DEF Live, Stored
  <2>3. ASSUME NEW x \in SessionIDs, x # s, Live(x)'
        PROVE  Live(x) /\ sessions'[x] = sessions[x]
    BY <1>1, <2>1, <2>3, CreateStores DEF Live, Stored, Absent
  <2>4. PICK S \in SUBSET SessionIDs : S = Ended
    BY DEF Ended
  <2>5. \A x \in SessionIDs : x \in S <=> Live(x) /\ ~Live(x)'
    BY <2>4 DEF Ended
  <2>6. ContractStatus[s] = "unused" /\ \A x \in S : ContractStatus[x] = "live"
    BY <1>0, <2>2, <2>5
  <2>7. ContractStatus' = [Contract!EndAll(S, ContractStatus, "dead") EXCEPT ![s] = "live"]
    BY <1>0, <2>2, <2>3, <2>5 DEF Contract!EndAll
  <2>8. ContractCurrent' = [Contract!EndAll(S, ContractCurrent, 0) EXCEPT ![s] = 1]
    BY <1>0, <2>2, <2>3, <2>5 DEF Contract!EndAll
  <2>9. Contract!Open(s, 1, S)
    BY <2>2, <2>6, <2>7, <2>8 DEF Contract!Open
  <2>10. 1 \in Tokens
    BY TimeAssumption DEF Tokens
  <2>. QED  BY <2>9, <2>10 DEF Contract!Next
<1>2. ASSUME NEW p \in Handlers, Rotate(p)
      PROVE  Contract!Next
  <2>1. PICK s \in SessionIDs, old \in Tokens, new \in Tokens :
            s = req[p].sid /\ old = req[p].token /\ new = req[p].next
    BY <1>2, RotateStores
  <2>2. /\ Live(s) /\ sessions[s].token = old /\ old < new
        /\ opened' = opened /\ exchanged' = exchanged \union {<<s, old, new>>}
        /\ sessions'[s].user = sessions[s].user /\ sessions'[s].token = new /\ ~sessions'[s].revoked
        /\ \A x \in SessionIDs : x # s => sessions'[x] = sessions[x]
    BY <1>2, <2>1, RotateStores
  <2>3. Live(s)' /\ \A x \in SessionIDs : x # s => (Live(x)' <=> Live(x))
    BY <2>2 DEF Live, Stored
  <2>4. ContractStatus' = ContractStatus /\ ContractStatus[s] = "live"
    BY <1>0, <2>2, <2>3
  <2>5. ContractCurrent' = [ContractCurrent EXCEPT ![s] = new] /\ ContractCurrent[s] = old
    BY <2>2, <2>3
  <2>6. ASSUME NEW e \in exchanged, e[1] = s
        PROVE  e[2] # new
    <3>1. e[2] < e[3] /\ e[3] <= old /\ e[2] \in Tokens /\ e[3] \in Tokens
      BY <2>2, <2>6 DEF IInv, TypeOK, TokensOK, Live
    <3>. QED  BY <2>2, <3>1 DEF Tokens
  <2>7. new \notin Contract!Issued(s)
    BY <2>2, <2>5, <2>6 DEF Contract!Issued, Tokens
  <2>8. Contract!Exchange(s, new)
    BY <2>2, <2>4, <2>5, <2>7 DEF Contract!Exchange
  <2>. QED  BY <2>8 DEF Contract!Next
<1>3. CASE \A p \in Handlers : ~Create(p) /\ ~Rotate(p)
  <2>1. Losing
    BY <1>3, OthersLose
  <2>2. ASSUME NEW s \in SessionIDs, Live(s)'
        PROVE  Live(s) /\ sessions'[s].token = sessions[s].token
    BY <1>0, <2>1, <2>2 DEF Losing, Live, Stored, Absent, Entries
  <2>3. PICK S \in SUBSET SessionIDs : S = Ended
    BY DEF Ended
  <2>4. \A x \in SessionIDs : x \in S <=> Live(x) /\ ~Live(x)'
    BY <2>3 DEF Ended
  <2>5. opened' = opened /\ exchanged' = exchanged
    BY <2>1 DEF Losing
  <2>6. ContractStatus' = [s \in SessionIDs |-> IF s \in S THEN "dead" ELSE ContractStatus[s]]
    BY <1>0, <2>2, <2>4, <2>5
  <2>7. ContractCurrent' = [s \in SessionIDs |-> IF s \in S THEN 0 ELSE ContractCurrent[s]]
    BY <2>2, <2>4
  <2>8. CASE S = {}
    <3>1. ContractStatus' = ContractStatus /\ ContractCurrent' = ContractCurrent
      BY <2>6, <2>7, <2>8
    <3>. QED  BY <2>5, <3>1 DEF Contract!vars
  <2>9. CASE S # {}
    <3>1. \A s \in S : ContractStatus[s] = "live"
      BY <1>0, <2>4
    <3>2. Contract!Retire(S)
      BY <2>5, <2>6, <2>7, <3>1 DEF Contract!Retire, Contract!EndAll
    <3>3. \E X \in (SUBSET SessionIDs) \ {{}} : Contract!Retire(X)
      BY <2>9, <3>2
    <3>. QED  BY <3>3 DEF Contract!Next
  <2>. QED  BY <2>8, <2>9
<1>. QED  BY <1>1, <1>2, <1>3

\* The map behind the auth service keeps the promise of RefreshSessionStore in every
\* interleaving: what revocation, eviction or a restart ended does not come back.
THEOREM MemoryImplementsContract == Spec => ImplementsContract
<1>1. Init => Contract!Init
  BY NamesAssumption DEF Init, Contract!Init, Live, Stored, Absent
<1>2. IInv /\ [Next]_vars => [Contract!Next]_(Contract!vars)
  BY ContractStep
<1>. QED  BY <1>1, <1>2, Invariance, PTL DEF Spec, ImplementsContract, Contract!Spec

\* What is proved of every store that implements the contract.
Promise == INSTANCE SessionContractProofs WITH
    NoToken <- 0,
    status <- [s \in SessionIDs |->
                  IF s \notin opened THEN "unused" ELSE IF Live(s) THEN "live" ELSE "dead"],
    current <- [s \in SessionIDs |-> IF Live(s) THEN sessions[s].token ELSE 0]

LEMMA PromiseKept == ImplementsContract => Promise!Spec
  BY PTL
     DEF ImplementsContract, Contract!Spec, Contract!Init, Contract!Next, Contract!vars,
         Contract!Open, Contract!Exchange, Contract!Retire, Contract!Issued, Contract!EndAll,
         Promise!Spec, Promise!Init, Promise!Next, Promise!vars,
         Promise!Open, Promise!Exchange, Promise!Retire, Promise!Issued, Promise!EndAll

\* Of two refreshes that present the same token to the map, one gets no successor,
\* however they interleave between Get and Rotate.
THEOREM MemoryTokensChain == Spec => []TokensFormAChain
<1>1. Promise!TokensFormAChain => TokensFormAChain
  BY DEF TokensFormAChain, Contract!TokensFormAChain, Contract!EachTokenExchangedOnce,
         Contract!Spent, Promise!TokensFormAChain, Promise!EachTokenExchangedOnce, Promise!Spent
<1>. QED  BY <1>1, MemoryImplementsContract, PromiseKept, Promise!ContractTokensChain, PTL

\* A rotation whose session was revoked or dropped after its Get changes nothing.
THEOREM MemoryEndsForGood == Spec => EndedForGood
<1>1. Promise!EndedForGood => EndedForGood
  BY PTL DEF EndedForGood, Contract!EndedForGood, Contract!vars, Promise!EndedForGood, Promise!vars
<1>. QED  BY <1>1, MemoryImplementsContract, PromiseKept, Promise!ContractEndsForGood, PTL

=============================================================================
