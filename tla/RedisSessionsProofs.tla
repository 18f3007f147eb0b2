------------------------ MODULE RedisSessionsProofs ------------------------
(***************************************************************************)
(* Proofs about RedisSessions for every number of users, sessions and      *)
(* handlers, and every session limit, TTL, latency and time bound.  IInv   *)
(* is the inductive invariant; its parts say what each handler in flight   *)
(* still knows of the store while the others go on.                        *)
(***************************************************************************)
EXTENDS RedisSessions, TLAPS, FiniteSetTheorems, WellFoundedInduction

RefreshLabels == {"get", "watch", "exec"}
LogoutLabels == {"logout_get", "revoke_get", "revoke"}

\* What a handler's locals hold, by the command it is about to run; the TTL it
\* computed covers the expiry it will store, give or take its latency.
LocalsFit(label, r, now) ==
    LET ttlOK == /\ r.at + RefreshTTL <= now + r.ttl
                 /\ now + r.ttl <= r.at + RefreshTTL + MaxLatency
    IN  /\ label = "idle" => r = NoRequest
        /\ label # "idle" => r.at <= now /\ now <= r.at + MaxLatency
        /\ label \in LoginLabels =>
              r.user \in Users /\ r.sid \in SessionIDs /\ r.next = 1
        /\ label \in LoginLabels \ {"scan"} => ttlOK
        /\ label \in {"evict", "unindex"} => r.victim \in SessionIDs
        /\ label \in RefreshLabels \union LogoutLabels =>
              r.sid \in SessionIDs /\ r.token \in Tokens
        /\ label \in {"watch", "exec"} => r.next \in Tokens
        /\ label = "exec" => ttlOK /\ r.seen.user \in Users
        /\ label \in {"revoke", "range", "revoke_all"} => r.user \in Users

LocalsOK == \A p \in Handlers : LocalsFit(pc[p], req[p], clock)

\* A session id belongs to one login until Create stores it; nothing in Redis,
\* in an index or at a client names it earlier.
FreshStore ==
    /\ \A s \in SessionIDs : s \notin opened =>
          /\ hash[s] = Absent
          /\ known[s] = {}
          /\ \A u \in Users : index[u][s] = 0
    /\ \A s \in opened : minted[s] > 0

FreshFit(label, r) ==
    /\ label \in LoginLabels => r.sid \notin opened /\ minted[r.sid] > 0
    /\ label \in {"evict", "unindex"} => r.victim \in opened
    /\ label \in RefreshLabels \union LogoutLabels => r.sid \in opened
    /\ r.ids \subseteq opened
    /\ r.prior \subseteq opened

FreshOK ==
    /\ FreshStore
    /\ \A p \in Handlers : FreshFit(pc[p], req[p])
    /\ \A p, q \in Handlers :
          pc[p] \in LoginLabels /\ pc[q] \in LoginLabels /\ p # q =>
              req[p].sid # req[q].sid

\* Tokens grow along every chain, so a token that was exchanged is older than
\* the one its session has now.
TokensFit(label, r) ==
    /\ label \in {"watch", "exec"} => r.token < r.next /\ r.next <= minted[r.sid]
    /\ label = "exec" => Usable(r.seen) /\ r.seen.token = r.token

TokensOK ==
    /\ \A s \in SessionIDs : hash[s].token <= minted[s]
    /\ \A e \in exchanged :
          /\ e[1] \in opened
          /\ Parsable(hash[e[1]]) => e[2] < e[3] /\ e[3] <= hash[e[1]].token
    /\ \A p \in Handlers : TokensFit(pc[p], req[p])
    /\ EachTokenExchangedOnce

\* What is named as a victim is dead, and what is named as a user's session is
\* that user's, or dead.
OfUser(s, u) == Parsable(hash[s]) => hash[s].user = u

OwnersFit(label, r) ==
    /\ label = "unindex" => ~Live(r.victim)
    /\ label = "revoke" => OfUser(r.sid, r.user)
    /\ label = "revoke_all" => \A s \in r.ids : OfUser(s, r.user)
    /\ label \in {"range", "revoke_all"} => \A s \in r.prior : OfUser(s, r.user)
    /\ label = "revoke_all" => \A s \in r.prior \ orphaned : Live(s) => s \in r.ids

OwnersOK == \A p \in Handlers : OwnersFit(pc[p], req[p])

IInv ==
    /\ TypeOK
    /\ LocalsOK
    /\ FreshOK
    /\ TokensOK
    /\ OwnersOK
    /\ IndexAgrees
    /\ LiveIsIndexed
    /\ TTLCoversExpiry


-----------------------------------------------------------------------------
(* Types.                                                                  *)

LEMMA ConstantsTyped ==
    /\ Absent \in Hashes
    /\ NoRequest \in Requests
  <1>1. Absent \in Hashes
    BY TimeAssumption DEF Absent, Hashes, Times
  <1>. QED
    BY <1>1, TimeAssumption DEF NoRequest, Requests

\* Updates of single fields keep a request, or a session hash, typed.
LEMMA RequestUpdates ==
    ASSUME NEW r \in Requests
    PROVE  /\ \A v \in SessionIDs \union {None} : [r EXCEPT !.victim = v] \in Requests
           /\ \A n \in Tokens : [r EXCEPT !.next = n] \in Requests
           /\ \A S \in SUBSET SessionIDs : [r EXCEPT !.ids = S] \in Requests
           /\ \A u \in Users \union {None} : [r EXCEPT !.user = u] \in Requests
  <1>1. \A v \in SessionIDs \union {None} : [r EXCEPT !.victim = v] \in Requests
    BY DEF Requests
  <1>2. \A n \in Tokens : [r EXCEPT !.next = n] \in Requests
    BY DEF Requests
  <1>3. \A S \in SUBSET SessionIDs : [r EXCEPT !.ids = S] \in Requests
    BY DEF Requests
  <1>4. \A u \in Users \union {None} : [r EXCEPT !.user = u] \in Requests
    BY DEF Requests
  <1>. QED  BY <1>1, <1>2, <1>3, <1>4

LEMMA NewRequests ==
    ASSUME NEW at \in 0..MaxTime
    PROVE  /\ \A s \in SessionIDs, t \in Tokens :
                 [NoRequest EXCEPT !.sid = s, !.token = t, !.at = at] \in Requests
           /\ \A u \in Users, s \in SessionIDs :
                 [NoRequest EXCEPT !.user = u, !.sid = s, !.next = 1, !.at = at] \in Requests
           /\ \A u \in Users, S \in SUBSET SessionIDs :
                 [NoRequest EXCEPT !.user = u, !.at = at, !.prior = S] \in Requests
  <1>1. 1 \in Tokens
    BY TimeAssumption DEF Tokens
  <1>2. \A r \in Requests, s \in SessionIDs, t \in Tokens :
           [r EXCEPT !.sid = s, !.token = t, !.at = at] \in Requests
    BY DEF Requests
  <1>3. \A r \in Requests, u \in Users, s \in SessionIDs, n \in Tokens :
           [r EXCEPT !.user = u, !.sid = s, !.next = n, !.at = at] \in Requests
    BY DEF Requests
  <1>4. \A r \in Requests, u \in Users, S \in SUBSET SessionIDs :
           [r EXCEPT !.user = u, !.at = at, !.prior = S] \in Requests
    BY DEF Requests
  <1>. QED  BY <1>1, <1>2, <1>3, <1>4, ConstantsTyped

LEMMA HashUpdates ==
    ASSUME NEW h \in Hashes, NEW t \in Tokens, NEW e \in Times, NEW d \in Times
    PROVE  /\ [h EXCEPT !.token = t, !.expires = e, !.deadline = d] \in Hashes
           /\ \A u \in Users :
                 [h EXCEPT !.user = u, !.token = t, !.expires = e, !.deadline = d] \in Hashes
  BY DEF Hashes

\* Moving a handler to its next command keeps its variables typed.
LEMMA GotoTyped ==
    ASSUME TypeOK, NEW p \in Handlers, NEW label \in Labels, NEW r \in Requests,
           Goto(p, label, r)
    PROVE  pc' \in [Handlers -> Labels] /\ req' \in [Handlers -> Requests]
  BY DEF TypeOK, Goto

LEMMA FinishTyped ==
    ASSUME TypeOK, NEW p \in Handlers, Finish(p)
    PROVE  pc' \in [Handlers -> Labels] /\ req' \in [Handlers -> Requests]
  BY GotoTyped, ConstantsTyped DEF Finish, Labels

LEMMA ReplyTyped ==
    ASSUME TypeOK, NEW s \in SessionIDs, NEW t \in Tokens, Reply(s, t)
    PROVE  known' \in [SessionIDs -> SUBSET Tokens]
  <1>1. CASE known' = known
    BY <1>1 DEF TypeOK
  <1>2. CASE known' = [known EXCEPT ![s] = @ \union {t}]
    BY <1>2 DEF TypeOK
  <1>. QED  BY <1>1, <1>2 DEF Reply

\* The effects on Redis keep its keys typed.
LEMMA DeleteTyped ==
    ASSUME TypeOK, NEW S, Delete(S)
    PROVE  hash' \in [SessionIDs -> Hashes]
  BY ConstantsTyped DEF TypeOK, Delete

LEMMA RevokeTyped ==
    ASSUME TypeOK, NEW S, Revoke(S)
    PROVE  hash' \in [SessionIDs -> Hashes]
  <1>1. \A h \in Hashes : [h EXCEPT !.revoked = TRUE] \in Hashes
    BY DEF Hashes
  <1>. QED  BY <1>1 DEF TypeOK, Revoke

LEMMA RemoveTyped ==
    ASSUME TypeOK, NEW u, NEW S, RemoveFromIndex(u, S)
    PROVE  /\ index' \in [Users -> [SessionIDs -> Times]]
           /\ indexDeadline' \in [Users -> Times \union {Never}]
  <1>. DEFINE left == [s \in SessionIDs |-> IF s \in S THEN 0 ELSE index[u][s]]
  <1>0. 0 \in Times
    BY TimeAssumption DEF Times
  <1>1. u \in Users => left \in [SessionIDs -> Times]
    BY <1>0 DEF TypeOK
  <1>2. index' = [index EXCEPT ![u] = left]
    BY DEF RemoveFromIndex
  <1>3. index' \in [Users -> [SessionIDs -> Times]]
    <2>. HIDE DEF left
    <2>. QED  BY <1>1, <1>2 DEF TypeOK
  <1>4. indexDeadline' \in [Users -> Times \union {Never}]
    BY DEF TypeOK, RemoveFromIndex
  <1>. QED  BY <1>3, <1>4

\* Every step keeps every variable typed.
LEMMA TypeOKStep ==
    ASSUME IInv, [Next]_vars
    PROVE  TypeOK'
  <1>. USE DEF IInv
  <1>1. ASSUME NEW p \in Handlers, NEW u \in Users, BeginLogin(p, u)
        PROVE  TypeOK'
    <2>1. PICK s \in SessionIDs :
            /\ minted' = [minted EXCEPT ![s] = 1]
            /\ Goto(p, "scan", [NoRequest EXCEPT !.user = u, !.sid = s, !.next = 1, !.at = clock])
      BY <1>1 DEF BeginLogin
    <2>2. [NoRequest EXCEPT !.user = u, !.sid = s, !.next = 1, !.at = clock] \in Requests
      <3>1. s \in SessionIDs /\ clock \in 0..MaxTime
        BY DEF TypeOK
      <3>. QED  BY <3>1, NewRequests
    <2>3. minted' \in [SessionIDs -> 0..MaxTokens]
      BY <2>1, TimeAssumption DEF TypeOK
    <2>. QED
      BY <1>1, <2>1, <2>2, <2>3, GotoTyped DEF BeginLogin, TypeOK, store, history, Labels
  <1>2. ASSUME NEW p \in Handlers, Scan(p)
        PROVE  TypeOK'
    <2>. DEFINE r == req[p]
                ttl == r.at + RefreshTTL - clock
    <2>1. r \in Requests /\ ttl \in 0..RefreshTTL
      BY <1>2, TimeAssumption DEF Scan, TypeOK, LocalsOK, LocalsFit, Requests
    <2>2. Expired(r.user) \subseteq SessionIDs
      BY DEF Expired, Members
    <2>3. /\ [r EXCEPT !.ttl = ttl] \in Requests
          /\ [r EXCEPT !.ttl = ttl, !.ids = Expired(r.user)] \in Requests
      <3>. HIDE DEF ttl
      <3>. QED  BY <2>1, <2>2 DEF Requests
    <2>. QED
      BY <1>2, <2>3, GotoTyped DEF Scan, TypeOK, store, history, Labels
  <1>3. ASSUME NEW p \in Handlers, Purge(p)
        PROVE  TypeOK'
    <2>1. req[p] \in Requests /\ [req[p] EXCEPT !.ids = {}] \in Requests
      BY RequestUpdates DEF TypeOK
    <2>. QED
      BY <1>3, <2>1, GotoTyped, DeleteTyped, RemoveTyped DEF Purge, TypeOK, history, Labels
  <1>4. ASSUME NEW p \in Handlers, Card(p) \/ Oldest(p)
        PROVE  TypeOK'
    <2>1. ASSUME NEW v \in OldestMembers(req[p].user)
          PROVE  [req[p] EXCEPT !.victim = v] \in Requests
      BY RequestUpdates DEF TypeOK, OldestMembers, Members
    <2>2. req[p] \in Requests
      BY DEF TypeOK
    <2>3. CASE Card(p)
      BY <2>3, <2>2, GotoTyped DEF Card, TypeOK, store, history, Labels
    <2>4. CASE Oldest(p)
      BY <2>4, <2>1, <2>2, GotoTyped DEF Oldest, TypeOK, store, history, Labels
    <2>. QED  BY <1>4, <2>3, <2>4
  <1>5. ASSUME NEW p \in Handlers, Evict(p)
        PROVE  TypeOK'
    <2>1. req[p] \in Requests
      BY DEF TypeOK
    <2>. QED
      BY <1>5, <2>1, GotoTyped, DeleteTyped DEF Evict, TypeOK, history, Labels
  <1>6. ASSUME NEW p \in Handlers, Unindex(p)
        PROVE  TypeOK'
    <2>1. [req[p] EXCEPT !.victim = None] \in Requests
      BY RequestUpdates DEF TypeOK
    <2>. QED
      BY <1>6, <2>1, GotoTyped, RemoveTyped DEF Unindex, TypeOK, history, Labels
  <1>7. ASSUME NEW p \in Handlers, Add(p)
        PROVE  TypeOK'
    <2>. DEFINE r == req[p]
                expires == r.at + RefreshTTL
    <2>1. /\ r \in Requests /\ r.user \in Users /\ r.sid \in SessionIDs /\ r.next = 1
          /\ pc[p] = "add"
      BY <1>7 DEF Add, LocalsOK, LocalsFit, TypeOK, LoginLabels
    <2>2. expires \in Times /\ clock + r.ttl \in Times /\ clock + r.ttl + IndexSlack \in Times
      BY <2>1, TimeAssumption DEF Requests, Times, TypeOK
    <2>3. r.next \in Tokens
      BY <2>1, TimeAssumption DEF Tokens
    <2>4. hash' \in [SessionIDs -> Hashes]
      <3>1. [hash[r.sid] EXCEPT !.user = r.user, !.token = r.next, !.expires = expires,
                                !.deadline = clock + r.ttl] \in Hashes
        <4>1. hash[r.sid] \in Hashes
          BY <2>1 DEF TypeOK
        <4>. HIDE DEF r, expires
        <4>. QED  BY <2>1, <2>2, <2>3, <4>1, HashUpdates
      <3>. QED  BY <1>7, <3>1 DEF Add, TypeOK
    <2>5. /\ index' \in [Users -> [SessionIDs -> Times]]
          /\ indexDeadline' \in [Users -> Times \union {Never}]
      <3>. HIDE DEF expires
      <3>1. index' = [index EXCEPT ![r.user][r.sid] = expires]
        BY <1>7 DEF Add, expires
      <3>2. index' \in [Users -> [SessionIDs -> Times]]
        BY <2>1, <2>2, <3>1 DEF TypeOK
      <3>. QED  BY <1>7, <2>1, <2>2, <3>2 DEF Add, TypeOK
    <2>. QED
      BY <1>7, <2>1, <2>3, <2>4, <2>5, ReplyTyped, FinishTyped DEF Add, TypeOK
  <1>8. ASSUME NEW p \in Handlers, NEW s \in SessionIDs, NEW t \in Tokens,
               BeginRefresh(p, s, t) \/ BeginLogout(p, s, t)
        PROVE  TypeOK'
    <2>1. [NoRequest EXCEPT !.sid = s, !.token = t, !.at = clock] \in Requests
      <3>1. clock \in 0..MaxTime
        BY DEF TypeOK
      <3>. QED  BY <3>1, NewRequests
    <2>. QED
      BY <1>8, <2>1, GotoTyped DEF BeginRefresh, BeginLogout, TypeOK, store, history, Labels
  <1>9. ASSUME NEW p \in Handlers, RefreshGet(p)
        PROVE  TypeOK'
    <2>1. req[p].sid \in SessionIDs
      BY <1>9 DEF RefreshGet, LocalsOK, LocalsFit, RefreshLabels
    <2>2. minted[req[p].sid] + 1 \in Tokens
      BY <1>9, <2>1, TimeAssumption DEF RefreshGet, TypeOK, Tokens
    <2>3. [req[p] EXCEPT !.next = minted[req[p].sid] + 1] \in Requests
      BY <2>2, RequestUpdates DEF TypeOK
    <2>4. minted' \in [SessionIDs -> 0..MaxTokens]
      BY <1>9, <2>1, <2>2 DEF RefreshGet, TypeOK, Tokens
    <2>. QED
      BY <1>9, <2>3, <2>4, GotoTyped DEF RefreshGet, TypeOK, store, history, Labels
  <1>10. ASSUME NEW p \in Handlers, Watch(p)
         PROVE  TypeOK'
    <2>. DEFINE r == req[p]
                ttl == r.at + RefreshTTL - clock
    <2>1. r \in Requests /\ r.sid \in SessionIDs /\ hash[r.sid] \in Hashes
      BY <1>10 DEF Watch, LocalsOK, LocalsFit, RefreshLabels, TypeOK
    <2>2. ttl \in 0..RefreshTTL
      BY <1>10, TimeAssumption DEF Watch, TypeOK, LocalsOK, LocalsFit, Requests
    <2>3. [r EXCEPT !.seen = hash[r.sid], !.ttl = ttl] \in Requests
      <3>. HIDE DEF ttl
      <3>. QED  BY <2>1, <2>2 DEF Requests
    <2>. QED
      BY <1>10, <2>3, GotoTyped DEF Watch, TypeOK, store, history, Labels
  <1>11. ASSUME NEW p \in Handlers, Exec(p)
         PROVE  TypeOK'
    <2>. DEFINE r == req[p]
                expires == r.at + RefreshTTL
    <2>1. /\ r \in Requests /\ r.sid \in SessionIDs /\ r.next \in Tokens
          /\ r.token \in Tokens /\ r.seen.user \in Users
      BY <1>11 DEF Exec, LocalsOK, LocalsFit, TypeOK, RefreshLabels
    <2>2. expires \in Times /\ clock + r.ttl \in Times
      BY <2>1, TimeAssumption DEF Requests, Times, TypeOK
    <2>3. hash' \in [SessionIDs -> Hashes]
      <3>1. [hash[r.sid] EXCEPT !.token = r.next, !.expires = expires,
                                !.deadline = clock + r.ttl] \in Hashes
        <4>1. hash[r.sid] \in Hashes
          BY <2>1 DEF TypeOK
        <4>. HIDE DEF r, expires
        <4>. QED  BY <2>1, <2>2, <4>1, HashUpdates
      <3>. QED  BY <1>11, <3>1 DEF Exec, CommitRotation, TypeOK
    <2>4. index' \in [Users -> [SessionIDs -> Times]]
      <3>. HIDE DEF expires
      <3>1. index' = [index EXCEPT ![r.seen.user][r.sid] = expires]
        BY <1>11 DEF Exec, CommitRotation, expires
      <3>. QED  BY <2>1, <2>2, <3>1 DEF TypeOK
    <2>5. exchanged' \subseteq SessionIDs \X Tokens \X Tokens
      BY <1>11, <2>1 DEF Exec, CommitRotation, TypeOK
    <2>. QED
      BY <1>11, <2>1, <2>3, <2>4, <2>5, ReplyTyped, FinishTyped
      DEF Exec, CommitRotation, TypeOK
  <1>12. ASSUME NEW p \in Handlers,
                RefreshRefused(p) \/ ExecFailed(p) \/ LogoutRefused(p) \/ Abort(p)
         PROVE  TypeOK'
    BY <1>12, FinishTyped
    DEF RefreshRefused, ExecFailed, LogoutRefused, Abort, TypeOK, store, history
  <1>13. ASSUME NEW p \in Handlers, LogoutGet(p) \/ RevokeGet(p)
         PROVE  TypeOK'
    <2>1. req[p] \in Requests /\ req[p].sid \in SessionIDs
      BY <1>13 DEF LogoutGet, RevokeGet, LocalsOK, LocalsFit, LogoutLabels, TypeOK
    <2>2. [req[p] EXCEPT !.user = hash[req[p].sid].user] \in Requests
      BY <2>1 DEF TypeOK, Requests, Hashes
    <2>. QED
      BY <1>13, <2>1, <2>2, GotoTyped DEF LogoutGet, RevokeGet, TypeOK, store, history, Labels
  <1>14. ASSUME NEW p \in Handlers, RevokeSession(p) \/ RevokeAll(p)
         PROVE  TypeOK'
    BY <1>14, FinishTyped, RevokeTyped, RemoveTyped
    DEF RevokeSession, RevokeAll, TypeOK, history
  <1>15. ASSUME NEW p \in Handlers, NEW u \in Users, BeginLogoutAll(p, u)
         PROVE  TypeOK'
    <2>1. SessionsOf(u) \subseteq SessionIDs
      BY DEF SessionsOf
    <2>2. [NoRequest EXCEPT !.user = u, !.at = clock, !.prior = SessionsOf(u)] \in Requests
      <3>1. clock \in 0..MaxTime
        BY DEF TypeOK
      <3>. QED  BY <2>1, <3>1, NewRequests
    <2>. QED
      BY <1>15, <2>2, GotoTyped DEF BeginLogoutAll, TypeOK, store, history, Labels
  <1>16. ASSUME NEW p \in Handlers, RangeAll(p)
         PROVE  TypeOK'
    <2>1. Members(req[p].user) \subseteq SessionIDs
      BY DEF Members
    <2>2. [req[p] EXCEPT !.ids = Members(req[p].user)] \in Requests
      BY <2>1, RequestUpdates DEF TypeOK
    <2>. QED
      BY <1>16, <2>2, GotoTyped, FinishTyped DEF RangeAll, TypeOK, store, history, Labels
  <1>17. CASE Tick
    <2>1. clock' \in 1..MaxTime
      BY <1>17, TimeAssumption DEF Tick, TypeOK
    <2>2. hash' \in [SessionIDs -> Hashes]
      BY <1>17, ConstantsTyped DEF Tick, TypeOK
    <2>3. index' \in [Users -> [SessionIDs -> Times]]
      BY <1>17, TimeAssumption DEF Tick, TypeOK, Times
    <2>4. indexDeadline' \in [Users -> Times \union {Never}]
      BY <1>17 DEF Tick, TypeOK
    <2>5. orphaned' \subseteq SessionIDs
      BY <1>17 DEF Tick, TypeOK, Members
    <2>. QED  BY <1>17, <2>1, <2>2, <2>3, <2>4, <2>5 DEF Tick, TypeOK
  <1>18. CASE UNCHANGED vars
    BY <1>18 DEF vars, store, history, TypeOK
  <1>. QED
    BY <1>1, <1>2, <1>3, <1>4, <1>5, <1>6, <1>7, <1>8, <1>9, <1>10, <1>11, <1>12, <1>13,
       <1>14, <1>15, <1>16, <1>17, <1>18 DEF Next, Begin, Step

-----------------------------------------------------------------------------
(* The locals of the handlers.                                             *)

\* A handler that moves on while no time passes disturbs only its own locals.
LEMMA GotoLocals ==
    ASSUME TypeOK, LocalsOK, clock' = clock,
           NEW p \in Handlers, NEW label, NEW r,
           Goto(p, label, r), LocalsFit(label, r, clock)
    PROVE  LocalsOK'
  BY DEF TypeOK, LocalsOK, Goto

LEMMA FinishLocals ==
    ASSUME TypeOK, LocalsOK, clock' = clock, NEW p \in Handlers, Finish(p)
    PROVE  LocalsOK'
  <1>1. LocalsFit("idle", NoRequest, clock)
    BY DEF LocalsFit, LoginLabels, RefreshLabels, LogoutLabels
  <1>. QED  BY <1>1, GotoLocals DEF Finish

LEMMA LocalsOKStep ==
    ASSUME IInv, [Next]_vars
    PROVE  LocalsOK'
  <1>. USE DEF IInv, LoginLabels, RefreshLabels, LogoutLabels
  <1>1. ASSUME NEW p \in Handlers, NEW u \in Users, BeginLogin(p, u)
        PROVE  LocalsOK'
    <2>1. PICK s \in SessionIDs :
            Goto(p, "scan", [NoRequest EXCEPT !.user = u, !.sid = s, !.next = 1, !.at = clock])
      BY <1>1 DEF BeginLogin
    <2>2. LocalsFit("scan",
              [NoRequest EXCEPT !.user = u, !.sid = s, !.next = 1, !.at = clock], clock)
      BY TimeAssumption DEF LocalsFit, NoRequest, TypeOK
    <2>. QED  BY <1>1, <2>1, <2>2, GotoLocals DEF BeginLogin
  <1>2. ASSUME NEW p \in Handlers, Scan(p)
        PROVE  LocalsOK'
    <2>. DEFINE r == req[p]
                ttl == r.at + RefreshTTL - clock
    <2>1. LocalsFit("scan", r, clock) /\ r \in Requests
      BY <1>2 DEF Scan, LocalsOK, TypeOK
    <2>2. LocalsFit("card", [r EXCEPT !.ttl = ttl], clock)
      BY <2>1, TimeAssumption DEF LocalsFit, Requests, TypeOK
    <2>3. LocalsFit("purge", [r EXCEPT !.ttl = ttl, !.ids = Expired(r.user)], clock)
      BY <2>1, TimeAssumption DEF LocalsFit, Requests, TypeOK
    <2>. QED  BY <1>2, <2>2, <2>3, GotoLocals DEF Scan
  <1>3. ASSUME NEW p \in Handlers, Purge(p)
        PROVE  LocalsOK'
    <2>1. LocalsFit("purge", req[p], clock) /\ req[p] \in Requests
      BY <1>3 DEF Purge, LocalsOK, TypeOK
    <2>2. LocalsFit("card", [req[p] EXCEPT !.ids = {}], clock)
      BY <2>1 DEF LocalsFit, Requests
    <2>. QED  BY <1>3, <2>2, GotoLocals DEF Purge
  <1>4. ASSUME NEW p \in Handlers, Card(p)
        PROVE  LocalsOK'
    <2>1. LocalsFit("card", req[p], clock)
      BY <1>4 DEF Card, LocalsOK
    <2>2. LocalsFit("add", req[p], clock) /\ LocalsFit("oldest", req[p], clock)
      BY <2>1 DEF LocalsFit
    <2>. QED  BY <1>4, <2>2, GotoLocals DEF Card
  <1>5. ASSUME NEW p \in Handlers, Oldest(p)
        PROVE  LocalsOK'
    <2>1. LocalsFit("oldest", req[p], clock) /\ req[p] \in Requests
      BY <1>5 DEF Oldest, LocalsOK, TypeOK
    <2>2. LocalsFit("add", req[p], clock)
      BY <2>1 DEF LocalsFit
    <2>3. ASSUME NEW v \in OldestMembers(req[p].user)
          PROVE  LocalsFit("evict", [req[p] EXCEPT !.victim = v], clock)
      BY <2>1 DEF LocalsFit, Requests, OldestMembers, Members
    <2>. QED  BY <1>5, <2>2, <2>3, GotoLocals DEF Oldest
  <1>6. ASSUME NEW p \in Handlers, Evict(p)
        PROVE  LocalsOK'
    <2>1. LocalsFit("evict", req[p], clock)
      BY <1>6 DEF Evict, LocalsOK
    <2>2. LocalsFit("unindex", req[p], clock)
      BY <2>1 DEF LocalsFit
    <2>. QED  BY <1>6, <2>2, GotoLocals DEF Evict
  <1>7. ASSUME NEW p \in Handlers, Unindex(p)
        PROVE  LocalsOK'
    <2>1. LocalsFit("unindex", req[p], clock) /\ req[p] \in Requests
      BY <1>7 DEF Unindex, LocalsOK, TypeOK
    <2>2. LocalsFit("card", [req[p] EXCEPT !.victim = None], clock)
      BY <2>1 DEF LocalsFit, Requests
    <2>. QED  BY <1>7, <2>2, GotoLocals DEF Unindex
  <1>8. ASSUME NEW p \in Handlers, NEW s \in SessionIDs, NEW t \in Tokens,
               BeginRefresh(p, s, t) \/ BeginLogout(p, s, t)
        PROVE  LocalsOK'
    <2>1. ASSUME NEW label \in {"get", "logout_get"}
          PROVE  LocalsFit(label,
                     [NoRequest EXCEPT !.sid = s, !.token = t, !.at = clock], clock)
      BY TimeAssumption DEF LocalsFit, NoRequest, TypeOK
    <2>. QED  BY <1>8, <2>1, GotoLocals DEF BeginRefresh, BeginLogout
  <1>9. ASSUME NEW p \in Handlers, RefreshGet(p)
        PROVE  LocalsOK'
    <2>1. LocalsFit("get", req[p], clock) /\ req[p] \in Requests
      BY <1>9 DEF RefreshGet, LocalsOK, TypeOK
    <2>2. minted[req[p].sid] + 1 \in Tokens
      BY <1>9, <2>1, TimeAssumption DEF RefreshGet, LocalsFit, TypeOK, Tokens
    <2>3. LocalsFit("watch", [req[p] EXCEPT !.next = minted[req[p].sid] + 1], clock)
      BY <2>1, <2>2 DEF LocalsFit, Requests
    <2>. QED  BY <1>9, <2>3, GotoLocals DEF RefreshGet
  <1>10. ASSUME NEW p \in Handlers, Watch(p)
         PROVE  LocalsOK'
    <2>. DEFINE r == req[p]
    <2>1. LocalsFit("watch", r, clock) /\ r \in Requests
      BY <1>10 DEF Watch, LocalsOK, TypeOK
    <2>2. hash[r.sid].user \in Users
      BY <1>10, <2>1 DEF Watch, LocalsFit, Usable, Parsable, TypeOK, Hashes
    <2>3. LocalsFit("exec",
              [r EXCEPT !.seen = hash[r.sid], !.ttl = r.at + RefreshTTL - clock], clock)
      BY <2>1, <2>2, TimeAssumption DEF LocalsFit, Requests, TypeOK
    <2>. QED  BY <1>10, <2>3, GotoLocals DEF Watch
  <1>11. ASSUME NEW p \in Handlers,
                \/ Add(p) \/ Exec(p) \/ RevokeSession(p) \/ RevokeAll(p)
                \/ RefreshRefused(p) \/ ExecFailed(p) \/ LogoutRefused(p) \/ Abort(p)
         PROVE  LocalsOK'
    BY <1>11, FinishLocals
    DEF Add, Exec, RevokeSession, RevokeAll, RefreshRefused, ExecFailed, LogoutRefused, Abort
  <1>12. ASSUME NEW p \in Handlers, LogoutGet(p)
         PROVE  LocalsOK'
    <2>1. LocalsFit("logout_get", req[p], clock)
      BY <1>12 DEF LogoutGet, LocalsOK
    <2>2. LocalsFit("revoke_get", req[p], clock)
      BY <2>1 DEF LocalsFit
    <2>. QED  BY <1>12, <2>2, GotoLocals DEF LogoutGet
  <1>13. ASSUME NEW p \in Handlers, RevokeGet(p)
         PROVE  LocalsOK'
    <2>1. LocalsFit("revoke_get", req[p], clock) /\ req[p] \in Requests
      BY <1>13 DEF RevokeGet, LocalsOK, TypeOK
    <2>2. hash[req[p].sid].user \in Users
      BY <1>13, <2>1 DEF RevokeGet, LocalsFit, Parsable, TypeOK, Hashes
    <2>3. LocalsFit("revoke", [req[p] EXCEPT !.user = hash[req[p].sid].user], clock)
      BY <2>1, <2>2 DEF LocalsFit, Requests
    <2>. QED  BY <1>13, <2>3, GotoLocals DEF RevokeGet
  <1>14. ASSUME NEW p \in Handlers, NEW u \in Users, BeginLogoutAll(p, u)
         PROVE  LocalsOK'
    <2>1. LocalsFit("range",
              [NoRequest EXCEPT !.user = u, !.at = clock, !.prior = SessionsOf(u)], clock)
      BY TimeAssumption DEF LocalsFit, NoRequest, TypeOK
    <2>. QED  BY <1>14, <2>1, GotoLocals DEF BeginLogoutAll
  <1>15. ASSUME NEW p \in Handlers, RangeAll(p)
         PROVE  LocalsOK'
    <2>1. LocalsFit("range", req[p], clock) /\ req[p] \in Requests
      BY <1>15 DEF RangeAll, LocalsOK, TypeOK
    <2>2. LocalsFit("revoke_all", [req[p] EXCEPT !.ids = Members(req[p].user)], clock)
      BY <2>1 DEF LocalsFit, Requests
    <2>. QED  BY <1>15, <2>2, GotoLocals, FinishLocals DEF RangeAll
  <1>16. CASE Tick
    <2>1. ASSUME NEW p \in Handlers
          PROVE  LocalsFit(pc[p], req[p], clock + 1)
      BY <1>16, TimeAssumption DEF Tick, LocalsOK, LocalsFit, TypeOK, Requests
    <2>. QED  BY <1>16, <2>1 DEF Tick, LocalsOK
  <1>17. CASE UNCHANGED vars
    BY <1>17 DEF vars, LocalsOK
  <1>. QED
    BY <1>1, <1>2, <1>3, <1>4, <1>5, <1>6, <1>7, <1>8, <1>9, <1>10, <1>11, <1>12, <1>13,
       <1>14, <1>15, <1>16, <1>17 DEF Next, Begin, Step

-----------------------------------------------------------------------------
(* What a step does to the store.                                          *)

\* The steps that write to Redis; all others leave store and history alone.
Writes(p) ==
    Purge(p) \/ Evict(p) \/ Unindex(p) \/ Add(p) \/ Exec(p) \/ RevokeSession(p) \/ RevokeAll(p)

LEMMA StepKinds ==
    ASSUME [Next]_vars
    PROVE  \/ \E p \in Handlers : Writes(p)
           \/ Tick
           \/ UNCHANGED <<clock, hash, index, indexDeadline, known, opened, exchanged, orphaned>>
  <1>. USE DEF store, history
  <1>1. ASSUME NEW p \in Handlers, Begin(p)
        PROVE  UNCHANGED <<clock, hash, index, indexDeadline, known, opened, exchanged, orphaned>>
    BY <1>1 DEF Begin, BeginLogin, BeginRefresh, BeginLogout, BeginLogoutAll
  <1>2. ASSUME NEW p \in Handlers, Step(p) \/ Abort(p), ~Writes(p)
        PROVE  UNCHANGED <<clock, hash, index, indexDeadline, known, opened, exchanged, orphaned>>
    BY <1>2 DEF Step, Abort, Writes, Scan, Card, Oldest, RefreshGet, Watch, RefreshRefused,
                ExecFailed, LogoutGet, RevokeGet, LogoutRefused, RangeAll
  <1>. QED  BY <1>1, <1>2 DEF Next, vars

\* Where the session that a writer names comes from.
LEMMA WriterNames ==
    ASSUME IInv, NEW p \in Handlers, Writes(p)
    PROVE  /\ req[p] \in Requests
           /\ req[p].ids \subseteq opened
           /\ Evict(p) \/ Unindex(p) => req[p].victim \in opened
           /\ Add(p) => /\ req[p].sid \in SessionIDs \ opened
                        /\ req[p].user \in Users
                        /\ req[p].next = 1
           /\ Exec(p) \/ RevokeSession(p) => req[p].sid \in opened
           /\ Exec(p) => req[p].seen.user \in Users
  <1>1. /\ LocalsFit(pc[p], req[p], clock)
        /\ FreshFit(pc[p], req[p])
        /\ req[p] \in Requests
    BY DEF IInv, LocalsOK, FreshOK, TypeOK
  <1>2. Evict(p) \/ Unindex(p) => req[p].victim \in opened
    BY <1>1 DEF Evict, Unindex, FreshFit
  <1>3. Add(p) => /\ req[p].sid \in SessionIDs \ opened
                  /\ req[p].user \in Users
                  /\ req[p].next = 1
    BY <1>1 DEF Add, FreshFit, LocalsFit, LoginLabels
  <1>4. Exec(p) \/ RevokeSession(p) => req[p].sid \in opened
    BY <1>1 DEF Exec, RevokeSession, FreshFit, RefreshLabels, LogoutLabels
  <1>5. Exec(p) => req[p].seen.user \in Users
    BY <1>1 DEF Exec, LocalsFit
  <1>6. req[p].ids \subseteq opened
    BY <1>1 DEF FreshFit
  <1>. QED  BY <1>1, <1>2, <1>3, <1>4, <1>5, <1>6

\* A session that was stored never changes hands and never comes back to life.
LEMMA SessionsOnlyDie ==
    ASSUME IInv, [Next]_vars
    PROVE  /\ opened \subseteq opened'
           /\ orphaned \subseteq orphaned'
           /\ \A s \in opened :
                 /\ Parsable(hash'[s]) => Parsable(hash[s]) /\ hash'[s].user = hash[s].user
                 /\ Live(s)' => Live(s)
  <1>. DEFINE Same(s) ==
                /\ Parsable(hash'[s]) => Parsable(hash[s]) /\ hash'[s].user = hash[s].user
                /\ Usable(hash'[s]) => Usable(hash[s])
  <1>. USE DEF Parsable, Usable
  <1>0. opened \subseteq SessionIDs /\ hash \in [SessionIDs -> Hashes]
    BY DEF IInv, TypeOK
  <1>1. ASSUME NEW S, Delete(S), NEW s \in opened
        PROVE  Same(s)
    BY <1>0, <1>1 DEF Delete, Absent
  <1>2. ASSUME NEW S, Revoke(S), NEW s \in opened
        PROVE  Same(s)
    BY <1>0, <1>2 DEF Revoke, Hashes
  <1>3. ASSUME NEW p \in Handlers, Writes(p)
        PROVE  /\ opened \subseteq opened'
               /\ orphaned \subseteq orphaned'
               /\ \A s \in opened : Same(s)
    <2>1. CASE Purge(p) \/ Evict(p) \/ RevokeSession(p) \/ RevokeAll(p)
      BY <2>1, <1>1, <1>2 DEF Purge, Evict, RevokeSession, RevokeAll, history
    <2>2. CASE Unindex(p)
      BY <2>2 DEF Unindex, history
    <2>3. CASE Add(p)
      <3>1. \A s \in opened : hash'[s] = hash[s]
        BY <2>3, <1>0, <1>3, WriterNames DEF Add
      <3>. QED  BY <2>3, <3>1 DEF Add
    <2>4. CASE Exec(p)
      <3>1. \A s \in SessionIDs : hash'[s].user = hash[s].user /\ hash'[s].revoked = hash[s].revoked
        <4> DEFINE r == req[p]
                   new == [hash[r.sid] EXCEPT !.token = r.next, !.expires = r.at + RefreshTTL,
                                              !.deadline = clock + r.ttl]
        <4>1. hash' = [hash EXCEPT ![r.sid] = new]
          BY <2>4 DEF Exec, CommitRotation
        <4>2. \A s \in SessionIDs : hash[s] \in Hashes
          BY <1>0
        <4>3. r.sid \in SessionIDs => new.user = hash[r.sid].user /\ new.revoked = hash[r.sid].revoked
          BY <4>2 DEF Hashes
        <4>. HIDE DEF new
        <4>. QED  BY <1>0, <4>1, <4>3
      <3>. QED  BY <2>4, <3>1, <1>0 DEF Exec
    <2>. QED  BY <1>3, <2>1, <2>2, <2>3, <2>4 DEF Writes
  <1>4. ASSUME Tick
        PROVE  /\ opened \subseteq opened'
               /\ orphaned \subseteq orphaned'
               /\ \A s \in opened : Same(s)
    <2>1. opened' = opened /\ orphaned \subseteq orphaned'
      BY <1>4 DEF Tick
    <2>2. \A s \in SessionIDs : hash'[s] \in {Absent, hash[s]}
      BY <1>4 DEF Tick
    <2>. QED  BY <1>0, <2>1, <2>2 DEF Absent
  <1>5. ASSUME UNCHANGED <<hash, opened, orphaned>>
        PROVE  /\ opened \subseteq opened'
               /\ orphaned \subseteq orphaned'
               /\ \A s \in opened : Same(s)
    BY <1>5
  <1>6. /\ opened \subseteq opened'
        /\ orphaned \subseteq orphaned'
        /\ \A s \in opened : Same(s)
    <2>. HIDE DEF Same
    <2>. QED  BY <1>3, <1>4, <1>5, StepKinds
  <1>. QED  BY <1>6 DEF Live

-----------------------------------------------------------------------------
(* Freshness of session ids.                                               *)

LEMMA MintedGrows ==
    ASSUME IInv, [Next]_vars
    PROVE  \A s \in SessionIDs : minted[s] <= minted'[s]
  <1>. USE DEF IInv
  <1>0. minted \in [SessionIDs -> 0..MaxTokens]
    BY DEF TypeOK
  <1>1. CASE UNCHANGED minted
    BY <1>0, <1>1
  <1>2. ASSUME NEW p \in Handlers, NEW u \in Users, BeginLogin(p, u)
        PROVE  \A s \in SessionIDs : minted[s] <= minted'[s]
    BY <1>0, <1>2 DEF BeginLogin
  <1>3. ASSUME NEW p \in Handlers, RefreshGet(p)
        PROVE  \A s \in SessionIDs : minted[s] <= minted'[s]
    BY <1>0, <1>3 DEF RefreshGet
  <1>4. ASSUME NEW p \in Handlers, Begin(p) \/ Step(p) \/ Abort(p),
               \A u \in Users : ~BeginLogin(p, u), ~RefreshGet(p)
        PROVE  UNCHANGED minted
    BY <1>4
    DEF Begin, Step, Abort, BeginRefresh, BeginLogout, BeginLogoutAll, Scan, Purge, Card,
        Oldest, Evict, Unindex, Add, Watch, RefreshRefused, Exec, ExecFailed, LogoutGet,
        RevokeGet, LogoutRefused, RevokeSession, RangeAll, RevokeAll
  <1>. QED
    BY <1>1, <1>2, <1>3, <1>4 DEF Next, Tick, vars

LEMMA FreshStoreStep ==
    ASSUME IInv, [Next]_vars
    PROVE  FreshStore'
  <1>. DEFINE Blank(s) == hash[s] = Absent /\ known[s] = {} /\ \A u \in Users : index[u][s] = 0
  <1>0. /\ TypeOK
        /\ \A s \in SessionIDs \ opened : Blank(s)
        /\ \A s \in opened : minted[s] > 0
    BY DEF IInv, FreshOK, FreshStore
  <1>1. ASSUME NEW p \in Handlers, Writes(p)
        PROVE  /\ \A s \in SessionIDs \ opened' : Blank(s)'
               /\ \A s \in opened' : minted[s] > 0
    <2>0. /\ req[p] \in Requests /\ req[p].ids \subseteq opened
          /\ opened \subseteq SessionIDs
      BY <1>1, WriterNames DEF IInv, TypeOK
    <2>1. ASSUME NEW S \in SUBSET opened, NEW u, NEW s \in SessionIDs \ opened,
                 \/ hash' = hash \/ Delete(S) \/ Revoke(S),
                 \/ UNCHANGED <<index, indexDeadline>> \/ RemoveFromIndex(u, S),
                 known' = known
          PROVE  Blank(s)'
      <3>1. hash'[s] = Absent
        BY <1>0, <2>1 DEF Delete, Revoke
      <3>2. \A w \in Users : index'[w][s] = 0
        BY <1>0, <2>1 DEF RemoveFromIndex, TypeOK
      <3>. QED  BY <1>0, <2>1, <3>1, <3>2
    <2>2. CASE Purge(p) \/ Evict(p) \/ Unindex(p) \/ RevokeSession(p) \/ RevokeAll(p)
      <3>. DEFINE r == req[p]
                  S == IF Purge(p) \/ RevokeAll(p) THEN r.ids
                       ELSE IF RevokeSession(p) THEN {r.sid} ELSE {r.victim}
      <3>1. S \subseteq opened
        BY <1>1, <2>0, <2>2, WriterNames
      <3>2. /\ hash' = hash \/ Delete(S) \/ Revoke(S)
            /\ UNCHANGED <<index, indexDeadline>> \/ RemoveFromIndex(r.user, S)
        <4>. USE DEF Purge, Evict, Unindex, RevokeSession, RevokeAll
        <4>1. CASE Purge(p)
          BY <4>1
        <4>2. CASE Evict(p)
          BY <4>2
        <4>3. CASE Unindex(p)
          BY <4>3
        <4>4. CASE RevokeSession(p)
          BY <4>4
        <4>5. CASE RevokeAll(p)
          BY <4>5
        <4>. QED  BY <2>2, <4>1, <4>2, <4>3, <4>4, <4>5
      <3>3. UNCHANGED <<opened, known>>
        BY <2>2 DEF Purge, Evict, Unindex, RevokeSession, RevokeAll, history
      <3>. HIDE DEF S, Blank
      <3>. QED  BY <1>0, <2>1, <3>1, <3>2, <3>3
    <2>3. CASE Add(p)
      <3>1. /\ req[p].sid \in SessionIDs \ opened /\ req[p].user \in Users
            /\ minted[req[p].sid] > 0
        BY <1>1, <2>3, WriterNames DEF IInv, FreshOK, FreshFit, Add, LoginLabels
      <3>2. ASSUME NEW s \in SessionIDs \ opened'
            PROVE  Blank(s)'
        <4>1. s # req[p].sid /\ s \notin opened
          BY <2>3, <3>2 DEF Add
        <4>2. hash'[s] = hash[s] /\ known'[s] = known[s]
          BY <2>3, <4>1, <1>0 DEF Add, Reply, TypeOK
        <4>3. \A u \in Users : index'[u][s] = index[u][s]
          BY <2>3, <4>1, <1>0 DEF Add, TypeOK
        <4>. QED  BY <1>0, <4>1, <4>2, <4>3
      <3>. QED  BY <1>0, <2>3, <3>1, <3>2 DEF Add
    <2>4. CASE Exec(p)
      <3>1. req[p].sid \in opened /\ opened' = opened
        BY <1>1, <2>4, WriterNames DEF Exec
      <3>2. ASSUME NEW s \in SessionIDs \ opened
            PROVE  Blank(s)'
        <4>1. hash'[s] = hash[s] /\ known'[s] = known[s]
          BY <2>4, <3>1, <1>0 DEF Exec, CommitRotation, Reply, TypeOK
        <4>2. \A u \in Users : index'[u][s] = index[u][s]
          BY <2>4, <3>1, <1>0 DEF Exec, CommitRotation, TypeOK
        <4>. QED  BY <1>0, <4>1, <4>2
      <3>. QED  BY <1>0, <3>1, <3>2
    <2>. QED  BY <1>1, <2>2, <2>3, <2>4 DEF Writes
  <1>2. ASSUME Tick
        PROVE  /\ \A s \in SessionIDs \ opened' : Blank(s)'
               /\ \A s \in opened' : minted[s] > 0
    <2>1. /\ UNCHANGED <<opened, known>>
          /\ \A s \in SessionIDs : hash'[s] \in {Absent, hash[s]}
      BY <1>2 DEF Tick
    <2>2. \A u \in Users, s \in SessionIDs : index'[u][s] \in {0, index[u][s]}
      BY <1>2, <1>0 DEF Tick, TypeOK
    <2>. QED  BY <1>0, <2>1, <2>2
  <1>3. ASSUME UNCHANGED <<hash, index, known, opened>>
        PROVE  /\ \A s \in SessionIDs \ opened' : Blank(s)'
               /\ \A s \in opened' : minted[s] > 0
    BY <1>0, <1>3
  <1>4. /\ \A s \in SessionIDs \ opened' : Blank(s)'
        /\ \A s \in opened' : minted[s] > 0
    <2>. HIDE DEF Blank
    <2>. QED  BY <1>1, <1>2, <1>3, StepKinds
  <1>5. \A s \in opened' : s \in SessionIDs /\ minted'[s] > 0
    BY <1>0, <1>4, MintedGrows, TypeOKStep DEF TypeOK
  <1>. QED  BY <1>4, <1>5 DEF FreshStore

\* The handlers that a step of p leaves alone keep what they knew, as long as
\* it opens no session that another login holds.
LEMMA GotoFresh ==
    ASSUME IInv, [Next]_vars, FreshStore', NEW p \in Handlers, NEW label, NEW r,
           Goto(p, label, r),
           FreshFit(label, r) \/ FreshFit(label, r)',
           opened' = opened,
           label \in LoginLabels =>
              \A q \in Handlers \ {p} : pc[q] \in LoginLabels => req[q].sid # r.sid,
           label \in LoginLabels => r.sid \in SessionIDs
    PROVE  FreshOK'
  <1>0. /\ pc \in [Handlers -> Labels] /\ req \in [Handlers -> Requests]
        /\ \A q \in Handlers : FreshFit(pc[q], req[q]) /\ LocalsFit(pc[q], req[q], clock)
        /\ \A s \in SessionIDs : minted[s] > 0 => minted'[s] > 0
    <2>1. \A s \in SessionIDs : minted[s] \in Nat /\ minted'[s] \in Nat
      BY TypeOKStep DEF IInv, TypeOK
    <2>. QED  BY <2>1, MintedGrows DEF IInv, TypeOK, FreshOK, LocalsOK
  <1>1. /\ pc'[p] = label /\ req'[p] = r
        /\ \A q \in Handlers \ {p} : pc'[q] = pc[q] /\ req'[q] = req[q]
    BY <1>0 DEF Goto
  <1>2. ASSUME NEW q \in Handlers
        PROVE  FreshFit(pc[q], req[q])'
    <2>1. CASE q = p
      <3>1. CASE FreshFit(label, r)
        BY <1>0, <1>1, <2>1, <3>1 DEF FreshFit
      <3>2. CASE FreshFit(label, r)'
        BY <1>1, <2>1, <3>2
      <3>. QED  BY <3>1, <3>2
    <2>2. CASE q # p
      <3>1. FreshFit(pc[q], req[q]) /\ LocalsFit(pc[q], req[q], clock)
        BY <1>0
      <3>2. pc[q] \in LoginLabels => minted'[req[q].sid] > 0
        BY <1>0, <3>1 DEF FreshFit, LocalsFit
      <3>. QED  BY <1>1, <2>2, <3>1, <3>2 DEF FreshFit
    <2>. QED  BY <2>1, <2>2
  <1>3. ASSUME NEW q \in Handlers, NEW h \in Handlers, q # h,
               pc'[q] \in LoginLabels, pc'[h] \in LoginLabels
        PROVE  req'[q].sid # req'[h].sid
    BY <1>1, <1>3 DEF IInv, FreshOK
  <1>. QED  BY <1>2, <1>3 DEF FreshOK

LEMMA FreshOKStep ==
    ASSUME IInv, [Next]_vars
    PROVE  FreshOK'
  <1>. USE FreshStoreStep DEF LoginLabels, RefreshLabels, LogoutLabels
  <1>0. /\ TypeOK /\ FreshOK
        /\ \A p \in Handlers : FreshFit(pc[p], req[p]) /\ LocalsFit(pc[p], req[p], clock)
        /\ \A p \in Handlers : req[p] \in Requests
        /\ \A s \in SessionIDs : hash[s] # Absent => s \in opened
        /\ \A s \in SessionIDs, u \in Users : index[u][s] > 0 => s \in opened
        /\ \A s \in SessionIDs : known[s] # {} => s \in opened
        /\ opened \subseteq SessionIDs
    BY DEF IInv, LocalsOK, FreshOK, FreshStore, TypeOK
  <1>1. ASSUME NEW p \in Handlers, NEW u \in Users, BeginLogin(p, u)
        PROVE  FreshOK'
    <2>1. PICK s \in SessionIDs :
            /\ minted[s] = 0
            /\ minted' = [minted EXCEPT ![s] = 1]
            /\ Goto(p, "scan", [NoRequest EXCEPT !.user = u, !.sid = s, !.next = 1, !.at = clock])
      BY <1>1 DEF BeginLogin
    <2>. DEFINE r == [NoRequest EXCEPT !.user = u, !.sid = s, !.next = 1, !.at = clock]
    <2>2. UNCHANGED <<clock, opened>>
      BY <1>1 DEF BeginLogin, history
    <2>3. s \notin opened
      BY <1>0, <2>1 DEF FreshOK, FreshStore
    <2>4. r.sid = s /\ r.ids = {} /\ r.prior = {}
      BY DEF NoRequest
    <2>5. minted'[s] > 0
      BY <1>0, <2>1 DEF TypeOK
    <2>6. FreshFit("scan", r)'
      BY <2>2, <2>3, <2>4, <2>5 DEF FreshFit
    <2>7. \A q \in Handlers : pc[q] \in LoginLabels => req[q].sid # s
      BY <1>0, <2>1 DEF FreshFit
    <2>8. \A q \in Handlers \ {p} : pc'[q] = pc[q] /\ req'[q] = req[q]
      BY <1>0, <2>1 DEF Goto, TypeOK
    <2>9. pc'[p] = "scan" /\ req'[p] = r
      BY <1>0, <2>1 DEF Goto, TypeOK
    <2>10. ASSUME NEW q \in Handlers
           PROVE  FreshFit(pc[q], req[q])'
      <3>1. CASE q = p
        BY <2>2, <2>6, <2>9, <3>1 DEF FreshFit
      <3>2. CASE q # p
        <4>1. pc[q] \in LoginLabels => minted'[req[q].sid] > 0
          BY <1>0, <2>1, <2>7 DEF FreshFit, LocalsFit, TypeOK
        <4>. QED  BY <1>0, <2>2, <2>8, <3>2, <4>1 DEF FreshFit
      <3>. QED  BY <3>1, <3>2
    <2>11. ASSUME NEW q \in Handlers, NEW h \in Handlers, q # h,
                  pc'[q] \in LoginLabels, pc'[h] \in LoginLabels
           PROVE  req'[q].sid # req'[h].sid
      <3>. HIDE DEF r
      <3>. QED  BY <1>0, <2>4, <2>7, <2>8, <2>9, <2>11 DEF FreshOK
    <2>. QED  BY <2>10, <2>11 DEF FreshOK
  <1>2. ASSUME NEW p \in Handlers, NEW label, NEW r, Goto(p, label, r), opened' = opened,
               label \notin LoginLabels, FreshFit(label, r)
        PROVE  FreshOK'
    BY <1>2, GotoFresh
  <1>3. ASSUME NEW p \in Handlers, NEW label, NEW r, Goto(p, label, r), opened' = opened,
               pc[p] \in LoginLabels, r.sid = req[p].sid, FreshFit(label, r)
        PROVE  FreshOK'
    <2>1. \A q \in Handlers \ {p} : pc[q] \in LoginLabels => req[q].sid # r.sid
      BY <1>0, <1>3 DEF FreshOK
    <2>2. r.sid \in SessionIDs
      BY <1>0, <1>3 DEF LocalsFit
    <2>. QED  BY <1>3, <2>1, <2>2, GotoFresh
  <1>4. ASSUME NEW p \in Handlers, Finish(p), opened' = opened
        PROVE  FreshOK'
    <2>1. FreshFit("idle", NoRequest)
      BY DEF FreshFit, NoRequest
    <2>. QED  BY <1>2, <1>4, <2>1 DEF Finish
  <1>5. ASSUME NEW p \in Handlers,
               Scan(p) \/ Purge(p) \/ Card(p) \/ Oldest(p) \/ Evict(p) \/ Unindex(p)
        PROVE  FreshOK'
    <2>. DEFINE r == req[p]
                ttl == r.at + RefreshTTL - clock
    <2>0. /\ opened' = opened /\ pc[p] \in LoginLabels
          /\ FreshFit(pc[p], r) /\ r \in Requests /\ r.user \in Users
      BY <1>0, <1>5 DEF Scan, Purge, Card, Oldest, Evict, Unindex, history, LocalsFit
    <2>1. CASE Scan(p)
      <3>. HIDE DEF ttl
      <3>1. Expired(r.user) \subseteq opened
        BY <1>0, <2>0 DEF Expired, Members
      <3>2. /\ [r EXCEPT !.ttl = ttl].sid = r.sid
            /\ [r EXCEPT !.ttl = ttl, !.ids = Expired(r.user)].sid = r.sid
            /\ FreshFit("card", [r EXCEPT !.ttl = ttl])
            /\ FreshFit("purge", [r EXCEPT !.ttl = ttl, !.ids = Expired(r.user)])
        BY <2>0, <3>1 DEF FreshFit, Requests
      <3>3. \/ Goto(p, "card", [r EXCEPT !.ttl = ttl])
            \/ Goto(p, "purge", [r EXCEPT !.ttl = ttl, !.ids = Expired(r.user)])
        BY <2>1 DEF Scan, ttl
      <3>. QED  BY <1>3, <2>0, <3>2, <3>3
    <2>2. CASE Purge(p)
      <3>1. FreshFit("card", [r EXCEPT !.ids = {}]) /\ [r EXCEPT !.ids = {}].sid = r.sid
        BY <2>0 DEF FreshFit, Requests
      <3>. QED  BY <1>3, <2>0, <2>2, <3>1 DEF Purge
    <2>3. CASE Card(p)
      <3>1. FreshFit("add", r) /\ FreshFit("oldest", r)
        BY <2>0 DEF FreshFit
      <3>. QED  BY <1>3, <2>0, <2>3, <3>1 DEF Card
    <2>4. CASE Oldest(p)
      <3>1. FreshFit("add", r)
        BY <2>0 DEF FreshFit
      <3>2. ASSUME NEW v \in OldestMembers(r.user)
            PROVE  FreshFit("evict", [r EXCEPT !.victim = v]) /\ [r EXCEPT !.victim = v].sid = r.sid
        <4>1. v \in opened
          BY <1>0, <2>0, <3>2 DEF OldestMembers, Members
        <4>. QED  BY <2>0, <4>1 DEF FreshFit, Requests
      <3>. QED  BY <1>3, <2>0, <2>4, <3>1, <3>2 DEF Oldest
    <2>5. CASE Evict(p)
      <3>1. FreshFit("unindex", r)
        BY <2>0, <2>5 DEF FreshFit, Evict
      <3>. QED  BY <1>3, <2>0, <2>5, <3>1 DEF Evict
    <2>6. CASE Unindex(p)
      <3>1. FreshFit("card", [r EXCEPT !.victim = None]) /\ [r EXCEPT !.victim = None].sid = r.sid
        BY <2>0 DEF FreshFit, Requests
      <3>. QED  BY <1>3, <2>0, <2>6, <3>1 DEF Unindex
    <2>. QED  BY <1>5, <2>1, <2>2, <2>3, <2>4, <2>5, <2>6
  <1>6. ASSUME NEW p \in Handlers, Add(p)
        PROVE  FreshOK'
    <2>. DEFINE r == req[p]
    <2>1. /\ pc'[p] = "idle" /\ req'[p] = NoRequest
          /\ \A q \in Handlers \ {p} : pc'[q] = pc[q] /\ req'[q] = req[q]
          /\ opened' = opened \union {r.sid}
          /\ minted' = minted
          /\ pc[p] = "add"
      BY <1>0, <1>6 DEF Add, Finish, Goto, TypeOK
    <2>2. \A q \in Handlers \ {p} : pc[q] \in LoginLabels => req[q].sid # r.sid
      BY <1>0, <2>1 DEF FreshOK
    <2>3. ASSUME NEW q \in Handlers
          PROVE  FreshFit(pc[q], req[q])'
      <3>1. CASE q = p
        BY <2>1, <3>1 DEF FreshFit, NoRequest
      <3>2. CASE q # p
        BY <1>0, <2>1, <2>2, <3>2 DEF FreshFit
      <3>. QED  BY <3>1, <3>2
    <2>4. ASSUME NEW q \in Handlers, NEW h \in Handlers, q # h,
                 pc'[q] \in LoginLabels, pc'[h] \in LoginLabels
          PROVE  req'[q].sid # req'[h].sid
      BY <1>0, <2>1, <2>4 DEF FreshOK
    <2>. QED  BY <2>3, <2>4 DEF FreshOK
  <1>7. ASSUME NEW p \in Handlers, NEW s \in SessionIDs, NEW t \in Tokens,
               BeginRefresh(p, s, t) \/ BeginLogout(p, s, t)
        PROVE  FreshOK'
    <2>. DEFINE r == [NoRequest EXCEPT !.sid = s, !.token = t, !.at = clock]
    <2>1. /\ opened' = opened /\ s \in opened
          /\ Goto(p, "get", r) \/ Goto(p, "logout_get", r)
      BY <1>0, <1>7 DEF BeginRefresh, BeginLogout, history
    <2>2. FreshFit("get", r) /\ FreshFit("logout_get", r)
      BY <2>1 DEF FreshFit, NoRequest
    <2>. HIDE DEF r
    <2>. QED  BY <1>2, <2>1, <2>2
  <1>8. ASSUME NEW p \in Handlers,
               RefreshGet(p) \/ Watch(p) \/ LogoutGet(p) \/ RevokeGet(p)
        PROVE  FreshOK'
    <2>. DEFINE r == req[p]
                seen == [r EXCEPT !.seen = hash[r.sid], !.ttl = r.at + RefreshTTL - clock]
                next == [r EXCEPT !.next = minted[r.sid] + 1]
                user == [r EXCEPT !.user = hash[r.sid].user]
    <2>1. /\ opened' = opened
          /\ r \in Requests /\ r.sid \in opened /\ FreshFit(pc[p], r)
      BY <1>0, <1>8 DEF RefreshGet, Watch, LogoutGet, RevokeGet, FreshFit, history
    <2>2. /\ FreshFit("watch", next) /\ FreshFit("exec", seen)
          /\ FreshFit("revoke_get", r) /\ FreshFit("revoke", user)
      BY <2>1 DEF FreshFit, Requests
    <2>3. \/ Goto(p, "watch", next) \/ Goto(p, "exec", seen)
          \/ Goto(p, "revoke_get", r) \/ Goto(p, "revoke", user)
      BY <1>8 DEF RefreshGet, Watch, LogoutGet, RevokeGet
    <2>. HIDE DEF r, seen, next, user
    <2>. QED  BY <1>2, <2>1, <2>2, <2>3
  <1>9. ASSUME NEW p \in Handlers, NEW u \in Users, BeginLogoutAll(p, u)
        PROVE  FreshOK'
    <2>. DEFINE r == [NoRequest EXCEPT !.user = u, !.at = clock, !.prior = SessionsOf(u)]
    <2>1. opened' = opened /\ Goto(p, "range", r)
      BY <1>9 DEF BeginLogoutAll, history
    <2>2. SessionsOf(u) \subseteq opened
      BY <1>0, NamesAssumption DEF SessionsOf, Absent
    <2>3. FreshFit("range", r)
      BY <2>2 DEF FreshFit, NoRequest
    <2>. HIDE DEF r
    <2>. QED  BY <1>2, <2>1, <2>3
  <1>10. ASSUME NEW p \in Handlers, RangeAll(p)
         PROVE  FreshOK'
    <2>. DEFINE r == req[p]
                all == [r EXCEPT !.ids = Members(r.user)]
    <2>1. /\ opened' = opened /\ r \in Requests /\ r.user \in Users /\ FreshFit(pc[p], r)
          /\ Finish(p) \/ Goto(p, "revoke_all", all)
      BY <1>0, <1>10 DEF RangeAll, history, LocalsFit
    <2>2. Members(r.user) \subseteq opened
      BY <1>0, <2>1 DEF Members
    <2>3. FreshFit("revoke_all", all)
      BY <2>1, <2>2 DEF FreshFit, Requests
    <2>. HIDE DEF all
    <2>. QED  BY <1>2, <1>4, <2>1, <2>3
  <1>11. ASSUME NEW p \in Handlers,
                \/ Exec(p) \/ ExecFailed(p) \/ RefreshRefused(p) \/ LogoutRefused(p)
                \/ RevokeSession(p) \/ RevokeAll(p) \/ Abort(p)
         PROVE  FreshOK'
    BY <1>4, <1>11
    DEF Exec, ExecFailed, RefreshRefused, LogoutRefused, RevokeSession, RevokeAll, Abort, history
  <1>12. ASSUME UNCHANGED <<opened, pc, req, minted>>
         PROVE  FreshOK'
    BY <1>12 DEF IInv, FreshOK, FreshFit
  <1>. QED
    BY <1>1, <1>5, <1>6, <1>7, <1>8, <1>9, <1>10, <1>11, <1>12
    DEF Next, Begin, Step, Tick, vars, history

-----------------------------------------------------------------------------
(* Tokens.                                                                 *)

\* All that can happen to a session's hash in one step.
LEMMA HashChanges ==
    ASSUME IInv, [Next]_vars, NEW s \in SessionIDs
    PROVE  \/ hash'[s] = hash[s]
           \/ hash'[s] = Absent
           \/ /\ hash'[s] = [hash[s] EXCEPT !.revoked = TRUE]
              /\ \E p \in Handlers : \/ RevokeSession(p) /\ req[p].sid = s
                                     \/ RevokeAll(p) /\ s \in req[p].ids
           \/ \E p \in Handlers : (Add(p) \/ Exec(p)) /\ req[p].sid = s
  <1>1. ASSUME NEW p \in Handlers, Writes(p), ~((Add(p) \/ Exec(p)) /\ req[p].sid = s)
        PROVE  \/ hash'[s] = hash[s]
               \/ hash'[s] = Absent
               \/ /\ hash'[s] = [hash[s] EXCEPT !.revoked = TRUE]
                  /\ \/ RevokeSession(p) /\ req[p].sid = s
                     \/ RevokeAll(p) /\ s \in req[p].ids
    <2>1. CASE Purge(p) \/ Evict(p) \/ Unindex(p)
      BY <2>1 DEF Purge, Evict, Unindex, Delete
    <2>2. CASE RevokeSession(p) \/ RevokeAll(p)
      BY <2>2 DEF RevokeSession, RevokeAll, Revoke
    <2>3. CASE Add(p) \/ Exec(p)
      BY <1>1, <2>3 DEF Add, Exec, CommitRotation, IInv, TypeOK
    <2>. QED  BY <1>1, <2>1, <2>2, <2>3 DEF Writes
  <1>2. Tick => hash'[s] \in {Absent, hash[s]}
    BY DEF Tick
  <1>. QED  BY <1>1, <1>2, StepKinds

\* What Add and Exec store.
LEMMA AddStores ==
    ASSUME IInv, NEW p \in Handlers, Add(p)
    PROVE  LET r == req[p] IN
           /\ r.sid \in SessionIDs \ opened /\ r.user \in Users
           /\ hash'[r.sid] = [user |-> r.user, token |-> 1, expires |-> r.at + RefreshTTL,
                              revoked |-> FALSE, deadline |-> clock + r.ttl]
           /\ \A s \in SessionIDs \ {r.sid} : hash'[s] = hash[s]
           /\ index' = [index EXCEPT ![r.user][r.sid] = r.at + RefreshTTL]
           /\ UNCHANGED <<clock, minted, exchanged, orphaned>>
           /\ opened' = opened \union {r.sid}
  <1>. DEFINE r == req[p]
  <1>1. /\ r.sid \in SessionIDs \ opened /\ r.user \in Users /\ r.next = 1
    BY WriterNames DEF Writes
  <1>2. hash[r.sid] = Absent
    BY <1>1 DEF IInv, FreshOK, FreshStore
  <1>3. hash \in [SessionIDs -> Hashes]
    BY DEF IInv, TypeOK
  <1>4. hash'[r.sid] = [user |-> r.user, token |-> 1, expires |-> r.at + RefreshTTL,
                        revoked |-> FALSE, deadline |-> clock + r.ttl]
    <2>. DEFINE e == r.at + RefreshTTL
                d == clock + r.ttl
    <2>1. hash'[r.sid] = [Absent EXCEPT !.user = r.user, !.token = 1, !.expires = e, !.deadline = d]
      BY <1>1, <1>2, <1>3 DEF Add
    <2>. HIDE DEF e, d, r
    <2>2. hash'[r.sid] = [user |-> r.user, token |-> 1, expires |-> e,
                          revoked |-> FALSE, deadline |-> d]
      BY <2>1 DEF Absent
    <2>. QED  BY <2>2 DEF e, d, r
  <1>5. \A s \in SessionIDs \ {r.sid} : hash'[s] = hash[s]
    BY <1>1, <1>3 DEF Add
  <1>. QED  BY <1>1, <1>4, <1>5 DEF Add

LEMMA ExecStores ==
    ASSUME IInv, NEW p \in Handlers, Exec(p)
    PROVE  LET r == req[p]
               h == hash[r.sid] IN
           /\ r.sid \in opened /\ h = r.seen /\ h \in Hashes
           /\ h.user \in Users /\ h.token = r.token /\ Usable(h)
           /\ hash'[r.sid] = [user |-> h.user, token |-> r.next, expires |-> r.at + RefreshTTL,
                              revoked |-> FALSE, deadline |-> clock + r.ttl]
           /\ \A s \in SessionIDs \ {r.sid} : hash'[s] = hash[s]
           /\ index' = [index EXCEPT ![h.user][r.sid] = r.at + RefreshTTL]
           /\ exchanged' = exchanged \union {<<r.sid, r.token, r.next>>}
           /\ UNCHANGED <<clock, minted, opened, orphaned>>
  <1>. DEFINE r == req[p]
              h == hash[r.sid]
  <1>1. /\ r.sid \in opened /\ r.sid \in SessionIDs /\ r.seen.user \in Users
    BY WriterNames DEF Writes, IInv, TypeOK
  <1>2. h = r.seen /\ h.token = r.token /\ Usable(h)
    BY DEF Exec, IInv, TokensOK, TokensFit
  <1>3. hash \in [SessionIDs -> Hashes]
    BY DEF IInv, TypeOK
  <1>4. h.revoked = FALSE /\ h \in Hashes
    BY <1>1, <1>2, <1>3 DEF Usable, Hashes
  <1>5. hash'[r.sid] = [user |-> h.user, token |-> r.next, expires |-> r.at + RefreshTTL,
                        revoked |-> FALSE, deadline |-> clock + r.ttl]
    BY <1>1, <1>3, <1>4 DEF Exec, CommitRotation, Hashes
  <1>6. \A s \in SessionIDs \ {r.sid} : hash'[s] = hash[s]
    BY <1>1, <1>3 DEF Exec, CommitRotation
  <1>. QED  BY <1>1, <1>2, <1>4, <1>5, <1>6 DEF Exec, CommitRotation

\* The exchanged tokens are exactly what Exec adds, and it never adds a second
\* successor of a token.
LEMMA ExchangedStep ==
    ASSUME IInv, [Next]_vars
    PROVE  /\ EachTokenExchangedOnce'
           /\ \A e \in exchanged' :
                 /\ e[1] \in opened'
                 /\ Parsable(hash'[e[1]]) => e[2] < e[3] /\ e[3] <= hash'[e[1]].token
  <1>. DEFINE Older(e) == Parsable(hash[e[1]]) => e[2] < e[3] /\ e[3] <= hash[e[1]].token
  <1>0. /\ EachTokenExchangedOnce
        /\ \A e \in exchanged : e[1] \in opened /\ Older(e)
        /\ exchanged \subseteq SessionIDs \X Tokens \X Tokens
        /\ opened \subseteq opened'
        /\ \A s \in SessionIDs : hash[s].token \in Nat
    BY SessionsOnlyDie DEF IInv, TokensOK, TypeOK, Hashes, Tokens
  <1>1. ASSUME NEW p \in Handlers, Exec(p)
        PROVE  EachTokenExchangedOnce' /\ \A e \in exchanged' : e[1] \in opened' /\ Older(e)'
    <2>. DEFINE r == req[p]
                new == <<r.sid, r.token, r.next>>
    <2>1. r.token < r.next /\ r.token \in Tokens /\ r.next \in Tokens
      BY <1>1 DEF IInv, TokensOK, TokensFit, LocalsOK, LocalsFit, Exec, RefreshLabels
    <2>2. exchanged' = exchanged \union {new} /\ r.sid \in opened
      BY <1>1, ExecStores
    <2>7. /\ Parsable(hash[r.sid]) /\ hash[r.sid].token = r.token
          /\ hash'[r.sid].token = r.next
          /\ \A s \in SessionIDs \ {r.sid} : hash'[s] = hash[s]
      <3>1. /\ Usable(hash[r.sid]) /\ hash[r.sid].token = r.token
            /\ \A s \in SessionIDs \ {r.sid} : hash'[s] = hash[s]
        BY <1>1, ExecStores
      <3>2. hash'[r.sid] = [user |-> hash[r.sid].user, token |-> r.next,
                            expires |-> r.at + RefreshTTL, revoked |-> FALSE,
                            deadline |-> clock + r.ttl]
        BY <1>1, ExecStores
      <3>3. hash'[r.sid].token = r.next
        BY <3>2
      <3>. QED  BY <3>1, <3>3 DEF Usable
    <2>3. \A e \in exchanged : e[1] = r.sid => e[2] < r.token /\ e[3] <= r.token
      <3>1. Parsable(hash[r.sid]) /\ hash[r.sid].token = r.token
        BY <2>7
      <3>2. ASSUME NEW e \in exchanged, e[1] = r.sid
            PROVE  e[2] < r.token /\ e[3] <= r.token
        <4>1. e[2] < e[3] /\ e[3] <= r.token
          BY <1>0, <3>1, <3>2
        <4>2. e[2] \in Nat /\ e[3] \in Nat /\ r.token \in Nat
          BY <1>0, <2>1, <3>2 DEF Tokens
        <4>. QED  BY <4>1, <4>2
      <3>. QED  BY <3>2
    <2>4. \A e \in exchanged : ~(e[1] = r.sid /\ e[2] = r.token)
      BY <1>0, <2>1, <2>3 DEF Tokens
    <2>5. EachTokenExchangedOnce'
      BY <1>0, <2>2, <2>4 DEF EachTokenExchangedOnce
    <2>6. ASSUME NEW e \in exchanged'
          PROVE  e[1] \in opened' /\ Older(e)'
      <3>1. CASE e = new
        <4>1. e[1] = r.sid /\ e[2] = r.token /\ e[3] = r.next
          BY <3>1
        <4>2. r.next <= r.next
          BY <2>1 DEF Tokens
        <4>. QED  BY <1>0, <2>1, <2>2, <2>7, <4>1, <4>2
      <3>2. CASE e \in exchanged /\ e[1] = r.sid
        <4>1. Parsable(hash[e[1]]) /\ hash[e[1]].token = r.token /\ hash'[e[1]].token = r.next
          BY <2>7, <3>2
        <4>2. e[2] < e[3] /\ e[3] <= r.token
          BY <1>0, <3>2, <4>1
        <4>3. e[3] \in Nat /\ r.token \in Nat /\ r.next \in Nat
          BY <1>0, <2>1, <3>2 DEF Tokens
        <4>. QED  BY <1>0, <2>1, <3>2, <4>1, <4>2, <4>3
      <3>3. CASE e \in exchanged /\ e[1] # r.sid
        <4>1. e[1] \in SessionIDs
          BY <1>0, <3>3
        <4>2. hash'[e[1]] = hash[e[1]]
          BY <2>7, <3>3, <4>1
        <4>. QED  BY <1>0, <3>3, <4>2
      <3>. QED  BY <2>2, <2>6, <3>1, <3>2, <3>3
    <2>. QED  BY <2>5, <2>6
  <1>2. ASSUME \A p \in Handlers : ~Exec(p)
        PROVE  EachTokenExchangedOnce' /\ \A e \in exchanged' : e[1] \in opened' /\ Older(e)'
    <2>1. exchanged' = exchanged
      <3>1. ASSUME NEW p \in Handlers, Writes(p)
            PROVE  exchanged' = exchanged
        BY <1>2, <3>1 DEF Writes, Purge, Evict, Unindex, Add, RevokeSession, RevokeAll, history
      <3>. QED  BY <3>1, StepKinds DEF Tick
    <2>2. ASSUME NEW e \in exchanged
          PROVE  Older(e)'
      <3>1. e[1] \in SessionIDs /\ e[1] \in opened
        BY <1>0
      <3>2. CASE hash'[e[1]] = hash[e[1]]
        BY <1>0, <3>2
      <3>3. CASE hash'[e[1]] = Absent
        BY <3>3 DEF Parsable, Absent
      <3>4. CASE hash'[e[1]] = [hash[e[1]] EXCEPT !.revoked = TRUE]
        <4>1. hash[e[1]] \in Hashes
          BY <3>1 DEF IInv, TypeOK
        <4>2. hash'[e[1]].user = hash[e[1]].user /\ hash'[e[1]].token = hash[e[1]].token
          BY <3>4, <4>1 DEF Hashes
        <4>. QED  BY <1>0, <4>2 DEF Parsable
      <3>5. \A p \in Handlers : Add(p) => req[p].sid # e[1]
        BY <3>1, AddStores
      <3>. QED  BY <1>2, <3>1, <3>2, <3>3, <3>4, <3>5, HashChanges
    <2>. QED  BY <1>0, <2>1, <2>2 DEF EachTokenExchangedOnce
  <1>. QED  BY <1>1, <1>2

\* A step of a handler leaves the locals of the others alone.
LEMMA OthersWait ==
    ASSUME IInv, NEW q \in Handlers, NEW p \in Handlers \ {q}, Begin(p) \/ Step(p) \/ Abort(p)
    PROVE  pc'[q] = pc[q] /\ req'[q] = req[q]
  <1>0. pc \in [Handlers -> Labels] /\ req \in [Handlers -> Requests]
    BY DEF IInv, TypeOK
  <1>1. \E label, r : Goto(p, label, r)
    <2>1. CASE Begin(p) \/ Abort(p)
      BY <2>1 DEF Begin, Abort, BeginLogin, BeginLogoutAll, BeginRefresh, BeginLogout, Finish
    <2>2. CASE Step(p)
      BY <2>2
      DEF Step, Scan, Purge, Card, Oldest, Evict, Unindex, Add, RefreshGet, Watch,
          RefreshRefused, Exec, ExecFailed, LogoutGet, RevokeGet, LogoutRefused,
          RevokeSession, RangeAll, RevokeAll, Finish
    <2>. QED  BY <2>1, <2>2
  <1>. QED  BY <1>0, <1>1 DEF Goto

\* The commands whose effect on their own handler later proofs look at; every
\* other step leaves a handler alone or takes it to a harmless label.
LEMMA Moves ==
    ASSUME IInv, [Next]_vars, NEW q \in Handlers
    PROVE  \/ pc'[q] = pc[q] /\ req'[q] = req[q]
           \/ RefreshGet(q) \/ Watch(q)
           \/ Evict(q) \/ RevokeGet(q) \/ RangeAll(q)
           \/ \E u \in Users : BeginLogoutAll(q, u)
           \/ pc'[q] \notin {"watch", "exec", "unindex", "revoke", "range", "revoke_all"}
  <1>0. pc \in [Handlers -> Labels] /\ req \in [Handlers -> Requests]
    BY DEF IInv, TypeOK
  <1>1. ASSUME NEW p \in Handlers, Begin(p) \/ Step(p) \/ Abort(p), p # q
        PROVE  pc'[q] = pc[q] /\ req'[q] = req[q]
    BY <1>1, OthersWait
  <1>2. ASSUME Begin(q), \A u \in Users : ~BeginLogoutAll(q, u)
        PROVE  pc'[q] \in {"scan", "get", "logout_get"}
    BY <1>0, <1>2 DEF Begin, BeginLogin, BeginRefresh, BeginLogout, Goto
  <1>3. ASSUME Step(q) \/ Abort(q),
               ~(RefreshGet(q) \/ Watch(q) \/ Evict(q) \/ RevokeGet(q) \/ RangeAll(q))
        PROVE  pc'[q] \in {"idle", "card", "purge", "add", "oldest", "evict", "revoke_get"}
    <2>1. CASE Abort(q)
      BY <1>0, <2>1 DEF Abort, Finish, Goto
    <2>2. CASE Scan(q) \/ Purge(q) \/ Card(q) \/ Oldest(q) \/ Unindex(q) \/ LogoutGet(q)
      BY <1>0, <2>2 DEF Scan, Purge, Card, Oldest, Unindex, LogoutGet, Goto
    <2>3. CASE \/ Add(q) \/ RefreshRefused(q) \/ Exec(q) \/ ExecFailed(q) \/ LogoutRefused(q)
               \/ RevokeSession(q) \/ RevokeAll(q)
      <3>1. Finish(q)
        BY <2>3 DEF Add, RefreshRefused, Exec, ExecFailed, LogoutRefused, RevokeSession, RevokeAll
      <3>. QED  BY <1>0, <3>1 DEF Finish, Goto
    <2>. QED  BY <1>3, <2>1, <2>2, <2>3 DEF Step
  <1>4. Tick \/ UNCHANGED vars => pc'[q] = pc[q] /\ req'[q] = req[q]
    BY DEF Tick, vars
  <1>. QED  BY <1>1, <1>2, <1>3, <1>4 DEF Next

LEMMA TokensOKStep ==
    ASSUME IInv, [Next]_vars
    PROVE  TokensOK'
  <1>0. /\ \A s \in SessionIDs : /\ minted[s] \in Nat /\ minted'[s] \in Nat
                                 /\ minted[s] <= minted'[s]
                                 /\ hash[s] \in Hashes /\ hash[s].token \in Nat
                                 /\ hash[s].token <= minted[s]
        /\ \A p \in Handlers : /\ TokensFit(pc[p], req[p]) /\ LocalsFit(pc[p], req[p], clock)
                               /\ FreshFit(pc[p], req[p])
                               /\ req[p] \in Requests
    BY MintedGrows, TypeOKStep
    DEF IInv, TypeOK, TokensOK, LocalsOK, FreshOK, Hashes, Tokens
  <1>1. ASSUME NEW s \in SessionIDs
        PROVE  hash'[s].token <= minted'[s]
    <2>1. CASE hash'[s] = hash[s]
      BY <1>0, <2>1
    <2>2. CASE hash'[s] = Absent
      BY <1>0, <2>2 DEF Absent
    <2>3. CASE hash'[s] = [hash[s] EXCEPT !.revoked = TRUE]
      <3>1. hash'[s].token = hash[s].token
        BY <1>0, <2>3 DEF Hashes
      <3>. QED  BY <1>0, <3>1
    <2>4. ASSUME NEW p \in Handlers, Add(p), req[p].sid = s
          PROVE  hash'[s].token <= minted'[s]
      <3>1. hash'[s].token = 1
        <4>1. hash'[s] = [user |-> req[p].user, token |-> 1, expires |-> req[p].at + RefreshTTL,
                          revoked |-> FALSE, deadline |-> clock + req[p].ttl]
          BY <2>4, AddStores
        <4>. QED  BY <4>1
      <3>2. minted[s] > 0
        BY <1>0, <2>4 DEF FreshFit, Add, LoginLabels
      <3>. QED  BY <1>0, <3>1, <3>2
    <2>5. ASSUME NEW p \in Handlers, Exec(p), req[p].sid = s
          PROVE  hash'[s].token <= minted'[s]
      <3>1. hash'[s].token = req[p].next
        <4>1. hash'[s] = [user |-> hash[s].user, token |-> req[p].next,
                          expires |-> req[p].at + RefreshTTL,
                          revoked |-> FALSE, deadline |-> clock + req[p].ttl]
          BY <2>5, ExecStores
        <4>. QED  BY <4>1
      <3>2. req[p].next <= minted[s] /\ req[p].next \in Nat
        BY <1>0, <2>5 DEF TokensFit, LocalsFit, Exec, Tokens
      <3>. QED  BY <1>0, <3>1, <3>2
    <2>. QED  BY <2>1, <2>2, <2>3, <2>4, <2>5, HashChanges
  <1>2. ASSUME NEW q \in Handlers
        PROVE  TokensFit(pc[q], req[q])'
    <2>1. CASE pc'[q] = pc[q] /\ req'[q] = req[q]
      <3>1. pc[q] \in {"watch", "exec"} =>
               /\ req[q].sid \in SessionIDs /\ req[q].next \in Nat
               /\ req[q].next <= minted'[req[q].sid]
        BY <1>0 DEF TokensFit, LocalsFit, RefreshLabels, Tokens
      <3>. QED  BY <1>0, <2>1, <3>1 DEF TokensFit
    <2>2. CASE RefreshGet(q)
      <3>. DEFINE r == req[q]
      <3>1. /\ r.sid \in SessionIDs /\ r.token \in Nat /\ r \in Requests
            /\ r.token <= minted[r.sid]
        BY <1>0, <2>2 DEF RefreshGet, LocalsFit, RefreshLabels, Tokens
      <3>2. minted'[r.sid] = minted[r.sid] + 1
        BY <2>2, <3>1 DEF RefreshGet, IInv, TypeOK
      <3>3. pc'[q] = "watch" /\ req'[q] = [r EXCEPT !.next = minted[r.sid] + 1]
        BY <2>2 DEF RefreshGet, Goto, IInv, TypeOK
      <3>4. req'[q].sid = r.sid /\ req'[q].token = r.token /\ req'[q].next = minted[r.sid] + 1
        BY <3>1, <3>3 DEF Requests
      <3>. QED  BY <1>0, <3>1, <3>2, <3>3, <3>4 DEF TokensFit
    <2>3. CASE Watch(q)
      <3>. DEFINE r == req[q]
                  ttl == r.at + RefreshTTL - clock
      <3>1. /\ pc[q] = "watch" /\ r \in Requests
            /\ Usable(hash[r.sid]) /\ hash[r.sid].token = r.token
            /\ UNCHANGED minted
        BY <1>0, <2>3 DEF Watch
      <3>2. pc'[q] = "exec" /\ req'[q] = [r EXCEPT !.seen = hash[r.sid], !.ttl = ttl]
        BY <2>3 DEF Watch, Goto, IInv, TypeOK
      <3>3. /\ req'[q].sid = r.sid /\ req'[q].token = r.token /\ req'[q].next = r.next
            /\ req'[q].seen = hash[r.sid]
        <4>. HIDE DEF ttl
        <4>. QED  BY <3>1, <3>2 DEF Requests
      <3>4. r.token < r.next /\ r.next <= minted[r.sid]
        BY <1>0, <3>1 DEF TokensFit
      <3>. QED  BY <3>1, <3>2, <3>3, <3>4 DEF TokensFit, Usable, Parsable
    <2>4. CASE pc'[q] \notin {"watch", "exec"}
      BY <2>4 DEF TokensFit
    <2>5. CASE Evict(q) \/ RevokeGet(q) \/ RangeAll(q) \/ \E u \in Users : BeginLogoutAll(q, u)
      BY <2>4, <2>5 DEF Evict, RevokeGet, RangeAll, BeginLogoutAll, Finish, Goto, IInv, TypeOK
    <2>. QED  BY <2>1, <2>2, <2>3, <2>4, <2>5, Moves
  <1>. QED  BY <1>1, <1>2, ExchangedStep DEF TokensOK

-----------------------------------------------------------------------------
(* Owners, the index and the TTLs.                                         *)

LEMMA OwnersOKStep ==
    ASSUME IInv, [Next]_vars
    PROVE  OwnersOK'
  <1>0. /\ \A s \in opened : /\ Live(s)' => Live(s)
                             /\ \A u : OfUser(s, u) => OfUser(s, u)'
        /\ orphaned \subseteq orphaned'
        /\ \A p \in Handlers : OwnersFit(pc[p], req[p]) /\ FreshFit(pc[p], req[p])
        /\ \A p \in Handlers : LocalsFit(pc[p], req[p], clock) /\ req[p] \in Requests
        /\ pc \in [Handlers -> Labels] /\ req \in [Handlers -> Requests]
        /\ hash \in [SessionIDs -> Hashes]
        /\ opened \subseteq SessionIDs
    BY SessionsOnlyDie DEF IInv, OwnersOK, FreshOK, LocalsOK, TypeOK, OfUser
  <1>1. ASSUME NEW q \in Handlers
        PROVE  OwnersFit(pc[q], req[q])'
    <2>. DEFINE r == req[q]
    <2>1. CASE pc'[q] = pc[q] /\ req'[q] = req[q]
      <3>1. /\ pc[q] = "unindex" => r.victim \in opened
            /\ pc[q] = "revoke" => r.sid \in opened
            /\ r.ids \subseteq opened /\ r.prior \subseteq opened
        BY <1>0 DEF FreshFit, LogoutLabels
      <3>2. OwnersFit(pc[q], r)
        BY <1>0
      <3>3. /\ pc[q] = "unindex" => ~Usable(hash'[r.victim])
            /\ pc[q] = "revoke" => (Parsable(hash'[r.sid]) => hash'[r.sid].user = r.user)
            /\ pc[q] = "revoke_all" =>
                  \A s \in r.ids : Parsable(hash'[s]) => hash'[s].user = r.user
            /\ pc[q] \in {"range", "revoke_all"} =>
                  \A s \in r.prior : Parsable(hash'[s]) => hash'[s].user = r.user
            /\ pc[q] = "revoke_all" =>
                  \A s \in r.prior \ orphaned' : Usable(hash'[s]) => s \in r.ids
        <4>1. pc[q] = "unindex" => ~Usable(hash'[r.victim])
          BY <1>0, <3>1, <3>2 DEF OwnersFit, Live
        <4>2. pc[q] = "revoke" => (Parsable(hash'[r.sid]) => hash'[r.sid].user = r.user)
          BY <1>0, <3>1, <3>2 DEF OwnersFit, OfUser
        <4>3. pc[q] = "revoke_all" =>
                 \A s \in r.ids : Parsable(hash'[s]) => hash'[s].user = r.user
          BY <1>0, <3>1, <3>2 DEF OwnersFit, OfUser
        <4>4. pc[q] \in {"range", "revoke_all"} =>
                 \A s \in r.prior : Parsable(hash'[s]) => hash'[s].user = r.user
          BY <1>0, <3>1, <3>2 DEF OwnersFit, OfUser
        <4>5. pc[q] = "revoke_all" =>
                 \A s \in r.prior \ orphaned' : Usable(hash'[s]) => s \in r.ids
          BY <1>0, <3>1, <3>2 DEF OwnersFit, Live
        <4>. QED  BY <4>1, <4>2, <4>3, <4>4, <4>5
      <3>. QED  BY <2>1, <3>3 DEF OwnersFit, OfUser, Live
    <2>2. CASE Evict(q)
      <3>1. pc'[q] = "unindex" /\ req'[q] = r /\ r.victim \in SessionIDs
        BY <1>0, <2>2 DEF Evict, Goto, LocalsFit
      <3>2. hash'[r.victim] = Absent
        BY <2>2, <3>1 DEF Evict, Delete
      <3>. QED  BY <3>1, <3>2 DEF OwnersFit, Live, Usable, Parsable, Absent
    <2>3. CASE RevokeGet(q)
      <3>. DEFINE h == hash[r.sid]
      <3>1. pc'[q] = "revoke" /\ req'[q] = [r EXCEPT !.user = h.user] /\ hash' = hash
        BY <1>0, <2>3 DEF RevokeGet, Goto, store
      <3>2. req'[q].user = h.user /\ req'[q].sid = r.sid
        BY <1>0, <3>1 DEF Requests
      <3>. QED  BY <3>1, <3>2 DEF OwnersFit, OfUser
    <2>4. ASSUME NEW u \in Users, BeginLogoutAll(q, u)
          PROVE  OwnersFit(pc[q], req[q])'
      <3>1. /\ pc'[q] = "range" /\ hash' = hash
            /\ req'[q] = [NoRequest EXCEPT !.user = u, !.at = clock, !.prior = SessionsOf(u)]
        BY <1>0, <2>4 DEF BeginLogoutAll, Goto, store
      <3>2. req'[q].user = u /\ req'[q].prior = SessionsOf(u)
        BY <3>1 DEF NoRequest
      <3>3. \A s \in SessionsOf(u) : hash'[s].user = u
        BY <3>1 DEF SessionsOf
      <3>. QED  BY <3>1, <3>2, <3>3 DEF OwnersFit, OfUser
    <2>5. CASE RangeAll(q)
      <3>1. CASE pc'[q] = "idle"
        BY <3>1 DEF OwnersFit
      <3>2. CASE pc'[q] # "idle"
        <4>1. /\ pc'[q] = "revoke_all" /\ req'[q] = [r EXCEPT !.ids = Members(r.user)]
              /\ hash' = hash /\ orphaned' = orphaned
              /\ pc[q] = "range" /\ r.user \in Users
          BY <1>0, <2>5, <3>2 DEF RangeAll, Finish, Goto, store, history, LocalsFit
        <4>2. req'[q].ids = Members(r.user) /\ req'[q].prior = r.prior /\ req'[q].user = r.user
          BY <1>0, <4>1 DEF Requests
        <4>3. \A s \in Members(r.user) : Parsable(hash[s]) => hash[s].user = r.user
          BY <4>1 DEF IInv, IndexAgrees
        <4>4. \A s \in r.prior : Parsable(hash[s]) => hash[s].user = r.user
          BY <1>0, <4>1 DEF OwnersFit, OfUser
        <4>5. \A s \in r.prior \ orphaned : Usable(hash[s]) => s \in Members(r.user)
          <5>1. r.prior \subseteq SessionIDs
            BY <1>0 DEF Requests
          <5>. QED  BY <4>4, <5>1 DEF IInv, LiveIsIndexed, Live, Usable
        <4>. QED  BY <4>1, <4>2, <4>3, <4>4, <4>5 DEF OwnersFit, OfUser, Live
      <3>. QED  BY <3>1, <3>2
    <2>6. CASE RefreshGet(q) \/ Watch(q)
      <3>1. pc'[q] \in {"watch", "exec"}
        BY <1>0, <2>6 DEF RefreshGet, Watch, Goto
      <3>. QED  BY <3>1 DEF OwnersFit
    <2>7. CASE pc'[q] \notin {"watch", "exec", "unindex", "revoke", "range", "revoke_all"}
      BY <2>7 DEF OwnersFit
    <2>. QED  BY <2>1, <2>2, <2>3, <2>4, <2>5, <2>6, <2>7, Moves
  <1>. QED  BY <1>1 DEF OwnersOK

\* A session leaves an index only when it is dead, or when the zset expires.
LEMMA IndexChanges ==
    ASSUME IInv, [Next]_vars, NEW u \in Users, NEW s \in SessionIDs
    PROVE  \/ index'[u][s] = index[u][s]
           \/ index'[u][s] = 0 /\ (~Live(s)' \/ s \in orphaned')
           \/ \E p \in Handlers : /\ Add(p) \/ Exec(p)
                                  /\ req[p].sid = s
                                  /\ index'[u][s] = req[p].at + RefreshTTL
                                  /\ Parsable(hash'[s]) => hash'[s].user = u
  <1>. DEFINE Concl == \/ index'[u][s] = index[u][s]
                       \/ index'[u][s] = 0 /\ (~Live(s)' \/ s \in orphaned')
                       \/ \E p \in Handlers : /\ Add(p) \/ Exec(p)
                                              /\ req[p].sid = s
                                              /\ index'[u][s] = req[p].at + RefreshTTL
                                              /\ Parsable(hash'[s]) => hash'[s].user = u
  <1>0. index \in [Users -> [SessionIDs -> Times]] /\ hash \in [SessionIDs -> Hashes]
    BY DEF IInv, TypeOK
  <1>1. ASSUME NEW w, NEW S, RemoveFromIndex(w, S), s \in S => ~Live(s)'
        PROVE  Concl
    BY <1>0, <1>1 DEF RemoveFromIndex
  <1>2. ASSUME NEW p \in Handlers, Writes(p)
        PROVE  Concl
    <2>1. CASE Purge(p)
      <3>1. s \in req[p].ids => ~Live(s)'
        BY <2>1 DEF Purge, Delete, Live, Usable, Parsable, Absent
      <3>. QED  BY <1>1, <2>1, <3>1 DEF Purge
    <2>2. CASE Evict(p)
      BY <2>2 DEF Evict
    <2>3. CASE Unindex(p)
      <3>1. ~Live(req[p].victim)
        BY <2>3 DEF Unindex, IInv, OwnersOK, OwnersFit
      <3>2. s \in {req[p].victim} => ~Live(s)'
        BY <2>3, <3>1 DEF Unindex, Live
      <3>. QED  BY <1>1, <2>3, <3>2 DEF Unindex
    <2>4. CASE RevokeSession(p)
      <3>1. s \in {req[p].sid} => ~Live(s)'
        BY <1>0, <2>4 DEF RevokeSession, Revoke, Live, Usable, Hashes
      <3>. QED  BY <1>1, <2>4, <3>1 DEF RevokeSession
    <2>5. CASE RevokeAll(p)
      <3>1. s \in req[p].ids => ~Live(s)'
        BY <1>0, <2>5 DEF RevokeAll, Revoke, Live, Usable, Hashes
      <3>. QED  BY <1>1, <2>5, <3>1 DEF RevokeAll
    <2>6. ASSUME NEW w \in Users, NEW x \in SessionIDs,
                 index' = [index EXCEPT ![w][x] = req[p].at + RefreshTTL],
                 x = req[p].sid, hash'[x].user = w, Add(p) \/ Exec(p)
          PROVE  Concl
      <3>1. CASE w = u /\ x = s
        <4>1. index'[u][s] = req[p].at + RefreshTTL
          BY <1>0, <2>6, <3>1
        <4>. QED  BY <2>6, <3>1, <4>1
      <3>2. CASE ~(w = u /\ x = s)
        BY <1>0, <2>6, <3>2
      <3>. QED  BY <3>1, <3>2
    <2>7. CASE Add(p)
      <3>1. /\ req[p].sid \in SessionIDs /\ req[p].user \in Users
            /\ index' = [index EXCEPT ![req[p].user][req[p].sid] = req[p].at + RefreshTTL]
            /\ hash'[req[p].sid] = [user |-> req[p].user, token |-> 1,
                                    expires |-> req[p].at + RefreshTTL,
                                    revoked |-> FALSE, deadline |-> clock + req[p].ttl]
        BY <2>7, AddStores
      <3>2. hash'[req[p].sid].user = req[p].user
        BY <3>1
      <3>. HIDE DEF Concl
      <3>. QED  BY <2>6, <2>7, <3>1, <3>2
    <2>8. CASE Exec(p)
      <3>1. /\ req[p].sid \in opened /\ hash[req[p].sid].user \in Users
            /\ index' = [index EXCEPT ![hash[req[p].sid].user][req[p].sid] =
                             req[p].at + RefreshTTL]
            /\ hash'[req[p].sid] = [user |-> hash[req[p].sid].user, token |-> req[p].next,
                                    expires |-> req[p].at + RefreshTTL,
                                    revoked |-> FALSE, deadline |-> clock + req[p].ttl]
        BY <2>8, ExecStores
      <3>2. req[p].sid \in SessionIDs /\ hash'[req[p].sid].user = hash[req[p].sid].user
        BY <3>1 DEF IInv, TypeOK
      <3>. HIDE DEF Concl
      <3>. QED  BY <2>6, <2>8, <3>1, <3>2
    <2>. QED  BY <1>2, <2>1, <2>2, <2>3, <2>4, <2>5, <2>7, <2>8 DEF Writes
  <1>3. ASSUME Tick
        PROVE  Concl
    <2>. DEFINE lost == {w \in Users : indexDeadline[w] # Never /\ indexDeadline[w] <= clock + 1}
    <2>1. /\ index' = [w \in Users |->
                          IF w \in lost THEN [x \in SessionIDs |-> 0] ELSE index[w]]
          /\ orphaned' = orphaned \union UNION {Members(w) : w \in lost}
      BY <1>3 DEF Tick
    <2>2. CASE u \in lost /\ index[u][s] > 0
      <3>1. index'[u][s] = 0
        BY <2>1, <2>2
      <3>2. s \in Members(u)
        BY <2>2 DEF Members
      <3>. QED  BY <2>1, <2>2, <3>1, <3>2
    <2>3. CASE u \in lost /\ ~(index[u][s] > 0)
      <3>1. index[u][s] = 0
        BY <1>0, <2>3, TimeAssumption DEF Times
      <3>. QED  BY <2>1, <2>3, <3>1
    <2>4. CASE u \notin lost
      BY <2>1, <2>4
    <2>. QED  BY <2>2, <2>3, <2>4
  <1>4. index' = index => Concl
    OBVIOUS
  <1>. HIDE DEF Concl
  <1>5. Concl
    BY <1>2, <1>3, <1>4, StepKinds
  <1>. QED  BY <1>5 DEF Concl

LEMMA IndexAgreesStep ==
    ASSUME IInv, [Next]_vars
    PROVE  IndexAgrees'
  <1>0. /\ hash \in [SessionIDs -> Hashes] /\ index \in [Users -> [SessionIDs -> Times]]
        /\ IndexAgrees /\ OwnersOK /\ FreshStore /\ opened \subseteq SessionIDs
        /\ \A p \in Handlers : LocalsFit(pc[p], req[p], clock)
        /\ \A p \in Handlers : OwnersFit(pc[p], req[p])
    BY DEF IInv, TypeOK, FreshOK, LocalsOK, OwnersOK
  <1>1. SUFFICES ASSUME NEW u \in Users, NEW s \in SessionIDs, index'[u][s] > 0,
                        Parsable(hash'[s])
                 PROVE  /\ hash'[s].user = u
                        /\ hash'[s].expires = index'[u][s]
                        /\ ~hash'[s].revoked
    BY DEF IndexAgrees, Members
  <1>2. ASSUME NEW p \in Handlers, Add(p) \/ Exec(p), req[p].sid = s
        PROVE  /\ hash'[s].expires = req[p].at + RefreshTTL
               /\ ~hash'[s].revoked
    <2>1. CASE Add(p)
      <3>1. hash'[s] = [user |-> req[p].user, token |-> 1, expires |-> req[p].at + RefreshTTL,
                        revoked |-> FALSE, deadline |-> clock + req[p].ttl]
        BY <1>2, <2>1, AddStores
      <3>. QED  BY <3>1
    <2>2. CASE Exec(p)
      <3>1. hash'[s] = [user |-> hash[s].user, token |-> req[p].next,
                        expires |-> req[p].at + RefreshTTL,
                        revoked |-> FALSE, deadline |-> clock + req[p].ttl]
        BY <1>2, <2>2, ExecStores
      <3>. QED  BY <3>1
    <2>. QED  BY <1>2, <2>1, <2>2
  <1>3. CASE index'[u][s] = index[u][s]
    <2>1. /\ Parsable(hash[s]) =>
                hash[s].user = u /\ hash[s].expires = index[u][s] /\ ~hash[s].revoked
          /\ s \in opened
      BY <1>0, <1>1, <1>3 DEF IndexAgrees, Members, FreshStore
    <2>2. CASE hash'[s] = hash[s]
      BY <1>1, <1>3, <2>1, <2>2
    <2>3. CASE hash'[s] = Absent
      BY <1>1, <2>3 DEF Parsable, Absent
    <2>4. ASSUME hash'[s] = [hash[s] EXCEPT !.revoked = TRUE],
                 NEW p \in Handlers, NEW S, S \subseteq SessionIDs, s \in S,
                 RemoveFromIndex(req[p].user, S), OfUser(s, req[p].user)
          PROVE  FALSE
      <3>1. hash'[s].user = hash[s].user
        BY <1>0, <2>4 DEF Hashes
      <3>2. hash[s].user = u /\ req[p].user = u
        BY <1>1, <2>1, <2>4, <3>1 DEF Parsable, OfUser
      <3>3. index'[u][s] = 0
        BY <1>0, <2>4, <3>2 DEF RemoveFromIndex
      <3>. QED  BY <1>1, <3>3
    <2>. DEFINE ByRevocation(p) == \/ RevokeSession(p) /\ req[p].sid = s
                                   \/ RevokeAll(p) /\ s \in req[p].ids
                Revoked == hash'[s] = [hash[s] EXCEPT !.revoked = TRUE]
    <2>5. ASSUME Revoked, NEW p \in Handlers, ByRevocation(p)
          PROVE  FALSE
      <3>1. CASE RevokeSession(p) /\ req[p].sid = s
        <4>1. OfUser(s, req[p].user) /\ RemoveFromIndex(req[p].user, {s})
          BY <1>0, <3>1 DEF RevokeSession, OwnersFit
        <4>. QED  BY <2>4, <2>5, <4>1
      <3>2. CASE RevokeAll(p) /\ s \in req[p].ids
        <4>1. OfUser(s, req[p].user) /\ RemoveFromIndex(req[p].user, req[p].ids)
          BY <1>0, <3>2 DEF RevokeAll, OwnersFit
        <4>2. req[p].ids \subseteq SessionIDs
          BY DEF IInv, TypeOK, Requests
        <4>. QED  BY <2>4, <2>5, <3>2, <4>1, <4>2
      <3>. QED  BY <2>5, <3>1, <3>2
    <2>6. ASSUME NEW p \in Handlers, Add(p) \/ Exec(p), req[p].sid = s
          PROVE  hash'[s].user = u /\ hash'[s].expires = index'[u][s] /\ ~hash'[s].revoked
      <3>1. Exec(p)
        BY <2>1, <2>6, AddStores
      <3>2. /\ Usable(hash[s]) /\ hash[s].user \in Users
            /\ hash'[s] = [user |-> hash[s].user, token |-> req[p].next,
                           expires |-> req[p].at + RefreshTTL,
                           revoked |-> FALSE, deadline |-> clock + req[p].ttl]
            /\ index' = [index EXCEPT ![hash[s].user][s] = req[p].at + RefreshTTL]
        BY <2>6, <3>1, ExecStores
      <3>3. hash[s].user = u
        BY <2>1, <3>2 DEF Usable
      <3>4. index'[u][s] = req[p].at + RefreshTTL
        BY <1>0, <3>2, <3>3
      <3>5. hash'[s].user = hash[s].user
        BY <3>2
      <3>. QED  BY <1>2, <2>6, <3>3, <3>4, <3>5
    <2>7. \/ hash'[s] = hash[s] \/ hash'[s] = Absent
          \/ \E p \in Handlers : (Add(p) \/ Exec(p)) /\ req[p].sid = s
      <3>2. \/ hash'[s] = hash[s] \/ hash'[s] = Absent
            \/ Revoked /\ \E p \in Handlers : ByRevocation(p)
            \/ \E p \in Handlers : (Add(p) \/ Exec(p)) /\ req[p].sid = s
        BY HashChanges
      <3>. HIDE DEF ByRevocation, Revoked
      <3>. QED  BY <2>5, <3>2
    <2>8. CASE \E p \in Handlers : (Add(p) \/ Exec(p)) /\ req[p].sid = s
      BY <2>6, <2>8
    <2>. QED  BY <2>2, <2>3, <2>7, <2>8
  <1>4. ASSUME NEW p \in Handlers, Add(p) \/ Exec(p), req[p].sid = s,
               index'[u][s] = req[p].at + RefreshTTL,
               Parsable(hash'[s]) => hash'[s].user = u
        PROVE  hash'[s].user = u /\ hash'[s].expires = index'[u][s] /\ ~hash'[s].revoked
    BY <1>1, <1>2, <1>4
  <1>5. \/ index'[u][s] = index[u][s]
        \/ \E p \in Handlers : /\ Add(p) \/ Exec(p)
                               /\ req[p].sid = s
                               /\ index'[u][s] = req[p].at + RefreshTTL
                               /\ Parsable(hash'[s]) => hash'[s].user = u
    <2>1. index'[u][s] # 0
      BY <1>1
    <2>. QED  BY <2>1, IndexChanges
  <1>. QED  BY <1>3, <1>4, <1>5

LEMMA LiveIsIndexedStep ==
    ASSUME IInv, [Next]_vars
    PROVE  LiveIsIndexed'
  <1>0. /\ hash \in [SessionIDs -> Hashes] /\ index \in [Users -> [SessionIDs -> Times]]
        /\ LiveIsIndexed /\ orphaned \subseteq orphaned' /\ opened \subseteq SessionIDs
    BY SessionsOnlyDie DEF IInv, TypeOK
  <1>1. SUFFICES ASSUME NEW s \in SessionIDs, Usable(hash'[s])
                 PROVE  index'[hash'[s].user][s] > 0 \/ s \in orphaned'
    BY DEF LiveIsIndexed, Live, Members
  <1>2. ASSUME NEW p \in Handlers, NEW w \in Users, req[p] \in Requests,
               index' = [index EXCEPT ![w][s] = req[p].at + RefreshTTL]
        PROVE  index'[w][s] > 0
    <2>1. index'[w][s] = req[p].at + RefreshTTL
      BY <1>0, <1>2
    <2>2. req[p].at \in 0..MaxTime
      BY <1>2 DEF Requests
    <2>. QED  BY <2>1, <2>2, TimeAssumption
  <1>3. ASSUME NEW p \in Handlers, Add(p), req[p].sid = s
        PROVE  index'[hash'[s].user][s] > 0
    <2>1. /\ req[p].user \in Users
          /\ hash'[s] = [user |-> req[p].user, token |-> 1, expires |-> req[p].at + RefreshTTL,
                         revoked |-> FALSE, deadline |-> clock + req[p].ttl]
          /\ index' = [index EXCEPT ![req[p].user][s] = req[p].at + RefreshTTL]
      BY <1>3, AddStores
    <2>2. hash'[s].user = req[p].user
      BY <2>1
    <2>3. req[p] \in Requests
      BY DEF IInv, TypeOK
    <2>. QED  BY <1>2, <2>1, <2>2, <2>3
  <1>4. ASSUME NEW p \in Handlers, Exec(p), req[p].sid = s
        PROVE  index'[hash'[s].user][s] > 0
    <2>1. /\ hash[s].user \in Users
          /\ hash'[s] = [user |-> hash[s].user, token |-> req[p].next,
                         expires |-> req[p].at + RefreshTTL,
                         revoked |-> FALSE, deadline |-> clock + req[p].ttl]
          /\ index' = [index EXCEPT ![hash[s].user][s] = req[p].at + RefreshTTL]
      BY <1>4, ExecStores
    <2>2. hash'[s].user = hash[s].user
      BY <2>1
    <2>3. req[p] \in Requests
      BY DEF IInv, TypeOK
    <2>. QED  BY <1>2, <2>1, <2>2, <2>3
  <1>5. CASE hash'[s] = hash[s]
    <2>1. /\ hash[s].user \in Users /\ hash'[s].user = hash[s].user
          /\ index[hash[s].user][s] > 0 \/ s \in orphaned
      BY <1>0, <1>1, <1>5 DEF Usable, Parsable, Hashes, LiveIsIndexed, Live, Members
    <2>2. \/ index'[hash[s].user][s] = index[hash[s].user][s]
          \/ s \in orphaned'
          \/ \E p \in Handlers : (Add(p) \/ Exec(p)) /\ req[p].sid = s
      BY <1>1, <2>1, IndexChanges DEF Live
    <2>. QED  BY <1>0, <1>3, <1>4, <2>1, <2>2
  <1>6. hash'[s] # Absent
    BY <1>1 DEF Usable, Parsable, Absent
  <1>7. hash'[s] # [hash[s] EXCEPT !.revoked = TRUE]
    BY <1>0, <1>1 DEF Usable, Hashes
  <1>. QED  BY <1>3, <1>4, <1>5, <1>6, <1>7, HashChanges

LEMMA TTLCoversExpiryStep ==
    ASSUME IInv, [Next]_vars
    PROVE  TTLCoversExpiry'
  <1>0. /\ hash \in [SessionIDs -> Hashes] /\ TTLCoversExpiry
        /\ \A p \in Handlers : LocalsFit(pc[p], req[p], clock)
    BY DEF IInv, TypeOK, LocalsOK
  <1>1. SUFFICES ASSUME NEW s \in SessionIDs, Parsable(hash'[s])
                 PROVE  /\ hash'[s].expires <= hash'[s].deadline
                        /\ hash'[s].deadline <= hash'[s].expires + MaxLatency
    BY DEF TTLCoversExpiry
  <1>2. CASE hash'[s] = hash[s]
    BY <1>0, <1>1, <1>2 DEF TTLCoversExpiry
  <1>3. CASE hash'[s] = Absent
    BY <1>1, <1>3 DEF Parsable, Absent
  <1>4. CASE hash'[s] = [hash[s] EXCEPT !.revoked = TRUE]
    <2>1. /\ hash'[s].user = hash[s].user /\ hash'[s].expires = hash[s].expires
          /\ hash'[s].deadline = hash[s].deadline
      BY <1>0, <1>4 DEF Hashes
    <2>. QED  BY <1>0, <1>1, <2>1 DEF TTLCoversExpiry, Parsable
  <1>5. ASSUME NEW p \in Handlers, Add(p) \/ Exec(p), req[p].sid = s
        PROVE  /\ hash'[s].expires <= hash'[s].deadline
               /\ hash'[s].deadline <= hash'[s].expires + MaxLatency
    <2>1. CASE Add(p)
      <3>1. hash'[s] = [user |-> req[p].user, token |-> 1, expires |-> req[p].at + RefreshTTL,
                        revoked |-> FALSE, deadline |-> clock + req[p].ttl]
        BY <1>5, <2>1, AddStores
      <3>2. hash'[s].expires = req[p].at + RefreshTTL /\ hash'[s].deadline = clock + req[p].ttl
        BY <3>1
      <3>. QED  BY <1>0, <2>1, <3>2 DEF Add, LocalsFit, LoginLabels
    <2>2. CASE Exec(p)
      <3>1. hash'[s] = [user |-> hash[s].user, token |-> req[p].next,
                        expires |-> req[p].at + RefreshTTL,
                        revoked |-> FALSE, deadline |-> clock + req[p].ttl]
        BY <1>5, <2>2, ExecStores
      <3>2. hash'[s].expires = req[p].at + RefreshTTL /\ hash'[s].deadline = clock + req[p].ttl
        BY <3>1
      <3>. QED  BY <1>0, <2>2, <3>2 DEF Exec, LocalsFit
    <2>. QED  BY <1>5, <2>1, <2>2
  <1>. QED  BY <1>2, <1>3, <1>4, <1>5, HashChanges

-----------------------------------------------------------------------------
(* The invariant.                                                          *)

LEMMA InitIInv ==
    Init => IInv
  <1>. SUFFICES ASSUME Init
                PROVE  IInv
    OBVIOUS
  <1>. USE DEF Init
  <1>1. TypeOK
    <2>1. 0 \in Times /\ Never \in Times \union {Never} /\ 1 \in 1..MaxTime /\ 0 \in 0..MaxTokens
      BY TimeAssumption DEF Times
    <2>2. "idle" \in Labels
      BY DEF Labels
    <2>. QED  BY <2>1, <2>2, ConstantsTyped DEF TypeOK
  <1>2. LocalsOK
    BY DEF LocalsOK, LocalsFit, LoginLabels, RefreshLabels, LogoutLabels
  <1>3. FreshOK
    BY DEF FreshOK, FreshStore, FreshFit, LoginLabels, RefreshLabels, LogoutLabels, NoRequest
  <1>4. TokensOK
    BY DEF TokensOK, TokensFit, EachTokenExchangedOnce, Absent
  <1>5. OwnersOK
    BY DEF OwnersOK, OwnersFit
  <1>6. IndexAgrees /\ LiveIsIndexed /\ TTLCoversExpiry
    BY DEF IndexAgrees, LiveIsIndexed, TTLCoversExpiry, Live, Usable, Parsable, Absent, Members
  <1>. QED  BY <1>1, <1>2, <1>3, <1>4, <1>5, <1>6 DEF IInv

LEMMA StepIInv ==
    IInv /\ [Next]_vars => IInv'
  BY TypeOKStep, LocalsOKStep, FreshOKStep, TokensOKStep, OwnersOKStep, IndexAgreesStep,
     LiveIsIndexedStep, TTLCoversExpiryStep DEF IInv

LEMMA Invariance ==
    Spec => []IInv
  BY InitIInv, StepIInv, PTL DEF Spec

-----------------------------------------------------------------------------
(* The session limit.  A login that has found room may be kept waiting, so  *)
(* it counts like a session until it adds one.                             *)

Kept(u) == SessionsOf(u) \ orphaned

Adding(u) == {p \in Handlers : pc[p] = "add" /\ req[p].user = u}

RoomOK ==
    \A u \in Users :
        Cardinality(Kept(u)) + Cardinality(Adding(u))
            <= MaxSessionsPerUser + Cardinality(Handlers) - 1

LEMMA CountShrinks ==
    ASSUME NEW K, IsFiniteSet(K), NEW A, IsFiniteSet(A), NEW L, L \subseteq K, NEW B, B \subseteq A
    PROVE  Cardinality(L) + Cardinality(B) <= Cardinality(K) + Cardinality(A)
  <1>1. Cardinality(L) <= Cardinality(K) /\ Cardinality(B) <= Cardinality(A)
    BY FS_Subset
  <1>2. /\ Cardinality(K) \in Nat /\ Cardinality(A) \in Nat
        /\ Cardinality(L) \in Nat /\ Cardinality(B) \in Nat
    BY FS_Subset, FS_CardinalityType
  <1>. QED  BY <1>1, <1>2

LEMMA CountMoves ==
    ASSUME NEW K, IsFiniteSet(K), NEW A, IsFiniteSet(A), NEW s, NEW p \in A,
           NEW L, L \subseteq K \union {s}, NEW B, B \subseteq A \ {p}
    PROVE  Cardinality(L) + Cardinality(B) <= Cardinality(K) + Cardinality(A)
  <1>1. /\ IsFiniteSet(K \union {s})
        /\ Cardinality(K \union {s}) <= Cardinality(K) + 1
    <2>1. Cardinality(K) \in Nat
      BY FS_CardinalityType
    <2>2. /\ IsFiniteSet(K \union {s})
          /\ Cardinality(K \union {s}) = IF s \in K THEN Cardinality(K) ELSE Cardinality(K) + 1
      BY FS_AddElement
    <2>. QED  BY <2>1, <2>2
  <1>2. IsFiniteSet(A \ {p}) /\ Cardinality(A \ {p}) = Cardinality(A) - 1
    BY FS_RemoveElement
  <1>3. Cardinality(L) + Cardinality(B) <= Cardinality(K \union {s}) + Cardinality(A \ {p})
    BY <1>1, <1>2, CountShrinks
  <1>4. /\ Cardinality(K \union {s}) \in Nat /\ Cardinality(A \ {p}) \in Nat
        /\ Cardinality(K) \in Nat /\ Cardinality(A) \in Nat
        /\ Cardinality(L) \in Nat /\ Cardinality(B) \in Nat
    BY <1>1, <1>2, FS_Subset, FS_CardinalityType
  <1>. QED  BY <1>1, <1>2, <1>3, <1>4

LEMMA CountFits ==
    ASSUME NEW K, NEW M, IsFiniteSet(M), K \subseteq M, NEW A, A \subseteq Handlers,
           Cardinality(M) < MaxSessionsPerUser
    PROVE  Cardinality(K) + Cardinality(A) <= MaxSessionsPerUser + Cardinality(Handlers) - 1
  <1>1. Cardinality(K) + Cardinality(A) <= Cardinality(M) + Cardinality(Handlers)
    BY NamesAssumption, CountShrinks
  <1>2. /\ Cardinality(K) \in Nat /\ Cardinality(A) \in Nat
        /\ Cardinality(M) \in Nat /\ Cardinality(Handlers) \in Nat
    BY NamesAssumption, FS_Subset, FS_CardinalityType
  <1>. QED  BY <1>1, <1>2, LimitAssumption

\* The sets that are counted are finite, and a kept session is indexed.
LEMMA KeptFacts ==
    ASSUME IInv, NEW u \in Users
    PROVE  /\ IsFiniteSet(Kept(u)) /\ IsFiniteSet(Adding(u)) /\ IsFiniteSet(Members(u))
           /\ Kept(u) \subseteq Members(u)
           /\ SessionsOf(u) \subseteq opened
  <1>1. Kept(u) \subseteq SessionIDs /\ Adding(u) \subseteq Handlers /\ Members(u) \subseteq SessionIDs
    BY DEF Kept, SessionsOf, Adding, Members
  <1>2. IsFiniteSet(Kept(u)) /\ IsFiniteSet(Adding(u)) /\ IsFiniteSet(Members(u))
    BY <1>1, NamesAssumption, FS_Subset
  <1>3. \A s \in SessionsOf(u) : Live(s) /\ hash[s].user = u
    BY NamesAssumption DEF SessionsOf, Live, Usable, Parsable
  <1>4. Kept(u) \subseteq Members(u)
    BY <1>3 DEF Kept, IInv, LiveIsIndexed, SessionsOf
  <1>5. SessionsOf(u) \subseteq opened
    BY NamesAssumption DEF SessionsOf, IInv, FreshOK, FreshStore, Absent
  <1>. QED  BY <1>2, <1>4, <1>5

\* Only Add opens a session, and only for its own user.
LEMMA KeptStep ==
    ASSUME IInv, [Next]_vars, NEW u \in Users
    PROVE  \/ Kept(u)' \subseteq Kept(u)
           \/ \E p \in Handlers :
                 Add(p) /\ req[p].user = u /\ Kept(u)' \subseteq Kept(u) \union {req[p].sid}
  <1>1. \A s \in opened : s \in SessionsOf(u)' => s \in SessionsOf(u)
    <2>1. ASSUME NEW s \in opened, s \in SessionIDs, hash'[s].user = u, ~hash'[s].revoked
          PROVE  hash[s].user = u /\ ~hash[s].revoked
      <3>1. Live(s)' /\ Parsable(hash'[s])
        BY <2>1, NamesAssumption DEF Live, Usable, Parsable
      <3>2. hash[s].user = u
        BY <2>1, <3>1, SessionsOnlyDie
      <3>3. Live(s)
        BY <3>1, SessionsOnlyDie
      <3>. QED  BY <3>2, <3>3 DEF Live, Usable
    <2>. QED  BY <2>1 DEF SessionsOf
  <1>2. SessionsOf(u)' \subseteq opened'
    <2>1. IInv'
      BY StepIInv
    <2>2. \A s \in SessionIDs : s \notin opened' => hash'[s] = Absent
      BY <2>1 DEF IInv, FreshOK, FreshStore
    <2>. QED  BY <2>2, NamesAssumption DEF SessionsOf, Absent
  <1>3. orphaned \subseteq orphaned'
    BY SessionsOnlyDie
  <1>4. CASE opened' = opened
    BY <1>1, <1>2, <1>3, <1>4 DEF Kept
  <1>5. ASSUME NEW p \in Handlers, Add(p)
        PROVE  \/ Kept(u)' \subseteq Kept(u)
               \/ req[p].user = u /\ Kept(u)' \subseteq Kept(u) \union {req[p].sid}
    <2>1. opened' = opened \union {req[p].sid}
      BY <1>5 DEF Add
    <2>2. Kept(u)' \subseteq Kept(u) \union {req[p].sid}
      BY <1>1, <1>2, <1>3, <2>1 DEF Kept
    <2>3. CASE req[p].user # u
      <3>1. req[p].sid \in SessionIDs /\ hash \in [SessionIDs -> Hashes]
        BY <1>5, WriterNames DEF Writes, IInv, TypeOK
      <3>2. hash'[req[p].sid].user = req[p].user
        BY <1>5, <3>1 DEF Add, Hashes
      <3>3. req[p].sid \notin SessionsOf(u)'
        BY <2>3, <3>2 DEF SessionsOf
      <3>. QED  BY <2>2, <3>3 DEF Kept
    <2>. QED  BY <2>2, <2>3
  <1>6. opened' = opened \/ \E p \in Handlers : Add(p)
    BY StepKinds DEF Writes, Purge, Evict, Unindex, Exec, RevokeSession, RevokeAll, Tick, history
  <1>. QED  BY <1>4, <1>5, <1>6

\* A login comes to Add from Card or Oldest only, and leaves it with its step.
LEMMA AddingStep ==
    ASSUME IInv, [Next]_vars, NEW u \in Users
    PROVE  \/ Adding(u)' \subseteq Adding(u)
           \/ \E p \in Handlers :
                 /\ Card(p) \/ Oldest(p)
                 /\ req[p].user = u
                 /\ Cardinality(Members(u)) < MaxSessionsPerUser
                 /\ UNCHANGED <<hash, orphaned>>
  <1>1. \A p \in Handlers : pc[p] \in Labels
    BY DEF IInv, TypeOK
  <1>2. ASSUME NEW p \in Handlers, NEW label, NEW r, Goto(p, label, r), label # "add"
        PROVE  Adding(u)' \subseteq Adding(u)
    BY <1>2 DEF Goto, Adding, IInv, TypeOK
  <1>3. ASSUME NEW p \in Handlers, Goto(p, "add", req[p])
        PROVE  Adding(u)' \subseteq Adding(u) \/ req[p].user = u
    BY <1>3 DEF Goto, Adding, IInv, TypeOK
  <1>4. ASSUME NEW p \in Handlers, Card(p)
        PROVE  \/ Adding(u)' \subseteq Adding(u)
               \/ /\ req[p].user = u /\ Cardinality(Members(u)) < MaxSessionsPerUser
                  /\ UNCHANGED <<hash, orphaned>>
    BY <1>2, <1>3, <1>4 DEF Card, store, history
  <1>5. ASSUME NEW p \in Handlers, Oldest(p)
        PROVE  \/ Adding(u)' \subseteq Adding(u)
               \/ /\ req[p].user = u /\ Cardinality(Members(u)) < MaxSessionsPerUser
                  /\ UNCHANGED <<hash, orphaned>>
    <2>1. Members(u) = {} => Cardinality(Members(u)) < MaxSessionsPerUser
      BY FS_EmptySet, LimitAssumption
    <2>. QED  BY <1>2, <1>3, <1>5, <2>1 DEF Oldest, store, history
  <1>6. ASSUME NEW p \in Handlers, Begin(p)
        PROVE  Adding(u)' \subseteq Adding(u)
    BY <1>2, <1>6 DEF Begin, BeginLogin, BeginRefresh, BeginLogout, BeginLogoutAll
  <1>7. ASSUME NEW p \in Handlers, Step(p) \/ Abort(p), ~Card(p), ~Oldest(p)
        PROVE  Adding(u)' \subseteq Adding(u)
    <2>1. Finish(p) => Adding(u)' \subseteq Adding(u)
      BY <1>2 DEF Finish
    <2>. QED
      BY <1>2, <1>7, <2>1 DEF Step, Abort, Scan, Purge, Evict, Unindex, Add, RefreshGet, Watch,
         RefreshRefused, Exec, ExecFailed, LogoutGet, RevokeGet, LogoutRefused, RevokeSession,
         RangeAll, RevokeAll
  <1>8. CASE Tick \/ UNCHANGED vars
    BY <1>8 DEF Tick, vars, Adding
  <1>. QED  BY <1>4, <1>5, <1>6, <1>7, <1>8 DEF Next

LEMMA RoomOKStep ==
    IInv /\ RoomOK /\ [Next]_vars => RoomOK'
  <1>. SUFFICES ASSUME IInv, RoomOK, [Next]_vars, NEW u \in Users
                PROVE  Cardinality(Kept(u)') + Cardinality(Adding(u)')
                          <= MaxSessionsPerUser + Cardinality(Handlers) - 1
    BY DEF RoomOK
  <1>1. IsFiniteSet(Kept(u)) /\ IsFiniteSet(Adding(u)) /\ IsFiniteSet(Members(u)) /\ Kept(u) \subseteq Members(u)
    BY KeptFacts
  <1>2. Adding(u)' \subseteq Handlers
    BY DEF Adding
  <1>3. Cardinality(Kept(u)) + Cardinality(Adding(u)) <= MaxSessionsPerUser + Cardinality(Handlers) - 1
    BY DEF RoomOK
  <1>4. IsFiniteSet(Kept(u)') /\ IsFiniteSet(Adding(u)')
    BY StepIInv, <1>2, NamesAssumption, FS_Subset DEF Kept, SessionsOf
  <1>5. /\ Cardinality(Kept(u)) \in Nat /\ Cardinality(Adding(u)) \in Nat /\ Cardinality(Handlers) \in Nat
        /\ Cardinality(Kept(u)') \in Nat /\ Cardinality(Adding(u)') \in Nat
    BY <1>1, <1>4, NamesAssumption, FS_CardinalityType
  <1>6. CASE Kept(u)' \subseteq Kept(u) /\ Adding(u)' \subseteq Adding(u)
    <2>1. Cardinality(Kept(u)') + Cardinality(Adding(u)') <= Cardinality(Kept(u)) + Cardinality(Adding(u))
      BY <1>1, <1>6, CountShrinks
    <2>. QED  BY <1>3, <1>5, <2>1, LimitAssumption
  <1>7. ASSUME NEW p \in Handlers, Cardinality(Members(u)) < MaxSessionsPerUser, UNCHANGED <<hash, orphaned>>
        PROVE  Cardinality(Kept(u)') + Cardinality(Adding(u)')
                  <= MaxSessionsPerUser + Cardinality(Handlers) - 1
    <2>1. Kept(u)' = Kept(u)
      BY <1>7 DEF Kept, SessionsOf
    <2>. QED  BY <1>1, <1>2, <1>7, <2>1, CountFits
  <1>8. ASSUME NEW p \in Handlers, Add(p), req[p].user = u, Kept(u)' \subseteq Kept(u) \union {req[p].sid}
        PROVE  Cardinality(Kept(u)') + Cardinality(Adding(u)')
                  <= MaxSessionsPerUser + Cardinality(Handlers) - 1
    <2>1. p \in Adding(u) /\ Adding(u)' \subseteq Adding(u) \ {p}
      BY <1>8 DEF Add, Finish, Goto, Adding, IInv, TypeOK
    <2>2. Cardinality(Kept(u)') + Cardinality(Adding(u)') <= Cardinality(Kept(u)) + Cardinality(Adding(u))
      BY <1>1, <1>8, <2>1, CountMoves
    <2>. QED  BY <1>3, <1>5, <2>2, LimitAssumption
  <1>. QED  BY <1>6, <1>7, <1>8, KeptStep, AddingStep

LEMMA InitRoomOK ==
    Init => RoomOK
  <1>. SUFFICES ASSUME Init, NEW u \in Users
                PROVE  Cardinality(Kept(u)) + Cardinality(Adding(u))
                          <= MaxSessionsPerUser + Cardinality(Handlers) - 1
    BY DEF RoomOK
  <1>1. Kept(u) = {} /\ Adding(u) = {}
    BY NamesAssumption DEF Init, Kept, SessionsOf, Adding, Absent
  <1>. QED  BY <1>1, FS_EmptySet, FS_CardinalityType, NamesAssumption, LimitAssumption

-----------------------------------------------------------------------------
(* The eviction loop.  What a login has ahead of it are the members of the  *)
(* index that it may still have to evict, four commands for each, and the   *)
(* rest of its turn.                                                        *)

Rank == [scan |-> 5, purge |-> 4, card |-> 3, oldest |-> 2, evict |-> 5, unindex |-> 4, add |-> 0]

Ahead(p) ==
    Members(req[p].user) \ (IF pc[p] \in {"evict", "unindex"} THEN {req[p].victim} ELSE {})

Work(p) == 4 * Cardinality(Ahead(p)) + Rank[pc[p]]

\* A login's step leaves it less to do, and no other step leaves it more, unless
\* a session is stored or a token exchanged.
Advances(p) ==
    \/ pc'[p] \notin LoginLabels
    \/ opened' # opened \/ exchanged' # exchanged
    \/ /\ Work(p)' <= Work(p)
       /\ Step(p) => Work(p)' < Work(p)

\* What the guards of a login's next command ask for is there.
CanGoOn(p) ==
    /\ pc[p] = "scan" => req[p].at + RefreshTTL - clock > 0
    /\ pc[p] = "oldest" => Members(req[p].user) = {} \/ OldestMembers(req[p].user) # {}

LEMMA LessWork ==
    ASSUME NEW A, IsFiniteSet(A), NEW B, B \subseteq A, NEW m \in Nat, NEW n \in Nat
    PROVE  /\ n <= m => 4 * Cardinality(B) + n <= 4 * Cardinality(A) + m
           /\ n < m => 4 * Cardinality(B) + n < 4 * Cardinality(A) + m
  <1>. DEFINE a == Cardinality(A)
              b == Cardinality(B)
  <1>1. a \in Nat /\ b \in Nat /\ b <= a
    BY FS_Subset, FS_CardinalityType
  <1>. HIDE DEF a, b
  <1>2. /\ n <= m => 4 * b + n <= 4 * a + m
        /\ n < m => 4 * b + n < 4 * a + m
    BY <1>1
  <1>. QED  BY <1>2 DEF a, b

\* An exchange is a new one: the token a live session has was never exchanged.
LEMMA ExchangeIsNew ==
    ASSUME IInv, NEW p \in Handlers, Exec(p)
    PROVE  exchanged' # exchanged
  <1>. DEFINE r == req[p]
              new == <<r.sid, r.token, r.next>>
  <1>1. exchanged' = exchanged \union {new}
    BY ExecStores
  <1>2. Parsable(hash[r.sid]) /\ hash[r.sid].token = r.token
    BY ExecStores DEF Usable
  <1>3. r.token \in Nat /\ r.next \in Nat /\ r.token < r.next
    BY DEF IInv, TokensOK, TokensFit, LocalsOK, LocalsFit, Exec, RefreshLabels, Tokens
  <1>4. new \notin exchanged
    <2>1. ASSUME new \in exchanged
          PROVE  FALSE
      <3>1. new[3] <= hash[new[1]].token
        BY <1>2, <2>1 DEF IInv, TokensOK
      <3>2. r.next <= r.token
        BY <1>2, <3>1
      <3>. QED  BY <1>3, <3>2
    <2>. QED  BY <2>1
  <1>. QED  BY <1>1, <1>4

\* Only Create and Rotate put a member into an index.
LEMMA MembersShrink ==
    ASSUME IInv, [Next]_vars, opened' = opened, exchanged' = exchanged, NEW u \in Users
    PROVE  Members(u)' \subseteq Members(u)
  <1>1. \A p \in Handlers : ~Add(p) /\ ~Exec(p)
    BY AddStores, ExchangeIsNew
  <1>. SUFFICES ASSUME NEW s \in SessionIDs, index'[u][s] > 0
                PROVE  index[u][s] > 0
    BY DEF Members
  <1>. QED  BY <1>1, IndexChanges

\* What a command of a login does to what is ahead of it.
LEMMA LoginMoves ==
    ASSUME IInv, [Next]_vars, opened' = opened, exchanged' = exchanged, NEW q \in Handlers,
           pc[q] \in LoginLabels, pc'[q] \in LoginLabels, Step(q)
    PROVE  \/ Ahead(q)' \subseteq Ahead(q) /\ Rank[pc'[q]] < Rank[pc[q]]
           \/ /\ pc[q] = "oldest" /\ pc'[q] = "evict"
              /\ \E v \in Ahead(q) : Ahead(q)' = Ahead(q) \ {v}
  <1>0. /\ pc \in [Handlers -> Labels] /\ req \in [Handlers -> Requests]
        /\ index \in [Users -> [SessionIDs -> Times]]
        /\ req[q].user \in Users
        /\ pc[q] \in {"evict", "unindex"} => req[q].victim \in SessionIDs
    BY DEF IInv, TypeOK, LocalsOK, LocalsFit
  <1>. PICK u \in Users : u = req[q].user
    BY <1>0
  <1>1. Members(u)' \subseteq Members(u)
    BY MembersShrink
  <1>2. req[q] \in Requests
    BY <1>0
  <1>3. CASE Scan(q)
    <2>1. pc[q] = "scan" /\ pc'[q] \in {"card", "purge"} /\ req'[q].user = u
      BY <1>0, <1>2, <1>3 DEF Scan, Goto, Requests
    <2>. QED  BY <1>1, <2>1 DEF Ahead, Rank
  <1>4. CASE Purge(q)
    <2>1. pc[q] = "purge" /\ pc'[q] = "card" /\ req'[q].user = u
      BY <1>0, <1>2, <1>4 DEF Purge, Goto, Requests
    <2>. QED  BY <1>1, <2>1 DEF Ahead, Rank
  <1>5. CASE Card(q)
    <2>1. pc[q] = "card" /\ pc'[q] \in {"add", "oldest"} /\ req'[q].user = u
      BY <1>0, <1>5 DEF Card, Goto
    <2>. QED  BY <1>1, <2>1 DEF Ahead, Rank
  <1>6. CASE Oldest(q)
    <2>1. pc[q] = "oldest" /\ index' = index
      BY <1>6 DEF Oldest, store
    <2>2. CASE Members(u) = {} /\ Goto(q, "add", req[q])
      <3>1. pc'[q] = "add" /\ req'[q].user = u
        BY <1>0, <2>2 DEF Goto
      <3>. QED  BY <1>1, <2>1, <3>1 DEF Ahead, Rank
    <2>3. ASSUME NEW v \in OldestMembers(u), Goto(q, "evict", [req[q] EXCEPT !.victim = v])
          PROVE  \E x \in Ahead(q) : Ahead(q)' = Ahead(q) \ {x} /\ pc'[q] = "evict"
      <3>1. pc'[q] = "evict" /\ req'[q].user = u /\ req'[q].victim = v
        BY <1>0, <1>2, <2>3 DEF Goto, Requests
      <3>2. v \in Members(u) /\ Members(u)' = Members(u)
        BY <2>1, <2>3 DEF OldestMembers, Members
      <3>3. Ahead(q) = Members(u) /\ Ahead(q)' = Members(u) \ {v}
        BY <2>1, <3>1, <3>2 DEF Ahead
      <3>. QED  BY <3>1, <3>2, <3>3
    <2>. QED  BY <1>6, <2>1, <2>2, <2>3 DEF Oldest
  <1>7. CASE Evict(q)
    <2>1. /\ pc[q] = "evict" /\ pc'[q] = "unindex" /\ req'[q] = req[q]
      BY <1>0, <1>7 DEF Evict, Goto
    <2>. QED  BY <1>1, <2>1 DEF Ahead, Rank
  <1>8. CASE Unindex(q)
    <2>1. pc[q] = "unindex" /\ pc'[q] = "card" /\ req'[q].user = u
      BY <1>0, <1>2, <1>8 DEF Unindex, Goto, Requests
    <2>2. Members(u)' \subseteq Members(u) \ {req[q].victim}
      BY <1>0, <1>1, <1>8 DEF Unindex, RemoveFromIndex, Members
    <2>. QED  BY <2>1, <2>2 DEF Ahead, Rank
  <1>9. ~Add(q)
    BY AddStores
  <1>. QED
    BY <1>3, <1>4, <1>5, <1>6, <1>7, <1>8, <1>9
    DEF Step, LoginLabels, RefreshGet, Watch, RefreshRefused, Exec, ExecFailed, LogoutGet, RevokeGet,
        LogoutRefused, RevokeSession, RangeAll, RevokeAll

LEMMA LoginAdvances ==
    ASSUME IInv, [Next]_vars, NEW q \in Handlers, pc[q] \in LoginLabels
    PROVE  Advances(q)
  <1>. SUFFICES ASSUME pc'[q] \in LoginLabels, opened' = opened, exchanged' = exchanged
                PROVE  Work(q)' <= Work(q) /\ (Step(q) => Work(q)' < Work(q))
    BY DEF Advances
  <1>0. /\ IsFiniteSet(Ahead(q)) /\ Cardinality(Ahead(q)) \in Nat
        /\ Rank[pc[q]] \in Nat /\ Rank[pc'[q]] \in Nat
    <2>1. Ahead(q) \subseteq SessionIDs
      BY DEF Ahead, Members
    <2>2. IsFiniteSet(Ahead(q))
      BY <2>1, NamesAssumption, FS_Subset
    <2>. QED  BY <2>2, FS_CardinalityType DEF LoginLabels, Rank
  <1>1. CASE Ahead(q)' \subseteq Ahead(q) /\ Rank[pc'[q]] < Rank[pc[q]]
    <2>1. Work(q)' < Work(q)
      BY <1>0, <1>1, LessWork DEF Work
    <2>2. Rank[pc'[q]] <= Rank[pc[q]]
      BY <1>0, <1>1
    <2>3. Work(q)' <= Work(q)
      BY <1>0, <1>1, <2>2, LessWork DEF Work
    <2>. QED  BY <2>1, <2>3
  <1>2. CASE /\ pc[q] = "oldest" /\ pc'[q] = "evict"
             /\ \E v \in Ahead(q) : Ahead(q)' = Ahead(q) \ {v}
    <2>1. PICK v \in Ahead(q) : Ahead(q)' = Ahead(q) \ {v}
      BY <1>2
    <2>2. Cardinality(Ahead(q)') = Cardinality(Ahead(q)) - 1
      BY <1>0, <2>1, FS_RemoveElement
    <2>3. Work(q) = 4 * Cardinality(Ahead(q)) + 2 /\ Work(q)' = 4 * Cardinality(Ahead(q)') + 5
      BY <1>2 DEF Work, Rank
    <2>. QED  BY <1>0, <2>2, <2>3
  <1>3. CASE ~Step(q)
    <2>1. pc'[q] = pc[q] /\ req'[q] = req[q]
      <3>1. pc[q] # "idle"
        BY DEF LoginLabels
      <3>2. ~Begin(q)
        BY <3>1 DEF Begin, BeginLogin, BeginRefresh, BeginLogout, BeginLogoutAll
      <3>3. ~Abort(q)
        BY DEF Abort, Finish, Goto, LoginLabels, IInv, TypeOK
      <3>4. Tick \/ UNCHANGED vars => pc'[q] = pc[q] /\ req'[q] = req[q]
        BY DEF Tick, vars
      <3>. QED  BY <1>3, <3>2, <3>3, <3>4, OthersWait DEF Next
    <2>2. req[q].user \in Users
      BY DEF IInv, LocalsOK, LocalsFit
    <2>3. Ahead(q)' \subseteq Ahead(q)
      BY <2>1, <2>2, MembersShrink DEF Ahead
    <2>4. Rank[pc'[q]] <= Rank[pc[q]]
      BY <1>0, <2>1
    <2>5. Work(q)' <= Work(q)
      BY <1>0, <2>3, <2>4, LessWork DEF Work
    <2>. QED  BY <1>3, <2>5
  <1>. QED  BY <1>1, <1>2, <1>3, LoginMoves

LEMMA ExchangesStay ==
    ASSUME IInv, [Next]_vars
    PROVE  exchanged \subseteq exchanged'
  <1>1. ASSUME NEW p \in Handlers, Writes(p)
        PROVE  exchanged \subseteq exchanged'
    BY <1>1, ExecStores DEF Writes, Purge, Evict, Unindex, Add, RevokeSession, RevokeAll, history
  <1>. QED  BY <1>1, StepKinds DEF Tick

\* A set of sessions has one that expires first.
LEMMA FirstToExpire ==
    ASSUME IInv, NEW u \in Users, Members(u) # {}
    PROVE  OldestMembers(u) # {}
  <1>. DEFINE scores == {index[u][s] : s \in Members(u)}
  <1>1. scores \subseteq Nat /\ scores # {}
    <2>1. \A s \in Members(u) : index[u][s] \in Times
      BY DEF IInv, TypeOK, Members
    <2>2. Times \subseteq Nat
      BY TimeAssumption DEF Times
    <2>. QED  BY <2>1, <2>2
  <1>2. PICK n \in scores : \A m \in scores : n <= m
    <2>. HIDE DEF scores
    <2>1. IsWellFoundedOn(OpToRel(<, Nat), Nat)
      BY NatLessThanWellFounded
    <2>2. PICK n \in scores : \A m \in scores : ~ (<<m, n>> \in OpToRel(<, Nat))
      BY <1>1, <2>1, WFMin
    <2>3. \A m \in scores : ~ (m < n)
      BY <1>1, <2>2 DEF OpToRel
    <2>. QED  BY <1>1, <2>3
  <1>3. PICK s \in Members(u) : index[u][s] = n
    OBVIOUS
  <1>. QED  BY <1>2, <1>3 DEF OldestMembers

-----------------------------------------------------------------------------
(* The theorems.                                                           *)

\* Every variable of the Redis store model keeps its type, and so does every
\* local of a handler: no step computes a negative TTL or indexes a session
\* under no user.
THEOREM TypeCorrect ==
    Spec => []TypeOK
  BY Invariance, PTL DEF IInv

\* Service.Refresh over Rotate: a refresh token buys at most one successor,
\* for any number of handlers, sessions and tokens.
THEOREM TokensExchangedOnce ==
    Spec => []EachTokenExchangedOnce
  BY Invariance, PTL DEF IInv, TokensOK

\* Create, Rotate and both revocations keep every entry of a user's index true
\* of the session it names.
THEOREM IndexIsTrue ==
    Spec => []IndexAgrees
  BY Invariance, PTL DEF IInv

\* Every session that Refresh would accept is in its user's index, unless the
\* index key itself expired: what logout-all and the limit rely on.
THEOREM IndexIsComplete ==
    Spec => []LiveIsIndexed
  BY Invariance, PTL DEF IInv

\* EXPIRE in Create and in Rotate: a session's key lives at least until the
\* expiry stored in it, and at most one request's latency longer.
THEOREM KeysOutliveSessions ==
    Spec => []TTLCoversExpiry
  BY Invariance, PTL DEF IInv

\* The eviction of Create: concurrent logins exceed the limit by at most one
\* session for each of the others, however many there are.
THEOREM OvershootIsBounded ==
    Spec => []BoundedOvershoot
  <1>1. Spec => []RoomOK
    BY InitRoomOK, RoomOKStep, Invariance, PTL DEF Spec
  <1>2. IInv /\ RoomOK => BoundedOvershoot
    <2>. SUFFICES ASSUME IInv, RoomOK, NEW u \in Users
                  PROVE  Cardinality(Kept(u)) <= MaxSessionsPerUser + Cardinality(Handlers) - 1
      BY DEF BoundedOvershoot, Kept
    <2>1. /\ Cardinality(Kept(u)) \in Nat /\ Cardinality(Adding(u)) \in Nat
          /\ Cardinality(Handlers) \in Nat
      BY KeptFacts, NamesAssumption, FS_CardinalityType
    <2>. QED  BY <2>1, LimitAssumption DEF RoomOK
  <1>. QED  BY <1>1, <1>2, Invariance, PTL

\* The eviction loop of Create: every command brings a login nearer to its end,
\* and competing logins cannot put it off but by storing a session of theirs,
\* or a refresh by exchanging a token; both are new each time.
THEOREM LoginsAdvance ==
    Spec => [][/\ opened \subseteq opened' /\ exchanged \subseteq exchanged'
               /\ \A p \in Handlers : pc[p] \in LoginLabels => Advances(p)]_vars
  <1>1. IInv /\ [Next]_vars =>
           [/\ opened \subseteq opened' /\ exchanged \subseteq exchanged'
            /\ \A p \in Handlers : pc[p] \in LoginLabels => Advances(p)]_vars
    BY LoginAdvances, SessionsOnlyDie, ExchangesStay
  <1>. QED  BY <1>1, Invariance, PTL DEF Spec

\* Create: the TTL it computes is positive, and an index that is not empty has a
\* member to evict, so the loop never stops half way for want of either.
THEOREM LoginsCanGoOn ==
    Spec => [](\A p \in Handlers : CanGoOn(p))
  <1>1. ASSUME IInv, NEW p \in Handlers
        PROVE  CanGoOn(p)
    <2>1. /\ pc[p] \in Labels /\ req[p] \in Requests /\ clock \in Nat
          /\ LocalsFit(pc[p], req[p], clock)
      BY <1>1 DEF IInv, TypeOK, LocalsOK
    <2>2. ASSUME pc[p] = "scan"
          PROVE  req[p].at + RefreshTTL - clock > 0
      <3>1. clock <= req[p].at + MaxLatency /\ req[p].at \in Nat
        BY <2>1, <2>2, TimeAssumption DEF LocalsFit, Requests
      <3>. QED  BY <2>1, <3>1, TimeAssumption
    <2>3. pc[p] = "oldest" => req[p].user \in Users
      BY <2>1 DEF LocalsFit, LoginLabels
    <2>. QED  BY <1>1, <2>2, <2>3, FirstToExpire DEF CanGoOn
  <1>2. IInv => \A p \in Handlers : CanGoOn(p)
    BY <1>1
  <1>. QED  BY <1>2, Invariance, PTL

\* RevokeUserSessions: when logout-all succeeds, every session the user had
\* when the request began is dead, save those whose index key had expired.
THEOREM LogoutAllIsComplete ==
    Spec => LogoutAllRevokesIndexed
  <1>1. ASSUME IInv, [Next]_vars, NEW p \in Handlers, LogoutAllSucceeds(p),
               NEW s \in req[p].prior \ orphaned
        PROVE  ~Live(s)'
    <2>0. /\ s \in SessionIDs /\ hash \in [SessionIDs -> Hashes]
          /\ OwnersFit(pc[p], req[p])
      BY <1>1 DEF IInv, OwnersOK, TypeOK, Requests
    <2>1. CASE RangeAll(p) /\ Finish(p)
      <3>1. /\ pc[p] = "range" /\ hash' = hash
            /\ Members(req[p].user) = {}
        <4>1. pc[p] = "range" /\ hash' = hash
          BY <2>1 DEF RangeAll, store
        <4>2. pc'[p] = "idle"
          BY <1>1, <2>1 DEF Finish, Goto, IInv, TypeOK
        <4>3. Members(req[p].user) # {} => pc'[p] = "revoke_all"
          BY <1>1, <2>1 DEF RangeAll, Goto, IInv, TypeOK
        <4>. QED  BY <4>1, <4>2, <4>3
      <3>2. Live(s) => s \in Members(req[p].user)
        BY <1>1, <2>0, <3>1 DEF IInv, LiveIsIndexed, OwnersFit, OfUser, Live, Usable
      <3>. QED  BY <3>1, <3>2 DEF Live
    <2>2. CASE RevokeAll(p)
      <3>1. Live(s) => s \in req[p].ids
        BY <1>1, <2>0, <2>2 DEF RevokeAll, OwnersFit
      <3>2. s \in opened
        BY <1>1 DEF IInv, FreshOK, FreshFit
      <3>3. CASE s \in req[p].ids
        BY <2>0, <2>2, <3>3 DEF RevokeAll, Revoke, Live, Usable, Hashes
      <3>4. CASE s \notin req[p].ids
        BY <1>1, <3>1, <3>2, <3>4, SessionsOnlyDie
      <3>. QED  BY <3>3, <3>4
    <2>. QED  BY <1>1, <2>1, <2>2 DEF LogoutAllSucceeds
  <1>2. IInv /\ [Next]_vars =>
           [\A p \in Handlers : LogoutAllSucceeds(p) =>
               \A s \in req[p].prior \ orphaned : ~Live(s)']_vars
    BY <1>1
  <1>. QED  BY <1>2, Invariance, PTL DEF Spec, LogoutAllRevokesIndexed

-----------------------------------------------------------------------------
(* Redis implements the contract of the session store.                     *)

ContractStatus ==
    [s \in SessionIDs |->
        IF s \notin opened THEN "unused" ELSE IF Live(s) THEN "live" ELSE "dead"]
ContractCurrent == [s \in SessionIDs |-> IF Live(s) THEN hash[s].token ELSE 0]

\* A session that is not being stored or rotated keeps its token or dies.
LEMMA OthersRetire ==
    ASSUME IInv, [Next]_vars, NEW s \in SessionIDs,
           \A p \in Handlers : Add(p) \/ Exec(p) => req[p].sid # s
    PROVE  /\ Live(s)' => Live(s)
           /\ Live(s)' => hash'[s].token = hash[s].token
  <1>0. hash \in [SessionIDs -> Hashes]
    BY DEF IInv, TypeOK
  <1>1. CASE hash'[s] = hash[s]
    BY <1>1 DEF Live
  <1>2. CASE hash'[s] = Absent
    BY <1>2 DEF Live, Usable, Parsable, Absent
  <1>3. CASE hash'[s] = [hash[s] EXCEPT !.revoked = TRUE]
    BY <1>0, <1>3 DEF Live, Usable, Hashes
  <1>. QED  BY <1>1, <1>2, <1>3, HashChanges

LEMMA ContractStep ==
    ASSUME IInv, [Next]_vars
    PROVE  [Contract!Next]_(Contract!vars)
  <1>. USE DEF ContractStatus, ContractCurrent
  <1>0. /\ hash \in [SessionIDs -> Hashes] /\ opened \subseteq SessionIDs
        /\ opened \subseteq opened'
        /\ \A s \in SessionIDs : Live(s) => s \in opened
        /\ \A s \in opened : Live(s)' => Live(s)
    BY SessionsOnlyDie, NamesAssumption
    DEF IInv, TypeOK, FreshOK, FreshStore, Live, Usable, Parsable, Absent
  <1>1. ASSUME NEW p \in Handlers, Add(p)
        PROVE  Contract!Next
    <2>. DEFINE s == req[p].sid
    <2>1. /\ s \in SessionIDs \ opened
          /\ opened' = opened \union {s} /\ exchanged' = exchanged
          /\ \A x \in SessionIDs \ {s} : hash'[x] = hash[x]
          /\ req[p].user \in Users
      BY <1>1, AddStores
    <2>2. hash'[s] = [user |-> req[p].user, token |-> 1, expires |-> req[p].at + RefreshTTL,
                      revoked |-> FALSE, deadline |-> clock + req[p].ttl]
      BY <1>1, AddStores
    <2>3. Usable(hash'[s]) /\ hash'[s].token = 1
      BY <2>1, <2>2, NamesAssumption DEF Usable, Parsable
    <2>4. 1 \in Tokens
      BY TimeAssumption DEF Tokens
    <2>5. ContractStatus' = [ContractStatus EXCEPT ![s] = "live"]
      BY <2>1, <2>3 DEF Live
    <2>6. ContractCurrent' = [ContractCurrent EXCEPT ![s] = 1]
      BY <2>1, <2>3 DEF Live
    <2>7. ContractStatus[s] = "unused"
      BY <2>1
    <2>8. Contract!Open(s, 1, {})
      <3>1. /\ Contract!EndAll({}, ContractStatus, "dead") = ContractStatus
            /\ Contract!EndAll({}, ContractCurrent, 0) = ContractCurrent
        BY DEF Contract!EndAll
      <3>. QED  BY <2>1, <2>5, <2>6, <2>7, <3>1 DEF Contract!Open
    <2>. QED  BY <2>1, <2>4, <2>8 DEF Contract!Next
  <1>2. ASSUME NEW p \in Handlers, Exec(p)
        PROVE  Contract!Next
    <2>0. PICK s \in SessionIDs, old \in Tokens, new \in Tokens :
              s = req[p].sid /\ old = req[p].token /\ new = req[p].next
      BY <1>2 DEF IInv, LocalsOK, LocalsFit, Exec, RefreshLabels
    <2>1. /\ s \in opened /\ s \in SessionIDs
          /\ opened' = opened /\ exchanged' = exchanged \union {<<s, old, new>>}
          /\ \A x \in SessionIDs \ {s} : hash'[x] = hash[x]
          /\ Usable(hash[s]) /\ hash[s].token = old
          /\ hash[s].user \in Users
      BY <1>0, <1>2, <2>0, ExecStores
    <2>2. hash'[s] = [user |-> hash[s].user, token |-> new, expires |-> req[p].at + RefreshTTL,
                      revoked |-> FALSE, deadline |-> clock + req[p].ttl]
      BY <1>2, <2>0, ExecStores
    <2>3. Usable(hash'[s]) /\ hash'[s].token = new
      BY <2>1, <2>2, NamesAssumption DEF Usable, Parsable
    <2>4. old < new /\ old \in Tokens /\ new \in Tokens
      BY <1>2, <2>0 DEF IInv, TokensOK, TokensFit, Exec
    <2>5. \A e \in exchanged : e[1] = s => e[2] # new
      <3>1. ASSUME NEW e \in exchanged, e[1] = s
            PROVE  e[2] # new
        <4>1. e[2] < e[3] /\ e[3] <= old
          BY <2>1, <3>1 DEF IInv, TokensOK, Usable
        <4>2. e[2] \in Nat /\ e[3] \in Nat /\ old \in Nat /\ new \in Nat
          BY <2>4 DEF IInv, TypeOK, Tokens
        <4>. QED  BY <2>4, <4>1, <4>2
      <3>. QED  BY <3>1
    <2>6. ContractStatus' = ContractStatus /\ ContractStatus[s] = "live"
      BY <2>1, <2>3 DEF Live
    <2>7. ContractCurrent' = [ContractCurrent EXCEPT ![s] = new] /\ ContractCurrent[s] = old
      BY <2>1, <2>3 DEF Live
    <2>8. new \notin Contract!Issued(s)
      BY <2>4, <2>5, <2>7 DEF Contract!Issued, Tokens
    <2>9. Contract!Exchange(s, new)
      BY <2>1, <2>6, <2>7, <2>8 DEF Contract!Exchange
    <2>10. \E x \in SessionIDs, t \in Tokens : Contract!Exchange(x, t)
      BY <2>9
    <2>. QED  BY <2>10 DEF Contract!Next
  <1>3. ASSUME \A p \in Handlers : ~Add(p) /\ ~Exec(p)
        PROVE  [Contract!Next]_(Contract!vars)
    <2>0. PICK S \in SUBSET SessionIDs :
              S = {s \in SessionIDs : Live(s) /\ ~Usable(hash'[s])}
      OBVIOUS
    <2>1. opened' = opened /\ exchanged' = exchanged
      <3>1. ASSUME NEW p \in Handlers, Writes(p)
            PROVE  opened' = opened /\ exchanged' = exchanged
        BY <1>3, <3>1 DEF Writes, Purge, Evict, Unindex, RevokeSession, RevokeAll, history
      <3>. QED  BY <3>1, StepKinds DEF Tick
    <2>2. \A s \in SessionIDs : /\ Usable(hash'[s]) => Live(s)
                                /\ Usable(hash'[s]) => hash'[s].token = hash[s].token
      BY <1>3, OthersRetire DEF Live
    <2>3. ContractStatus' = [s \in SessionIDs |-> IF s \in S THEN "dead" ELSE ContractStatus[s]]
      BY <1>0, <2>0, <2>1, <2>2 DEF Live
    <2>4. ContractCurrent' = [s \in SessionIDs |-> IF s \in S THEN 0 ELSE ContractCurrent[s]]
      BY <1>0, <2>0, <2>1, <2>2 DEF Live
    <2>5. \A s \in S : ContractStatus[s] = "live"
      BY <1>0, <2>0
    <2>6. CASE S = {}
      <3>1. ContractStatus' = ContractStatus /\ ContractCurrent' = ContractCurrent
        BY <2>3, <2>4, <2>6
      <3>. QED  BY <2>1, <3>1 DEF Contract!vars
    <2>7. CASE S # {}
      <3>1. Contract!Retire(S)
        BY <2>1, <2>3, <2>4, <2>5 DEF Contract!Retire, Contract!EndAll
      <3>2. S \in (SUBSET SessionIDs) \ {{}}
        BY <2>7
      <3>3. \E X \in (SUBSET SessionIDs) \ {{}} : Contract!Retire(X)
        BY <3>1, <3>2
      <3>. QED  BY <3>3 DEF Contract!Next
    <2>. QED  BY <2>6, <2>7
  <1>. QED  BY <1>1, <1>2, <1>3

\* Service.Refresh, Logout, LogoutAll and Authenticate over Redis implement
\* SessionContract: in every interleaving, with every failure, a session lives
\* once and only its current token is ever exchanged, for a fresh one.
THEOREM RedisImplementsContract ==
    Spec => ImplementsContract
  <1>1. Init => Contract!Init
    BY DEF Init, Contract!Init, Live, Usable, Parsable, Absent
  <1>2. IInv /\ [Next]_vars => [Contract!Next]_(Contract!vars)
    BY ContractStep
  <1>. QED  BY <1>1, <1>2, Invariance, PTL DEF Spec, ImplementsContract, Contract!Spec

\* What is proved of every store that implements the contract.
Promise == INSTANCE SessionContractProofs WITH
    NoToken <- 0,
    status <- [s \in SessionIDs |->
                  IF s \notin opened THEN "unused" ELSE IF Live(s) THEN "live" ELSE "dead"],
    current <- [s \in SessionIDs |-> IF Live(s) THEN hash[s].token ELSE 0]

LEMMA PromiseKept == ImplementsContract => Promise!Spec
  BY PTL
     DEF ImplementsContract, Contract!Spec, Contract!Init, Contract!Next, Contract!vars,
         Contract!Open, Contract!Exchange, Contract!Retire, Contract!Issued, Contract!EndAll,
         Promise!Spec, Promise!Init, Promise!Next, Promise!vars,
         Promise!Open, Promise!Exchange, Promise!Retire, Promise!Issued, Promise!EndAll

\* Of the refreshes that present the same token, or a token that another request has
\* rotated between WATCH and EXEC, one gets a successor.
THEOREM RedisTokensChain == Spec => []TokensFormAChain
<1>1. Promise!TokensFormAChain => TokensFormAChain
  BY DEF TokensFormAChain, Contract!TokensFormAChain, Contract!EachTokenExchangedOnce,
         Contract!Spent, Promise!TokensFormAChain, Promise!EachTokenExchangedOnce, Promise!Spent
<1>. QED  BY <1>1, RedisImplementsContract, PromiseKept, Promise!ContractTokensChain, PTL

\* No command of a request that is late brings back a session that was revoked or
\* evicted, or whose hash expired: a revocation that follows makes a ghost at most.
THEOREM RedisEndsForGood == Spec => EndedForGood
<1>1. Promise!EndedForGood => EndedForGood
  BY PTL DEF EndedForGood, Contract!EndedForGood, Contract!vars, Promise!EndedForGood, Promise!vars
<1>. QED  BY <1>1, RedisImplementsContract, PromiseKept, Promise!ContractEndsForGood, PTL

=============================================================================
