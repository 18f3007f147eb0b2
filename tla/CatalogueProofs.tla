---------------------------- MODULE CatalogueProofs ----------------------------
(***************************************************************************)
(* The properties of Games and Prompts, for any number of administrators,  *)
(* slugs, edits, stages, versions and activations.                         *)
(***************************************************************************)
EXTENDS Catalogue, Sequences, TLAPS

-----------------------------------------------------------------------------
(* Games.                                                                  *)

\* Edits in progress have begun; a creation in progress has an id of its own,
\* which no administrator has seen.
InFlightOK ==
    \A p \in Handlers :
        /\ req[p].op # "idle" => req[p].now \in 1..edits /\ req[p].slug \in Slugs
        /\ req[p].op = "update" => req[p].id \in known
        /\ req[p].op = "create" =>
            /\ req[p].id = req[p].now
            /\ req[p].id \notin known
            /\ \A q \in Handlers : req[q].op # "idle" /\ req[q].now = req[p].now => q = p

\* The slugs that are stored are sanitized, and none is stored twice.
SlugsOK ==
    \A a, b \in DOMAIN games : games[a].slug = games[b].slug => a = b

GamesInv == TypeOK /\ InFlightOK /\ SlugsOK

LEMMA InitGamesInv == Init => GamesInv
  BY EditsAssumption DEF Init, GamesInv, TypeOK, InFlightOK, SlugsOK, NoRequest

\* What an edit in progress brings.
LEMMA EditFacts ==
  ASSUME GamesInv, NEW p \in Handlers, req[p].op # "idle"
  PROVE  req[p].now \in 1..edits /\ req[p].now \in Edits /\ req[p].slug \in Slugs
  BY EditsAssumption DEF GamesInv, TypeOK, InFlightOK, Edits

LEMMA BeginStep ==
  ASSUME GamesInv, NEW p \in Handlers, BeginCreate(p) \/ BeginUpdate(p)
  PROVE  GamesInv'
<1>1. PICK op \in {"create", "update"}, id \in known \union {edits + 1}, text \in Spellings :
         /\ Begin(p, op, id, text)
         /\ op = "create" => id = edits + 1
         /\ op = "update" => id \in known
  BY DEF BeginCreate, BeginUpdate
<1> DEFINE new == [op |-> op, id |-> id, slug |-> Sanitized[text], now |-> edits + 1]
<1>2. /\ edits \in Nat /\ edits < MaxEdits /\ edits' = edits + 1
      /\ req[p].op = "idle" /\ req' = [req EXCEPT ![p] = new]
      /\ games' = games /\ known' = known
  BY <1>1, EditsAssumption DEF Begin, GamesInv, TypeOK
<1>3. Sanitized[text] \in Slugs
  BY <1>1, SlugsAssumption DEF Begin, Accepted
<1>4. id \in Edits /\ edits + 1 \in Edits
  <2>1. edits + 1 \in Edits /\ 1..edits \subseteq Edits
    BY <1>2, EditsAssumption DEF Edits
  <2>. QED  BY <2>1 DEF GamesInv, TypeOK
<1>5. TypeOK'
  <2>1. new \in [op: {"create", "update"}, id: Edits, slug: Slugs, now: Edits]
    BY <1>3, <1>4
  <2>2. known' \subseteq 1..edits' /\ edits' \in 0..MaxEdits
    BY <1>2, EditsAssumption DEF GamesInv, TypeOK
  <2>. QED  BY <1>2, <2>1, <2>2 DEF GamesInv, TypeOK
<1>6. InFlightOK'
  <2>1. req'[p] = new /\ \A q \in Handlers : q # p => req'[q] = req[q]
    BY <1>2 DEF GamesInv, TypeOK
  <2>2. \A q \in Handlers : req[q].op # "idle" => req[q].now \in 1..edits
    BY DEF GamesInv, InFlightOK
  <2>3. edits + 1 \notin 1..edits /\ 1..edits \subseteq 1..(edits + 1) /\ edits + 1 \in 1..(edits + 1)
    BY <1>2
  <2>4. edits + 1 \notin known
    BY <2>3 DEF GamesInv, TypeOK
  <2>. SUFFICES ASSUME NEW q \in Handlers
                PROVE  /\ req'[q].op # "idle" => req'[q].now \in 1..edits' /\ req'[q].slug \in Slugs
                       /\ req'[q].op = "update" => req'[q].id \in known'
                       /\ req'[q].op = "create" =>
                           /\ req'[q].id = req'[q].now
                           /\ req'[q].id \notin known'
                           /\ \A r \in Handlers :
                                req'[r].op # "idle" /\ req'[r].now = req'[q].now => r = q
    BY DEF InFlightOK
  <2>5. CASE q = p
    BY <1>1, <1>2, <1>3, <2>1, <2>2, <2>3, <2>4, <2>5
  <2>6. CASE q # p
    BY <1>2, <2>1, <2>2, <2>3, <2>6 DEF GamesInv, InFlightOK
  <2>. QED  BY <2>5, <2>6
<1>7. SlugsOK'
  BY <1>2 DEF GamesInv, SlugsOK
<1>. QED  BY <1>5, <1>6, <1>7 DEF GamesInv

\* The end of an edit, after it has stored its game or has been refused.
LEMMA ReturnStep ==
  ASSUME GamesInv, NEW p \in Handlers, req[p].op # "idle", Return(p),
         known' = known \/ (req[p].op = "create" /\ known' = known \union {req[p].id})
  PROVE  /\ InFlightOK'
         /\ edits' \in 0..MaxEdits /\ known' \subseteq 1..edits'
         /\ req' \in [Handlers ->
              {NoRequest} \union [op: {"create", "update"}, id: Edits, slug: Slugs, now: Edits]]
<1>1. /\ req' = [req EXCEPT ![p] = NoRequest] /\ edits' = edits
      /\ req'[p] = NoRequest /\ \A q \in Handlers : q # p => req'[q] = req[q]
  BY DEF Return, GamesInv, TypeOK
<1>2. InFlightOK'
  <2>1. ASSUME NEW q \in Handlers, q # p
        PROVE  /\ req'[q].op = "update" => req'[q].id \in known'
               /\ req'[q].op = "create" => req'[q].id \notin known'
    <3>1. req[q].op = "create" /\ req[p].op = "create" => req[q].id # req[p].id
      BY <2>1 DEF GamesInv, InFlightOK
    <3>. QED  BY <1>1, <2>1, <3>1 DEF GamesInv, InFlightOK
  <2>2. req'[p].op = "idle"
    BY <1>1 DEF NoRequest
  <2>. QED  BY <1>1, <2>1, <2>2 DEF GamesInv, InFlightOK
<1>3. known' \subseteq 1..edits'
  BY <1>1 DEF GamesInv, InFlightOK, TypeOK
<1>. QED  BY <1>1, <1>2, <1>3 DEF GamesInv, TypeOK

LEMMA CreateStep ==
  ASSUME GamesInv, NEW p \in Handlers, Create(p)
  PROVE  GamesInv'
<1> DEFINE id == req[p].id
           item == [slug |-> req[p].slug, created |-> req[p].now, updated |-> req[p].now]
<1>1. /\ req[p].op = "create" /\ ~SlugExists(req[p].slug, 0) /\ Store(id, item)
      /\ known' = known \union {id} /\ Return(p)
  BY DEF Create
<1>2. req[p].slug \in Slugs /\ req[p].now \in Edits /\ id \notin known /\ id \in 1..edits
  BY <1>1, EditFacts DEF GamesInv, InFlightOK
<1>3. /\ DOMAIN games' = DOMAIN games \union {id} /\ games'[id] = item
      /\ \A x \in DOMAIN games : x # id => games'[x] = games[x]
  BY <1>1 DEF Store
<1>4. InFlightOK' /\ edits' \in 0..MaxEdits /\ known' \subseteq 1..edits'
      /\ req' \in [Handlers ->
           {NoRequest} \union [op: {"create", "update"}, id: Edits, slug: Slugs, now: Edits]]
  BY <1>1, ReturnStep
<1>5. item \in Items
  BY <1>2 DEF Items
<1>6. TypeOK'
  BY <1>1, <1>3, <1>4, <1>5 DEF GamesInv, TypeOK
<1>7. SlugsOK'
  <2>1. \A x \in DOMAIN games : games[x].slug # req[p].slug
    <3>1. \A x \in DOMAIN games : x # 0
      BY DEF GamesInv, TypeOK
    <3>. QED  BY <1>1, <3>1 DEF SlugExists
  <2>2. \A x \in DOMAIN games : x # id
    BY <1>2 DEF GamesInv, TypeOK
  <2>3. games'[id].slug = req[p].slug
    BY <1>3
  <2>. QED  BY <1>3, <2>1, <2>2, <2>3 DEF GamesInv, SlugsOK
<1>. QED  BY <1>4, <1>6, <1>7 DEF GamesInv

LEMMA UpdateStep ==
  ASSUME GamesInv, NEW p \in Handlers, Update(p)
  PROVE  GamesInv'
<1> DEFINE id == req[p].id
           item == [games[id] EXCEPT !.slug = req[p].slug, !.updated = req[p].now]
<1>1. /\ req[p].op = "update" /\ id \in DOMAIN games /\ ~SlugExists(req[p].slug, id)
      /\ Store(id, item) /\ known' = known /\ Return(p)
  BY DEF Update
<1>2. req[p].slug \in Slugs /\ req[p].now \in Edits /\ games[id] \in Items
  BY <1>1, EditFacts DEF GamesInv, TypeOK
<1>3. /\ DOMAIN games' = DOMAIN games /\ games'[id] = item
      /\ \A x \in DOMAIN games : x # id => games'[x] = games[x]
  BY <1>1 DEF Store
<1>4. InFlightOK' /\ edits' \in 0..MaxEdits /\ known' \subseteq 1..edits'
      /\ req' \in [Handlers ->
           {NoRequest} \union [op: {"create", "update"}, id: Edits, slug: Slugs, now: Edits]]
  BY <1>1, ReturnStep
<1>5. item \in Items /\ item.slug = req[p].slug
  BY <1>2 DEF Items
<1>6. TypeOK'
  BY <1>1, <1>3, <1>4, <1>5 DEF GamesInv, TypeOK
<1>7. SlugsOK'
  <2>1. \A x \in DOMAIN games : x # id => games[x].slug # req[p].slug
    BY <1>1 DEF SlugExists
  <2>2. \A x, y \in DOMAIN games : games[x].slug = games[y].slug => x = y
    BY DEF GamesInv, SlugsOK
  <2>3. /\ games'[id].slug = req[p].slug
        /\ \A x \in DOMAIN games : x # id => games'[x].slug = games[x].slug
    BY <1>3, <1>5
  <2>4. \A x, y \in DOMAIN games : games'[x].slug = games'[y].slug => x = y
    BY <2>1, <2>2, <2>3
  <2>. QED  BY <1>3, <2>4 DEF SlugsOK
<1>. QED  BY <1>4, <1>6, <1>7 DEF GamesInv

LEMMA RefuseStep ==
  ASSUME GamesInv, NEW p \in Handlers, Refuse(p)
  PROVE  GamesInv'
<1>1. req[p].op # "idle" /\ games' = games /\ known' = known /\ Return(p)
  BY DEF Refuse
<1>. QED  BY <1>1, ReturnStep DEF GamesInv, TypeOK, SlugsOK

LEMMA DeleteStep ==
  ASSUME GamesInv, NEW id \in known, Delete(id)
  PROVE  GamesInv'
<1>1. /\ DOMAIN games' = DOMAIN games \ {id}
      /\ \A x \in DOMAIN games' : games'[x] = games[x]
      /\ edits' = edits /\ req' = req /\ known' = known
  BY DEF Delete
<1>. QED  BY <1>1 DEF GamesInv, TypeOK, InFlightOK, SlugsOK

LEMMA NextGamesInv == GamesInv /\ [Next]_vars => GamesInv'
<1>. SUFFICES ASSUME GamesInv, [Next]_vars PROVE GamesInv'
  OBVIOUS
<1>1. CASE \E p \in Handlers : Step(p)
  BY <1>1, BeginStep, CreateStep, UpdateStep, RefuseStep DEF Step
<1>2. CASE \E id \in known : Delete(id)
  BY <1>2, DeleteStep
<1>3. CASE UNCHANGED vars
  BY <1>3 DEF vars, GamesInv, TypeOK, InFlightOK, SlugsOK
<1>. QED  BY <1>1, <1>2, <1>3 DEF Next

-----------------------------------------------------------------------------
(* Prompts.                                                                *)

\* Every id has been given by the counter, and no activation is to come.
InRange ==
    \A s \in Stages : \A i \in DOMAIN versions[s] :
        /\ versions[s][i].id \in 1..counter
        /\ versions[s][i].activatedAt \in 0..activations

\* The last activation of a stage left its version active, and a version that is
\* active has been activated.
ActiveIsLast ==
    \A s \in Stages : \A i \in DOMAIN versions[s] :
        /\ versions[s][i].isActive => versions[s][i].activatedAt # 0
        /\ versions[s][i].activatedAt # 0 =>
              \E j \in DOMAIN versions[s] : versions[s][j].isActive

OneActive ==
    \A s \in Stages : \A i, j \in DOMAIN versions[s] :
        versions[s][i].isActive /\ versions[s][j].isActive => i = j

PromptsInv ==
    P!TypeOK /\ InRange /\ P!IdsUnique /\ ActiveIsLast /\ OneActive /\ P!LatestActivationWins

LEMMA InitPromptsInv == P!Init => PromptsInv
<1>. SUFFICES ASSUME P!Init PROVE PromptsInv
  OBVIOUS
<1>1. \A s \in Stages : versions[s] = << >> /\ DOMAIN versions[s] = {}
  <2>1. DOMAIN << >> = {}
    OBVIOUS
  <2>. QED  BY <2>1 DEF P!Init
<1>2. << >> \in Seq(P!Version)
  OBVIOUS
<1>3. P!TypeOK
  BY <1>2 DEF P!Init, P!TypeOK
<1>. QED
  BY <1>1, <1>3
  DEF PromptsInv, InRange, P!IdsUnique, ActiveIsLast, OneActive, P!LatestActivationWins

\* A creation adds one version to one stage, with an id that no other has.
LEMMA CreateVersionStep ==
  ASSUME PromptsInv, NEW s \in Stages, P!Create(s)
  PROVE  PromptsInv'
<1> DEFINE old == versions[s]
           new == [id |-> counter + 1, isActive |-> FALSE, activatedAt |-> 0]
           n == Len(old) + 1
<1>1. /\ counter \in Nat /\ counter' = counter + 1
      /\ activations' = activations /\ activations \in Nat
      /\ old \in Seq(P!Version) /\ versions' = [versions EXCEPT ![s] = Append(old, new)]
      /\ DOMAIN versions = Stages
  BY DEF P!Create, PromptsInv, P!TypeOK
<1>2. new \in P!Version
  BY <1>1 DEF P!Version
<1>3. /\ Append(old, new) \in Seq(P!Version)
      /\ DOMAIN old = 1..Len(old) /\ Len(old) \in Nat
      /\ DOMAIN Append(old, new) = 1..n
      /\ Append(old, new)[n] = new
      /\ \A i \in 1..Len(old) : Append(old, new)[i] = old[i]
  BY <1>1, <1>2
<1>4. /\ \A t \in Stages : t # s => versions'[t] = versions[t]
      /\ DOMAIN versions'[s] = DOMAIN old \union {n} /\ n \notin DOMAIN old
      /\ versions'[s][n].id = counter + 1
      /\ versions'[s][n].isActive = FALSE
      /\ versions'[s][n].activatedAt = 0
      /\ \A i \in DOMAIN old : versions'[s][i] = old[i]
  BY <1>1, <1>3
<1>. HIDE DEF new, n
<1>5. P!TypeOK'
  BY <1>1, <1>3 DEF PromptsInv, P!TypeOK
<1>6. InRange'
  BY <1>1, <1>4 DEF PromptsInv, InRange
<1>7. P!IdsUnique'
  <2>1. \A t \in Stages : \A i \in DOMAIN versions[t] : versions[t][i].id # counter + 1
    BY <1>1 DEF PromptsInv, InRange
  <2>2. \A t \in Stages : \A i \in DOMAIN versions'[t] :
           \/ t = s /\ i = n
           \/ i \in DOMAIN versions[t] /\ versions'[t][i] = versions[t][i]
    BY <1>4
  <2>. QED  BY <1>4, <2>1, <2>2 DEF PromptsInv, P!IdsUnique
<1>8. ActiveIsLast'
  BY <1>4 DEF PromptsInv, ActiveIsLast
<1>9. OneActive'
  BY <1>4 DEF PromptsInv, OneActive
<1>10. P!LatestActivationWins'
  <2>1. \A i \in DOMAIN old : old[i].activatedAt \in Nat
    BY <1>1 DEF PromptsInv, InRange
  <2>. QED  BY <1>4, <2>1 DEF PromptsInv, P!LatestActivationWins
<1>. QED  BY <1>5, <1>6, <1>7, <1>8, <1>9, <1>10 DEF PromptsInv

\* An activation rewrites one stage: the version with the id becomes the only
\* active one, at a time later than all others.
LEMMA ActivateVersionStep ==
  ASSUME PromptsInv, NEW s \in Stages, NEW id, P!Activate(s, id)
  PROVE  PromptsInv'
<1> DEFINE old == versions[s]
           now == activations + 1
<1>1. /\ activations \in Nat /\ activations' = now
      /\ counter' = counter /\ old \in Seq(P!Version) /\ DOMAIN versions = Stages
      /\ versions' = [versions EXCEPT ![s] = [i \in DOMAIN old |-> P!Activated(old[i], id, now)]]
  BY DEF P!Activate, PromptsInv, P!TypeOK
<1>2. PICK k \in DOMAIN old : old[k].id = id
  BY DEF P!Activate
<1>3. \A t \in Stages : t # s => versions'[t] = versions[t]
  BY <1>1
<1>4. /\ DOMAIN versions'[s] = DOMAIN old
      /\ \A i \in DOMAIN old : versions'[s][i] = P!Activated(old[i], id, now)
  BY <1>1
<1>5. \A i \in DOMAIN old : old[i] \in P!Version /\ (old[i].id = id => i = k)
  BY <1>1, <1>2 DEF PromptsInv, P!IdsUnique
<1>6. /\ versions'[s][k].id = old[k].id
      /\ versions'[s][k].isActive = TRUE
      /\ versions'[s][k].activatedAt = now
      /\ versions'[s][k] \in P!Version
  <2>1. versions'[s][k] = [old[k] EXCEPT !.isActive = TRUE, !.activatedAt = now]
    BY <1>2, <1>4 DEF P!Activated
  <2>2. old[k] \in P!Version /\ now \in Nat
    BY <1>1, <1>2, <1>5
  <2>. HIDE DEF old, now
  <2>. QED  BY <2>1, <2>2 DEF P!Version
<1>7. \A i \in DOMAIN old : i # k =>
        /\ versions'[s][i].id = old[i].id
        /\ versions'[s][i].isActive = FALSE
        /\ versions'[s][i].activatedAt = old[i].activatedAt
        /\ versions'[s][i] \in P!Version
  <2> DEFINE off(v) == [v EXCEPT !.isActive = FALSE]
  <2>1. \A v \in P!Version : /\ off(v).id = v.id /\ off(v).isActive = FALSE
                             /\ off(v).activatedAt = v.activatedAt /\ off(v) \in P!Version
    BY DEF P!Version
  <2>2. \A i \in DOMAIN old : i # k => versions'[s][i] = off(old[i])
    BY <1>4, <1>5 DEF P!Activated
  <2>. HIDE DEF old, off
  <2>. QED  BY <1>5, <2>1, <2>2
<1>8. P!TypeOK'
  <2>1. versions'[s] \in Seq(P!Version)
    <3>1. DOMAIN old = 1..Len(old) /\ Len(old) \in Nat
      BY <1>1
    <3>2. versions'[s] = [i \in 1..Len(old) |-> P!Activated(old[i], id, now)]
      BY <1>1, <3>1
    <3>3. \A i \in 1..Len(old) : P!Activated(old[i], id, now) \in P!Version
      BY <1>4, <1>6, <1>7, <3>1
    <3>. HIDE DEF old, now
    <3>. QED  BY <3>1, <3>2, <3>3
  <2>. QED  BY <1>1, <2>1 DEF PromptsInv, P!TypeOK
<1>9. \A i \in DOMAIN old : old[i].id \in 1..counter /\ old[i].activatedAt \in 0..activations
  BY DEF PromptsInv, InRange
<1>10. InRange'
  <2>1. now \in 0..now /\ 0..activations \subseteq 0..now
    BY <1>1
  <2>2. \A i \in DOMAIN versions'[s] :
          versions'[s][i].id \in 1..counter' /\ versions'[s][i].activatedAt \in 0..now
    BY <1>1, <1>2, <1>4, <1>6, <1>7, <1>9, <2>1
  <2>3. ASSUME NEW t \in Stages, t # s, NEW i \in DOMAIN versions'[t]
        PROVE  versions'[t][i].id \in 1..counter' /\ versions'[t][i].activatedAt \in 0..now
    <3>1. versions'[t] = versions[t]
      BY <1>3, <2>3
    <3>. QED  BY <1>1, <2>1, <2>3, <3>1 DEF PromptsInv, InRange
  <2>. QED  BY <1>1, <2>2, <2>3 DEF InRange
<1>11. P!IdsUnique'
  <2>1. \A t \in Stages : /\ DOMAIN versions'[t] = DOMAIN versions[t]
                          /\ \A i \in DOMAIN versions[t] : versions'[t][i].id = versions[t][i].id
    BY <1>3, <1>4, <1>6, <1>7
  <2>. QED  BY <2>1 DEF PromptsInv, P!IdsUnique
<1>12. ActiveIsLast'
  BY <1>1, <1>2, <1>3, <1>4, <1>6, <1>7 DEF PromptsInv, ActiveIsLast
<1>13. OneActive'
  BY <1>2, <1>3, <1>4, <1>6, <1>7 DEF PromptsInv, OneActive
<1>14. P!LatestActivationWins'
  <2>1. \A i, j \in DOMAIN old :
          versions'[s][i].isActive => versions'[s][j].activatedAt <= versions'[s][i].activatedAt
    <3>1. \A i \in DOMAIN old : versions'[s][i].isActive => i = k
      BY <1>7
    <3>2. \A j \in DOMAIN old : versions'[s][j].activatedAt <= now
      BY <1>1, <1>6, <1>7, <1>9
    <3>. QED  BY <1>6, <3>1, <3>2
  <2>2. \A t \in Stages : t # s => \A i, j \in DOMAIN versions'[t] :
          versions'[t][i].isActive => versions'[t][j].activatedAt <= versions'[t][i].activatedAt
    BY <1>3 DEF PromptsInv, P!LatestActivationWins
  <2>. QED  BY <1>4, <2>1, <2>2 DEF P!LatestActivationWins
<1>. QED  BY <1>8, <1>10, <1>11, <1>12, <1>13, <1>14 DEF PromptsInv

LEMMA NextPromptsInv == PromptsInv /\ [P!Next]_(P!vars) => PromptsInv'
<1>. SUFFICES ASSUME PromptsInv, [P!Next]_(P!vars) PROVE PromptsInv'
  OBVIOUS
<1>1. CASE \E s \in Stages : P!Create(s)
  BY <1>1, CreateVersionStep
<1>2. CASE \E s \in Stages, id \in 1..counter : P!Activate(s, id)
  BY <1>2, ActivateVersionStep
<1>3. CASE UNCHANGED P!vars
  BY <1>3
  DEF P!vars, PromptsInv, P!TypeOK, InRange, P!IdsUnique, ActiveIsLast, OneActive,
      P!LatestActivationWins
<1>. QED  BY <1>1, <1>2, <1>3 DEF P!Next, P!NotFound

-----------------------------------------------------------------------------
(* Both.                                                                   *)

CatalogueInv == GamesInv /\ PromptsInv

\* A step of the process is a step of each service, or leaves it alone.
LEMMA CatalogueSteps ==
  [CatalogueNext]_<<vars, promptVars>> => [Next]_vars /\ [P!Next]_(P!vars)
BY DEF CatalogueNext, promptVars, P!vars

LEMMA Invariance == CatalogueSpec => []CatalogueInv
<1>1. CatalogueInit => CatalogueInv
  BY InitGamesInv, InitPromptsInv DEF CatalogueInit, CatalogueInv
<1>2. CatalogueInv /\ [CatalogueNext]_<<vars, promptVars>> => CatalogueInv'
  BY CatalogueSteps, NextGamesInv, NextPromptsInv DEF CatalogueInv
<1>. QED  BY <1>1, <1>2, PTL DEF CatalogueSpec

\* Each service behaves as if it were alone.
THEOREM CatalogueImplementsServices == CatalogueSpec => Spec /\ P!Spec
<1>1. CatalogueInit => Init /\ P!Init
  BY DEF CatalogueInit
<1>. QED  BY <1>1, CatalogueSteps, PTL DEF CatalogueSpec, Spec, P!Spec

\* Every step keeps the services, their requests and what administrators have
\* seen of their types.
THEOREM TypeCorrect == CatalogueSpec => [](TypeOK /\ P!TypeOK)
<1>1. CatalogueInv => TypeOK /\ P!TypeOK
  BY DEF CatalogueInv, GamesInv, PromptsInv
<1>. QED  BY <1>1, Invariance, PTL

\* No two games have slugs that differ only in case and blanks, however many
\* administrators create, rename and delete games at once.
THEOREM SlugsStayUnique == CatalogueSpec => []SlugsUnique
<1>1. CatalogueInv => SlugsUnique
  <2>. SUFFICES ASSUME CatalogueInv, NEW a \in DOMAIN games, NEW b \in DOMAIN games,
                       Sanitized[games[a].slug] = Sanitized[games[b].slug]
                PROVE  a = b
    BY DEF SlugsUnique
  <2>1. games[a].slug \in Slugs /\ games[b].slug \in Slugs
    BY DEF CatalogueInv, GamesInv, TypeOK, Items
  <2>. QED  BY <2>1, SlugsAssumption DEF CatalogueInv, GamesInv, SlugsOK
<1>. QED  BY <1>1, Invariance, PTL

\* No update in progress brings back a game that has been deleted.
THEOREM DeletedStayDeleted == CatalogueSpec => DeletedForGood
<1>1. GamesInv /\ [Next]_vars => [\A id \in known \ DOMAIN games : id \notin DOMAIN games']_vars
  <2>. SUFFICES ASSUME GamesInv, Next, NEW id \in known \ DOMAIN games
                PROVE  id \notin DOMAIN games'
    OBVIOUS
  <2>1. ASSUME NEW p \in Handlers, BeginCreate(p) \/ BeginUpdate(p) \/ Refuse(p)
        PROVE  games' = games
    BY <2>1 DEF BeginCreate, BeginUpdate, Begin, Refuse
  <2>2. ASSUME NEW p \in Handlers, Create(p)
        PROVE  id \notin DOMAIN games'
    <3>1. id # req[p].id
      BY <2>2 DEF Create, GamesInv, InFlightOK
    <3>. QED  BY <2>2, <3>1 DEF Create, Store
  <2>3. ASSUME NEW p \in Handlers, Update(p)
        PROVE  id \notin DOMAIN games'
    BY <2>3 DEF Update, Store
  <2>4. ASSUME NEW x \in known, Delete(x)
        PROVE  id \notin DOMAIN games'
    BY <2>4 DEF Delete
  <2>. QED  BY <2>1, <2>2, <2>3, <2>4 DEF Next, Step
<1>2. CatalogueInv => GamesInv
  BY DEF CatalogueInv
<1>. QED  BY <1>1, <1>2, Invariance, CatalogueImplementsServices, PTL DEF Spec, DeletedForGood

\* No edit moves a game in the list, since CreatedAt is never written again.
THEOREM ListStaysInOrder == CatalogueSpec => ListKeepsOrder
<1>1. ASSUME GamesInv, Next, NEW a \in DOMAIN games \intersect DOMAIN games'
      PROVE  games'[a].created = games[a].created
  <2>1. ASSUME NEW p \in Handlers, BeginCreate(p) \/ BeginUpdate(p) \/ Refuse(p)
        PROVE  games' = games
    BY <2>1 DEF BeginCreate, BeginUpdate, Begin, Refuse
  <2>2. ASSUME NEW p \in Handlers, Create(p)
        PROVE  games'[a] = games[a]
    <3>1. a # req[p].id
      BY <1>1, <2>2 DEF Create, GamesInv, InFlightOK, TypeOK
    <3>. QED  BY <1>1, <2>2, <3>1 DEF Create, Store
  <2>3. ASSUME NEW p \in Handlers, Update(p)
        PROVE  games'[a].created = games[a].created
    <3> DEFINE item == [games[req[p].id] EXCEPT !.slug = req[p].slug, !.updated = req[p].now]
    <3>1. req[p].id \in DOMAIN games /\ games[req[p].id] \in Items /\ Store(req[p].id, item)
      BY <1>1, <2>3 DEF Update, GamesInv, TypeOK
    <3>2. item.created = games[req[p].id].created
      BY <3>1 DEF Items
    <3>. QED  BY <1>1, <3>1, <3>2 DEF Store
  <2>4. ASSUME NEW x \in known, Delete(x)
        PROVE  games'[a] = games[a]
    BY <2>4 DEF Delete
  <2>. QED  BY <1>1, <2>1, <2>2, <2>3, <2>4 DEF Next, Step
<1>2. GamesInv /\ [Next]_vars =>
        [\A a, b \in DOMAIN games \intersect DOMAIN games' :
            ListedBefore(games, a, b) => ListedBefore(games', a, b)]_vars
  BY <1>1 DEF ListedBefore
<1>3. CatalogueInv => GamesInv
  BY DEF CatalogueInv
<1>. QED  BY <1>2, <1>3, Invariance, CatalogueImplementsServices, PTL DEF Spec, ListKeepsOrder

\* The id that an administrator activates names one version of one stage.
THEOREM IdsStayUnique == CatalogueSpec => []IdsUnique
<1>1. CatalogueInv => IdsUnique
  BY DEF CatalogueInv, PromptsInv, IdsUnique
<1>. QED  BY <1>1, Invariance, PTL

\* A stage has one active version as soon as one has been activated.
THEOREM OneStaysActive == CatalogueSpec => []OneActivePerStage
<1>1. CatalogueInv => OneActivePerStage
  BY DEF CatalogueInv, PromptsInv, OneActivePerStage, P!OneActivePerStage, ActiveIsLast, OneActive
<1>. QED  BY <1>1, Invariance, PTL

\* The active version is the one activated last, rollbacks included.
THEOREM LatestStaysActive == CatalogueSpec => []LatestActivationWins
<1>1. CatalogueInv => LatestActivationWins
  BY DEF CatalogueInv, PromptsInv, LatestActivationWins
<1>. QED  BY <1>1, Invariance, PTL

================================================================================
