--------------------------------- MODULE Games ---------------------------------
(***************************************************************************)
(* The games that administrators manage: games.Service (src/internal/games *)
(* /service.go).                                                           *)
(*                                                                         *)
(* Create and Update sanitize the request and read the clock before they   *)
(* take the mutex, Delete only takes it.  So an edit begins, waits, and is *)
(* applied to whatever the others have left.  Edits are numbered as they   *)
(* begin; the number stands for the time the edit read, and the number of  *)
(* a creation for the uuid of its game too.  A slug is the field that      *)
(* other games constrain; title, description, rules and status are left    *)
(* out, and so are the requests that sanitizeUpsert refuses.               *)
(***************************************************************************)
EXTENDS Integers

CONSTANTS
    Handlers,
    Slugs,      \* trimmed lower-case slugs
    Spellings,  \* what an administrator may type, Slugs among it
    Sanitized,  \* Sanitized[t]: t trimmed, in lower case
    Blank,      \* not a slug: all that is left of a spelling of blanks
    MaxEdits    \* bound: creations and updates ever begun

ASSUME SlugsAssumption ==
    /\ Blank \notin Slugs
    /\ Slugs \subseteq Spellings
    /\ Sanitized \in [Spellings -> Slugs \union {Blank}]
    /\ \A s \in Slugs : Sanitized[s] = s

ASSUME EditsAssumption == MaxEdits \in Nat

VARIABLES
    games,      \* the map of the service, from ids to games
    edits,      \* how many creations and updates have begun
    req,        \* req[p]: the creation or update in progress
    known       \* history: the ids administrators have seen

vars == <<games, edits, req, known>>

Edits == 1..MaxEdits
Items == [slug: Slugs, created: Edits, updated: Edits]

NoRequest == [op |-> "idle", id |-> 0, slug |-> Blank, now |-> 0]

TypeOK ==
    /\ known \subseteq 1..edits
    /\ DOMAIN games \subseteq known
    /\ \A id \in DOMAIN games : games[id] \in Items
    /\ edits \in 0..MaxEdits
    /\ req \in [Handlers ->
                  {NoRequest} \union [op: {"create", "update"}, id: Edits, slug: Slugs, now: Edits]]

Init ==
    /\ games = [id \in {} |-> NoRequest]
    /\ edits = 0
    /\ req = [p \in Handlers |-> NoRequest]
    /\ known = {}

-----------------------------------------------------------------------------

\* sanitizeUpsert accepts a request when something is left of its slug.
Accepted(text) == Sanitized[text] # Blank

\* Mutant: the request is used as it was typed.
Begin_Raw(p, op, id, text) ==
    /\ req[p].op = "idle"
    /\ edits < MaxEdits
    /\ Accepted(text)
    /\ edits' = edits + 1
    /\ req' = [req EXCEPT ![p] = [op |-> op, id |-> id, slug |-> text, now |-> edits + 1]]
    /\ UNCHANGED <<games, known>>

\* sanitizeUpsert and the clock, before the mutex.
Begin(p, op, id, text) ==
    /\ req[p].op = "idle"
    /\ edits < MaxEdits
    /\ Accepted(text)
    /\ edits' = edits + 1
    /\ req' = [req EXCEPT ![p] =
                 [op |-> op, id |-> id, slug |-> Sanitized[text], now |-> edits + 1]]
    /\ UNCHANGED <<games, known>>

BeginCreate(p) == \E text \in Spellings : Begin(p, "create", edits + 1, text)

\* An administrator updates a game that exists, or did.
BeginUpdate(p) == \E id \in known, text \in Spellings : Begin(p, "update", id, text)

SlugExists(slug, exceptID) ==
    \E id \in DOMAIN games : id # exceptID /\ games[id].slug = slug

Return(p) ==
    /\ req' = [req EXCEPT ![p] = NoRequest]
    /\ UNCHANGED edits

\* games[id] := item.
Store(id, item) ==
    games' = [x \in DOMAIN games \union {id} |-> IF x = id THEN item ELSE games[x]]

Create(p) ==
    /\ req[p].op = "create"
    /\ ~SlugExists(req[p].slug, 0)
    /\ Store(req[p].id, [slug |-> req[p].slug, created |-> req[p].now, updated |-> req[p].now])
    /\ known' = known \union {req[p].id}
    /\ Return(p)

\* Mutant: the map is not looked up before the game is stored.
Update_Upserts(p) ==
    /\ req[p].op = "update"
    /\ ~SlugExists(req[p].slug, req[p].id)
    /\ Store(req[p].id,
             [slug |-> req[p].slug,
              created |-> IF req[p].id \in DOMAIN games THEN games[req[p].id].created ELSE req[p].now,
              updated |-> req[p].now])
    /\ UNCHANGED known
    /\ Return(p)

\* Mutant: the game is built anew, as in Create.
Update_Rebuilt(p) ==
    /\ req[p].op = "update"
    /\ req[p].id \in DOMAIN games
    /\ ~SlugExists(req[p].slug, req[p].id)
    /\ Store(req[p].id, [slug |-> req[p].slug, created |-> req[p].now, updated |-> req[p].now])
    /\ UNCHANGED known
    /\ Return(p)

Update(p) ==
    /\ req[p].op = "update"
    /\ req[p].id \in DOMAIN games
    /\ ~SlugExists(req[p].slug, req[p].id)
    /\ Store(req[p].id, [games[req[p].id] EXCEPT !.slug = req[p].slug, !.updated = req[p].now])
    /\ UNCHANGED known
    /\ Return(p)

\* ErrNotFound and ErrDuplicateSlug.
Refuse(p) ==
    /\ \/ req[p].op = "update" /\ req[p].id \notin DOMAIN games
       \/ req[p].op # "idle" /\ SlugExists(req[p].slug, IF req[p].op = "create" THEN 0 ELSE req[p].id)
    /\ UNCHANGED <<games, known>>
    /\ Return(p)

Delete(id) ==
    /\ id \in DOMAIN games
    /\ games' = [x \in DOMAIN games \ {id} |-> games[x]]
    /\ UNCHANGED <<edits, req, known>>

Step(p) == BeginCreate(p) \/ BeginUpdate(p) \/ Create(p) \/ Update(p) \/ Refuse(p)

Next ==
    \/ \E p \in Handlers : Step(p)
    \/ \E id \in known : Delete(id)

Spec == Init /\ [][Next]_vars

-----------------------------------------------------------------------------
(* Properties.                                                             *)

\* Whatever administrators type, and however their edits overtake each other,
\* no two games have slugs that differ only in case and blanks.
SlugsUnique ==
    \A a, b \in DOMAIN games :
        Sanitized[games[a].slug] = Sanitized[games[b].slug] => a = b

\* A deleted game stays deleted, although updates of it are still in progress.
DeletedForGood ==
    [][\A id \in known \ DOMAIN games : id \notin DOMAIN games']_vars

\* The order of List; the times are distinct, so ids never decide.
ListedBefore(g, a, b) == g[a].created < g[b].created

\* No edit moves a game in the list that administrators page through.
ListKeepsOrder ==
    [][\A a, b \in DOMAIN games \intersect DOMAIN games' :
          ListedBefore(games, a, b) => ListedBefore(games', a, b)]_vars

=============================================================================
