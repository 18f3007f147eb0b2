---------------------------- MODULE Submissions ----------------------------
(***************************************************************************)
(* Streamer submissions (src/internal/streamers/service.go): Submit with   *)
(* the per-user limiter allowSubmission, and List read page by page by a   *)
(* client while others submit.                                             *)
(*                                                                         *)
(* A submission passes the limiter under one mutex, waits for the Twitch   *)
(* validator under none, and is appended under a second one.  Time is kept *)
(* as what is left of each user's window, so no clock has to be bounded.   *)
(* The id of a streamer, a reading of the clock, is left out: no operation *)
(* looks for it.  A blank username is refused before any of this.          *)
(***************************************************************************)
EXTENDS Integers, Sequences, FiniteSets, FiniteSetsExt

CONSTANTS
    Users, Names, Requests, Readers,
    NoUser,     \* not a user
    Limit,      \* maxSubmissionsPerMinute
    Window,     \* window
    PageSize,   \* pageSize
    MaxItems    \* bound: streamers listed or about to be

ASSUME BoundsAssumption ==
    /\ Limit \in Nat \ {0} /\ Window \in Nat \ {0} /\ PageSize \in Nat \ {0}
    /\ MaxItems \in Nat
    /\ NoUser \notin Users /\ IsFiniteSet(Requests)

VARIABLES
    rateLimit,  \* rateLimit[u]: rateLimitByKey[u], windowEnds as the time left
    req,        \* req[p]: the Submit in progress
    items,      \* the slice of streamers
    reader,     \* reader[r]: the client's query, next page and what it has seen
    admitted    \* history: admitted[u][a] submissions were let in a units ago

vars == <<rateLimit, req, items, reader, admitted>>

\* windowEnds is the zero time, or the clock is after it.
Over == -1

NoRequest == [at |-> "idle", user |-> NoUser]
NoQuery == [names |-> {}, page |-> 0, seen |-> <<>>, present |-> {}]

\* nth is for the properties: how many streamers were listed with this one.
Item(p) ==
    [username |-> req[p].name, addedBy |-> req[p].user, nth |-> Len(items) + 1]

Streamers == [username: Names, addedBy: Users, nth: 1..MaxItems]
Clients ==
    [names: SUBSET Names, page: Nat, seen: Seq(Streamers), present: SUBSET (1..MaxItems)]

TypeOK ==
    /\ rateLimit \in [Users -> [count: 0..Limit, left: Over..Window]]
    /\ req \in [Requests -> [at: {"validate", "append"}, user: Users, name: Names]
                                \union {NoRequest}]
    /\ items \in Seq(Streamers) /\ Len(items) <= MaxItems
    /\ reader \in [Readers -> Clients]
    /\ admitted \in [Users -> [0..Window -> 0..Limit]]

Init ==
    /\ rateLimit = [u \in Users |-> [count |-> 0, left |-> Over]]
    /\ req = [p \in Requests |-> NoRequest]
    /\ items = <<>>
    /\ reader = [r \in Readers |-> NoQuery]
    /\ admitted = [u \in Users |-> [a \in 0..Window |-> 0]]

-----------------------------------------------------------------------------
(* Submit.                                                                 *)

\* Mutant: a new window keeps the count of the old one.
Current_NotReset(u) ==
    [rateLimit[u] EXCEPT !.left = IF @ = Over THEN Window ELSE @]

\* The user's window as the limiter finds it, or a new one.
Current(u) ==
    IF rateLimit[u].left = Over THEN [count |-> 0, left |-> Window] ELSE rateLimit[u]

\* Mutant: count > max instead of count >= max.
Allowed_OneMore(u) == Current(u).count <= Limit

Allowed(u) == Current(u).count < Limit

\* The bound MaxItems counts the submissions that may still be appended.
RoomLeft ==
    Len(items) + Cardinality({p \in Requests : req[p] # NoRequest}) < MaxItems

\* allowSubmission lets the request in: it counts, whatever the validator says.
Admit(p, u, n) ==
    /\ req[p] = NoRequest
    /\ RoomLeft
    /\ Allowed(u)
    /\ rateLimit' = [rateLimit EXCEPT ![u] = [Current(u) EXCEPT !.count = @ + 1]]
    /\ req' = [req EXCEPT ![p] = [at |-> "validate", user |-> u, name |-> n]]
    /\ admitted' = [admitted EXCEPT ![u][0] = @ + 1]
    /\ UNCHANGED <<items, reader>>

\* Mutant: an attempt that is refused starts the window again.
Refuse_Prolongs(u) ==
    /\ ~Allowed(u)
    /\ rateLimit' = [rateLimit EXCEPT ![u] = [Current(u) EXCEPT !.left = Window]]
    /\ UNCHANGED <<req, items, reader, admitted>>

\* ErrRateLimited: the window is stored as it was found.
Refuse(u) ==
    /\ ~Allowed(u)
    /\ rateLimit' = [rateLimit EXCEPT ![u] = Current(u)]
    /\ UNCHANGED <<req, items, reader, admitted>>

\* The validator answers; ErrTwitchUnavailable ends the request.
Validate(p) ==
    /\ req[p].at = "validate"
    /\ \/ req' = [req EXCEPT ![p].at = "append"]
       \/ req' = [req EXCEPT ![p] = NoRequest]
    /\ UNCHANGED <<rateLimit, items, reader, admitted>>

\* Mutant: the newest streamer comes first.
AppendItem_Front(p) ==
    /\ req[p].at = "append"
    /\ items' = <<Item(p)>> \o items
    /\ req' = [req EXCEPT ![p] = NoRequest]
    /\ UNCHANGED <<rateLimit, reader, admitted>>

AppendItem(p) ==
    /\ req[p].at = "append"
    /\ items' = Append(items, Item(p))
    /\ req' = [req EXCEPT ![p] = NoRequest]
    /\ UNCHANGED <<rateLimit, reader, admitted>>

-----------------------------------------------------------------------------
(* List.                                                                   *)

Least(m, n) == IF m <= n THEN m ELSE n

\* The query selects the streamers whose username contains it, here those with
\* a name of a set; every status is "pending".
Matching(s, names) ==
    LET matches[i \in 0..Len(s)] ==
            IF i = 0 THEN <<>>
            ELSE IF s[i].username \in names THEN Append(matches[i - 1], s[i])
            ELSE matches[i - 1]
    IN  matches[Len(s)]

\* page is 1 or more.
List(names, page) ==
    LET matches == Matching(items, names)
    IN  SubSeq(matches, (page - 1) * PageSize + 1, Least(Len(matches), page * PageSize))

\* A client starts reading: present is what the query selects at this moment.
StartReading(r, names) ==
    /\ reader[r].page = 0
    /\ reader' = [reader EXCEPT ![r] =
                     [names |-> names, page |-> 1, seen |-> <<>>,
                      present |-> {x.nth : x \in {items[i] : i \in
                                     {j \in DOMAIN items : items[j].username \in names}}}]]
    /\ UNCHANGED <<rateLimit, req, items, admitted>>

\* A client reads the next page, until one is empty.
ReadPage(r) ==
    LET c == reader[r]
        page == List(c.names, c.page)
    IN  /\ c.page > 0
        /\ reader' = [reader EXCEPT ![r] =
                         IF page = <<>> THEN NoQuery
                         ELSE [c EXCEPT !.page = @ + 1, !.seen = @ \o page]]
        /\ UNCHANGED <<rateLimit, req, items, admitted>>

-----------------------------------------------------------------------------

\* One unit of time.
Tick ==
    /\ rateLimit' = [u \in Users |->
                        [rateLimit[u] EXCEPT !.left = IF @ = Over THEN Over ELSE @ - 1]]
    /\ admitted' = [u \in Users |->
                       [a \in 0..Window |-> IF a = 0 THEN 0 ELSE admitted[u][a - 1]]]
    /\ UNCHANGED <<req, items, reader>>

Next ==
    \/ \E p \in Requests :
        \/ \E u \in Users, n \in Names : Admit(p, u, n)
        \/ Validate(p)
        \/ AppendItem(p)
    \/ \E u \in Users : Refuse(u)
    \/ \E r \in Readers : (\E N \in (SUBSET Names) \ {{}} : StartReading(r, N)) \/ ReadPage(r)
    \/ Tick

Spec == Init /\ [][Next]_vars

\* Time passes, whatever the users do.
FairSpec == Spec /\ WF_vars(Tick)

-----------------------------------------------------------------------------
(* Properties.                                                             *)

\* Submissions of u let in during the last Window, both ends included.
Recent(u) == MapThenSumSet(LAMBDA a : admitted[u][a], 0..Window)

\* The windows are not sliding: in any stretch of time as long as a window, a
\* user gets twice the limit of submissions in, and never more.
RateBound == \A u \in Users : Recent(u) <= 2 * Limit

\* A submission is refused only to a user who had Limit of them let in during
\* the last Window: neither attempts that were refused nor those of an earlier
\* window count.
NoFalseRefusal == \A u \in Users : ~Allowed(u) => Recent(u) >= Limit

\* A user who is refused is let in again some time, however often the user and
\* others keep trying.
LimitLifts == \A u \in Users : ~Allowed(u) ~> Allowed(u)

\* While others submit, a client reading page after page sees no streamer
\* twice, and by the first empty page every one there was at the beginning.
PagesAreStable ==
    \A r \in Readers :
        LET c == reader[r]
        IN  /\ \A i, j \in DOMAIN c.seen : c.seen[i].nth = c.seen[j].nth => i = j
            /\ c.page > 0 /\ List(c.names, c.page) = <<>> =>
                   c.present \subseteq {c.seen[i].nth : i \in DOMAIN c.seen}

=============================================================================
