-------------------------- MODULE SessionContract --------------------------
(***************************************************************************)
(* What the RefreshSessionStore interface promises to the auth Service,    *)
(* whatever store is behind it (src/internal/auth/refresh_store.go:39-46): *)
(* a session is opened once, at any moment exactly one of its refresh      *)
(* tokens can be exchanged, an exchange replaces that token by a fresh     *)
(* one, and a session that was revoked, evicted or expired is never usable *)
(* again.  RedisSessions and MemorySessions are shown to implement it;     *)
(* SessionContractProofs proves what follows from it for any store.        *)
(*                                                                         *)
(* A token is a member of Tokens, relative to its session (the code's      *)
(* "<session id>.<secret>").                                               *)
(***************************************************************************)
EXTENDS Integers, FiniteSets

CONSTANTS
    SessionIDs,     \* the session ids that may be minted
    Tokens,         \* the secrets that may be minted for one session
    NoToken         \* not a token: a session without a usable token

VARIABLES
    status,         \* status[s] \in {"unused", "live", "dead"}
    current,        \* current[s]: the token that can be exchanged now
    exchanged       \* history: <<s, old, new>> for every exchange performed

vars == <<status, current, exchanged>>

TypeOK ==
    /\ status \in [SessionIDs -> {"unused", "live", "dead"}]
    /\ current \in [SessionIDs -> Tokens \union {NoToken}]
    /\ exchanged \subseteq SessionIDs \X Tokens \X Tokens

Init ==
    /\ status = [s \in SessionIDs |-> "unused"]
    /\ current = [s \in SessionIDs |-> NoToken]
    /\ exchanged = {}

-----------------------------------------------------------------------------

\* The sessions of S end for good.
EndAll(S, f, ended) == [s \in SessionIDs |-> IF s \in S THEN ended ELSE f[s]]

\* Create: a session id is stored for the first time, with its first token;
\* live sessions S may make room for it in the same step.
Open(s, t, S) ==
    /\ status[s] = "unused"
    /\ \A x \in S : status[x] = "live"
    /\ status' = [EndAll(S, status, "dead") EXCEPT ![s] = "live"]
    /\ current' = [EndAll(S, current, NoToken) EXCEPT ![s] = t]
    /\ UNCHANGED exchanged

\* The tokens of session s that have been usable so far.
Issued(s) ==
    {current[s]} \union {e[2] : e \in {x \in exchanged : x[1] = s}}

\* Rotate: the current token of a live session is exchanged for a fresh one.
Exchange(s, t) ==
    /\ status[s] = "live"
    /\ t \notin Issued(s)
    /\ current' = [current EXCEPT ![s] = t]
    /\ exchanged' = exchanged \union {<<s, current[s], t>>}
    /\ UNCHANGED status

\* RevokeSession, RevokeUserSessions, the eviction and the purge of Create,
\* and the expiry of a key: any set of live sessions ends for good.
Retire(S) ==
    /\ \A s \in S : status[s] = "live"
    /\ status' = EndAll(S, status, "dead")
    /\ current' = EndAll(S, current, NoToken)
    /\ UNCHANGED exchanged

Next ==
    \/ \E s \in SessionIDs, t \in Tokens :
        \/ \E S \in SUBSET SessionIDs : Open(s, t, S)
        \/ Exchange(s, t)
    \/ \E S \in (SUBSET SessionIDs) \ {{}} : Retire(S)

Spec == Init /\ [][Next]_vars

-----------------------------------------------------------------------------

\* A refresh token buys at most one successor: presenting a token a second
\* time, from any client and in any interleaving, never yields another one
\* (Service.Refresh and Rotate, service.go:127-172).
EachTokenExchangedOnce ==
    \A d, e \in exchanged : d[1] = e[1] /\ d[2] = e[2] => d = e

\* The tokens of a session that were exchanged.
Spent(s) == {e[2] : e \in {x \in exchanged : x[1] = s}}

\* The refresh tokens of a session form one chain, from the one its login minted
\* to the only one that is still good: none has two successors, none is the
\* successor of two, and what was exchanged is never good again.
TokensFormAChain ==
    /\ EachTokenExchangedOnce
    /\ \A d, e \in exchanged : d[1] = e[1] /\ d[3] = e[3] => d = e
    /\ \A s \in SessionIDs : status[s] = "live" =>
        /\ current[s] \notin Spent(s)
        /\ \A e \in exchanged : e[1] = s => e[3] \in Spent(s) \union {current[s]}

\* Nothing that happens to other sessions, or to its own tokens, opens a session
\* again that was revoked, evicted or expired.
EndedForGood ==
    [][\A s \in SessionIDs : status[s] = "dead" => status'[s] = "dead"]_vars

=============================================================================
