-------------------------------- MODULE Prompts --------------------------------
(***************************************************************************)
(* The versions of the prompts of each stage: prompts.Service              *)
(* (src/internal/prompts/service.go).                                      *)
(*                                                                         *)
(* Create and Activate are one critical section each; the validation that  *)
(* precedes Create reads nothing shared, and a request that it refuses is  *)
(* left out.  The version number is the place in the stage's sequence.  Of *)
(* the other fields only those that Activate writes are kept.              *)
(***************************************************************************)
EXTENDS Integers, Sequences

CONSTANTS
    Stages,
    MaxVersions,    \* bound: prompts ever created
    MaxActivations  \* bound: activations

VARIABLES
    counter,        \* the service's counter, from which the ids come
    versions,       \* versions[s]: the versions of stage s, oldest first
    activations     \* how many activations there have been; stands for the clock

vars == <<counter, versions, activations>>

\* activatedAt: the number of the latest activation, 0 when there was none.
Version == [id: Nat \ {0}, isActive: BOOLEAN, activatedAt: Nat]

TypeOK ==
    /\ counter \in Nat
    /\ versions \in [Stages -> Seq(Version)]
    /\ activations \in Nat

Init ==
    /\ counter = 0
    /\ versions = [s \in Stages |-> <<>>]
    /\ activations = 0

-----------------------------------------------------------------------------

\* Mutant: the id is the number of the version in its stage.
Create_StageID(s) ==
    /\ counter < MaxVersions
    /\ counter' = counter + 1
    /\ versions' = [versions EXCEPT ![s] =
           Append(@, [id |-> Len(@) + 1, isActive |-> FALSE, activatedAt |-> 0])]
    /\ UNCHANGED activations

Create(s) ==
    /\ counter < MaxVersions
    /\ counter' = counter + 1
    /\ versions' = [versions EXCEPT ![s] =
           Append(@, [id |-> counter + 1, isActive |-> FALSE, activatedAt |-> 0])]
    /\ UNCHANGED activations

\* Mutant: the version that was active stays so.
Activated_Also(v, id, now) ==
    IF v.id = id THEN [v EXCEPT !.isActive = TRUE, !.activatedAt = now] ELSE v

\* Mutant: the time of the first activation is kept.
Activated_Once(v, id, now) ==
    IF v.id = id
    THEN [v EXCEPT !.isActive = TRUE, !.activatedAt = IF @ = 0 THEN now ELSE @]
    ELSE [v EXCEPT !.isActive = FALSE]

Activated(v, id, now) ==
    IF v.id = id
    THEN [v EXCEPT !.isActive = TRUE, !.activatedAt = now]
    ELSE [v EXCEPT !.isActive = FALSE]

\* The map of the stages is searched in any order, for the first that has the id.
Activate(s, id) ==
    /\ activations < MaxActivations
    /\ \E i \in DOMAIN versions[s] : versions[s][i].id = id
    /\ activations' = activations + 1
    /\ versions' = [versions EXCEPT ![s] =
           [i \in DOMAIN @ |-> Activated(@[i], id, activations + 1)]]
    /\ UNCHANGED counter

\* ErrNotFound: no version of any stage has the id.
NotFound(id) ==
    /\ \A s \in Stages : \A i \in DOMAIN versions[s] : versions[s][i].id # id
    /\ UNCHANGED vars

Next ==
    \/ \E s \in Stages : Create(s) \/ \E id \in 1..counter : Activate(s, id)
    \/ \E id \in 1..MaxVersions + 1 : NotFound(id)

Spec == Init /\ [][Next]_vars

-----------------------------------------------------------------------------
(* Properties.                                                             *)

\* An id names one version of one stage, so that Activate, which stops at the
\* first stage with the id, activates the version that was meant.
IdsUnique ==
    \A s, t \in Stages : \A i \in DOMAIN versions[s], j \in DOMAIN versions[t] :
        versions[s][i].id = versions[t][j].id => s = t /\ i = j

\* No sequence of creations, activations and rollbacks leaves two versions of a
\* stage active, or none once one has been activated.
OneActivePerStage ==
    \A s \in Stages :
        LET ran == {i \in DOMAIN versions[s] : versions[s][i].activatedAt # 0}
            active == {i \in DOMAIN versions[s] : versions[s][i].isActive}
        IN  /\ ran # {} => active # {}
            /\ \A i, j \in active : i = j

\* The active version of a stage is the one that was activated last, also after
\* a rollback to a version that had been active before.
LatestActivationWins ==
    \A s \in Stages : \A i, j \in DOMAIN versions[s] :
        versions[s][i].isActive => versions[s][j].activatedAt <= versions[s][i].activatedAt

=============================================================================
