------------------------------- MODULE Catalogue -------------------------------
(***************************************************************************)
(* The administrators' two services in one process: the games of Games and *)
(* the prompts of Prompts, whose mutexes and maps have nothing in common.  *)
(* A step of the process is a step of one of them.                         *)
(***************************************************************************)
EXTENDS Games

CONSTANTS Stages, MaxVersions, MaxActivations
VARIABLES counter, versions, activations

P == INSTANCE Prompts

promptVars == <<counter, versions, activations>>

CatalogueInit == Init /\ P!Init

CatalogueNext ==
    \/ Next /\ UNCHANGED promptVars
    \/ P!Next /\ UNCHANGED vars

CatalogueSpec == CatalogueInit /\ [][CatalogueNext]_<<vars, promptVars>>

-----------------------------------------------------------------------------
(* Properties of the prompts, beside those of the games.                   *)

\* An id names one version of one stage, also while games are edited.
IdsUnique == P!IdsUnique

\* One version of a stage that has been activated is active, and only one.
OneActivePerStage == P!OneActivePerStage

\* The active version of a stage is the one that was activated last.
LatestActivationWins == P!LatestActivationWins

=============================================================================
