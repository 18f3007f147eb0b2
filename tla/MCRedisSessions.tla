------------------------- MODULE MCRedisSessions -------------------------
(* RedisSessions on small instances; the bounds are in the .cfg files. *)
EXTENDS RedisSessions, TLC

\* Handlers, sessions and users are interchangeable: for safety runs only.
Symmetry ==
    Permutations(Handlers) \union Permutations(SessionIDs) \union Permutations(Users)

=============================================================================
