------------------------- MODULE MCMemorySessions ------------------------
(* MemorySessions on small instances; the bounds are in the .cfg files. *)
EXTENDS MemorySessions, TLC

\* Handlers, sessions and users are interchangeable: only safety is checked.
Symmetry ==
    Permutations(Handlers) \union Permutations(SessionIDs) \union Permutations(Users)

=============================================================================
