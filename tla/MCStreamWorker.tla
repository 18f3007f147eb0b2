-------------------------- MODULE MCStreamWorker -------------------------
(* StreamWorker on small instances; the bounds are in the .cfg files. *)
EXTENDS StreamWorker, TLC

\* Workers, administrators and streamers are interchangeable in safety runs.
Symmetry ==
    Permutations(Workers) \union Permutations(Admins) \union Permutations(Streamers)

=============================================================================
