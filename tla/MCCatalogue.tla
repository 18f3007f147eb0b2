------------------------------ MODULE MCCatalogue ------------------------------
(***************************************************************************)
(* Instances of Catalogue.                                                 *)
(***************************************************************************)
EXTENDS Catalogue, TLC

\* "Go" and " go" are spellings of "go", and " " is nothing but blanks.
MCSlugs == {"go", "chess"}
MCSpellings == MCSlugs \union {"Go", " "}
MCSanitized == [t \in MCSpellings |-> CASE t = "Go" -> "go" [] t = " " -> "" [] OTHER -> t]

Symmetry == Permutations(Handlers) \union Permutations(Stages)

=============================================================================
