--------------------------- MODULE MCDataProvider ---------------------------
(***************************************************************************)
(* DataProvider for TLC: three resources, so that a group can have a       *)
(* resource of another category before and after one of its own.           *)
(***************************************************************************)
EXTENDS DataProvider, TLC

Symmetry == Permutations(DataIds) \cup Permutations(CategoryNames)

=============================================================================
