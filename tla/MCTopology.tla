----------------------------- MODULE MCTopology -----------------------------
(***************************************************************************)
(* Topology for TLC.  Two tasks are enough for a reader and a writer to    *)
(* meet in every order; a channel of two events and batches that can be    *)
(* longer make subscribers lag.                                            *)
(***************************************************************************)
EXTENDS Topology, TLC

Symmetry == Permutations(Tasks)

=============================================================================
