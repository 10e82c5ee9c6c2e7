---------------------------- MODULE MCDataRoutes ----------------------------
(***************************************************************************)
(* DataRoutes for TLC: three handlers, one writer and two entities, of     *)
(* which one may have a hung provider.                                     *)
(***************************************************************************)
EXTENDS DataRoutes
=============================================================================
