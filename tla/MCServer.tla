------------------------------ MODULE MCServer ------------------------------
(***************************************************************************)
(* Server for TLC: two requests and one genuine token, with which the      *)
(* policy allows the route and unknown paths but not the service; no CORS, *)
(* and two ways to ask for more than credentials go with.                  *)
(***************************************************************************)
EXTENDS Server

CONSTANTS user, ui

MCPermits == {<<user, path>> : path \in Paths \ {ui}}

MCCors == {{}, {"origins", "any header", "credentials"}, {"origins", "any method", "credentials"}}

=============================================================================
