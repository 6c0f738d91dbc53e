---------------------------- MODULE MCEndpoints ----------------------------
(***************************************************************************)
(* Endpoints on the machine of EndpointsCases.                             *)
(***************************************************************************)
EXTENDS Endpoints, EndpointsCases
=============================================================================
