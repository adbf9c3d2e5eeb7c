------------------------------ MODULE MCServers -------------------------------
(***************************************************************************)
(* One request to a gateway with three nodes, two of which make a quorum.  *)
(***************************************************************************)
EXTENDS Servers
===============================================================================
