----------------------------- MODULE MCDeployment -----------------------------
(***************************************************************************)
(* Two nodes, with containers that mount the right files or both the same  *)
(* one, and NODE_URLS with both, one of them, or one of them twice.        *)
(***************************************************************************)
EXTENDS Deployment

CONSTANTS u1, u2

MCUrlLists == {<<u1, u2>>, <<u1>>, <<u1, u1>>, << >>}

MCMounts == {[u \in Url |-> IF u = u1 THEN 1 ELSE i] : i \in {1, 2}}
===============================================================================
