----------------------------- MODULE MCAnyCaller -----------------------------
(***************************************************************************)
(* Small instances of AnyCaller.  MCRounds plays two nodes, each drawing   *)
(* three pairs for two rounds, at one instant; MCClock plays one node on a *)
(* clock, with every lifetime and skew scaled down.                        *)
(***************************************************************************)
EXTENDS AnyCaller

\* The set a caller names when every node of P is at its k-th pair.
SetOf(P, k) == {[node |-> n, nonce |-> k] : n \in P}

RoundsSignOn ==
  [username : User \cup {"unregistered"}, iss : {Issuer}, client_id : Client, jkt : Jkt,
   iat : {0}, exp : {1}, decodes : BOOLEAN, commitments : {SetOf(Node, 1), SetOf(Node, 2)}]

RoundsSign ==
  [grant : {"authorization_code"}, proof : [jkt : Jkt, iat : {0}, bound : {TRUE}],
   iat : {0}, exp : {1}, jti : Jti, refreshExp : {Unpinned}, decodes : BOOLEAN,
   commitments : {SetOf(Node, 2)}, refreshCommitments : {SetOf(Node, 3)}]

\* Any iat on or around the clock, and lifetimes from 0 to one more than the longest.
ClockSignOn ==
  {req \in [username : User, iss : {Issuer, "foreign"}, client_id : Client, jkt : Jkt,
            iat : 0 .. MaxTime + 1, exp : 0 .. MaxTime + 2, decodes : {TRUE},
            commitments : {SetOf(Node, 1)}] :
     req.exp - req.iat \in 0 .. MAX_ASSERTION_LIFETIME_SECONDS + 1}

\* The pinned refresh exp likewise; the proof is made when the token is asked for.
ClockSign ==
  {req \in [grant : Grant, proof : [jkt : Jkt, iat : 0 .. MaxTime, bound : {TRUE}],
            iat : 0 .. MaxTime + 1, exp : 0 .. MaxTime + 2, jti : Jti,
            refreshExp : {Unpinned} \cup 0 .. MaxTime + 3, decodes : {TRUE},
            commitments : {SetOf(Node, 2)}, refreshCommitments : {SetOf(Node, 3)}] :
     /\ req.exp = req.iat + MAX_ACCESS_TOKEN_LIFETIME_SECONDS
     /\ req.proof.iat = req.iat
     /\ req.refreshExp # Unpinned =>
          req.refreshExp - req.iat \in 1 .. MAX_REFRESH_LIFETIME_SECONDS + 1}
===============================================================================
