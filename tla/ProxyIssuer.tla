------------------------------ MODULE ProxyIssuer ------------------------------
(***************************************************************************)
(* The proxy and the nodes, seen as the abstract issuer they implement     *)
(* together: a node endorses what it has computed a share of, and a JWT is *)
(* issued once somebody holds it with a signature that verifies.           *)
(***************************************************************************)
EXTENDS PastaProxy

\* Every message the nodes can be made to sign: the assertions browsers ask for, and the
\* two tokens the gateway has signed for a holder, at some time.
Signable ==
  {AssertionMsg(NodeKeyId,
                [sub |-> body.username, client_id |-> body.client_id, jkt |-> body.jkt],
                body.iat, body.exp) : body \in {b \in SignOnBody : b.username \in User}}
  \cup
  {AccessTokenMsg(NodeKeyId, holder, iat, iat + ACCESS_TOKEN_LIFETIME_SECONDS, jti) :
     holder \in Holder, iat \in 0 .. MaxTime, jti \in Request}
  \cup
  {RefreshTokenMsg(NodeKeyId, holder, iat, iat + REFRESH_TOKEN_LIFETIME_SECONDS) :
     holder \in Holder, iat \in 0 .. MaxTime}

Promised == INSTANCE ThresholdIssuer WITH
  Message <- Signable,
  AssertionTyp <- "JWT", AccessTyp <- "at+jwt", RefreshTyp <- REFRESH_TOKEN_TYP,
  endorsed <- {<<s.node, s.msg>> : s \in shares},
  issued <- {t.msg : t \in {w \in wallet : w.sigOk}}

\* The nodes and the proxy implement the abstract issuer: no JWT verifies without a
\* threshold of endorsements, none is endorsed but for the holder of an issued one.
ImplementsIssuer == Promised!Spec
===============================================================================
