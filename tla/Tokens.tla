-------------------------------- MODULE Tokens --------------------------------
(***************************************************************************)
(* What the group signs and what a node checks when it is shown again.     *)
(*                                                                         *)
(* Three JWTs are signed by the same group key: the authentication         *)
(* assertion (typ "JWT", the OAuth code), the access token ("at+jwt") and  *)
(* the refresh token ("refresh+jwt").  A message is the signing input of   *)
(* one of them.  The claims carried over unchanged from the assertion to   *)
(* both tokens are its holder: sub, client_id (scope travels with it) and  *)
(* the DPoP thumbprint cnf.jkt.  `iss' and `aud' are the one issuer every  *)
(* node and the gateway are configured with, so they are not repeated in   *)
(* the message.  Lifetimes and the skew are parameters so that a run can   *)
(* scale 30 s, 3600 s, 30 days, 40 days and 60 s down.                     *)
(***************************************************************************)
EXTENDS Integers

CONSTANTS
  MAX_ASSERTION_LIFETIME_SECONDS,    \* 30
  MAX_ACCESS_TOKEN_LIFETIME_SECONDS, \* 3600
  DEFAULT_REFRESH_LIFETIME_SECONDS,  \* 30 days
  MAX_REFRESH_LIFETIME_SECONDS,      \* 40 days
  CLOCK_SKEW_SECONDS,                \* 60, for iat claims and for DPoP proofs
  Issuer,        \* the ISSUER every node and the gateway are configured with
  User,          \* the usernames in the nodes' configuration, each with its sub
  Client,        \* client_id values, scope included
  Jkt,           \* DPoP key thumbprints
  KeyId,         \* key ids that can stand in a header
  Jti,           \* access token ids
  NoJti,         \* the empty jti, and the jti of a message that has none
  Unpinned       \* refreshExp left out of a /sign request

ASSUME LifetimeAssumption ==
  /\ MAX_ASSERTION_LIFETIME_SECONDS \in Nat
  /\ MAX_ACCESS_TOKEN_LIFETIME_SECONDS \in Nat
  /\ DEFAULT_REFRESH_LIFETIME_SECONDS \in Nat
  /\ MAX_REFRESH_LIFETIME_SECONDS \in Nat
  /\ CLOCK_SKEW_SECONDS \in Nat

\* A refreshExp that is given is a number of seconds.
ASSUME UnpinnedAssumption == Unpinned \notin Int

REFRESH_TOKEN_TYP == "refresh+jwt"

Holder == [sub : User, client_id : Client, jkt : Jkt]

Message == [typ : {"JWT", "at+jwt", REFRESH_TOKEN_TYP}, kid : KeyId,
            holder : Holder, iat : Int, exp : Int, jti : Jti \cup {NoJti}]

AssertionMsg(kid, holder, iat, exp) ==
  [typ |-> "JWT", kid |-> kid, holder |-> holder,
   iat |-> iat, exp |-> exp, jti |-> NoJti]

AccessTokenMsg(kid, holder, iat, exp, jti) ==
  [typ |-> "at+jwt", kid |-> kid, holder |-> holder,
   iat |-> iat, exp |-> exp, jti |-> jti]

RefreshTokenMsg(kid, holder, iat, exp) ==
  [typ |-> REFRESH_TOKEN_TYP, kid |-> kid, holder |-> holder,
   iat |-> iat, exp |-> exp, jti |-> NoJti]

-------------------------------------------------------------------------------
(***************************************************************************)
(* Time windows.  All clocks are whole seconds, as Math.floor(now / 1000). *)
(***************************************************************************)

\* Faulty variant of Fresh: an iat in the future is let through.
FreshOneSided(iat, time) == time - iat <= CLOCK_SKEW_SECONDS

\* |now - iat| <= CLOCK_SKEW_SECONDS, for token claims and for DPoP proofs.
Fresh(iat, time) ==
  /\ time - iat <= CLOCK_SKEW_SECONDS
  /\ iat - time <= CLOCK_SKEW_SECONDS

\* The range every signed lifetime must lie in: 1 .. max.
InLifetime(lifetime, max) == 0 < lifetime /\ lifetime <= max

\* The refresh token's exp: the one the gateway pins, or the default.
RefreshExp(pinned, iat) ==
  IF pinned = Unpinned THEN iat + DEFAULT_REFRESH_LIFETIME_SECONDS ELSE pinned

-------------------------------------------------------------------------------
(***************************************************************************)
(* A presented credential is a message and whether the group signature     *)
(* over it verifies.  exp itself is still a valid second: a token expires  *)
(* when exp < now.                                                         *)
(***************************************************************************)

Grant == {"authorization_code", "refresh_token"}

Credential == [msg : Message, sigOk : BOOLEAN]

\* Faulty variants of VerifyJwt: the signature is not looked at; exp is not.
VerifyJwtUnsigned(token, time) == time <= token.msg.exp
VerifyJwtUnexpiring(token, time) == token.sigOk

VerifyJwt(token, time) ==
  /\ token.sigOk
  /\ time <= token.msg.exp

VerifyAssertion(token, time) ==
  /\ VerifyJwt(token, time)
  /\ token.msg.typ = "JWT"
  /\ InLifetime(token.msg.exp - token.msg.iat, MAX_ASSERTION_LIFETIME_SECONDS)

VerifyRefreshToken(token, time) ==
  /\ VerifyJwt(token, time)
  /\ token.msg.typ = REFRESH_TOKEN_TYP
  /\ InLifetime(token.msg.exp - token.msg.iat, MAX_REFRESH_LIFETIME_SECONDS)

VerifyCredential(grant, token, time) ==
  \/ grant = "authorization_code" /\ VerifyAssertion(token, time)
  \/ grant = "refresh_token" /\ VerifyRefreshToken(token, time)

\* A DPoP proof: the thumbprint of the key that signed it, its iat and whether it
\* names POST and the token endpoint.  Its jti is not tracked by anyone.
Proof == [jkt : Jkt, iat : Int, bound : BOOLEAN]

VerifyDPoPProof(proof, jkt, time) ==
  /\ proof.bound
  /\ Fresh(proof.iat, time)
  /\ proof.jkt = jkt
===============================================================================
