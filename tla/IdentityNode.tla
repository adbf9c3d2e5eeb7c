----------------------------- MODULE IdentityNode -----------------------------
(***************************************************************************)
(* The identity nodes.  A node keeps one piece of mutable state, the map   *)
(* activeNonces from an open FROST round to the nonce pair drawn for it.   *)
(* /commit draws a pair, /sign-on spends one round on the assertion, /sign *)
(* spends two rounds on the access token and the next refresh token.  Each *)
(* request is handled without interleaving once its body has been read, so *)
(* each is one action here.  A restart loses the map.                      *)
(*                                                                         *)
(* The k-th nonce pair a node ever draws is the number k: pairs are drawn  *)
(* from a secure source, so they are taken to be distinct.  A commitment   *)
(* [node, nonce] stands for the points (D, E) of that pair; a commitment   *)
(* set also names the participants, as the gateway always derives          *)
(* allParticipants from it.  `shares' records every signature share a node *)
(* has computed: what was signed, with which pair, over which commitment   *)
(* set and when.  It is a history variable: no handler reads it.           *)
(***************************************************************************)
EXTENDS Tokens, FiniteSets

CONSTANTS
  Node,        \* the node ids of the dealer's key ceremony
  Threshold,   \* how many of them sign together
  RoundId,     \* round ids, as callers choose them
  NodeKeyId,   \* the kid the nodes stamp into every header
  MaxNonces,   \* bound on the nonce pairs a node draws
  MaxTime      \* bound on the clock

ASSUME ThresholdAssumption == Threshold \in Nat \ {0}
ASSUME NodeAssumption == IsFiniteSet(Node) /\ Cardinality(Node) >= Threshold
ASSUME NodeKeyIdAssumption == NodeKeyId \in KeyId
ASSUME BoundAssumption == MaxNonces \in Nat /\ MaxTime \in Nat

VARIABLES
  activeNonces,  \* per node: round id -> its unspent nonce pair, NoNonce if none
  nonceCount,    \* per node: how many nonce pairs it has drawn
  shares,        \* every signature share computed so far
  now            \* the clock the nodes and the gateway read, in seconds

nodeVars == <<activeNonces, nonceCount, shares>>

NoNonce == 0

Commitment == [node : Node, nonce : Nat]

Share == [node : Node, nonce : Nat, msg : Message,
          commitments : SUBSET Commitment, at : Nat]

SignOnRequest ==
  [username : User \cup {"unregistered"}, iss : {Issuer, "foreign"},
   client_id : Client, jkt : Jkt, iat : Int, exp : Int,
   decodes : BOOLEAN,  \* the blinded point and the commitments are curve points
   commitments : SUBSET Commitment]

SignRequest ==
  [grant : Grant, credential : Credential, proof : Proof,
   iat : Int, exp : Int, jti : Jti \cup {NoJti}, refreshExp : Int \cup {Unpinned},
   decodes : BOOLEAN,
   commitments : SUBSET Commitment, refreshCommitments : SUBSET Commitment]

NodeTypeOK ==
  /\ activeNonces \in [Node -> [RoundId -> Nat]]
  /\ nonceCount \in [Node -> Nat]
  /\ shares \subseteq Share
  /\ now \in Nat

NodeInit ==
  /\ activeNonces = [n \in Node |-> [r \in RoundId |-> NoNonce]]
  /\ nonceCount = [n \in Node |-> 0]
  /\ shares = {}
  /\ now = 0

-------------------------------------------------------------------------------
(***************************************************************************)
(* What the shares of a commitment set amount to.  The shares of a message *)
(* aggregate to a signature the group key verifies exactly when the set    *)
(* names at least Threshold nodes, each once, and every one of them signed *)
(* that message over that set with the very pair the set names for it.     *)
(***************************************************************************)
Participants(C) == {c.node : c \in C}

Quorum(C) ==
  /\ Cardinality(Participants(C)) >= Threshold
  /\ \A c, d \in C : c.node = d.node => c = d

Signed(S, c, msg, C) ==
  \E s \in S : /\ s.node = c.node
               /\ s.nonce = c.nonce
               /\ s.msg = msg
               /\ s.commitments = C

Aggregates(S, msg, C) ==
  /\ Quorum(C)
  /\ \A c \in C : Signed(S, c, msg, C)

\* The group has signed msg: whoever gathers the shares holds a verifying JWT.
GroupSigned(msg) == \E s \in shares : Aggregates(shares, msg, s.commitments)

-------------------------------------------------------------------------------
\* Faulty variants of Spend: nothing is deleted; only one of the rounds is.
SpendNothing(n, R) == UNCHANGED activeNonces
SpendOne(n, R) ==
  activeNonces' = [activeNonces EXCEPT ![n][CHOOSE r \in R : TRUE] = NoNonce]

\* The rounds R are deleted from node n's map.
Spend(n, R) ==
  activeNonces' = [activeNonces EXCEPT
    ![n] = [r \in RoundId |-> IF r \in R THEN NoNonce ELSE activeNonces[n][r]]]

ShareOf(n, nonce, msg, C) ==
  [node |-> n, nonce |-> nonce, msg |-> msg, commitments |-> C, at |-> now]

\* ownCommitment: the request's set must carry an entry for this node.
HasOwnCommitment(n, C) == n \in Participants(C)

\* POST /commit.  A second /commit for a round replaces its pair.
GenerateCommitment(n, r) ==
  /\ nonceCount[n] < MaxNonces
  /\ nonceCount' = [nonceCount EXCEPT ![n] = @ + 1]
  /\ activeNonces' = [activeNonces EXCEPT ![n][r] = nonceCount[n] + 1]
  /\ UNCHANGED <<shares, now>>

-------------------------------------------------------------------------------
\* Faulty variant of SignOnAccepted: any username is served.
SignOnAcceptedAnyUser(n, r, req) ==
  /\ HasOwnCommitment(n, req.commitments)
  /\ req.iss = Issuer
  /\ Fresh(req.iat, now)
  /\ InLifetime(req.exp - req.iat, MAX_ASSERTION_LIFETIME_SECONDS)
  /\ activeNonces[n][r] # NoNonce

\* POST /sign-on.  Everything that is checked before the round is spent.
SignOnAccepted(n, r, req) ==
  /\ HasOwnCommitment(n, req.commitments)
  /\ req.username \in User
  /\ req.iss = Issuer
  /\ Fresh(req.iat, now)
  /\ InLifetime(req.exp - req.iat, MAX_ASSERTION_LIFETIME_SECONDS)
  /\ activeNonces[n][r] # NoNonce

AssertionOf(req) ==
  AssertionMsg(NodeKeyId,
               [sub |-> req.username, client_id |-> req.client_id, jkt |-> req.jkt],
               req.iat, req.exp)

\* The share is computed and returned, encrypted under the user's h_i.
AnswerSignOn(n, r, req) ==
  /\ SignOnAccepted(n, r, req)
  /\ req.decodes
  /\ Spend(n, {r})
  /\ shares' = shares \cup
       {ShareOf(n, activeNonces[n][r], AssertionOf(req), req.commitments)}
  /\ UNCHANGED <<nonceCount, now>>

\* A point does not decode: the round is already deleted, and nothing is signed.
SpoilSignOn(n, r, req) ==
  /\ SignOnAccepted(n, r, req)
  /\ ~req.decodes
  /\ Spend(n, {r})
  /\ UNCHANGED <<nonceCount, shares, now>>

RefuseSignOn(n, r, req) ==
  /\ ~SignOnAccepted(n, r, req)
  /\ UNCHANGED <<nodeVars, now>>

HandleSignOn(n, r, req) ==
  \/ AnswerSignOn(n, r, req)
  \/ SpoilSignOn(n, r, req)
  \/ RefuseSignOn(n, r, req)

-------------------------------------------------------------------------------
\* Faulty variant of SignAccepted: one round may serve both tokens.
SignAcceptedOneRound(n, ar, rr, req) ==
  /\ HasOwnCommitment(n, req.commitments)
  /\ HasOwnCommitment(n, req.refreshCommitments)
  /\ VerifyCredential(req.grant, req.credential, now)
  /\ activeNonces[n][ar] # NoNonce
  /\ activeNonces[n][rr] # NoNonce

\* POST /sign.  Everything that is checked before the two rounds are spent: the
\* credential, the DPoP proof bound to its jkt, the claims the gateway pins, and
\* that both rounds are open and differ.
SignAccepted(n, ar, rr, req) ==
  /\ HasOwnCommitment(n, req.commitments)
  /\ HasOwnCommitment(n, req.refreshCommitments)
  /\ ar # rr
  /\ VerifyCredential(req.grant, req.credential, now)
  /\ VerifyDPoPProof(req.proof, req.credential.msg.holder.jkt, now)
  /\ Fresh(req.iat, now)
  /\ InLifetime(req.exp - req.iat, MAX_ACCESS_TOKEN_LIFETIME_SECONDS)
  /\ req.jti # NoJti
  /\ InLifetime(RefreshExp(req.refreshExp, req.iat) - req.iat,
                MAX_REFRESH_LIFETIME_SECONDS)
  /\ activeNonces[n][ar] # NoNonce
  /\ activeNonces[n][rr] # NoNonce

\* The identity comes out of the verified credential, the times out of the request.
AccessOf(req) ==
  AccessTokenMsg(NodeKeyId, req.credential.msg.holder, req.iat, req.exp, req.jti)

RefreshOf(req) ==
  RefreshTokenMsg(NodeKeyId, req.credential.msg.holder, req.iat,
                  RefreshExp(req.refreshExp, req.iat))

AnswerSign(n, ar, rr, req) ==
  /\ SignAccepted(n, ar, rr, req)
  /\ req.decodes
  /\ Spend(n, {ar, rr})
  /\ shares' = shares \cup
       {ShareOf(n, activeNonces[n][ar], AccessOf(req), req.commitments),
        ShareOf(n, activeNonces[n][rr], RefreshOf(req), req.refreshCommitments)}
  /\ UNCHANGED <<nonceCount, now>>

SpoilSign(n, ar, rr, req) ==
  /\ SignAccepted(n, ar, rr, req)
  /\ ~req.decodes
  /\ Spend(n, {ar, rr})
  /\ UNCHANGED <<nonceCount, shares, now>>

RefuseSign(n, ar, rr, req) ==
  /\ ~SignAccepted(n, ar, rr, req)
  /\ UNCHANGED <<nodeVars, now>>

HandleSign(n, ar, rr, req) ==
  \/ AnswerSign(n, ar, rr, req)
  \/ SpoilSign(n, ar, rr, req)
  \/ RefuseSign(n, ar, rr, req)

-------------------------------------------------------------------------------
\* The process restarts: open rounds are lost.  nonceCount is no state of the code, which
\* draws its pairs at random: a number that never comes back stands for a random pair.
Restart(n) ==
  /\ activeNonces' = [activeNonces EXCEPT ![n] = [r \in RoundId |-> NoNonce]]
  /\ UNCHANGED <<nonceCount, shares, now>>

Tick ==
  /\ now < MaxTime
  /\ now' = now + 1
  /\ UNCHANGED nodeVars

\* Every step a node can take, whoever calls it.  A credential may say its group
\* signature verifies only if the group did sign it (Ed25519 is not forged).
Unforged(credential) == credential.sigOk => GroupSigned(credential.msg)

NodeStep ==
  \/ \E n \in Node, r \in RoundId : GenerateCommitment(n, r)
  \/ \E n \in Node, r \in RoundId, req \in SignOnRequest : HandleSignOn(n, r, req)
  \/ \E n \in Node, ar, rr \in RoundId, req \in SignRequest :
       Unforged(req.credential) /\ HandleSign(n, ar, rr, req)
  \/ \E n \in Node : Restart(n)
  \/ Tick

NodeSpec == NodeInit /\ [][NodeStep]_<<nodeVars, now>>

-------------------------------------------------------------------------------
(***************************************************************************)
(* Properties.                                                             *)
(***************************************************************************)

\* A nonce pair makes at most one share: never two messages, nor one message over two
\* commitment sets, either of which would leak the node's key share (node.ts 354).
NonceSingleUse ==
  \A s, t \in shares : s.node = t.node /\ s.nonce = t.nonce => s = t

\* The pair of an open round has signed nothing, and no other round of the node
\* holds it: whatever becomes of rounds, restarts and repeated commits.
OpenNoncesUnused ==
  \A n \in Node, r \in RoundId : activeNonces[n][r] # NoNonce =>
    /\ \A s \in shares : s.node = n => s.nonce # activeNonces[n][r]
    /\ \A q \in RoundId : q # r => activeNonces[n][q] # activeNonces[n][r]

\* No share of an access or refresh token exists unless a threshold of nodes signed an
\* assertion for the same sub, client and DPoP key, however often the refresh token
\* was rotated since.
TokensDescendFromSignOn ==
  \A s \in shares : s.msg.typ # "JWT" =>
    \E a \in shares : /\ a.msg.typ = "JWT"
                      /\ a.msg.holder = s.msg.holder
                      /\ GroupSigned(a.msg)

\* How long a credential outlives the moment a node signed it.  A client's clock may
\* run ahead by the skew, so this and not the lifetime alone is the true window.
SpendWindow ==
  \A s \in shares :
    /\ VerifyAssertion([msg |-> s.msg, sigOk |-> TRUE], now) =>
         now - s.at <= MAX_ASSERTION_LIFETIME_SECONDS + CLOCK_SKEW_SECONDS
    /\ VerifyRefreshToken([msg |-> s.msg, sigOk |-> TRUE], now) =>
         now - s.at <= MAX_REFRESH_LIFETIME_SECONDS + CLOCK_SKEW_SECONDS
===============================================================================
