------------------------------ MODULE PastaProxy ------------------------------
(***************************************************************************)
(* The gateway's proxy over the nodes.  Each browser or relying-party      *)
(* request is orchestrated on its own and concurrently with the others:    *)
(*                                                                         *)
(*   sign-on   commit round at the named nodes, or at every node and then  *)
(*             whoever answered; /sign-on at every one that committed      *)
(*   /token    a commit round for the access token, a second one at        *)
(*             exactly its participants for the refresh token; /sign       *)
(*                                                                         *)
(* A call to a node either is answered or fails at the gateway: a refused  *)
(* connection, a 400, or five seconds without an answer.  A call that      *)
(* timed out may still reach its node later, when nobody awaits it; those  *)
(* are the stray calls.  A commit round waits for all of its calls         *)
(* (failures are collected); a signing round is a Promise.all, so its      *)
(* first failure fails the request while the other calls are in flight.    *)
(* Nodes may restart at any moment.  The browser's SDK then opens the      *)
(* encrypted shares of a sign-on and assembles the assertion, and the      *)
(* relying party presents it at /token with a DPoP proof.                  *)
(***************************************************************************)
EXTENDS IdentityNode, Sequences, SequencesExt

CONSTANTS
  Request,       \* the requests the gateway serves
  SignOnBody,    \* the sign-on bodies browsers may post
  Proofs,        \* jkt values of the keys DPoP proofs may be signed with
  NamedNode,     \* what a sign-on body may name as a participant, known or not
  Unspecified,   \* participants left out of a sign-on body
  NoAsk,         \* a request slot not used yet
  GatewayKeyId,  \* the kid of group.json, stamped into tokens by the gateway
  SdkKeyId,      \* the kid the browser SDK stamps into the assertion
  ACCESS_TOKEN_LIFETIME_SECONDS,
  REFRESH_TOKEN_LIFETIME_SECONDS,
  Unreliable     \* the nodes whose calls may fail and that may restart

ASSUME RequestAssumption ==
  /\ Request \subseteq Jti \ {NoJti}
  /\ Request \X {"commit", "refresh"} \subseteq RoundId
ASSUME IssueLifetimeAssumption ==
  /\ ACCESS_TOKEN_LIFETIME_SECONDS \in 1 .. MAX_ACCESS_TOKEN_LIFETIME_SECONDS
  /\ REFRESH_TOKEN_LIFETIME_SECONDS \in 1 .. MAX_REFRESH_LIFETIME_SECONDS
ASSUME KeyIdsAssumption == GatewayKeyId \in KeyId /\ SdkKeyId \in KeyId
ASSUME ProofsAssumption == Proofs \subseteq Jkt
ASSUME UnreliableAssumption == Unreliable \subseteq Node

Body == [kind : {"sign-on"}, username : User \cup {"unregistered"},
         iss : {Issuer, "foreign"}, client_id : Client, jkt : Jkt, iat : Int, exp : Int,
         decodes : BOOLEAN, password : BOOLEAN, participants : Seq(NamedNode) \cup {Unspecified}]

TokenAsk == [kind : {"token"}, grant : Grant, proof : Proof, credential : Credential]

ASSUME BodyAssumption == SignOnBody \subseteq Body

VARIABLES
  phase,    \* per request: how far its handler has come
  ask,      \* per request: what was asked
  calls,    \* per request: the node calls its handler is waiting on
  access,   \* per request: the commitment set of its first round
  refresh,  \* per request: the commitment set of the refresh token's round
  issuedAt, \* per request: the iat the gateway pinned
  replies,  \* per request: the shares the nodes answered with
  stray,    \* calls nobody awaits that may still reach their node
  wallet,   \* the JWTs browsers and relying parties hold
  faulty    \* the nodes that failed a call or restarted so far

proxyVars == <<phase, ask, calls, access, refresh, issuedAt, replies, stray, wallet, faulty>>
vars == <<nodeVars, now, proxyVars>>

Phase == {"idle", "commit", "refresh", "sign", "done", "failed"}

\* Faulty variant of RoundOf: the requests share their round ids.
RoundOfAnyone(q, ph) == <<CHOOSE r \in Request : TRUE, ph>>

\* Round ids are fresh UUIDs, two per request at most.
RoundOf(q, ph) == <<q, ph>>

IsSignOn(q) == ask[q].kind = "sign-on"

Init ==
  /\ NodeInit
  /\ phase = [q \in Request |-> "idle"]
  /\ ask = [q \in Request |-> NoAsk]
  /\ calls = [q \in Request |-> << >>]
  /\ access = [q \in Request |-> {}]
  /\ refresh = [q \in Request |-> {}]
  /\ issuedAt = [q \in Request |-> 0]
  /\ replies = [q \in Request |-> {}]
  /\ stray = {}
  /\ wallet = {}
  /\ faulty = {}

-------------------------------------------------------------------------------
(***************************************************************************)
(* Calls to nodes.                                                         *)
(***************************************************************************)
\* Faulty variant of CallTo: a node the proxy does not know is called like any other.
CallToAnyone(n) == [node |-> n, state |-> "sent", nonce |-> NoNonce]

CallTo(n) == [node |-> n, state |-> IF n \in Node THEN "sent" ELSE "failed",
              nonce |-> NoNonce]

CallAll(nodes) == [i \in DOMAIN nodes |-> CallTo(nodes[i])]

Sent(q) == {i \in DOMAIN calls[q] : calls[q][i].state = "sent"}
Ok(q) == {i \in DOMAIN calls[q] : calls[q][i].state = "ok"}

\* Faulty variants of Settled: the first Threshold answers are enough; only answers
\* count, so that a failed call is awaited for ever.
SettledByThreshold(q) == Sent(q) = {} \/ Cardinality(Ok(q)) >= Threshold
SettledByAnswers(q) == Ok(q) = DOMAIN calls[q]

Settled(q) == Sent(q) = {}

\* The i-th call of request q comes back, with the nonce pair of a commitment if it has one.
Settle(q, i, state, nonce) ==
  calls' = [calls EXCEPT ![q][i] =
              [node |-> calls[q][i].node, state |-> state, nonce |-> nonce]]

Stray(q, i) == [request |-> q, phase |-> phase[q], call |-> i, node |-> calls[q][i].node]

\* The commitments a finished commit round collected.
Collected(q) == {[node |-> calls[q][i].node, nonce |-> calls[q][i].nonce] : i \in Ok(q)}

\* The nodes of a commitment set, one entry per commitment.
Signers(C) == LET s == SetToSeq(C) IN [i \in DOMAIN s |-> s[i].node]

Leave(q, ph) ==
  /\ phase' = [phase EXCEPT ![q] = ph]
  /\ calls' = [calls EXCEPT ![q] = << >>]

Fail(q) == Leave(q, "failed")

-------------------------------------------------------------------------------
(***************************************************************************)
(* Requests come in.                                                       *)
(***************************************************************************)

\* POST /api/pasta/sign-on.
StartSignOn(q, body) ==
  LET requested == IF body.participants = Unspecified THEN SetToSeq(Node)
                   ELSE body.participants
  IN
  /\ phase[q] = "idle"
  /\ ask' = [ask EXCEPT ![q] = body]
  /\ IF Len(requested) < Threshold
     THEN Fail(q)
     ELSE /\ phase' = [phase EXCEPT ![q] = "commit"]
          /\ calls' = [calls EXCEPT ![q] = CallAll(requested)]
  /\ UNCHANGED <<nodeVars, now, access, refresh, issuedAt, replies, stray, wallet, faulty>>

\* POST /token.  The gateway itself only checks the proof against the jkt the
\* credential claims; the credential is left to the nodes.
StartToken(q, grant, credential, proof) ==
  /\ phase[q] = "idle"
  /\ ask' = [ask EXCEPT ![q] = [kind |-> "token", grant |-> grant, proof |-> proof,
                                credential |-> credential]]
  /\ IF VerifyDPoPProof(proof, credential.msg.holder.jkt, now)
          /\ Cardinality(Node) >= Threshold
     THEN /\ phase' = [phase EXCEPT ![q] = "commit"]
          /\ calls' = [calls EXCEPT ![q] = CallAll(SetToSeq(Node))]
     ELSE Fail(q)
  /\ UNCHANGED <<nodeVars, now, access, refresh, issuedAt, replies, stray, wallet, faulty>>

-------------------------------------------------------------------------------
(***************************************************************************)
(* Round 1: collectCommitments.                                            *)
(***************************************************************************)
CommitAnswered(q, i) ==
  /\ phase[q] \in {"commit", "refresh"}
  /\ i \in Sent(q)
  /\ GenerateCommitment(calls[q][i].node, RoundOf(q, phase[q]))
  /\ Settle(q, i, "ok", nonceCount'[calls[q][i].node])
  /\ UNCHANGED <<phase, ask, access, refresh, issuedAt, replies, stray, wallet, faulty>>

CommitFails(q, i) ==
  /\ phase[q] \in {"commit", "refresh"}
  /\ i \in Sent(q)
  /\ calls[q][i].node \in Unreliable
  /\ Settle(q, i, "failed", NoNonce)
  /\ stray' = stray \cup {Stray(q, i)}
  /\ faulty' = faulty \cup {calls[q][i].node}
  /\ UNCHANGED <<nodeVars, now, phase, ask, access, refresh, issuedAt, replies, wallet>>

\* The nodes the caller insists on: named in the body, or by the access round.
Explicit(q) ==
  \/ phase[q] = "refresh"
  \/ IsSignOn(q) /\ ask[q].participants # Unspecified

QuorumCommitted(q) ==
  /\ Explicit(q) => Ok(q) = DOMAIN calls[q]
  /\ Cardinality(Ok(q)) >= Threshold

\* The round goes on with whoever committed, or the request fails.
EndCommit(q) ==
  /\ phase[q] \in {"commit", "refresh"}
  /\ Settled(q)
  /\ \/ /\ ~QuorumCommitted(q)
        /\ Fail(q)
        /\ UNCHANGED <<access, refresh, issuedAt>>
     \/ /\ QuorumCommitted(q)
        /\ phase[q] = "commit"
        /\ access' = [access EXCEPT ![q] = Collected(q)]
        /\ phase' = [phase EXCEPT ![q] = IF IsSignOn(q) THEN "sign" ELSE "refresh"]
        /\ calls' = [calls EXCEPT ![q] = CallAll(Signers(Collected(q)))]
        /\ UNCHANGED <<refresh, issuedAt>>
     \/ /\ QuorumCommitted(q)
        /\ phase[q] = "refresh"
        /\ refresh' = [refresh EXCEPT ![q] = Collected(q)]
        /\ issuedAt' = [issuedAt EXCEPT ![q] = now]
        /\ phase' = [phase EXCEPT ![q] = "sign"]
        /\ calls' = [calls EXCEPT ![q] = CallAll(Signers(access[q]))]
        /\ UNCHANGED access
  /\ UNCHANGED <<nodeVars, now, ask, replies, stray, wallet, faulty>>

-------------------------------------------------------------------------------
(***************************************************************************)
(* Round 2.                                                                *)
(***************************************************************************)
SignOnCall(q) ==
  [username |-> ask[q].username, iss |-> ask[q].iss, client_id |-> ask[q].client_id,
   jkt |-> ask[q].jkt, iat |-> ask[q].iat, exp |-> ask[q].exp,
   decodes |-> ask[q].decodes, commitments |-> access[q]]

\* Faulty variant of SignCall: the access token outlives the longest lifetime by one.
SignCallTooLong(q) ==
  [grant |-> ask[q].grant, credential |-> ask[q].credential, proof |-> ask[q].proof,
   iat |-> issuedAt[q], exp |-> issuedAt[q] + MAX_ACCESS_TOKEN_LIFETIME_SECONDS + 1,
   jti |-> q, refreshExp |-> issuedAt[q] + REFRESH_TOKEN_LIFETIME_SECONDS,
   decodes |-> TRUE, commitments |-> access[q], refreshCommitments |-> refresh[q]]

SignCall(q) ==
  [grant |-> ask[q].grant, credential |-> ask[q].credential, proof |-> ask[q].proof,
   iat |-> issuedAt[q], exp |-> issuedAt[q] + ACCESS_TOKEN_LIFETIME_SECONDS, jti |-> q,
   refreshExp |-> issuedAt[q] + REFRESH_TOKEN_LIFETIME_SECONDS, decodes |-> TRUE,
   commitments |-> access[q], refreshCommitments |-> refresh[q]]

\* The node's answer to the signing call of request q, and its refusals.
NodeAnswers(q, n) ==
  IF IsSignOn(q)
  THEN AnswerSignOn(n, RoundOf(q, "commit"), SignOnCall(q))
  ELSE AnswerSign(n, RoundOf(q, "commit"), RoundOf(q, "refresh"), SignCall(q))

NodeRefuses(q, n) ==
  IF IsSignOn(q)
  THEN \/ SpoilSignOn(n, RoundOf(q, "commit"), SignOnCall(q))
       \/ RefuseSignOn(n, RoundOf(q, "commit"), SignOnCall(q))
  ELSE \/ SpoilSign(n, RoundOf(q, "commit"), RoundOf(q, "refresh"), SignCall(q))
       \/ RefuseSign(n, RoundOf(q, "commit"), RoundOf(q, "refresh"), SignCall(q))

SignAnswered(q, i) ==
  /\ phase[q] = "sign"
  /\ i \in Sent(q)
  /\ NodeAnswers(q, calls[q][i].node)
  /\ Settle(q, i, "ok", NoNonce)
  /\ replies' = [replies EXCEPT ![q] = @ \cup (shares' \ shares)]
  /\ UNCHANGED <<phase, ask, access, refresh, issuedAt, stray, wallet, faulty>>

\* The first refusal or failure rejects the Promise.all; the calls still out go stray.
SignRefused(q, i) ==
  /\ phase[q] = "sign"
  /\ i \in Sent(q)
  /\ NodeRefuses(q, calls[q][i].node)
  /\ Fail(q)
  /\ stray' = stray \cup {Stray(q, j) : j \in Sent(q) \ {i}}
  /\ UNCHANGED <<ask, access, refresh, issuedAt, replies, wallet, faulty>>

SignFails(q, i) ==
  /\ phase[q] = "sign"
  /\ i \in Sent(q)
  /\ calls[q][i].node \in Unreliable
  /\ Fail(q)
  /\ stray' = stray \cup {Stray(q, j) : j \in Sent(q)}
  /\ faulty' = faulty \cup {calls[q][i].node}
  /\ UNCHANGED <<nodeVars, now, ask, access, refresh, issuedAt, replies, wallet>>

-------------------------------------------------------------------------------
(***************************************************************************)
(* Tokens.  Neither the gateway nor the SDK verifies what it assembled:    *)
(* sigOk says whether it would have verified.                              *)
(***************************************************************************)
Assembled(msg, S, C) == [msg |-> msg, sigOk |-> Aggregates(S, msg, C)]

AccessToken(q) ==
  Assembled(AccessTokenMsg(GatewayKeyId, ask[q].credential.msg.holder, issuedAt[q],
                           issuedAt[q] + ACCESS_TOKEN_LIFETIME_SECONDS, q),
            replies[q], access[q])

RefreshToken(q) ==
  Assembled(RefreshTokenMsg(GatewayKeyId, ask[q].credential.msg.holder, issuedAt[q],
                            issuedAt[q] + REFRESH_TOKEN_LIFETIME_SECONDS),
            replies[q], refresh[q])

\* Every node answered.  /token assembles the two tokens from the plaintext shares.
EndSign(q) ==
  /\ phase[q] = "sign"
  /\ Settled(q)
  /\ Leave(q, "done")
  /\ wallet' = IF IsSignOn(q) THEN wallet ELSE wallet \cup {AccessToken(q), RefreshToken(q)}
  /\ UNCHANGED <<nodeVars, now, ask, access, refresh, issuedAt, replies, stray, faulty>>

\* The message the SDK expects, sub being the one the first response names.
ExpectedAssertion(q) ==
  AssertionMsg(SdkKeyId,
    [sub |-> (CHOOSE s \in replies[q] : TRUE).msg.holder.sub,
     client_id |-> ask[q].client_id, jkt |-> ask[q].jkt],
    ask[q].iat, ask[q].exp)

\* The SDK opens every ct_i: the password must be right, and the associated data is the
\* message the node signed.
Opens(q) == ask[q].password /\ \A s \in replies[q] : s.msg = ExpectedAssertion(q)

AssembleAssertion(q) ==
  /\ phase[q] = "done"
  /\ IsSignOn(q)
  /\ Opens(q)
  /\ wallet' = wallet \cup {Assembled(ExpectedAssertion(q), replies[q], access[q])}
  /\ UNCHANGED <<nodeVars, now, phase, ask, calls, access, refresh, issuedAt, replies,
                 stray, faulty>>

-------------------------------------------------------------------------------
(***************************************************************************)
(* Calls nobody awaits any more, and restarts.                             *)
(***************************************************************************)
StrayCommit(m) ==
  /\ m.phase \in {"commit", "refresh"}
  /\ GenerateCommitment(m.node, RoundOf(m.request, m.phase))

StraySign(m) ==
  /\ m.phase = "sign"
  /\ NodeAnswers(m.request, m.node) \/ NodeRefuses(m.request, m.node)

StrayArrives(m) ==
  /\ StrayCommit(m) \/ StraySign(m)
  /\ stray' = stray \ {m}
  /\ UNCHANGED <<phase, ask, calls, access, refresh, issuedAt, replies, wallet, faulty>>

NodeRestarts(n) ==
  /\ n \in Unreliable
  /\ \E r \in RoundId : activeNonces[n][r] # NoNonce
  /\ Restart(n)
  /\ faulty' = faulty \cup {n}
  /\ UNCHANGED <<phase, ask, calls, access, refresh, issuedAt, replies, stray, wallet>>

ClockTicks == Tick /\ UNCHANGED proxyVars

-------------------------------------------------------------------------------
\* A credential presented at /token: a JWT out of the wallet, or a copy of one whose
\* holder was altered, under which the signature does not verify.
Altered(t) ==
  {[msg |-> [t.msg EXCEPT !.holder = h], sigOk |-> FALSE] : h \in Holder \ {t.msg.holder}}

Presented == wallet \cup UNION {Altered(t) : t \in wallet}

ProofNow(jkt) == [jkt |-> jkt, iat |-> now, bound |-> TRUE]

Served(q) ==
  \/ \E body \in SignOnBody : StartSignOn(q, body)
  \/ \E grant \in Grant, c \in Presented, jkt \in Proofs :
       StartToken(q, grant, c, ProofNow(jkt))
  \/ EndCommit(q)
  \/ EndSign(q)
  \/ AssembleAssertion(q)

CommitSettles(q) == \E i \in DOMAIN calls[q] : CommitAnswered(q, i) \/ CommitFails(q, i)

SignSettles(q) == \E i \in DOMAIN calls[q] :
  SignAnswered(q, i) \/ SignRefused(q, i) \/ SignFails(q, i)

Next ==
  \/ \E q \in Request : Served(q) \/ CommitSettles(q) \/ SignSettles(q)
  \/ \E m \in stray : StrayArrives(m)
  \/ \E n \in Node : NodeRestarts(n)
  \/ ClockTicks

Spec == Init /\ [][Next]_vars

\* Every call settles, in five seconds at worst, and the handler awaiting it then runs
\* on.  Nothing makes a caller come, a stray call arrive or a node stay up.
Fairness == \A q \in Request :
  /\ WF_vars(CommitSettles(q))
  /\ WF_vars(EndCommit(q))
  /\ WF_vars(SignSettles(q))
  /\ WF_vars(EndSign(q))

FairSpec == Spec /\ Fairness

-------------------------------------------------------------------------------
(***************************************************************************)
(* Properties.                                                             *)
(***************************************************************************)
\* Every variable keeps its shape; what a handler waits on fits how far it has come.
ProxyTypeOK ==
  /\ NodeTypeOK
  /\ phase \in [Request -> Phase]
  /\ \A q \in Request :
       /\ IF phase[q] = "idle" THEN ask[q] = NoAsk ELSE ask[q] \in Body \cup TokenAsk
       /\ \A i \in DOMAIN calls[q] :
            /\ phase[q] \in {"commit", "refresh", "sign"}
            /\ calls[q][i].state = "sent" => calls[q][i].node \in Node
            /\ calls[q][i].nonce # NoNonce => calls[q][i].state = "ok"
  /\ access \in [Request -> SUBSET Commitment]
  /\ refresh \in [Request -> SUBSET Commitment]
  /\ issuedAt \in [Request -> Nat]
  /\ \A q \in Request : replies[q] \subseteq shares
  /\ \A m \in stray : m.request \in Request /\ m.node \in Node
  /\ wallet \subseteq Credential
  /\ faulty \subseteq Node

Done(q) == phase[q] = "done"
Failed(q) == phase[q] = "failed"

\* A completed request is worth something: both tokens of a /token answer verify, and so
\* does the assertion a browser with the right password opens.  Nobody checks this at run
\* time (proxy.ts 393-403, client.ts 264-269): it rests on every participant having
\* signed the same bytes, once, with the pair it committed to.
CompletedVerify ==
  \A q \in Request : Done(q) =>
    IF IsSignOn(q)
    THEN ask[q].password =>
           Opens(q) /\ Aggregates(replies[q], ExpectedAssertion(q), access[q])
    ELSE AccessToken(q).sigOk /\ RefreshToken(q).sigOk

\* A JWT that verifies goes back to a completed sign-on, with the right password, for the
\* same subject, client and DPoP key, through whatever exchanges and rotations.
WalletGoesBackToPassword ==
  \A t \in wallet : t.sigOk =>
    \E q \in Request :
      /\ Done(q) /\ IsSignOn(q) /\ ask[q].password
      /\ t.msg.holder = [sub |-> ask[q].username, client_id |-> ask[q].client_id,
                         jkt |-> ask[q].jkt]

\* A completed request leaves no round open anywhere, but the access round at a node it was
\* free to leave out and did, after giving up on a call that reached the node all the same
\* (proxy.ts 144-176): not at a participant, not a refresh round, nor at a bystander.
DoneClosesRounds ==
  \A q \in Request, n \in Node, ph \in {"commit", "refresh"} :
    Done(q) /\ activeNonces[n][RoundOf(q, ph)] # NoNonce =>
      /\ ph = "commit"
      /\ n \in faulty \ Participants(access[q])
      /\ IsSignOn(q) => ask[q].participants = Unspecified

\* What a node and the gateway accept, at both ends of the time a request takes.
WellFormed(q) ==
  IF IsSignOn(q)
  THEN /\ ask[q].username \in User
       /\ ask[q].iss = Issuer
       /\ ask[q].decodes
       /\ Fresh(ask[q].iat, 0) /\ Fresh(ask[q].iat, now)
       /\ InLifetime(ask[q].exp - ask[q].iat, MAX_ASSERTION_LIFETIME_SECONDS)
       /\ ask[q].participants # Unspecified =>
            /\ Range(ask[q].participants) \subseteq Node
            /\ Cardinality(Range(ask[q].participants)) = Len(ask[q].participants)
            /\ Len(ask[q].participants) >= Threshold
  ELSE /\ VerifyCredential(ask[q].grant, ask[q].credential, now)
       /\ VerifyDPoPProof(ask[q].proof, ask[q].credential.msg.holder.jkt, now)

\* A well-formed request fails only if some node failed a call or restarted, or if its
\* credential, proof or iat went stale meanwhile: concurrent requests never break it.
FailureNeedsCause ==
  \A q \in Request : Failed(q) /\ WellFormed(q) => faulty # {}

\* Tokens are signed only while their credential lives and their proof is fresh: at every
\* node, whenever its call arrived, and the tokens' iat lies in the same span.
SignedWhileValid ==
  \A q \in Request : Done(q) /\ ~IsSignOn(q) =>
    \A s \in replies[q] :
      /\ s.at <= ask[q].credential.msg.exp
      /\ Fresh(ask[q].proof.iat, s.at)
      /\ s.msg.iat <= ask[q].credential.msg.exp

\* A request the gateway took is answered, whatever the nodes do: the round closes on
\* failures and timeouts as well as on answers.
RequestAnswered ==
  \A q \in Request : phase[q] # "idle" ~> Done(q) \/ Failed(q)

-------------------------------------------------------------------------------
(***************************************************************************)
(* Statements of the repository's documents that the code does not keep.   *)
(***************************************************************************)

\* gateway/README.md: a node that stops after start-up is left out of the round, and only
\* below the threshold does a request get its 400.
QuorumUpMeansServed ==
  \A q \in Request :
    Failed(q) /\ WellFormed(q) /\ (IsSignOn(q) => ask[q].participants = Unspecified) =>
      Cardinality(Node \ faulty) < Threshold

\* node.ts 348: within the credential's window a replay yields the same pair of tokens.
SameCredentialSamePair ==
  \A p, q \in Request :
    /\ Done(p) /\ Done(q) /\ ~IsSignOn(p) /\ ~IsSignOn(q)
    /\ ask[p].credential = ask[q].credential
    => AccessToken(p).msg = AccessToken(q).msg /\ RefreshToken(p).msg = RefreshToken(q).msg
===============================================================================
